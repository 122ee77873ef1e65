-------------------------- MODULE Commerce_proofs ---------------------------
(***************************************************************************)
(* What the components around the orders promise, for any number of        *)
(* requests and any values of the constants that satisfy the assumptions   *)
(* of Commerce: one section for each component, whose names are those of   *)
(* its instance there.  Each section has the inductive invariant of the    *)
(* component and one lemma for each kind of step.                          *)
(***************************************************************************)
EXTENDS Commerce, Sums, SequenceTheorems

\* The sums and sizes the components name are those of the library.
LEMMA SameSums ==
  \A f, X : /\ Bill!SumFunctionOnSet(f, X) = SumFunctionOnSet(f, X)
            /\ Buy!SumFunctionOnSet(f, X) = SumFunctionOnSet(f, X)
  BY DEF SumFunctionOnSet, FoldFunctionOnSet, MapThenFoldSet,
         Bill!SumFunctionOnSet, Bill!FoldFunctionOnSet, Bill!MapThenFoldSet,
         Buy!SumFunctionOnSet, Buy!FoldFunctionOnSet, Buy!MapThenFoldSet

LEMMA SameSizes ==
  \A X : Deal!Cardinality(X) = Cardinality(X) /\ Make!Cardinality(X) = Cardinality(X)
  BY DEF Cardinality, Deal!Cardinality, Make!Cardinality

-----------------------------------------------------------------------------
\* Edits of a quote that overlap never tear one another's lines apart, for any number
\* of requests, bodies and rates.  A request inserts the lines of one body, once, in its
\* last step; a request that removes lines removes those of a list it has read, in which
\* each request's lines are all there or all missing.

\* The lines of a list that request s inserted.
Part(rows, s) == {x \in rows : x.by = s}

\* Every list of lines there is: none, the quote's, the orders' and those requests have
\* read.
Lists == {{}, items} \cup {o.lines : o \in orders} \cup {req[r].items : r \in Requests}

\* A part is the whole of one body, the same in every list that has some of it, and
\* there is none before the request that inserts it is over.
PartsAreWhole ==
  \A s \in Requests, A \in Lists :
    /\ Part(A, s) # {} => \E b \in Bodies : Part(A, s) = RowsOf(s, b)
    /\ \A B \in Lists : Part(A, s) # {} /\ Part(B, s) # {} => Part(A, s) = Part(B, s)
    /\ req[s].phase # "done" => Part(A, s) = {}

\* What the steps need to know of the records they update.
Shape == /\ req = [r \in Requests |-> req[r]]
         /\ \A r \in Requests :
              req[r] = [op |-> req[r].op, phase |-> req[r].phase, quote |-> req[r].quote,
                        items |-> req[r].items, after |-> req[r].after]

QuotesInv == Shape /\ PartsAreWhole

LEMMA QuotesInit == Init => QuotesInv
  <1> SUFFICES ASSUME Init PROVE QuotesInv
    OBVIOUS
  <1>1. Shape
    BY DEF Init, Shape
  <1>2. \A A \in Lists : A = {}
    BY DEF Init, Lists
  <1>3. PartsAreWhole
    BY <1>2 DEF PartsAreWhole, Part
  <1> QED BY <1>1, <1>3 DEF QuotesInv

\* A step that makes no list of its own keeps the lists whole.
LEMMA NoNewList ==
  ASSUME PartsAreWhole, Lists' \subseteq Lists,
         \A s \in Requests : req'[s].phase # "done" => req[s].phase # "done"
  PROVE  PartsAreWhole'
  BY DEF PartsAreWhole

\* Neither does a step that makes one list of whole parts.
LEMMA OneNewList ==
  ASSUME PartsAreWhole, NEW r \in Requests, NEW b \in Bodies, NEW rows,
         Lists' \subseteq Lists \cup {rows},
         Part(rows, r) = RowsOf(r, b),
         \A s \in Requests \ {r} : Part(rows, s) \in {{}} \cup {Part(A, s) : A \in Lists},
         req[r].phase # "done", req'[r].phase = "done",
         \A s \in Requests \ {r} : req'[s].phase = req[s].phase
  PROVE  PartsAreWhole'
  <1> SUFFICES ASSUME NEW s \in Requests, NEW A \in Lists \cup {rows}, NEW B \in Lists \cup {rows}
               PROVE  /\ Part(A, s) # {} => \E c \in Bodies : Part(A, s) = RowsOf(s, c)
                      /\ Part(A, s) # {} /\ Part(B, s) # {} => Part(A, s) = Part(B, s)
                      /\ req'[s].phase # "done" => Part(A, s) = {}
    BY DEF PartsAreWhole
  <1>1. CASE s = r
    BY <1>1 DEF PartsAreWhole
  <1>2. CASE s # r
    <2>1. \A C \in Lists \cup {rows} : Part(C, s) = {} \/ \E D \in Lists : Part(C, s) = Part(D, s)
      BY <1>2
    <2> QED BY <1>2, <2>1 DEF PartsAreWhole
  <1> QED BY <1>1, <1>2

\* The lines of one body, alone or with what an edit left of the lines before it.
LEMMA BodyIsNewList ==
  ASSUME PartsAreWhole, NEW r \in Requests, NEW b \in Bodies, req[r].phase # "done",
         NEW rows \in {RowsOf(r, b), (items \ req[r].items) \cup RowsOf(r, b)}
  PROVE  /\ Part(rows, r) = RowsOf(r, b)
         /\ \A s \in Requests \ {r} : Part(rows, s) \in {{}} \cup {Part(A, s) : A \in Lists}
  <1>1. \A x \in RowsOf(r, b) : x.by = r
    BY DEF RowsOf
  <1>2. items \in Lists /\ req[r].items \in Lists
    BY DEF Lists
  <1>3. CASE rows = RowsOf(r, b)
    BY <1>1, <1>3 DEF Part
  <1>4. CASE rows = (items \ req[r].items) \cup RowsOf(r, b)
    <2>1. Part(rows, r) = RowsOf(r, b)
      BY <1>1, <1>2, <1>4 DEF PartsAreWhole, Part
    <2>2. ASSUME NEW s \in Requests \ {r}
          PROVE  Part(rows, s) \in {{}} \cup {Part(A, s) : A \in Lists}
      <3>1. Part(rows, s) = Part(items, s) \ Part(req[r].items, s)
        BY <1>1, <1>4 DEF Part
      <3>2. \/ Part(items, s) = {} \/ Part(req[r].items, s) = {}
            \/ Part(items, s) = Part(req[r].items, s)
        BY <1>2 DEF PartsAreWhole
      <3> QED BY <1>2, <3>1, <3>2
    <2> QED BY <2>1, <2>2
  <1> QED BY <1>3, <1>4

-----------------------------------------------------------------------------
\* A request that begins or reads makes no list.
LEMMA ReadStep ==
  ASSUME QuotesInv, NEW r \in Requests,
         \/ \E op, accepted : Begin(r, op, accepted)
         \/ ListItems(r)
  PROVE  QuotesInv'
  <1>1. Shape' /\ \A s \in Requests : req'[s].items \in {{}, items, req[s].items}
    BY DEF QuotesInv, Shape, Begin, ListItems
  <1>2. items' = items /\ orders' = orders
    BY DEF Begin, ListItems
  <1>3. Lists' \subseteq Lists
    BY <1>1, <1>2 DEF Lists
  <1>4. \A s \in Requests : req'[s].phase # "done" => req[s].phase # "done"
    BY DEF QuotesInv, Shape, Begin, ListItems
  <1> QED BY <1>1, <1>3, <1>4, NoNewList DEF QuotesInv

\* A request that only writes to the quote makes none, and a conversion copies the one
\* that it has read.
LEMMA StatusStep ==
  ASSUME QuotesInv, NEW r \in Requests,
         \/ \E op, status : SetStatus(r, op, status)
         \/ ConvertQuote(r) \/ DeleteQuote(r)
  PROVE  QuotesInv'
  <1>1. PICK new : Commit(r, new)
    BY DEF SetStatus, ConvertQuote, DeleteQuote
  <1>2. Shape' /\ \A s \in Requests : /\ req'[s].items = req[s].items
                                     /\ req'[s].phase \in {"done", req[s].phase}
    BY <1>1 DEF QuotesInv, Shape, Commit
  <1>3. items' = items /\ \A o \in orders' : o \in orders \/ o.lines = req[r].items
    <2>1. CASE ConvertQuote(r)
      <3>1. \E o : o.lines = req[r].items /\ orders' = orders \cup {o}
        BY <2>1 DEF ConvertQuote
      <3> QED BY <2>1, <3>1 DEF ConvertQuote
    <2>2. CASE ~ConvertQuote(r)
      BY <2>2 DEF SetStatus, DeleteQuote
    <2> QED BY <2>1, <2>2
  <1>4. Lists' \subseteq Lists
    <2>1. \A s \in Requests : req'[s].items \in Lists
      BY <1>2 DEF Lists
    <2>2. \A o \in orders' : o.lines \in Lists
      BY <1>3 DEF Lists
    <2> QED BY <1>3, <2>1, <2>2 DEF Lists
  <1> QED BY <1>2, <1>4, NoNewList DEF QuotesInv

LEMMA CreateStep ==
  ASSUME QuotesInv, NEW r \in Requests, NEW c \in Clients, NEW b \in Bodies, NEW t \in Rates,
         CreateQuote(r, c, b, t)
  PROVE  QuotesInv'
  <1>1. /\ Shape' /\ \A s \in Requests : req'[s].items = req[s].items
        /\ req[r].phase = "new" /\ req'[r].phase = "done"
        /\ \A s \in Requests \ {r} : req'[s].phase = req[s].phase
    <2>1. req[r].phase = "new"
      BY DEF CreateQuote
    <2>2. req' = [req EXCEPT ![r].op = "create", ![r].phase = "done"]
      BY DEF CreateQuote
    <2>3. \A s \in Requests \ {r} : req'[s] = req[s]
      BY <2>2 DEF QuotesInv, Shape
    <2>4. req'[r] = [req[r] EXCEPT !.op = "create", !.phase = "done"]
      BY <2>2 DEF QuotesInv, Shape
    <2>5. req'[r] = [op |-> "create", phase |-> "done", quote |-> req[r].quote,
                     items |-> req[r].items, after |-> req[r].after]
      BY <2>4 DEF QuotesInv, Shape
    <2>6. req' = [s \in Requests |-> req'[s]]
      BY <2>2 DEF QuotesInv, Shape
    <2> QED BY <2>1, <2>3, <2>5, <2>6 DEF QuotesInv, Shape
  <1>2. items' = RowsOf(r, b) /\ orders' = orders
    BY DEF CreateQuote
  <1>3. Lists' \subseteq Lists \cup {RowsOf(r, b)}
    BY <1>1, <1>2 DEF Lists
  <1> DEFINE rows == RowsOf(r, b)
  <1>4. /\ Part(rows, r) = RowsOf(r, b)
        /\ \A s \in Requests \ {r} : Part(rows, s) \in {{}} \cup {Part(A, s) : A \in Lists}
    BY <1>1, BodyIsNewList DEF QuotesInv
  <1> HIDE DEF rows
  <1>5. PartsAreWhole'
    BY <1>1, <1>3, <1>4, OneNewList DEF QuotesInv, rows
  <1> QED BY <1>1, <1>5 DEF QuotesInv

LEMMA UpdateStep ==
  ASSUME QuotesInv, NEW r \in Requests, NEW c \in Clients \cup {None},
         NEW b \in Bodies \cup {None}, NEW t \in Rates \cup {None}, UpdateQuote(r, c, b, t)
  PROVE  QuotesInv'
  <1>1. PICK new : Commit(r, new)
    BY DEF UpdateQuote
  <1>2. /\ Shape' /\ \A s \in Requests : req'[s].items = req[s].items
        /\ req[r].phase = "listed" /\ req'[r].phase = "done"
        /\ \A s \in Requests \ {r} : req'[s].phase = req[s].phase
    BY <1>1 DEF QuotesInv, Shape, Commit, UpdateQuote, Ending
  <1>3. orders' = orders
    BY DEF UpdateQuote
  <1>4. CASE items' = items
    <2>1. Lists' \subseteq Lists
      BY <1>2, <1>3, <1>4 DEF Lists
    <2> QED BY <1>2, <2>1, NoNewList DEF QuotesInv
  <1>5. CASE b \in Bodies /\ items' = (items \ req[r].items) \cup RowsOf(r, b)
    <2> DEFINE rows == (items \ req[r].items) \cup RowsOf(r, b)
    <2>1. Lists' \subseteq Lists \cup {rows}
      BY <1>2, <1>3, <1>5 DEF Lists
    <2>2. /\ Part(rows, r) = RowsOf(r, b)
          /\ \A s \in Requests \ {r} : Part(rows, s) \in {{}} \cup {Part(A, s) : A \in Lists}
      BY <1>2, <1>5, BodyIsNewList DEF QuotesInv
    <2> HIDE DEF rows
    <2>3. PartsAreWhole'
      BY <1>2, <1>5, <2>1, <2>2, OneNewList DEF QuotesInv
    <2> QED BY <1>2, <2>3 DEF QuotesInv
  <1> QED BY <1>4, <1>5 DEF UpdateQuote

LEMMA QuotesStep == ASSUME QuotesInv, [Next]_vars PROVE QuotesInv'
  <1>1. CASE UNCHANGED vars
    <2>1. Shape' /\ Lists' = Lists /\ req' = req
      BY <1>1 DEF QuotesInv, Shape, Lists, vars
    <2> QED BY <2>1, NoNewList DEF QuotesInv
  <1>2. ASSUME NEW r \in Requests,
               \/ BeginUpdate(r) \/ BeginSend(r) \/ BeginAccept(r)
               \/ BeginReject(r) \/ BeginConvert(r) \/ BeginDelete(r) \/ ListItems(r)
        PROVE  QuotesInv'
    BY <1>2, ReadStep DEF BeginUpdate, BeginSend, BeginAccept, BeginReject, BeginConvert,
       BeginDelete
  <1>3. ASSUME NEW r \in Requests,
               \/ SendQuote(r) \/ AcceptQuote(r) \/ RejectQuote(r)
               \/ ConvertQuote(r) \/ DeleteQuote(r)
        PROVE  QuotesInv'
    BY <1>3, StatusStep DEF SendQuote, AcceptQuote, RejectQuote
  <1> QED BY <1>1, <1>2, <1>3, CreateStep, UpdateStep DEF Next

\* The lines of the quote and of its orders are whole bodies, whatever edits overlap.
THEOREM EditsAreWhole == Spec => []WholeEdits
  <1>1. QuotesInv => WholeEdits
    BY DEF QuotesInv, PartsAreWhole, WholeEdits, Lists, Part
  <1>2. QuotesInv /\ [Next]_vars => QuotesInv'
    BY QuotesStep
  <1> QED BY QuotesInit, <1>1, <1>2, PTL DEF Spec

-----------------------------------------------------------------------------
Authors == {o.by : o \in orders}
Busy(r) == req[r].phase \in {"read", "listed"}

\* The quote there is, and the one each request at work has read, has its columns.
HasColumns ==
  /\ Done # {} => "order" \in DOMAIN quote
  /\ \A r \in Requests : Busy(r) => Done # {} /\ "order" \in DOMAIN req[r].quote
  /\ Done = {} => quote = None

\* Orders come from conversions that are over, and none of those was over when a
\* conversion that is under way began: the quote had no order then.
ConversionsOverlap ==
  /\ Authors \subseteq Done
  /\ \A r \in Requests : req[r].after \subseteq Done
  /\ \A r \in Requests : Busy(r) /\ req[r].op = "convert" =>
       req[r].quote.order = None /\ req[r].after \cap Authors = {}

TInv == Shape /\ HasColumns /\ ConversionsOverlap /\ OrdersAreTraceable

LEMMA InitTraceable == Init => TInv
  <1> SUFFICES ASSUME Init PROVE TInv
    OBVIOUS
  <1>1. Shape
    BY DEF Init, Shape
  <1>2. Done = {} /\ Authors = {} /\ orders = {} /\ \A r \in Requests : ~Busy(r) /\ req[r].after = {}
    BY DEF Init, Done, Authors, Busy
  <1>3. HasColumns
    BY <1>2 DEF Init, HasColumns
  <1>4. ConversionsOverlap
    BY <1>2 DEF ConversionsOverlap
  <1>5. OrdersAreTraceable
    BY <1>2 DEF OrdersAreTraceable
  <1> QED BY <1>1, <1>3, <1>4, <1>5 DEF TInv

\* A request that begins or reads on.
LEMMA ReadTraceable ==
  ASSUME TInv, NEW r \in Requests, NEW op, NEW accepted,
         \/ Begin(r, op, accepted) /\ (op = "convert" => quote.order = None)
         \/ ListItems(r)
  PROVE  TInv'
  <1> USE NoneAssumption DEF TInv
  <1>1. Shape' /\ UNCHANGED <<quote, orders>>
    BY DEF Shape, Begin, ListItems
  <1>2. /\ Done' = Done /\ r \notin Done
        /\ \A s \in Requests \ {r} : req'[s] = req[s]
    BY DEF Shape, Begin, ListItems, Done
  <1>3. /\ req'[r].quote \in {quote, req[r].quote}
        /\ req'[r].after \in {Done, req[r].after}
    BY DEF Shape, Begin, ListItems
  <1>4. HasColumns'
    <2>1. CASE ListItems(r)
      BY <1>1, <1>2, <2>1 DEF Shape, ListItems, HasColumns, Busy
    <2>2. CASE Begin(r, op, accepted)
      <3>1. Done # {}
        BY <2>2 DEF Begin, Found, HasColumns
      <3>2. req'[r].quote = quote
        BY <2>2 DEF Shape, Begin
      <3> QED BY <1>1, <1>2, <3>1, <3>2 DEF HasColumns, Busy
    <2> QED BY <2>1, <2>2
  <1>5. ConversionsOverlap'
    <2>1. Authors' = Authors
      BY <1>1 DEF Authors
    <2>2. CASE ListItems(r)
      <3>1. req'[r].op = req[r].op /\ req'[r].quote = req[r].quote
            /\ req'[r].after = req[r].after /\ Busy(r)
        BY <2>2 DEF Shape, ListItems, Busy
      <3> QED BY <1>2, <2>1, <3>1 DEF ConversionsOverlap, Busy
    <2>3. CASE Begin(r, op, accepted) /\ (op = "convert" => quote.order = None)
      <3>1. req'[r].op = op /\ req'[r].quote = quote /\ req'[r].after = Done
        BY <2>3 DEF Shape, Begin
      <3>2. op = "convert" => orders = {}
        BY <2>3 DEF ConversionsOverlap, Authors, Done, OrdersAreTraceable
      <3>3. op = "convert" => Authors = {}
        BY <3>2 DEF Authors
      <3> QED BY <1>2, <2>1, <2>3, <3>1, <3>3 DEF ConversionsOverlap, Busy
    <2> QED BY <2>2, <2>3
  <1>6. OrdersAreTraceable'
    <2>1. \A o \in orders : o.by \in Requests \ {r} /\ req'[o.by] = req[o.by]
      BY <1>2 DEF ConversionsOverlap, Authors, Done
    <2> QED BY <1>1, <2>1 DEF OrdersAreTraceable
  <1> QED BY <1>1, <1>4, <1>5, <1>6

\* A request that commits: what it leaves behind.
LEMMA CommitTraceable ==
  ASSUME TInv, NEW r \in Requests, Busy(r), NEW new, DOMAIN new = DOMAIN req[r].quote, Commit(r, new)
  PROVE  /\ Shape'
         /\ \A s \in Requests \ {r} : req'[s] = req[s]
         /\ \A s \in Requests : req'[s].after = req[s].after
         /\ Done' = Done \cup {r} /\ r \notin Done
         /\ ~Busy(r)'
         /\ HasColumns'
         /\ quote'.order = IF new.order # req[r].quote.order THEN new.order ELSE quote.order
  <1>1. Shape' /\ \A s \in Requests \ {r} : req'[s] = req[s]
    BY DEF TInv, Shape, Commit
  <1>2. req'[r].phase = "done" /\ req'[r].after = req[r].after
    BY DEF TInv, Shape, Commit
  <1>3. Done' = Done \cup {r} /\ r \notin Done /\ ~Busy(r)'
    BY <1>1, <1>2 DEF Done, Busy
  <1>4. "order" \in DOMAIN quote /\ DOMAIN quote' = DOMAIN quote
    BY DEF TInv, HasColumns, Commit
  <1>5. quote'.order = IF new.order # req[r].quote.order THEN new.order ELSE quote.order
    BY <1>4 DEF Commit
  <1>6. HasColumns'
    BY <1>1, <1>3, <1>4 DEF TInv, HasColumns, Busy
  <1> QED BY <1>1, <1>2, <1>3, <1>5, <1>6

\* An edit, a change of status or a deletion leaves the order as it is.
LEMMA OtherTraceable ==
  ASSUME TInv, NEW r \in Requests,
         \/ \E c \in Clients \cup {None}, b \in Bodies \cup {None}, t \in Rates \cup {None} :
              UpdateQuote(r, c, b, t)
         \/ SendQuote(r) \/ AcceptQuote(r) \/ RejectQuote(r) \/ DeleteQuote(r)
  PROVE  TInv'
  <1>1. Busy(r) /\ orders' = orders
    BY DEF UpdateQuote, SendQuote, AcceptQuote, RejectQuote, DeleteQuote, SetStatus, Ending, Busy
  <1>2. "order" \in DOMAIN req[r].quote
    BY <1>1 DEF TInv, HasColumns
  <1>3. PICK new : /\ Commit(r, new) /\ DOMAIN new = DOMAIN req[r].quote
                   /\ new.order = req[r].quote.order
    <2> DEFINE seen == req[r].quote
    <2>1. \A q, rows, rate : /\ DOMAIN WithTotals(q, rows, rate) = DOMAIN q
                             /\ "order" \in DOMAIN q => WithTotals(q, rows, rate).order = q.order
      BY DEF WithTotals
    <2>2. CASE \E c \in Clients \cup {None}, b \in Bodies \cup {None}, t \in Rates \cup {None} :
                 UpdateQuote(r, c, b, t)
      <3>1. PICK c \in Clients \cup {None}, b \in Bodies \cup {None}, t \in Rates \cup {None} :
              UpdateQuote(r, c, b, t)
        BY <2>2
      <3> DEFINE shifted == IF c = None THEN seen ELSE [seen EXCEPT !.client = c]
                 taxed == [shifted EXCEPT !.tax_rate = t]
      <3>2. DOMAIN shifted = DOMAIN seen /\ shifted.order = seen.order
        BY <1>2
      <3>3. DOMAIN taxed = DOMAIN seen /\ taxed.order = seen.order
        BY <1>2, <3>2
      <3>4. \/ \E rows, rate : Commit(r, WithTotals(shifted, rows, rate))
            \/ Commit(r, shifted)
            \/ \E rows, rate : Commit(r, WithTotals(taxed, rows, rate))
        BY <3>1 DEF UpdateQuote
      <3> HIDE DEF shifted, taxed
      <3> QED BY <1>2, <2>1, <3>2, <3>3, <3>4
    <2>3. CASE SendQuote(r) \/ AcceptQuote(r) \/ RejectQuote(r)
      <3>1. PICK status : Commit(r, [seen EXCEPT !.status = status])
        BY <2>3 DEF SendQuote, AcceptQuote, RejectQuote, SetStatus
      <3> QED BY <1>2, <3>1
    <2>4. CASE DeleteQuote(r)
      <3>1. Commit(r, [seen EXCEPT !.is_deleted = TRUE])
        BY <2>4 DEF DeleteQuote
      <3> QED BY <1>2, <3>1
    <2> QED BY <2>2, <2>3, <2>4
  <1>4. /\ \A s \in Requests \ {r} : req'[s] = req[s]
        /\ \A s \in Requests : req'[s].after = req[s].after
        /\ Done' = Done \cup {r} /\ r \notin Done /\ ~Busy(r)' /\ Shape' /\ HasColumns'
        /\ quote'.order = quote.order
    BY <1>1, <1>3, CommitTraceable
  <1>5. Authors' = Authors
    BY <1>1 DEF Authors
  <1>6. ConversionsOverlap'
    BY <1>4, <1>5 DEF TInv, ConversionsOverlap, Busy
  <1>7. OrdersAreTraceable'
    <2>1. \A o \in orders : o.by \in Requests
      BY DEF TInv, ConversionsOverlap, Authors, Done
    <2> QED BY <1>1, <1>4, <2>1 DEF TInv, OrdersAreTraceable
  <1> QED BY <1>4, <1>6, <1>7 DEF TInv

\* A conversion names its order in the quote; the orders there already come from
\* conversions that were not over when it began, nor it when they did.
LEMMA ConvertTraceable ==
  ASSUME TInv, NEW r \in Requests, ConvertQuote(r)
  PROVE  TInv'
  <1> USE NoneAssumption
  <1>1. Busy(r) /\ req[r].op = "convert"
    BY DEF ConvertQuote, Ending, Busy
  <1>2. "order" \in DOMAIN req[r].quote /\ req[r].quote.order = None
        /\ req[r].after \cap Authors = {}
    BY <1>1 DEF TInv, HasColumns, ConversionsOverlap
  <1> DEFINE new == [req[r].quote EXCEPT !.status = "converted", !.order = r]
  <1>3. DOMAIN new = DOMAIN req[r].quote /\ new.order = r
    BY <1>2
  <1> HIDE DEF new
  <1>4. Commit(r, new)
    BY DEF ConvertQuote, new
  <1>5. /\ \A s \in Requests \ {r} : req'[s] = req[s]
        /\ \A s \in Requests : req'[s].after = req[s].after
        /\ Done' = Done \cup {r} /\ r \notin Done /\ ~Busy(r)' /\ Shape' /\ HasColumns'
        /\ quote'.order = r
    BY <1>1, <1>2, <1>3, <1>4, CommitTraceable
  <1>6. PICK o : o.by = r /\ orders' = orders \cup {o}
    BY DEF ConvertQuote
  <1>7. Authors' = Authors \cup {r}
    BY <1>6 DEF Authors
  <1>8. ConversionsOverlap'
    BY <1>5, <1>7 DEF TInv, ConversionsOverlap, Busy
  <1>9. OrdersAreTraceable'
    <2>1. \A p \in orders : p.by \in Requests /\ r \notin req[p.by].after
      BY <1>5 DEF TInv, ConversionsOverlap, Authors, Done
    <2>2. r \notin req[r].after
      BY <1>5 DEF TInv, ConversionsOverlap
    <2>3. \A p \in orders' : req'[p.by].after \cap Authors' = {}
      <3>1. CASE orders = {}
        BY <1>2, <1>5, <1>6, <1>7, <2>2, <3>1
      <3>2. ASSUME NEW p \in orders PROVE req'[p.by].after \cap Authors' = {}
        <4>1. req[p.by].after \cap Authors = {}
          BY DEF TInv, OrdersAreTraceable, Authors
        <4> QED BY <1>5, <1>7, <2>1, <4>1
      <3>3. req'[r].after \cap Authors' = {}
        BY <1>2, <1>5, <1>7, <2>2
      <3> QED BY <1>6, <3>2, <3>3
    <2> QED BY <1>5, <1>6, <2>3 DEF OrdersAreTraceable, Authors
  <1> QED BY <1>5, <1>8, <1>9 DEF TInv

LEMMA CreateTraceable ==
  ASSUME TInv, NEW r \in Requests, NEW c \in Clients, NEW b \in Bodies, NEW t \in Rates,
         CreateQuote(r, c, b, t)
  PROVE  TInv'
  <1>1. Done = {} /\ orders = {} /\ orders' = orders
    BY DEF TInv, ConversionsOverlap, Authors, CreateQuote
  <1>2. Shape' /\ (\A s \in Requests \ {r} : req'[s] = req[s])
        /\ req'[r].phase = "done" /\ req'[r].after = req[r].after
    <2>1. req' = [req EXCEPT ![r].op = "create", ![r].phase = "done"]
      BY DEF CreateQuote
    <2>2. \A s \in Requests \ {r} : req'[s] = req[s]
      BY <2>1 DEF TInv, Shape
    <2>3. req'[r] = [req[r] EXCEPT !.op = "create", !.phase = "done"]
      BY <2>1 DEF TInv, Shape
    <2>4. req'[r] = [op |-> "create", phase |-> "done", quote |-> req[r].quote,
                     items |-> req[r].items, after |-> req[r].after]
      BY <2>3 DEF TInv, Shape
    <2>5. req' = [s \in Requests |-> req'[s]]
      BY <2>1 DEF TInv, Shape
    <2> QED BY <2>2, <2>4, <2>5 DEF TInv, Shape
  <1>3. Done' = {r} /\ Authors' = {} /\ \A s \in Requests : ~Busy(s)'
    BY <1>1, <1>2 DEF TInv, HasColumns, Done, Authors, Busy
  <1>4. "order" \in DOMAIN quote'
    BY DEF CreateQuote, WithTotals
  <1>5. HasColumns'
    BY <1>3, <1>4 DEF HasColumns
  <1>6. ConversionsOverlap'
    BY <1>1, <1>2, <1>3 DEF TInv, ConversionsOverlap
  <1>7. OrdersAreTraceable'
    BY <1>1 DEF OrdersAreTraceable
  <1> QED BY <1>2, <1>5, <1>6, <1>7 DEF TInv

LEMMA StepTraceable == ASSUME TInv, [Next]_vars PROVE TInv'
  <1>1. CASE UNCHANGED vars
    BY <1>1 DEF TInv, Shape, HasColumns, Done, Busy, ConversionsOverlap, Authors,
       OrdersAreTraceable, vars
  <1>2. ASSUME NEW r \in Requests,
               \/ BeginUpdate(r) \/ BeginSend(r) \/ BeginAccept(r)
               \/ BeginReject(r) \/ BeginConvert(r) \/ BeginDelete(r) \/ ListItems(r)
        PROVE  TInv'
    BY <1>2, ReadTraceable
       DEF BeginUpdate, BeginSend, BeginAccept, BeginReject, BeginConvert, BeginDelete
  <1> QED BY <1>1, <1>2, CreateTraceable, OtherTraceable, ConvertTraceable DEF Next

\* Once a conversion has made an order the quote names one, and it and the others come
\* from conversions of which none began after another was over.
THEOREM OrdersTraceable == Spec => []OrdersAreTraceable
  <1>1. TInv => OrdersAreTraceable
    BY DEF TInv
  <1>2. TInv /\ [Next]_vars => TInv'
    BY StepTraceable
  <1> QED BY InitTraceable, <1>1, <1>2, PTL DEF Spec

-----------------------------------------------------------------------------
\* What an order costs.  While requests have not overlapped, one that is at work and
\* began after every other was over has read the quote and the lines as they are: the
\* totals it writes are those of the lines it leaves, and an order's those of the quote.

Columns == {"client", "status", "tax_rate", "subtotal", "tax", "total", "order", "is_deleted"}

\* The quote has its columns once it is created, and so has what requests read.
Created ==
  /\ Done # {} => DOMAIN quote = Columns
  /\ Done = {} => quote = None /\ orders = {}
  /\ \A r \in Requests : req[r].after \subseteq Done
  /\ \A r \in Requests : Busy(r) => Done # {} /\ DOMAIN req[r].quote = Columns

GoodRows(rows) == IsFiniteSet(rows) /\ \A x \in rows : x.cents \in Nat
RowsAreGood    == \A A \in Lists : GoodRows(A)

\* A request that no commit has overlapped yet works on what there is.
ReadsAreFresh == \A r \in Requests : Busy(r) /\ req[r].after = Done =>
  /\ req[r].quote = quote
  /\ req[r].phase = "listed" => req[r].items = items

AddsUp(q, rows) == /\ q.subtotal = Subtotal(rows)
                   /\ q.total = q.subtotal + q.tax
                   /\ q.tax_rate \in Rates

Costs == /\ Done # {} => AddsUp(quote, items)
         /\ \A o \in orders : AddsUp(o.quote, o.lines) /\ o.tax_rate = o.quote.tax_rate

CInv == Shape /\ Created /\ RowsAreGood /\ (~overlapped => ReadsAreFresh /\ Costs)

LEMMA BodiesAreGood ==
  ASSUME NEW r \in Requests, NEW b \in Bodies PROVE GoodRows(RowsOf(r, b))
  <1> DEFINE row == [i \in DOMAIN b |-> [by |-> r, position |-> i, cents |-> b[i]]]
  <1>1. b \in Seq(Nat) /\ DOMAIN b = 1..Len(b) /\ Len(b) \in Nat
    BY BodiesAssumption
  <1>2. RowsOf(r, b) = {row[i] : i \in DOMAIN b}
    BY DEF RowsOf
  <1>3. IsFiniteSet(DOMAIN b)
    BY <1>1, FS_Interval
  <1>4. \A i \in DOMAIN b : row[i].cents \in Nat
    BY <1>1
  <1> HIDE DEF row
  <1>5. IsFiniteSet({row[i] : i \in DOMAIN b})
    BY <1>3, FiniteImage
  <1> QED BY <1>2, <1>4, <1>5 DEF GoodRows

LEMMA InitCosts == Init => CInv
  <1> SUFFICES ASSUME Init PROVE CInv
    OBVIOUS
  <1>1. Shape
    BY DEF Init, Shape
  <1>2. Done = {} /\ orders = {} /\ quote = None /\ \A r \in Requests : ~Busy(r) /\ req[r].after = {}
    BY DEF Init, Done, Busy
  <1>3. \A A \in Lists : A = {}
    BY DEF Init, Lists
  <1>4. RowsAreGood
    BY <1>3, FS_EmptySet DEF RowsAreGood, GoodRows
  <1> QED BY <1>1, <1>2, <1>4 DEF CInv, Created, ReadsAreFresh, Costs

\* A request that begins or reads on reads what there is.
LEMMA ReadCosts ==
  ASSUME CInv, NEW r \in Requests, (\E op, accepted : Begin(r, op, accepted)) \/ ListItems(r)
  PROVE  CInv'
  <1> USE DEF CInv
  <1>1. Shape' /\ UNCHANGED <<quote, items, orders, overlapped>>
    BY DEF Shape, Begin, ListItems
  <1>2. /\ Done' = Done /\ r \notin Done
        /\ \A s \in Requests \ {r} : req'[s] = req[s]
    BY DEF Shape, Begin, ListItems, Done
  <1>3. CASE ListItems(r)
    <2>1. /\ req'[r].phase = "listed" /\ req'[r].quote = req[r].quote /\ req'[r].items = items
          /\ req'[r].after = req[r].after /\ Busy(r)
      <3>1. req'[r] = [req[r] EXCEPT !.phase = "listed", !.items = items]
        BY <1>3 DEF Shape, ListItems
      <3>2. req'[r] = [op |-> req[r].op, phase |-> "listed", quote |-> req[r].quote,
                       items |-> items, after |-> req[r].after]
        BY <3>1 DEF Shape
      <3>3. Busy(r)
        BY <1>3 DEF ListItems, Busy
      <3> QED BY <3>2, <3>3
    <2>2. Created' /\ (ReadsAreFresh => ReadsAreFresh')
      BY <1>1, <1>2, <2>1 DEF Created, ReadsAreFresh, Busy
    <2>3. Lists' \subseteq Lists
      BY <1>1, <1>2, <2>1 DEF Lists
    <2> QED BY <1>1, <1>2, <2>2, <2>3 DEF RowsAreGood, Costs
  <1>4. CASE \E op, accepted : Begin(r, op, accepted)
    <2>1. /\ req'[r].phase = "read" /\ req'[r].quote = quote /\ req'[r].items = {}
          /\ req'[r].after = Done /\ quote # None
      BY <1>4 DEF Shape, Begin, Found
    <2>2. Created' /\ (ReadsAreFresh => ReadsAreFresh')
      BY <1>1, <1>2, <2>1 DEF Created, ReadsAreFresh, Busy
    <2>3. Lists' \subseteq Lists
      BY <1>1, <1>2, <2>1 DEF Lists
    <2> QED BY <1>1, <1>2, <2>2, <2>3 DEF RowsAreGood, Costs
  <1> QED BY <1>3, <1>4

\* A request that commits, nothing having overlapped, leaves the quote it computed; and
\* those that are at work have begun too early not to be overlapped by it.
LEMMA CommitCosts ==
  ASSUME CInv, NEW r \in Requests, Busy(r), NEW new, DOMAIN new = Columns, Commit(r, new),
         RowsAreGood',
         orders = {} => Done # {},
         ~overlapped /\ req[r].quote = quote /\ (req[r].phase = "listed" => req[r].items = items) =>
           /\ AddsUp(new, items')
           /\ \A o \in orders' : AddsUp(o.quote, o.lines) /\ o.tax_rate = o.quote.tax_rate
  PROVE  CInv'
  <1> USE DEF CInv
  <1>1. Shape' /\ \A s \in Requests \ {r} : req'[s] = req[s]
    BY DEF Shape, Commit
  <1>2. req'[r].phase = "done" /\ req'[r].after = req[r].after
    BY DEF Shape, Commit
  <1>3. Done' = Done \cup {r} /\ r \notin Done /\ ~Busy(r)'
    BY <1>1, <1>2 DEF Done, Busy
  <1>4. DOMAIN quote' = Columns /\ DOMAIN quote = Columns
    BY DEF Created, Commit
  <1>5. Created'
    BY <1>1, <1>2, <1>3, <1>4 DEF Created, Busy
  <1>6. ASSUME ~overlapped' PROVE ReadsAreFresh' /\ Costs'
    <2>1. ~overlapped /\ req[r].after = Done
      BY <1>6 DEF Commit
    <2>2. req[r].quote = quote /\ (req[r].phase = "listed" => req[r].items = items)
      BY <2>1 DEF ReadsAreFresh
    <2>3. \A f \in Columns : quote'[f] = new[f]
      BY <1>4, <2>2 DEF Commit
    <2>4. quote'.subtotal = new.subtotal /\ quote'.total = new.total /\ quote'.tax = new.tax
          /\ quote'.tax_rate = new.tax_rate
      BY <2>3 DEF Columns
    <2>5. AddsUp(quote, items)'
      <3>1. AddsUp(new, items')
        BY <2>1, <2>2
      <3> QED BY <2>4, <3>1 DEF AddsUp, Subtotal
    <2>6. Costs'
      BY <2>1, <2>2, <2>5 DEF Costs, AddsUp, Subtotal
    <2>7. \A s \in Requests : Busy(s)' => req'[s].after # Done'
      BY <1>1, <1>3 DEF Created, Busy
    <2> QED BY <2>6, <2>7 DEF ReadsAreFresh
  <1> QED BY <1>1, <1>5, <1>6

LEMMA TotalsAddUp ==
  ASSUME NEW q, DOMAIN q = Columns, NEW rows, NEW rate
  PROVE  LET new == WithTotals(q, rows, rate) IN
         /\ DOMAIN new = Columns
         /\ new.subtotal = Subtotal(rows) /\ new.total = new.subtotal + new.tax
         /\ new.tax_rate = q.tax_rate
  BY DEF WithTotals, Columns

\* An edit, with items or without.
LEMMA UpdateCosts ==
  ASSUME CInv, NEW r \in Requests, NEW c \in Clients \cup {None},
         NEW b \in Bodies \cup {None}, NEW t \in Rates \cup {None}, UpdateQuote(r, c, b, t)
  PROVE  CInv'
  <1> DEFINE seen == req[r].quote
             shifted == IF c = None THEN seen ELSE [seen EXCEPT !.client = c]
             effective == IF t = None THEN seen.tax_rate ELSE t
             taxed == [shifted EXCEPT !.tax_rate = t]
  <1>1. /\ Busy(r) /\ req[r].phase = "listed" /\ orders' = orders
        /\ DOMAIN seen = Columns /\ DOMAIN quote = Columns /\ Done # {}
    BY DEF CInv, Created, UpdateQuote, Ending, Busy
  <1>2. /\ DOMAIN shifted = Columns /\ shifted.tax_rate = seen.tax_rate
        /\ shifted.subtotal = seen.subtotal /\ shifted.tax = seen.tax /\ shifted.total = seen.total
    BY <1>1 DEF Columns
  <1>3. DOMAIN taxed = Columns /\ taxed.tax_rate = t
    BY <1>2 DEF Columns
  <1>4. \/ /\ b \in Bodies
           /\ items' = (items \ req[r].items) \cup RowsOf(r, b)
           /\ Commit(r, WithTotals(shifted, RowsOf(r, b), effective))
        \/ items' = items /\ t = None /\ Commit(r, shifted)
        \/ items' = items /\ t \in Rates /\ Commit(r, WithTotals(taxed, req[r].items, t))
    BY DEF UpdateQuote
  <1>5. ~overlapped => /\ AddsUp(quote, items)
                       /\ \A o \in orders : AddsUp(o.quote, o.lines) /\ o.tax_rate = o.quote.tax_rate
    BY <1>1 DEF CInv, Costs
  <1>6. \A s \in Requests : req'[s].items = req[s].items
    BY <1>4 DEF CInv, Shape, Commit
  <1> HIDE DEF shifted, effective, taxed
  <1>7. CASE items' = items /\ (Commit(r, shifted) \/ (t \in Rates /\ Commit(r, WithTotals(taxed, req[r].items, t))))
    <2>1. RowsAreGood'
      <3>1. Lists' \subseteq Lists
        BY <1>1, <1>6, <1>7 DEF Lists
      <3> QED BY <3>1 DEF CInv, RowsAreGood
    <2>2. CASE Commit(r, shifted)
      <3>1. ~overlapped /\ seen = quote => AddsUp(shifted, items')
        BY <1>2, <1>5, <1>7 DEF AddsUp
      <3> QED BY <1>1, <1>2, <1>5, <2>1, <2>2, <3>1, CommitCosts
    <2>3. CASE t \in Rates /\ Commit(r, WithTotals(taxed, req[r].items, t))
      <3> DEFINE new == WithTotals(taxed, req[r].items, t)
      <3>1. /\ DOMAIN new = Columns /\ new.subtotal = Subtotal(req[r].items)
            /\ new.total = new.subtotal + new.tax /\ new.tax_rate = t
        BY <1>3, TotalsAddUp
      <3> HIDE DEF new
      <3>2. req[r].items = items => AddsUp(new, items')
        BY <1>7, <2>3, <3>1 DEF AddsUp
      <3>3. Commit(r, new)
        BY <2>3 DEF new
      <3> QED BY <1>1, <1>5, <2>1, <3>1, <3>2, <3>3, CommitCosts
    <2> QED BY <1>7, <2>2, <2>3
  <1>8. CASE b \in Bodies /\ Commit(r, WithTotals(shifted, RowsOf(r, b), effective))
             /\ items' = (items \ req[r].items) \cup RowsOf(r, b)
    <2> DEFINE rows == RowsOf(r, b)
               kept == items \ req[r].items
               new == WithTotals(shifted, rows, effective)
    <2>1. /\ DOMAIN new = Columns /\ new.subtotal = Subtotal(rows)
          /\ new.total = new.subtotal + new.tax /\ new.tax_rate = seen.tax_rate
      BY <1>2, TotalsAddUp
    <2>2. Commit(r, new) /\ items' = kept \cup rows
      BY <1>8
    <2>3. GoodRows(rows) /\ GoodRows(items)
      BY <1>8, BodiesAreGood DEF CInv, RowsAreGood, Lists
    <2>4. GoodRows(kept)
      BY <2>3, FS_Subset DEF GoodRows
    <2>5. req[r].items = items => kept = {}
      OBVIOUS
    <2> HIDE DEF new, rows, kept
    <2>6. GoodRows(kept \cup rows)
      BY <2>3, <2>4, FS_Union DEF GoodRows
    <2>7. RowsAreGood'
      <3>1. Lists' \subseteq Lists \cup {kept \cup rows}
        BY <1>1, <1>6, <2>2 DEF Lists
      <3> QED BY <2>6, <3>1 DEF CInv, RowsAreGood, GoodRows
    <2>8. ~overlapped /\ seen = quote /\ req[r].items = items => AddsUp(new, items')
      BY <1>5, <2>1, <2>2, <2>5 DEF AddsUp
    <2> QED BY <1>1, <1>5, <2>1, <2>2, <2>7, <2>8, CommitCosts
  <1> QED BY <1>4, <1>7, <1>8

\* A change of status, a deletion, a conversion.
LEMMA StatusCosts ==
  ASSUME CInv, NEW r \in Requests,
         SendQuote(r) \/ AcceptQuote(r) \/ RejectQuote(r) \/ DeleteQuote(r) \/ ConvertQuote(r)
  PROVE  CInv'
  <1> DEFINE seen == req[r].quote
             made == [by |-> r, client |-> seen.client, tax_rate |-> seen.tax_rate,
                       lines |-> req[r].items, quote |-> seen]
  <1>1. Busy(r) /\ items' = items
    BY DEF SendQuote, AcceptQuote, RejectQuote, DeleteQuote, ConvertQuote, SetStatus, Ending, Busy
  <1>2. DOMAIN seen = Columns /\ Done # {}
    BY <1>1 DEF CInv, Created
  <1>3. PICK new : /\ Commit(r, new) /\ DOMAIN new = Columns
                   /\ new.subtotal = seen.subtotal /\ new.tax = seen.tax /\ new.total = seen.total
                   /\ new.tax_rate = seen.tax_rate
    <2>1. CASE SendQuote(r) \/ AcceptQuote(r) \/ RejectQuote(r)
      <3>1. PICK status : Commit(r, [seen EXCEPT !.status = status])
        BY <2>1 DEF SendQuote, AcceptQuote, RejectQuote, SetStatus
      <3> QED BY <1>2, <3>1 DEF Columns
    <2>2. CASE DeleteQuote(r)
      <3>1. Commit(r, [seen EXCEPT !.is_deleted = TRUE])
        BY <2>2 DEF DeleteQuote
      <3> QED BY <1>2, <3>1 DEF Columns
    <2>3. CASE ConvertQuote(r)
      <3> DEFINE new == [seen EXCEPT !.status = "converted", !.order = r]
      <3>1. Commit(r, new)
        BY <2>3 DEF ConvertQuote
      <3>2. /\ DOMAIN new = Columns
            /\ new.subtotal = seen.subtotal /\ new.tax = seen.tax /\ new.total = seen.total
            /\ new.tax_rate = seen.tax_rate
        BY <1>2 DEF Columns
      <3> QED BY <3>1, <3>2
    <2> QED BY <2>1, <2>2, <2>3
  <1>4. \/ orders' = orders
        \/ req[r].phase = "listed" /\ orders' = orders \cup {made}
    BY DEF SendQuote, AcceptQuote, RejectQuote, DeleteQuote, SetStatus, ConvertQuote, Ending
  <1>5. made.lines = req[r].items /\ made.quote = seen /\ made.tax_rate = seen.tax_rate
    OBVIOUS
  <1> HIDE DEF made
  <1>6. \A s \in Requests : req'[s].items = req[s].items
    BY <1>3 DEF CInv, Shape, Commit
  <1>7. RowsAreGood'
    <2>1. Lists' \subseteq Lists
      <3>1. {o.lines : o \in orders'} \subseteq Lists
        BY <1>4, <1>5 DEF Lists
      <3> QED BY <1>1, <1>6, <3>1 DEF Lists
    <2> QED BY <2>1 DEF CInv, RowsAreGood
  <1>8. ~overlapped /\ seen = quote /\ (req[r].phase = "listed" => req[r].items = items) =>
          /\ AddsUp(new, items')
          /\ \A o \in orders' : AddsUp(o.quote, o.lines) /\ o.tax_rate = o.quote.tax_rate
    BY <1>1, <1>2, <1>3, <1>4, <1>5 DEF CInv, Costs, AddsUp
  <1> QED BY <1>1, <1>2, <1>3, <1>7, <1>8, CommitCosts

LEMMA CreateCosts ==
  ASSUME CInv, NEW r \in Requests, NEW c \in Clients, NEW b \in Bodies, NEW t \in Rates,
         CreateQuote(r, c, b, t)
  PROVE  CInv'
  <1> DEFINE rows == RowsOf(r, b)
             blank == [client |-> c, status |-> "draft", tax_rate |-> t,
                       subtotal |-> 0, tax |-> 0, total |-> 0,
                       order |-> None, is_deleted |-> FALSE]
             new == WithTotals(blank, rows, t)
  <1>1. /\ Done = {} /\ orders = {} /\ orders' = orders /\ items' = rows /\ quote' = new
        /\ req' = [req EXCEPT ![r].op = "create", ![r].phase = "done"] /\ UNCHANGED overlapped
    BY DEF CInv, Created, CreateQuote
  <1>2. /\ DOMAIN new = Columns /\ new.subtotal = Subtotal(rows)
        /\ new.total = new.subtotal + new.tax /\ new.tax_rate = t
    <2>1. DOMAIN blank = Columns /\ blank.tax_rate = t
      BY DEF Columns
    <2> HIDE DEF blank
    <2> QED BY <2>1, TotalsAddUp
  <1>3. GoodRows(rows)
    BY BodiesAreGood
  <1> HIDE DEF rows, new
  <1>4. /\ Shape' /\ (\A s \in Requests \ {r} : req'[s] = req[s])
        /\ req'[r].phase = "done" /\ req'[r].after = req[r].after /\ req'[r].items = req[r].items
    <2>1. \A s \in Requests \ {r} : req'[s] = req[s]
      BY <1>1 DEF CInv, Shape
    <2>2. req'[r] = [req[r] EXCEPT !.op = "create", !.phase = "done"]
      BY <1>1 DEF CInv, Shape
    <2>3. req'[r] = [op |-> "create", phase |-> "done", quote |-> req[r].quote,
                     items |-> req[r].items, after |-> req[r].after]
      BY <2>2 DEF CInv, Shape
    <2>4. req' = [s \in Requests |-> req'[s]]
      BY <1>1 DEF CInv, Shape
    <2> QED BY <2>1, <2>3, <2>4 DEF CInv, Shape
  <1>5. Done' = {r} /\ \A s \in Requests : ~Busy(s)'
    <2>1. \A s \in Requests : ~Busy(s) /\ s \notin Done
      BY <1>1 DEF CInv, Created
    <2>2. \A s \in Requests \ {r} : req'[s].phase # "done" /\ ~Busy(s)'
      BY <1>4, <2>1 DEF Done, Busy
    <2> QED BY <1>4, <2>2 DEF Done, Busy
  <1>6. Created' /\ ReadsAreFresh'
    BY <1>1, <1>2, <1>4, <1>5 DEF CInv, Created, ReadsAreFresh
  <1>7. RowsAreGood'
    <2>1. Lists' \subseteq Lists \cup {rows}
      BY <1>1, <1>4 DEF Lists
    <2> QED BY <1>3, <2>1 DEF CInv, RowsAreGood, GoodRows
  <1>8. Costs'
    BY <1>1, <1>2 DEF Costs, AddsUp, Subtotal
  <1> QED BY <1>4, <1>6, <1>7, <1>8 DEF CInv

LEMMA StepCosts == ASSUME CInv, [Next]_vars PROVE CInv'
  <1>1. CASE UNCHANGED vars
    BY <1>1 DEF CInv, Shape, Created, Done, Busy, RowsAreGood, Lists, ReadsAreFresh, Costs, vars
  <1>2. ASSUME NEW r \in Requests,
               \/ BeginUpdate(r) \/ BeginSend(r) \/ BeginAccept(r)
               \/ BeginReject(r) \/ BeginConvert(r) \/ BeginDelete(r) \/ ListItems(r)
        PROVE  CInv'
    BY <1>2, ReadCosts
       DEF BeginUpdate, BeginSend, BeginAccept, BeginReject, BeginConvert, BeginDelete
  <1> QED BY <1>1, <1>2, CreateCosts, UpdateCosts, StatusCosts DEF Next

\* What is cut and what is rounded half up differ by a cent at most.
LEMMA RoundingApart ==
  ASSUME NEW n \in Nat PROVE (2 * n + 100) \div 200 - n \div 100 \in {0, 1}
  <1> DEFINE q == n \div 100
             m == n % 100
  <1>1. q \in Nat /\ m \in 0..99 /\ n = 100 * q + m
    OBVIOUS
  <1> HIDE DEF q, m
  <1>2. 2 * n + 100 = 200 * q + (2 * m + 100)
    BY <1>1
  <1>3. (2 * n + 100) \div 200 \in {q, q + 1}
    BY <1>1, <1>2
  <1> QED BY <1>1, <1>3 DEF q

\* An order costs what its quote said, to the cent by which they round apart, as long
\* as requests have not overlapped.
THEOREM OrdersCostAsQuoted == Spec => []OrderCostsWhatQuoteSaid
  <1>1. CInv => OrderCostsWhatQuoteSaid
    <2>1. SUFFICES ASSUME CInv, ~overlapped, NEW o \in orders,
                          o.quote.tax = Tax(o.quote.subtotal, o.quote.tax_rate)
                   PROVE  OrderTotal(o) - o.quote.total \in {0, 1}
      BY DEF OrderCostsWhatQuoteSaid
    <2> DEFINE S == Subtotal(o.lines)
               n == S * o.tax_rate
    <2>2. AddsUp(o.quote, o.lines) /\ o.tax_rate = o.quote.tax_rate
      BY <2>1 DEF CInv, Costs
    <2>3. S \in Nat
      <3> DEFINE f == [x \in o.lines |-> x.cents]
      <3>1. GoodRows(o.lines)
        BY <2>1 DEF CInv, RowsAreGood, Lists
      <3>2. \A x \in o.lines : f[x] \in Nat
        BY <3>1 DEF GoodRows
      <3> HIDE DEF f
      <3>3. SumFunctionOnSet(f, o.lines) \in Nat
        BY <3>1, <3>2, SumType DEF GoodRows
      <3> QED BY <3>3 DEF Subtotal, f
    <2>4. o.tax_rate \in Nat
      <3>1. o.tax_rate \in Rates
        BY <2>2 DEF AddsUp
      <3>2. \A rate \in Rates : rate \in Nat
        BY RatesAssumption
      <3> HIDE DEF S, n
      <3> QED BY <3>1, <3>2
    <2>5. n \in Nat
      BY <2>3, <2>4
    <2>6. OrderTotal(o) = S + (2 * n + 100) \div 200
      <3>1. 2 * S * o.tax_rate = 2 * n
        BY <2>3, <2>4
      <3> QED BY <3>1 DEF OrderTotal
    <2>7. o.quote.total = S + n \div 100
      BY <2>1, <2>2 DEF AddsUp, Tax
    <2> HIDE DEF S, n
    <2>8. (2 * n + 100) \div 200 \in Int /\ n \div 100 \in Int
      BY <2>5
    <2> QED BY <2>3, <2>5, <2>6, <2>7, <2>8, RoundingApart
  <1>2. CInv /\ [Next]_vars => CInv'
    BY StepCosts
  <1> QED BY InitCosts, <1>1, <1>2, PTL DEF Spec

-----------------------------------------------------------------------------
\* Billing.  Two requests that both write the order, or both write a document, have one
\* of them read what the other had not yet written, so that what a request is about to
\* write can be told from what it has read and from who has committed since.

\* Goods have been billed, or delivered, since q read.
BilledSince(q)    == \E b \in bills : b.by \notin q.after
DeliveredSince(q) == \E w \in Bill!Done \ q.after : billing[w].op = "deliver"

\* The requests that have read the document, and whether one wrote it since q read.
Writers(id)         == {r \in Requests : billing[r].document # None /\ billing[r].document.id = id}
WrittenSince(q, id) == \E w \in Bill!Done \ q.after : w \in Writers(id)

BillingRowsAreNamed ==
  /\ \A d \in documents : d.id \in Bill!Done
  /\ \A d, e \in documents : d.id = e.id => d = e
  /\ \A b \in bills : b.by \in Bill!Done
  /\ overlaps \subseteq Bill!Done \X Bill!Done

BillingReadWell(q) ==
  /\ q.after \subseteq Bill!Done
  /\ q.phase \in {"new", "read"} => q.document = None
  /\ q.document # None => q.document.id \in Bill!Done /\ q.document \in Bill!Document
  /\ q.op \in Kinds => /\ q.order \in Bill!Order /\ q.number \in Bill!Number
                       /\ q.document # None => q.document.kind = q.op
  /\ q.op = "sign" => q.document # None
  /\ q.op \in Bill!Deals /\ q.phase \in {"read", "ready"} => q.order \in Bill!Order
  /\ q.op \in Bill!Savers => /\ q.order \in Bill!Order /\ q.document = None
                             /\ q.phase = "ready" => q.status \in Bill!Statuses
  /\ q.op = "deliver" => /\ \A l \in Lines : q.order.delivered[l] <= Ordered[l]
                         /\ q.order.status = "delivered" => q.order.delivered = Ordered

\* A document of the kind that is there has been inserted since.
BillingInsertsUnseen(q) ==
  q.op \in Kinds \ {"payment_receipt"} /\ q.phase = "ready" /\ q.document = None =>
    \A d \in Bill!OfKind(q.op) : d.id \notin q.after

\* The document is as it was read, or another request has written it since.
SawRow(q) ==
  q.document # None =>
    \A d \in documents : d.id = q.document.id => d = q.document \/ WrittenSince(q, d.id)

\* So are the quantities invoiced, unless goods were billed since ...
SawInvoiced(q) ==
  q.op \in Bill!Deals /\ q.phase \in {"read", "ready"} /\ ~Bill!BillsMissed /\ ~BilledSince(q) =>
    q.order.invoiced = order.invoiced

\* ... and those delivered, to which deliveries add.
SawDelivered(q) ==
  q.op \in Bill!Deals /\ q.phase \in {"read", "ready"}
  /\ ~Bill!BillsMissed /\ ~Bill!DeliveriesMissed =>
    /\ q.op = "invoice" => \A l \in Lines : q.order.delivered[l] <= order.delivered[l]
    /\ q.op = "save" /\ ~DeliveredSince(q) => q.order.delivered = order.delivered
    /\ q.op = "deliver" /\ ~DeliveredSince(q) =>
         \A l \in Lines : order.delivered[l] <= q.order.delivered[l]
    /\ q.op = "save" /\ q.order.status = "delivered" => q.order.delivered = Ordered

BillingGood(q) == BillingReadWell(q) /\ BillingInsertsUnseen(q) /\ SawRow(q)
                  /\ SawInvoiced(q) /\ SawDelivered(q)

Billed(l) == SumFunctionOnSet([b \in bills |-> b.quantity[l]], bills)
AllBilled   == \A l \in Lines : Billed(l) = order.invoiced[l]
InQuantity  == \A l \in Lines : /\ order.invoiced[l] <= order.delivered[l]
                                /\ order.status = "delivered" => order.delivered[l] = Ordered[l]

BillingInv == /\ Bill!TypeOK /\ IsFiniteSet(bills) /\ BillingRowsAreNamed
              /\ \A r \in Requests : BillingGood(billing[r])
              /\ Bill!OneDocumentOfAKind /\ Bill!FileBearsItsNumber
              /\ Bill!BillsMissed \/ AllBilled
              /\ Bill!BillsMissed \/ Bill!DeliveriesMissed \/ InQuantity

LEMMA BillingInit == Bill!Init => BillingInv
<1> SUFFICES ASSUME Bill!Init PROVE BillingInv
  OBVIOUS
<1>1. Bill!TypeOK
  <2>1. order \in Bill!Order
    BY DEF Bill!Init, Bill!Order, Bill!Quantities, Bill!Statuses
  <2>2. billing \in [Requests -> Bill!Request]
    BY DEF Bill!Init, Bill!Request
  <2>3. /\ documents = {} /\ bills = {} /\ overlaps = {} /\ next \in Nat \ {0}
        /\ date \in 0..Today
    BY BillingAssumption DEF Bill!Init
  <2> QED
    BY <2>1, <2>2, <2>3 DEF Bill!TypeOK
<1>2. ASSUME NEW r \in Requests PROVE BillingGood(billing[r])
  <2>1. billing[r].op = None /\ billing[r].phase = "new" /\ billing[r].after = {}
        /\ billing[r].document = None
    BY DEF Bill!Init
  <2> QED
    BY <2>1, BillingAssumption DEF BillingGood, BillingReadWell, BillingInsertsUnseen, SawRow,
       SawInvoiced, SawDelivered, Bill!Savers
<1>3. AllBilled /\ InQuantity
  <2> SUFFICES ASSUME NEW l \in Lines
               PROVE  /\ Billed(l) = order.invoiced[l] /\ order.invoiced[l] <= order.delivered[l]
                      /\ order.status # "delivered"
    BY DEF AllBilled, InQuantity
  <2>1. order.invoiced[l] = 0 /\ order.delivered[l] = 0 /\ order.status # "delivered"
    BY DEF Bill!Init
  <2>2. bills = {}
    BY DEF Bill!Init
  <2>3. Billed(l) = 0
    BY <2>2, SumOfNone DEF Billed
  <2> QED
    BY <2>1, <2>3
<1>4. IsFiniteSet(bills)
  BY FS_EmptySet DEF Bill!Init
<1> QED
  BY <1>1, <1>2, <1>3, <1>4 DEF Bill!Init, BillingInv, BillingRowsAreNamed,
     Bill!OneDocumentOfAKind, Bill!FileBearsItsNumber

-----------------------------------------------------------------------------
(* A request reads, or fails: the tables stay.                             *)

LEMMA BillingReadKeeps ==
  ASSUME BillingInv, NEW r \in Requests, NEW q \in Bill!Request, billing[r].phase # "done",
         q.phase # "done",
         billing' = [billing EXCEPT ![r] = q], UNCHANGED <<order, documents, bills, overlaps>>,
         next' \in Nat \ {0}, date' \in 0..Today,
         billing[r].document # None => q.document = billing[r].document, BillingGood(q)
  PROVE  BillingInv'
<1>1. \A s \in Requests : billing'[s] = IF s = r THEN q ELSE billing[s]
  BY DEF BillingInv, Bill!TypeOK
<1>2. Bill!Done' = Bill!Done /\ r \notin Bill!Done
  BY <1>1 DEF Bill!Done
<1>3. Bill!TypeOK'
  BY DEF BillingInv, Bill!TypeOK
<1>4. BillingRowsAreNamed'
  BY <1>2 DEF BillingInv, BillingRowsAreNamed
<1>5. \A id : Writers(id) \subseteq Writers(id)'
  BY <1>1 DEF Writers
<1>6. /\ Bill!BillsMissed => Bill!BillsMissed'
      /\ Bill!DeliveriesMissed => Bill!DeliveriesMissed'
  BY <1>1, <1>2 DEF Bill!BillsMissed, Bill!DeliveriesMissed, Bill!Missed, BillingInv,
     BillingRowsAreNamed
<1>7. \A i : BillingGood(i) => BillingGood(i)'
  <2> SUFFICES ASSUME NEW i, BillingGood(i) PROVE BillingGood(i)'
    OBVIOUS
  <2>1. BilledSince(i) => BilledSince(i)'
    BY DEF BilledSince
  <2>6. DeliveredSince(i) => DeliveredSince(i)'
    BY <1>1, <1>2 DEF DeliveredSince, Bill!Done
  <2>2. \A id : WrittenSince(i, id) => WrittenSince(i, id)'
    BY <1>2, <1>5 DEF WrittenSince
  <2>3. SawRow(i)'
    BY <2>2 DEF BillingGood, SawRow
  <2>4. SawInvoiced(i)' /\ SawDelivered(i)'
    BY <1>6, <2>1, <2>6 DEF BillingGood, SawInvoiced, SawDelivered
  <2>5. BillingReadWell(i)' /\ BillingInsertsUnseen(i)'
    BY <1>2 DEF BillingGood, BillingReadWell, BillingInsertsUnseen, Bill!OfKind
  <2> QED
    BY <2>3, <2>4, <2>5 DEF BillingGood
<1>8. \A s \in Requests : BillingGood(billing'[s])
  BY <1>1 DEF BillingInv
<1>9. \A s \in Requests : BillingGood(billing[s])'
  BY <1>7, <1>8
<1>10. Bill!OneDocumentOfAKind' /\ Bill!FileBearsItsNumber'
  <2>1. Bill!OneDocumentOfAKind'
    BY DEF BillingInv, Bill!OneDocumentOfAKind, Bill!Overlapped
  <2>2. Bill!FileBearsItsNumber'
    <3> SUFFICES ASSUME NEW d \in documents, d.file.number # d.number
                 PROVE  Bill!Overlapped({d.id} \cup Writers(d.id))'
      BY DEF Bill!FileBearsItsNumber, Writers
    <3>1. Bill!Overlapped({d.id} \cup Writers(d.id))
      BY DEF BillingInv, Bill!FileBearsItsNumber, Writers
    <3> QED
      BY <1>5, <3>1 DEF Bill!Overlapped
  <2> QED
    BY <2>1, <2>2
<1>11. /\ (Bill!BillsMissed \/ AllBilled)'
       /\ (Bill!BillsMissed \/ Bill!DeliveriesMissed \/ InQuantity)'
  BY <1>6 DEF BillingInv, AllBilled, InQuantity, Billed
<1>12. IsFiniteSet(bills')
  BY DEF BillingInv
<1> QED
  BY <1>3, <1>4, <1>9, <1>10, <1>11, <1>12 DEF BillingInv

-----------------------------------------------------------------------------
(* A request commits.                                                      *)

BillingCommits(r) == billing[r].phase = "ready" /\ Bill!Committed(r) /\ UNCHANGED <<next, date>>

LEMMA BillingCommitFacts ==
  ASSUME BillingInv, NEW r \in Requests, BillingCommits(r)
  PROVE  /\ \A s \in Requests : /\ billing'[s].phase = IF s = r THEN "done" ELSE billing[s].phase
                                /\ billing'[s].op = billing[s].op
                                /\ billing'[s].order = billing[s].order
                                /\ billing'[s].number = billing[s].number
                                /\ billing'[s].status = billing[s].status
                                /\ billing'[s].document = billing[s].document
                                /\ billing'[s].after = billing[s].after
         /\ r \notin Bill!Done /\ Bill!Done' = Bill!Done \cup {r}
         /\ billing' \in [Requests -> Bill!Request]
         /\ overlaps \subseteq overlaps' /\ overlaps' \subseteq Bill!Done' \X Bill!Done'
         /\ \A t \in Bill!Done \ billing[r].after : <<r, t>> \in overlaps'
<1>0. billing \in [Requests -> Bill!Request] /\ overlaps \subseteq Bill!Done \X Bill!Done
  BY DEF BillingInv, Bill!TypeOK, BillingRowsAreNamed
<1>1. \A s \in Requests : /\ billing'[s].phase = IF s = r THEN "done" ELSE billing[s].phase
                          /\ billing'[s].op = billing[s].op /\ billing'[s].order = billing[s].order
                          /\ billing'[s].number = billing[s].number
                          /\ billing'[s].status = billing[s].status
                          /\ billing'[s].document = billing[s].document
                          /\ billing'[s].after = billing[s].after
  BY <1>0 DEF BillingCommits, Bill!Committed, Bill!Request
<1>2. r \notin Bill!Done /\ Bill!Done' = Bill!Done \cup {r}
  BY <1>1 DEF BillingCommits, Bill!Done
<1>3. billing' \in [Requests -> Bill!Request]
  BY <1>0 DEF BillingCommits, Bill!Committed, Bill!Request
<1>4. overlaps' = overlaps \cup ({r} \X (Bill!Done \ billing[r].after))
  BY DEF BillingCommits, Bill!Committed
<1> HIDE DEF Bill!Done
<1> QED
  BY <1>0, <1>1, <1>2, <1>3, <1>4

\* The rows a commit leaves: untouched, inserted by it, or the one it read written over,
\* whose file bears its number if the row is as it was read and bore it.
Wrote(r) ==
  \A d \in documents' :
    \/ d \in documents
    \/ /\ d.id = r /\ d.kind = billing[r].op /\ billing[r].op \in Kinds /\ billing[r].document = None
       /\ d.file.number = d.number
    \/ /\ billing[r].document # None /\ d.id = billing[r].document.id
       /\ \E e \in documents : /\ e.id = d.id /\ e.kind = d.kind
                               /\ e = billing[r].document /\ d.file.number # d.number
                                    => e.file.number # e.number

\* What a commit does to the order: an invoice marks it, what saves it writes what it has
\* read, and most leave it.
Leaves == UNCHANGED <<order, bills>>
Marks(r) == /\ billing[r].op = "invoice" /\ order'.delivered = order.delivered
            /\ bills \subseteq bills' /\ \E b \in bills' : b.by = r
Writes(r) == /\ billing[r].op \in Bill!Savers /\ UNCHANGED bills
             /\ order'.invoiced = billing[r].order.invoiced
             /\ order'.delivered = billing[r].order.delivered

\* A commit over a bill, or a delivery, that was not read is one more that missed it.
LEMMA BillingCommitMisses ==
  ASSUME BillingInv, NEW r \in Requests, BillingCommits(r), bills \subseteq bills'
  PROVE  /\ Bill!BillsMissed => Bill!BillsMissed'
         /\ Bill!DeliveriesMissed => Bill!DeliveriesMissed'
         /\ billing[r].op \in Bill!Deals /\ BilledSince(billing[r]) => Bill!BillsMissed'
         /\ billing[r].op \in Bill!Savers /\ DeliveredSince(billing[r]) => Bill!DeliveriesMissed'
<1> USE BillingCommitFacts
<1>0. Bill!Done \subseteq Requests /\ \A b \in bills : b.by \in Bill!Done
  BY DEF Bill!Done, BillingInv, BillingRowsAreNamed
<1>1. ASSUME NEW i \in Requests, NEW b \in bills, billing[i].op \in Bill!Deals,
             <<i, b.by>> \in overlaps
      PROVE  Bill!BillsMissed'
  <2>1. b.by \in {c.by : c \in bills'} /\ billing'[i].op \in Bill!Deals
    BY <1>1
  <2> QED
    BY <1>1, <2>1 DEF Bill!BillsMissed, Bill!Missed
<1>2. ASSUME NEW i \in Requests, NEW w \in Requests, billing[w].op = "deliver",
             billing[i].op \in Bill!Savers, <<i, w>> \in overlaps
      PROVE  Bill!DeliveriesMissed'
  <2>1. w \in {t \in Requests : billing'[t].op = "deliver"} /\ billing'[i].op \in Bill!Savers
    BY <1>2
  <2> QED
    BY <1>2, <2>1 DEF Bill!DeliveriesMissed, Bill!Missed
<1>3. ASSUME billing[r].op \in Bill!Deals, NEW b \in bills, b.by \notin billing[r].after
      PROVE  Bill!BillsMissed'
  <2>1. <<r, b.by>> \in overlaps' /\ b \in bills'
    BY <1>0, <1>3
  <2>2. b.by \in {c.by : c \in bills'} /\ billing'[r].op \in Bill!Deals
    BY <1>3, <2>1
  <2> QED
    BY <2>1, <2>2 DEF Bill!BillsMissed, Bill!Missed
<1>4. ASSUME billing[r].op \in Bill!Savers, NEW w \in Bill!Done \ billing[r].after,
             billing[w].op = "deliver"
      PROVE  Bill!DeliveriesMissed'
  <2>1. <<r, w>> \in overlaps' /\ w \in Requests
    BY <1>0
  <2>2. w \in {t \in Requests : billing'[t].op = "deliver"} /\ billing'[r].op \in Bill!Savers
    BY <1>4, <2>1
  <2> QED
    BY <2>1, <2>2 DEF Bill!DeliveriesMissed, Bill!Missed
<1>5. ASSUME Bill!BillsMissed PROVE Bill!BillsMissed'
  <2>1. PICK i \in Requests, w \in {b.by : b \in bills} :
          billing[i].op \in Bill!Deals /\ <<i, w>> \in overlaps
    BY <1>5 DEF Bill!BillsMissed, Bill!Missed
  <2>2. PICK b \in bills : w = b.by
    BY <2>1
  <2> QED
    BY <1>1, <2>1, <2>2
<1>6. Bill!DeliveriesMissed => Bill!DeliveriesMissed'
  BY <1>2 DEF Bill!DeliveriesMissed, Bill!Missed
<1> QED
  BY <1>3, <1>4, <1>5, <1>6 DEF BilledSince, DeliveredSince

LEMMA BillingCommitKeepsGood ==
  ASSUME BillingInv, NEW r \in Requests, BillingCommits(r), Wrote(r), order' \in Bill!Order,
         Leaves \/ Marks(r) \/ Writes(r)
  PROVE  \A s \in Requests : BillingGood(billing[s])'
<1> SUFFICES ASSUME NEW s \in Requests PROVE BillingGood(billing[s])'
  OBVIOUS
<1> USE BillingCommitFacts
<1>0. BillingGood(billing[s]) /\ Bill!Done \subseteq Requests
  BY DEF BillingInv, Bill!Done
<1>1. BillingReadWell(billing[s])'
  BY <1>0 DEF BillingGood, BillingReadWell
<1>2. BillingInsertsUnseen(billing[s])'
  BY <1>0 DEF BillingGood, BillingReadWell, BillingInsertsUnseen, Bill!OfKind, Wrote
<1>3. SawRow(billing[s])'
  <2> SUFFICES ASSUME billing[s].document # None, NEW d \in documents', d.id = billing[s].document.id,
                      d # billing[s].document
               PROVE  WrittenSince(billing[s], d.id)'
    BY DEF SawRow
  <2>1. d.id \in Bill!Done /\ billing[s].after \subseteq Bill!Done
    BY <1>0 DEF BillingGood, BillingReadWell
  <2>2. CASE d \in documents
    <3>1. PICK w \in Bill!Done \ billing[s].after : w \in Writers(d.id)
      BY <1>0, <2>2 DEF BillingGood, SawRow, WrittenSince
    <3> QED
      BY <1>0, <3>1 DEF WrittenSince, Writers
  <2>3. CASE d \notin documents
    BY <2>1, <2>3 DEF Wrote, WrittenSince, Writers
  <2> QED
    BY <2>2, <2>3
<1>4. /\ bills \subseteq bills' /\ r \notin billing[s].after
      /\ BilledSince(billing[s]) => BilledSince(billing[s])'
      /\ DeliveredSince(billing[s]) => DeliveredSince(billing[s])'
  BY <1>0 DEF BillingGood, BillingReadWell, BilledSince, DeliveredSince, Leaves, Marks, Writes
<1>5. /\ billing[r] \in Bill!Request /\ BillingGood(billing[r]) /\ billing[r].phase = "ready"
      /\ billing[r].op \in Bill!Savers => billing[r].op \in Bill!Deals
  BY DEF BillingInv, Bill!TypeOK, Bill!Deals, BillingCommits
<1>6. SawInvoiced(billing[s])'
  <2> SUFFICES ASSUME billing[s].op \in Bill!Deals, billing[s].phase \in {"read", "ready"}, s # r,
                      ~Bill!BillsMissed', ~BilledSince(billing[s])'
               PROVE  billing[s].order.invoiced = order'.invoiced
    BY DEF SawInvoiced
  <2>1. billing[s].order.invoiced = order.invoiced
    BY <1>0, <1>4, BillingCommitMisses DEF BillingGood, SawInvoiced
  <2>2. ~Marks(r)
    BY <1>4 DEF Marks, BilledSince
  <2>3. ASSUME Writes(r)
        PROVE  billing[r].order.invoiced = order.invoiced
    <3>1. billing[r].op \in Bill!Deals
      BY <1>5, <2>3 DEF Writes
    <3>2. ~Bill!BillsMissed /\ ~BilledSince(billing[r])
      BY <1>4, <3>1, BillingCommitMisses
    <3> QED
      BY <1>5, <3>1, <3>2 DEF BillingGood, SawInvoiced
  <2> QED
    BY <2>1, <2>2, <2>3 DEF Leaves, Writes
<1>7. SawDelivered(billing[s])'
  <2> SUFFICES ASSUME billing[s].op \in Bill!Deals, billing[s].phase \in {"read", "ready"}, s # r,
                      ~Bill!BillsMissed', ~Bill!DeliveriesMissed'
               PROVE  SawDelivered(billing[s])'
    BY DEF SawDelivered
  <2>0. ~Bill!BillsMissed /\ ~Bill!DeliveriesMissed /\ SawDelivered(billing[s])
    BY <1>0, <1>4, BillingCommitMisses DEF BillingGood
  <2>1. CASE order'.delivered = order.delivered
    BY <1>4, <2>0, <2>1 DEF SawDelivered
  <2>2. CASE Writes(r)
    <3>0. /\ billing[r].op \in Bill!Savers /\ order'.delivered = billing[r].order.delivered
          /\ billing[r].op \in Bill!Deals
      BY <1>5, <2>2 DEF Writes
    <3>1. ~DeliveredSince(billing[r])
      BY <1>4, <3>0, BillingCommitMisses
    <3>2. billing[r].op = "save" => order'.delivered = order.delivered
      BY <1>5, <2>0, <3>0, <3>1 DEF BillingGood, SawDelivered
    <3>3. CASE billing[r].op = "deliver"
      <4>1. DeliveredSince(billing[s])'
        BY <1>4, <3>3 DEF DeliveredSince
      <4>2. \A l \in Lines : order.delivered[l] <= order'.delivered[l]
        BY <1>5, <2>0, <3>0, <3>1, <3>3 DEF BillingGood, SawDelivered
      <4>3. billing[s].op = "invoice" => billing[s].order \in Bill!Order
        BY <1>0 DEF BillingGood, BillingReadWell, Bill!Deals
      <4>4. \A l \in Lines : /\ order.delivered[l] \in Nat /\ order'.delivered[l] \in Nat
                             /\ billing[s].op = "invoice" => billing[s].order.delivered[l] \in Nat
        BY <4>3 DEF BillingInv, Bill!TypeOK, Bill!Order, Bill!Quantities
      <4> QED
        BY <2>0, <4>1, <4>2, <4>4 DEF SawDelivered
    <3> QED
      BY <2>1, <3>0, <3>2, <3>3 DEF Bill!Savers
  <2> QED
    BY <2>1, <2>2 DEF Leaves, Marks
<1> QED
  BY <1>1, <1>2, <1>3, <1>6, <1>7 DEF BillingGood

\* What the commit leaves adds up, if it has missed nothing.
StillSound(r) ==
  ~Bill!BillsMissed /\ ~BilledSince(billing[r]) =>
    /\ AllBilled => AllBilled'
    /\ (/\ ~Bill!DeliveriesMissed /\ InQuantity
        /\ billing[r].op \in Bill!Savers => ~DeliveredSince(billing[r])) => InQuantity'

LEMMA BillingCommitKeeps ==
  ASSUME BillingInv, NEW r \in Requests, BillingCommits(r), Wrote(r),
         documents' \subseteq Bill!Document,
         \A d, e \in documents' : d.id = e.id => d = e,
         order' \in Bill!Order, bills' \subseteq [by : Requests, quantity : Bill!Quantities],
         IsFiniteSet(bills'), \A b \in bills' : b \in bills \/ b.by = r,
         Leaves \/ Marks(r) \/ Writes(r),
         Leaves \/ StillSound(r)
  PROVE  BillingInv'
<1> USE BillingCommitFacts
<1>0. Bill!Done \subseteq Requests
  BY DEF Bill!Done
<1>1. Bill!TypeOK'
  BY <1>0 DEF BillingInv, Bill!TypeOK, BillingCommits
<1>2. BillingRowsAreNamed'
  BY DEF BillingInv, BillingRowsAreNamed, Wrote
<1>3. \A s \in Requests : BillingGood(billing[s])'
  BY BillingCommitKeepsGood
<1>4. Bill!OneDocumentOfAKind'
  <2> SUFFICES ASSUME NEW d \in documents', NEW e \in documents', d # e, d.kind = e.kind,
                      d.kind # "payment_receipt"
               PROVE  Bill!Overlapped({d.id, e.id})'
    BY DEF Bill!OneDocumentOfAKind
  <2>0. d.id # e.id
    OBVIOUS
  <2>1. ASSUME NEW x \in documents', NEW y \in documents', x.kind = y.kind, x.id # y.id,
               x.kind # "payment_receipt", x.id = r
        PROVE  Bill!Overlapped({x.id, y.id})'
    <3>1. \A z \in documents : z.id # r
      BY DEF BillingInv, BillingRowsAreNamed
    <3>2. x.kind = billing[r].op /\ billing[r].op \in Kinds /\ billing[r].document = None
      BY <2>1, <3>1 DEF Wrote
    <3>3. PICK z \in documents : z.id = y.id /\ z.kind = y.kind
      BY <2>1 DEF Wrote
    <3>4. z.id \notin billing[r].after /\ z.id \in Bill!Done
      BY <2>1, <3>2, <3>3 DEF BillingInv, BillingGood, BillingInsertsUnseen, Bill!OfKind,
         BillingCommits, BillingRowsAreNamed
    <3> QED
      BY <2>1, <3>3, <3>4 DEF Bill!Overlapped
  <2>2. CASE d.id # r /\ e.id # r
    <3>1. PICK x \in documents : x.id = d.id /\ x.kind = d.kind
      BY <2>2 DEF Wrote
    <3>2. PICK y \in documents : y.id = e.id /\ y.kind = e.kind
      BY <2>2 DEF Wrote
    <3>3. Bill!Overlapped({x.id, y.id})
      BY <2>0, <3>1, <3>2 DEF BillingInv, Bill!OneDocumentOfAKind
    <3> QED
      BY <3>1, <3>2, <3>3 DEF Bill!Overlapped
  <2>3. Bill!Overlapped({e.id, d.id})' => Bill!Overlapped({d.id, e.id})'
    BY DEF Bill!Overlapped
  <2> QED
    BY <2>0, <2>1, <2>2, <2>3
<1>5. Bill!FileBearsItsNumber'
  <2> SUFFICES ASSUME NEW d \in documents', d.file.number # d.number
               PROVE  Bill!Overlapped({d.id} \cup Writers(d.id))'
    BY DEF Bill!FileBearsItsNumber, Writers
  <2>1. Writers(d.id)' = Writers(d.id)
    BY DEF Writers
  <2>2. ASSUME NEW e \in documents, e.id = d.id, e.file.number # e.number
        PROVE  Bill!Overlapped({d.id} \cup Writers(d.id))'
    <3>1. Bill!Overlapped({d.id} \cup Writers(d.id))
      BY <2>2 DEF BillingInv, Bill!FileBearsItsNumber, Writers
    <3> QED
      BY <2>1, <3>1 DEF Bill!Overlapped
  <2>3. CASE d \in documents
    BY <2>2, <2>3
  <2>4. CASE d \notin documents
    <3>1. /\ billing[r].document # None /\ d.id = billing[r].document.id
      BY <2>4 DEF Wrote
    <3>2. PICK e \in documents : e.id = d.id /\ (e = billing[r].document => e.file.number # e.number)
      BY <2>4 DEF Wrote
    <3>3. CASE e = billing[r].document
      BY <2>2, <3>2, <3>3
    <3>4. CASE e # billing[r].document
      <4>1. WrittenSince(billing[r], d.id)
        BY <3>1, <3>2, <3>4 DEF BillingInv, BillingGood, SawRow
      <4>2. PICK w \in Bill!Done \ billing[r].after : w \in Writers(d.id)
        BY <4>1 DEF WrittenSince
      <4>3. r \in Writers(d.id) /\ <<r, w>> \in overlaps'
        BY <3>1, <4>2 DEF Writers
      <4> QED
        BY <2>1, <4>2, <4>3 DEF Bill!Overlapped
    <3> QED
      BY <3>3, <3>4
  <2> QED
    BY <2>3, <2>4
<1>6. /\ (Bill!BillsMissed \/ AllBilled)'
      /\ (Bill!BillsMissed \/ Bill!DeliveriesMissed \/ InQuantity)'
  <2>1. bills \subseteq bills'
    BY DEF Leaves, Marks, Writes
  <2>2. CASE Leaves
    BY <2>1, <2>2, BillingCommitMisses DEF Leaves, BillingInv, AllBilled, InQuantity, Billed
  <2>3. CASE (Marks(r) \/ Writes(r)) /\ StillSound(r)
    <3>1. billing[r].op \in Bill!Deals
      BY <2>3 DEF Marks, Writes, Bill!Deals
    <3> QED
      BY <2>1, <2>3, <3>1, BillingCommitMisses DEF BillingInv, StillSound
  <2> QED
    BY <2>2, <2>3
<1> QED
  BY <1>1, <1>2, <1>3, <1>4, <1>5, <1>6 DEF BillingInv

-----------------------------------------------------------------------------
LEMMA SignKeeps ==
  ASSUME BillingInv, NEW r \in Requests, Bill!Sign(r)
  PROVE  BillingInv'
<1> DEFINE seen == billing[r].document
           file == [number |-> seen.file.number, signatures |-> seen.file.signatures + 1]
           Now(d) == IF d.id = seen.id THEN [d EXCEPT !.is_signed = TRUE, !.file = file] ELSE d
<1>0. /\ BillingCommits(r) /\ seen # None /\ seen \in Bill!Document /\ UNCHANGED <<order, bills>>
      /\ documents \subseteq Bill!Document
  BY DEF Bill!Sign, BillingCommits, BillingInv, Bill!TypeOK, BillingGood, BillingReadWell
<1>1. seen.file \in Bill!File /\ file \in Bill!File /\ file.number = seen.file.number
  BY <1>0 DEF Bill!Document, Bill!File
<1>2. documents' = {Now(d) : d \in documents}
  <2>1. [seen.file EXCEPT !.signatures = seen.file.signatures + 1] = file
    BY <1>1 DEF Bill!File
  <2>2. documents' = {IF d.id = seen.id
                        THEN [d EXCEPT !.is_signed = TRUE,
                                       !.file = [seen.file EXCEPT !.signatures = seen.file.signatures + 1]]
                        ELSE d : d \in documents}
    BY DEF Bill!Sign
  <2> HIDE DEF file
  <2> QED
    BY <2>1, <2>2
<1> HIDE DEF file
<1>3. \A d \in Bill!Document : /\ Now(d) \in Bill!Document /\ Now(d).id = d.id /\ Now(d).kind = d.kind
                               /\ d.id # seen.id => Now(d) = d
                               /\ d = seen => Now(d).number = d.number
                                              /\ Now(d).file.number = d.file.number
  BY <1>1 DEF Bill!Document
<1> HIDE DEF Now
<1>4. Wrote(r)
  BY <1>0, <1>2, <1>3 DEF Wrote
<1>5. documents' \subseteq Bill!Document
  BY <1>0, <1>2, <1>3
<1>6. \A d, e \in documents' : d.id = e.id => d = e
  BY <1>0, <1>2, <1>3 DEF BillingInv, BillingRowsAreNamed
<1>7. order' \in Bill!Order /\ bills' \subseteq [by : Requests, quantity : Bill!Quantities] /\ IsFiniteSet(bills')
      /\ Leaves
  BY <1>0 DEF BillingInv, Bill!TypeOK, Leaves
<1> QED
  BY <1>0, <1>4, <1>5, <1>6, <1>7, BillingCommitKeeps

LEMMA SaveOrderKeeps ==
  ASSUME BillingInv, NEW r \in Requests, Bill!SaveOrder(r)
  PROVE  BillingInv'
<1> DEFINE i == billing[r]
<1>0. /\ BillingCommits(r) /\ i.op \in Bill!Savers /\ i.phase = "ready" /\ i.op \in Bill!Deals
      /\ UNCHANGED <<documents, bills>> /\ BillingGood(i)
      /\ i.order \in Bill!Order /\ order \in Bill!Order
  BY DEF Bill!SaveOrder, BillingCommits, BillingInv, Bill!TypeOK, BillingGood, BillingReadWell,
     Bill!Deals
<1>1. order' = [i.order EXCEPT !.status = IF i.order.status # i.status THEN i.order.status ELSE order.status]
  BY DEF Bill!SaveOrder
<1>2. /\ order' \in Bill!Order /\ order'.delivered = i.order.delivered
      /\ order'.invoiced = i.order.invoiced
      /\ order'.status \in {i.order.status, order.status}
  BY <1>0, <1>1 DEF Bill!Order
<1>3. \A l \in Lines : /\ order.delivered[l] \in Nat /\ order.invoiced[l] \in Nat
                       /\ i.order.delivered[l] \in Nat /\ Ordered[l] \in Nat
  BY <1>0, BillingAssumption DEF Bill!Order, Bill!Quantities
<1>4. ASSUME ~Bill!BillsMissed, ~BilledSince(i), AllBilled
      PROVE  AllBilled'
  BY <1>0, <1>2, <1>4 DEF BillingGood, SawInvoiced, AllBilled, Billed
<1>5. ASSUME ~Bill!BillsMissed, ~BilledSince(i), ~Bill!DeliveriesMissed, ~DeliveredSince(i),
             InQuantity
      PROVE  InQuantity'
  <2> SUFFICES ASSUME NEW l \in Lines
               PROVE  /\ order'.invoiced[l] <= order'.delivered[l]
                      /\ order'.status = "delivered" => order'.delivered[l] = Ordered[l]
    BY DEF InQuantity
  <2>1. /\ i.order.invoiced = order.invoiced /\ order.delivered[l] <= i.order.delivered[l]
        /\ i.op = "save" => i.order.delivered = order.delivered
        /\ i.order.status = "delivered" => i.order.delivered = Ordered
        /\ i.op = "deliver" => i.order.delivered[l] <= Ordered[l]
    BY <1>0, <1>3, <1>5 DEF BillingGood, SawInvoiced, SawDelivered, BillingReadWell, Bill!Savers
  <2>2. /\ order.invoiced[l] <= order.delivered[l]
        /\ order.status = "delivered" => order.delivered[l] = Ordered[l]
    BY <1>5 DEF InQuantity
  <2>3. order'.invoiced[l] <= order'.delivered[l]
    BY <1>2, <1>3, <2>1, <2>2
  <2>4. ASSUME order.status = "delivered"
        PROVE  i.order.delivered[l] = Ordered[l]
    BY <1>0, <1>3, <2>1, <2>2, <2>4 DEF Bill!Savers
  <2> QED
    BY <1>2, <2>1, <2>3, <2>4
<1>6. Wrote(r) /\ documents' \subseteq Bill!Document /\ \A d, e \in documents' : d.id = e.id => d = e
  BY <1>0 DEF Wrote, BillingInv, Bill!TypeOK, BillingRowsAreNamed
<1>7. bills' \subseteq [by : Requests, quantity : Bill!Quantities] /\ IsFiniteSet(bills')
  BY <1>0 DEF BillingInv, Bill!TypeOK
<1>8. Writes(r) /\ StillSound(r)
  BY <1>0, <1>2, <1>4, <1>5 DEF Writes, StillSound
<1> QED
  BY <1>0, <1>2, <1>6, <1>7, <1>8, BillingCommitKeeps

\* The greater of 0 and n.
LEMMA MaxOfZero == ASSUME NEW n \in Int PROVE Bill!Max({0, n}) = IF n > 0 THEN n ELSE 0
<1> DEFINE m == IF n > 0 THEN n ELSE 0
<1>1. m \in {0, n} /\ \A y \in {0, n} : m >= y
  OBVIOUS
<1>2. \A x \in {0, n} : (\A y \in {0, n} : x >= y) => x = m
  OBVIOUS
<1> HIDE DEF m
<1>3. Bill!Max({0, n}) = m
  BY <1>1, <1>2 DEF Bill!Max
<1> QED
  BY <1>3 DEF m

\* An invoice bills what is pending, and marks it.
LEMMA BillKeeps ==
  ASSUME BillingInv, NEW r \in Requests, BillingCommits(r), Bill!Bill(r), billing[r].op \in Kinds
  PROVE  /\ order' \in Bill!Order /\ bills' \subseteq [by : Requests, quantity : Bill!Quantities]
         /\ IsFiniteSet(bills') /\ \A b \in bills' : b \in bills \/ b.by = r
         /\ Leaves \/ (Marks(r) /\ StillSound(r))
<1> DEFINE seen == billing[r].order
           n    == [by |-> r, quantity |-> Bill!Pending(seen)]
<1>0. /\ seen \in Bill!Order /\ order \in Bill!Order /\ IsFiniteSet(bills) /\ BillingGood(billing[r])
      /\ bills \subseteq [by : Requests, quantity : Bill!Quantities]
  BY DEF BillingInv, Bill!TypeOK, BillingGood, BillingReadWell
<1>1. CASE UNCHANGED <<order, bills>>
  BY <1>0, <1>1 DEF Leaves
<1>2. CASE /\ billing[r].op = "invoice" /\ bills' = bills \cup {n}
           /\ order' = [order EXCEPT !.invoiced = [l \in Lines |->
                          IF Bill!Pending(seen)[l] > 0 THEN seen.delivered[l] ELSE order.invoiced[l]]]
  <2>1. \A l \in Lines : /\ seen.delivered[l] \in Nat /\ seen.invoiced[l] \in Nat
                         /\ order.delivered[l] \in Nat /\ order.invoiced[l] \in Nat
    BY <1>0 DEF Bill!Order, Bill!Quantities
  <2>2. \A l \in Lines : Bill!Pending(seen)[l] = IF seen.delivered[l] - seen.invoiced[l] > 0
                                                   THEN seen.delivered[l] - seen.invoiced[l] ELSE 0
    BY <2>1, MaxOfZero DEF Bill!Pending
  <2>3. Bill!Pending(seen) \in Bill!Quantities
    BY <2>1, <2>2 DEF Bill!Pending, Bill!Quantities
  <2> DEFINE marked == [l \in Lines |-> IF Bill!Pending(seen)[l] > 0 THEN seen.delivered[l] ELSE order.invoiced[l]]
  <2>4. marked \in Bill!Quantities
    BY <2>1 DEF Bill!Quantities
  <2>5. order' \in Bill!Order /\ order'.invoiced = marked /\ order'.delivered = order.delivered
        /\ order'.status = order.status
    BY <1>0, <1>2, <2>4 DEF Bill!Order
  <2>6. bills' \subseteq [by : Requests, quantity : Bill!Quantities] /\ IsFiniteSet(bills')
        /\ \A b \in bills' : b \in bills \/ b.by = r
    <3>1. n \in [by : Requests, quantity : Bill!Quantities] /\ n.by = r
      BY <2>3
    <3>2. IsFiniteSet(bills \cup {n})
      BY <1>0, FS_AddElement
    <3> HIDE DEF n
    <3> QED
      BY <1>0, <1>2, <3>1, <3>2
  <2>7. ASSUME ~Bill!BillsMissed, ~BilledSince(billing[r])
        PROVE  seen.invoiced = order.invoiced
    BY <1>0, <1>2, <2>7 DEF BillingGood, SawInvoiced, BillingCommits, Bill!Deals
  <2>8. ASSUME seen.invoiced = order.invoiced, AllBilled
        PROVE  AllBilled'
    <3> SUFFICES ASSUME NEW l \in Lines
                 PROVE  Billed(l)' = order'.invoiced[l]
      BY DEF AllBilled
    <3>1. Billed(l) = order.invoiced[l]
      BY <2>8 DEF AllBilled
    <3>2. order'.invoiced[l] = order.invoiced[l] + Bill!Pending(seen)[l]
      BY <2>1, <2>2, <2>5, <2>8
    <3> DEFINE f == [b \in bills |-> b.quantity[l]]
               g == [b \in bills \cup {n} |-> b.quantity[l]]
    <3>3. /\ \A b \in bills : f[b] \in Nat /\ g[b] = f[b]
          /\ n \notin bills /\ g[n] = Bill!Pending(seen)[l] /\ g[n] \in Nat
      <4>1. \A b \in bills : b.quantity \in Bill!Quantities /\ b.by # r
        BY <1>0, BillingCommitFacts DEF BillingInv, BillingRowsAreNamed
      <4>2. n.by = r /\ n.quantity = Bill!Pending(seen)
        OBVIOUS
      <4> QED
        BY <2>3, <4>1, <4>2 DEF Bill!Quantities
    <3> HIDE DEF f, g
    <3>4. SumFunctionOnSet(g, bills) = SumFunctionOnSet(f, bills)
      BY <1>0, <3>3, SumSame
    <3>5. \A b \in bills : g[b] \in Nat
      BY <3>3
    <3>6. SumFunctionOnSet(g, bills \cup {n}) = g[n] + SumFunctionOnSet(g, bills)
      BY <1>0, <3>3, <3>5, SumAdd
    <3>7. Billed(l)' = g[n] + Billed(l)
      BY <1>2, <3>4, <3>6 DEF Billed, f, g
    <3> QED
      BY <2>1, <3>1, <3>2, <3>3, <3>7
  <2>9. ASSUME ~Bill!BillsMissed, ~Bill!DeliveriesMissed, InQuantity
        PROVE  InQuantity'
    <3> SUFFICES ASSUME NEW l \in Lines
                 PROVE  /\ order'.invoiced[l] <= order'.delivered[l]
                        /\ order'.status = "delivered" => order'.delivered[l] = Ordered[l]
      BY DEF InQuantity
    <3>1. seen.delivered[l] <= order.delivered[l]
      BY <1>0, <1>2, <2>9 DEF BillingGood, SawDelivered, BillingCommits, Bill!Deals
    <3>2. /\ order.invoiced[l] <= order.delivered[l]
          /\ order.status = "delivered" => order.delivered[l] = Ordered[l]
      BY <2>9 DEF InQuantity
    <3> QED
      BY <2>1, <2>5, <3>1, <3>2
  <2>10. Marks(r)
    <3>1. n \in bills' /\ n.by = r
      BY <1>2
    <3> QED
      BY <1>2, <2>5, <3>1 DEF Marks
  <2>11. StillSound(r)
    BY <2>7, <2>8, <2>9 DEF StillSound
  <2> QED
    BY <2>5, <2>6, <2>10, <2>11
<1> QED
  BY <1>1, <1>2 DEF Bill!Bill

LEMMA GenerateKeeps ==
  ASSUME BillingInv, NEW r \in Requests, Bill!Generate(r)
  PROVE  BillingInv'
<1> DEFINE i    == billing[r]
           seen == i.document
           file == [number |-> i.number, signatures |-> 0]
<1>0. /\ i.op \in Kinds /\ i.phase = "ready" /\ i.number \in Bill!Number /\ BillingGood(i)
      /\ seen # None => seen \in Bill!Document /\ seen.kind = i.op
      /\ documents \subseteq Bill!Document
      /\ i \in Bill!Request
  BY DEF Bill!Generate, BillingInv, Bill!TypeOK, BillingGood, BillingReadWell
<1>1. CASE Bill!Fails(r)
  <2> DEFINE q == [i EXCEPT !.phase = "failed"]
  <2>1. /\ q \in Bill!Request /\ q.phase = "failed" /\ q.op = i.op /\ q.order = i.order
        /\ q.number = i.number /\ q.document = seen /\ q.status = i.status /\ q.after = i.after
    BY <1>0 DEF Bill!Request
  <2>2. billing' = [billing EXCEPT ![r] = q]
        /\ UNCHANGED <<order, documents, next, date, bills, overlaps>>
    BY <1>1 DEF Bill!Fails
  <2> HIDE DEF q
  <2>3. BillingGood(q)
    <3>1. WrittenSince(q, seen.id) = WrittenSince(i, seen.id)
      BY <2>1 DEF WrittenSince
    <3>2. \A d \in documents : WrittenSince(q, d.id) = WrittenSince(i, d.id)
      BY <2>1 DEF WrittenSince
    <3> QED
      BY <1>0, <2>1, <3>2 DEF BillingGood, BillingReadWell, BillingInsertsUnseen, SawRow,
         SawInvoiced, SawDelivered
  <2> QED
    BY <1>0, <2>1, <2>2, <2>3, BillingReadKeeps DEF BillingInv, Bill!TypeOK
<1>2. CASE Bill!Upsert(r) /\ Bill!Bill(r) /\ Bill!Committed(r) /\ UNCHANGED <<next, date>>
  <2>0. BillingCommits(r) /\ file \in Bill!File /\ file.number = i.number
    BY <1>0, <1>2 DEF BillingCommits, Bill!File
  <2>1. /\ order' \in Bill!Order /\ bills' \subseteq [by : Requests, quantity : Bill!Quantities]
        /\ IsFiniteSet(bills') /\ \A b \in bills' : b \in bills \/ b.by = r
        /\ Leaves \/ (Marks(r) /\ StillSound(r))
    BY <1>0, <1>2, <2>0, BillKeeps
  <2>2. /\ Wrote(r) /\ documents' \subseteq Bill!Document
        /\ \A d, e \in documents' : d.id = e.id => d = e
    <3>1. CASE seen = None
      <4> DEFINE n == [id |-> r, kind |-> i.op, number |-> i.number, file |-> file, is_signed |-> FALSE]
      <4>1. n \in Bill!Document /\ n.id = r /\ n.kind = i.op /\ n.number = i.number /\ n.file = file
        BY <1>0, <2>0 DEF Bill!Document
      <4>2. documents' = documents \cup {n}
        BY <1>2, <3>1 DEF Bill!Upsert
      <4> HIDE DEF n, file
      <4>3. r \notin Bill!Done
        BY <2>0, BillingCommitFacts
      <4> QED
        BY <1>0, <2>0, <3>1, <4>1, <4>2, <4>3 DEF Wrote, BillingInv, BillingRowsAreNamed
    <3>2. CASE seen # None
      <4> DEFINE Now(d) == IF d.id = seen.id
                             THEN [d EXCEPT !.file = file,
                                            !.number = IF i.number = seen.number THEN d.number ELSE i.number]
                             ELSE d
      <4>1. documents' = {Now(d) : d \in documents}
        BY <1>2, <3>2 DEF Bill!Upsert
      <4> HIDE DEF file
      <4>2. \A d \in Bill!Document : /\ Now(d) \in Bill!Document /\ Now(d).id = d.id /\ Now(d).kind = d.kind
                                     /\ d.id # seen.id => Now(d) = d
                                     /\ d = seen => Now(d).number = i.number /\ Now(d).file = file
        BY <1>0, <2>0 DEF Bill!Document
      <4> HIDE DEF Now
      <4>3. Wrote(r)
        BY <1>0, <2>0, <3>2, <4>1, <4>2 DEF Wrote
      <4> QED
        BY <1>0, <4>1, <4>2, <4>3 DEF BillingInv, BillingRowsAreNamed
    <3> QED
      BY <3>1, <3>2
  <2> QED
    BY <2>0, <2>1, <2>2, BillingCommitKeeps
<1> QED
  BY <1>1, <1>2 DEF Bill!Generate

-----------------------------------------------------------------------------
(* The steps that read.                                                    *)

LEMMA BeginGenerateKeeps ==
  ASSUME BillingInv, NEW r \in Requests, NEW kind \in Kinds, Bill!BeginGenerate(r, kind)
  PROVE  BillingInv'
<1>0. billing[r] \in Bill!Request /\ billing[r].phase = "new"
      /\ billing \in [Requests -> Bill!Request] /\ order \in Bill!Order
      /\ next \in Nat \ {0} /\ date \in 0..Today /\ BillingGood(billing[r]) /\ kind # None
      /\ Bill!Done \subseteq Requests
  BY BillingAssumption DEF Bill!BeginGenerate, BillingInv, Bill!TypeOK, Bill!Done
<1>1. PICK n \in Bill!Numbers(kind) :
        billing' = [billing EXCEPT ![r].op = kind, ![r].order = order, ![r].number = n, ![r].after = Bill!Done,
                                   ![r].phase = IF kind = "payment_receipt" THEN "ready" ELSE "read"]
  BY DEF Bill!BeginGenerate
<1>2. n \in Bill!Number
  BY <1>0, BillingAssumption DEF Bill!Numbers, Bill!Number, Bill!AllKinds, Bill!Dated
<1> DEFINE q == [billing[r] EXCEPT !.op = kind, !.order = order, !.number = n, !.after = Bill!Done,
                                   !.phase = IF kind = "payment_receipt" THEN "ready" ELSE "read"]
<1>3. billing' = [billing EXCEPT ![r] = q]
  BY <1>0, <1>1
<1>4. /\ q \in Bill!Request /\ q.op = kind /\ q.order = order /\ q.number = n /\ q.after = Bill!Done
      /\ q.phase = (IF kind = "payment_receipt" THEN "ready" ELSE "read")
      /\ q.document = billing[r].document /\ billing[r].document = None
  BY <1>0, <1>2 DEF Bill!Request, BillingGood, BillingReadWell
<1> HIDE DEF q
<1>5. kind \notin {"sign", "deliver", "save"} /\ \A l \in Lines : order.delivered[l] \in Nat
  BY <1>0, BillingAssumption DEF Bill!AllKinds, Bill!Dated, Bill!Order, Bill!Quantities
<1>6. BillingGood(q)
  BY <1>0, <1>2, <1>4, <1>5 DEF BillingGood, BillingReadWell, BillingInsertsUnseen, SawRow,
     SawInvoiced, SawDelivered, Bill!Savers
<1>7. next' \in Nat \ {0} /\ date' \in 0..Today /\ UNCHANGED <<order, documents, bills, overlaps>>
  BY <1>0 DEF Bill!BeginGenerate
<1> QED
  BY <1>0, <1>3, <1>4, <1>6, <1>7, BillingReadKeeps

LEMMA LookUpKeeps ==
  ASSUME BillingInv, NEW r \in Requests, Bill!LookUp(r)
  PROVE  BillingInv'
<1> DEFINE i == billing[r]
           found == Bill!OfKind(i.op)
           row == IF found = {} THEN None ELSE CHOOSE d \in found : TRUE
<1>0. i \in Bill!Request /\ i.op \in Kinds /\ i.phase = "read" /\ BillingGood(i)
      /\ documents \subseteq Bill!Document
      /\ billing \in [Requests -> Bill!Request] /\ next \in Nat \ {0} /\ date \in 0..Today
      /\ None \notin Bill!Document
  BY BillingAssumption DEF Bill!LookUp, BillingInv, Bill!TypeOK
<1>1. i.document = None /\ i.op \notin {"sign", "deliver", "save"}
  BY <1>0, BillingAssumption DEF BillingGood, BillingReadWell, Bill!AllKinds, Bill!Dated
<1>2. CASE Bill!Fails(r)
  <2> DEFINE q == [i EXCEPT !.phase = "failed"]
  <2>1. /\ q \in Bill!Request /\ q.phase = "failed" /\ q.op = i.op /\ q.order = i.order
        /\ q.number = i.number /\ q.document = None /\ q.after = i.after
    BY <1>0, <1>1 DEF Bill!Request
  <2>2. billing' = [billing EXCEPT ![r] = q]
        /\ UNCHANGED <<order, documents, next, date, bills, overlaps>>
    BY <1>2 DEF Bill!Fails
  <2> HIDE DEF q
  <2>3. BillingGood(q)
    BY <1>0, <1>1, <2>1 DEF BillingGood, BillingReadWell, BillingInsertsUnseen, SawRow,
       SawInvoiced, SawDelivered, Bill!Savers
  <2> QED
    BY <1>0, <1>1, <2>1, <2>2, <2>3, BillingReadKeeps
<1>3. CASE /\ billing' = [billing EXCEPT ![r].phase = "ready", ![r].document = row]
           /\ UNCHANGED <<order, documents, next, date, bills, overlaps>>
  <2>1. (row = None /\ found = {}) \/ row \in found
    OBVIOUS
  <2> HIDE DEF row
  <2>2. found \subseteq documents /\ \A d \in found : d.kind = i.op
    BY DEF Bill!OfKind
  <2> DEFINE q == [i EXCEPT !.phase = "ready", !.document = row]
  <2>3. billing' = [billing EXCEPT ![r] = q]
    BY <1>0, <1>3
  <2>4. /\ q \in Bill!Request /\ q.phase = "ready" /\ q.op = i.op /\ q.order = i.order
        /\ q.number = i.number /\ q.document = row /\ q.after = i.after
    BY <1>0, <2>1, <2>2 DEF Bill!Request
  <2> HIDE DEF q
  <2>5. BillingReadWell(q) /\ BillingInsertsUnseen(q) /\ SawRow(q)
    BY <1>0, <1>1, <2>1, <2>2, <2>4 DEF BillingGood, BillingReadWell, BillingInsertsUnseen, SawRow,
       BillingInv, BillingRowsAreNamed, Bill!Savers
  <2>6. SawInvoiced(q) /\ SawDelivered(q)
    <3>1. BilledSince(q) = BilledSince(i) /\ DeliveredSince(q) = DeliveredSince(i)
      BY <2>4 DEF BilledSince, DeliveredSince
    <3> QED
      BY <1>0, <2>4, <3>1 DEF BillingGood, SawInvoiced, SawDelivered
  <2>7. BillingGood(q)
    BY <2>5, <2>6 DEF BillingGood
  <2> QED
    BY <1>0, <1>1, <1>3, <2>3, <2>4, <2>7, BillingReadKeeps
<1> QED
  BY <1>2, <1>3 DEF Bill!LookUp

LEMMA BeginSignKeeps ==
  ASSUME BillingInv, NEW r \in Requests, NEW d \in documents, Bill!BeginSign(r, d)
  PROVE  BillingInv'
<1> DEFINE i == billing[r]
<1>0. i \in Bill!Request /\ i.phase = "new" /\ BillingGood(i) /\ d \in Bill!Document
      /\ None \notin Bill!Document
      /\ billing \in [Requests -> Bill!Request] /\ next \in Nat \ {0} /\ date \in 0..Today
      /\ Bill!Done \subseteq Requests
  BY BillingAssumption DEF Bill!BeginSign, BillingInv, Bill!TypeOK, Bill!Done
<1>1. i.document = None /\ "sign" \notin Kinds
  BY <1>0, BillingAssumption DEF BillingGood, BillingReadWell, Bill!AllKinds, Bill!Dated
<1> DEFINE q == [i EXCEPT !.op = "sign", !.phase = "ready", !.document = d, !.after = Bill!Done]
<1>2. billing' = [billing EXCEPT ![r] = q]
      /\ UNCHANGED <<order, documents, next, date, bills, overlaps>>
  BY <1>0 DEF Bill!BeginSign
<1>3. q \in Bill!Request /\ q.phase = "ready" /\ q.op = "sign" /\ q.document = d /\ q.after = Bill!Done
  BY <1>0 DEF Bill!Request
<1> HIDE DEF q
<1>4. BillingGood(q)
  BY <1>0, <1>1, <1>3 DEF BillingGood, BillingReadWell, BillingInsertsUnseen, SawRow, SawInvoiced,
     SawDelivered, Bill!Deals, Bill!Savers, BillingInv, BillingRowsAreNamed
<1> QED
  BY <1>0, <1>1, <1>2, <1>3, <1>4, BillingReadKeeps

\* An entity is what was read, but for its status and what is delivered more.
LEMMA BeginSaverKeeps ==
  ASSUME BillingInv, NEW r \in Requests, NEW op \in Bill!Savers, NEW entity \in Bill!Order,
         Bill!BeginSaver(r, op, entity), entity.invoiced = order.invoiced,
         op = "deliver" => /\ \A l \in Lines : /\ order.delivered[l] <= entity.delivered[l]
                                               /\ entity.delivered[l] <= Ordered[l]
                           /\ entity.status = "delivered" => entity.delivered = Ordered,
         op = "save" => /\ entity.delivered = order.delivered
                        /\ entity.status = "delivered" => order.status = "delivered"
  PROVE  BillingInv'
<1> DEFINE i == billing[r]
           q == [i EXCEPT !.op = op, !.phase = "read", !.after = Bill!Done, !.order = entity]
<1>0. i \in Bill!Request /\ i.phase = "new" /\ BillingGood(i) /\ order \in Bill!Order
      /\ Bill!Done \subseteq Requests
      /\ billing \in [Requests -> Bill!Request] /\ next \in Nat \ {0} /\ date \in 0..Today
  BY DEF Bill!BeginSaver, BillingInv, Bill!TypeOK, Bill!Done
<1>1. i.document = None /\ op \notin Kinds
  BY <1>0, BillingAssumption DEF BillingGood, BillingReadWell, Bill!AllKinds, Bill!Dated,
     Bill!Savers
<1>2. billing' = [billing EXCEPT ![r] = q]
      /\ UNCHANGED <<order, documents, next, date, bills, overlaps>>
  BY <1>0 DEF Bill!BeginSaver
<1>3. /\ q \in Bill!Request /\ q.phase = "read" /\ q.op = op /\ q.document = None
      /\ q.after = Bill!Done /\ q.order = entity
  BY <1>0, <1>1 DEF Bill!Request
<1> HIDE DEF q
<1>4. BillingReadWell(q) /\ BillingInsertsUnseen(q) /\ SawRow(q) /\ SawInvoiced(q)
  BY <1>1, <1>3 DEF BillingReadWell, BillingInsertsUnseen, SawRow, SawInvoiced, Bill!Savers
<1>5. ~Bill!BillsMissed /\ ~Bill!DeliveriesMissed /\ order.status = "delivered" =>
        order.delivered = Ordered
  BY <1>0, BillingAssumption DEF BillingInv, InQuantity, Bill!Order, Bill!Quantities
<1>6. SawDelivered(q)
  BY <1>3, <1>5 DEF SawDelivered, Bill!Savers
<1> QED
  BY <1>0, <1>1, <1>2, <1>3, <1>4, <1>6, BillingReadKeeps DEF BillingGood

LEMMA BeginDeliverKeeps ==
  ASSUME BillingInv, NEW r \in Requests, NEW m, NEW quantity \in [Lines -> 0..m],
         Bill!BeginDeliver(r, quantity)
  PROVE  BillingInv'
<1> DEFINE delivered == [l \in Lines |-> order.delivered[l] + quantity[l]]
           status    == IF delivered = Ordered THEN "delivered" ELSE "partially_delivered"
           entity    == [order EXCEPT !.delivered = delivered, !.status = status]
<1>0. order \in Bill!Order /\ Bill!BeginSaver(r, "deliver", entity)
      /\ \A l \in Lines : order.delivered[l] + quantity[l] <= Ordered[l]
  BY DEF Bill!BeginDeliver, BillingInv, Bill!TypeOK
<1>1. \A l \in Lines : quantity[l] \in Nat /\ order.delivered[l] \in Nat
  BY <1>0 DEF Bill!Order, Bill!Quantities
<1>2. /\ delivered \in Bill!Quantities
      /\ \A l \in Lines : order.delivered[l] <= delivered[l] /\ delivered[l] <= Ordered[l]
  BY <1>0, <1>1 DEF Bill!Quantities
<1>3. status \in Bill!Statuses /\ (status = "delivered" => delivered = Ordered)
  BY DEF Bill!Statuses
<1> HIDE DEF delivered, status
<1>4. /\ entity \in Bill!Order /\ entity.delivered = delivered /\ entity.status = status
      /\ entity.invoiced = order.invoiced
  BY <1>0, <1>2, <1>3 DEF Bill!Order
<1> HIDE DEF entity
<1> QED
  BY <1>0, <1>2, <1>3, <1>4, BeginSaverKeeps DEF Bill!Savers

LEMMA BeginSaveKeeps ==
  ASSUME BillingInv, NEW r \in Requests, NEW status \in Bill!Statuses, Bill!BeginSave(r, status)
  PROVE  BillingInv'
<1> DEFINE entity == [order EXCEPT !.status = status]
<1>0. /\ order \in Bill!Order /\ Bill!BeginSaver(r, "save", entity)
      /\ status = "delivered" => order.status = "delivered"
  BY DEF Bill!BeginSave, BillingInv, Bill!TypeOK
<1>1. /\ entity \in Bill!Order /\ entity.delivered = order.delivered /\ entity.status = status
      /\ entity.invoiced = order.invoiced
  BY <1>0 DEF Bill!Order
<1> HIDE DEF entity
<1> QED
  BY <1>0, <1>1, BeginSaverKeeps DEF Bill!Savers

LEMMA LoadOrderKeeps ==
  ASSUME BillingInv, NEW r \in Requests, Bill!LoadOrder(r)
  PROVE  BillingInv'
<1> DEFINE i == billing[r]
           q == [i EXCEPT !.phase = "ready", !.status = order.status]
<1>0. i \in Bill!Request /\ i.phase = "read" /\ i.op \in Bill!Savers /\ BillingGood(i)
      /\ order.status \in Bill!Statuses
      /\ billing \in [Requests -> Bill!Request] /\ next \in Nat \ {0} /\ date \in 0..Today
      /\ UNCHANGED <<order, documents, next, date, bills, overlaps>>
  BY DEF Bill!LoadOrder, BillingInv, Bill!TypeOK, Bill!Order
<1>1. i.document = None /\ i.op \notin Kinds
  BY <1>0, BillingAssumption DEF BillingGood, BillingReadWell, Bill!AllKinds, Bill!Dated,
     Bill!Savers
<1>2. billing' = [billing EXCEPT ![r] = q]
  BY <1>0 DEF Bill!LoadOrder
<1>3. /\ q \in Bill!Request /\ q.phase = "ready" /\ q.op = i.op /\ q.document = None
      /\ q.after = i.after /\ q.order = i.order /\ q.status = order.status
  BY <1>0, <1>1 DEF Bill!Request
<1> HIDE DEF q
<1>4. BilledSince(q) = BilledSince(i) /\ DeliveredSince(q) = DeliveredSince(i)
  BY <1>3 DEF BilledSince, DeliveredSince
<1>5. BillingReadWell(q) /\ BillingInsertsUnseen(q) /\ SawRow(q)
  BY <1>0, <1>1, <1>3 DEF BillingGood, BillingReadWell, BillingInsertsUnseen, SawRow, Bill!Savers
<1>6. SawInvoiced(q) /\ SawDelivered(q)
  BY <1>0, <1>3, <1>4 DEF BillingGood, SawInvoiced, SawDelivered
<1> QED
  BY <1>0, <1>1, <1>2, <1>3, <1>5, <1>6, BillingReadKeeps DEF BillingGood

LEMMA IdleKeeps ==
  ASSUME BillingInv, UNCHANGED <<order, documents, billing, bills, overlaps>>, next' \in Nat \ {0},
         date' \in 0..Today
  PROVE  BillingInv'
<1>1. Bill!Done' = Bill!Done /\ \A id : Writers(id)' = Writers(id)
  BY DEF Bill!Done, Writers
<1>2. /\ AllBilled' = AllBilled /\ InQuantity' = InQuantity
      /\ Bill!BillsMissed' = Bill!BillsMissed /\ Bill!DeliveriesMissed' = Bill!DeliveriesMissed
  BY DEF AllBilled, InQuantity, Billed, Bill!BillsMissed, Bill!DeliveriesMissed, Bill!Missed
<1>3. ASSUME NEW q, BillingGood(q) PROVE BillingGood(q)'
  <2>1. BilledSince(q)' = BilledSince(q) /\ DeliveredSince(q)' = DeliveredSince(q)
    BY <1>1 DEF BilledSince, DeliveredSince
  <2>2. SawInvoiced(q)' /\ SawDelivered(q)'
    BY <1>3, <1>2, <2>1 DEF BillingGood, SawInvoiced, SawDelivered
  <2>3. BillingReadWell(q)' /\ BillingInsertsUnseen(q)' /\ SawRow(q)'
    BY <1>1, <1>3 DEF BillingGood, BillingReadWell, BillingInsertsUnseen, Bill!OfKind, SawRow,
       WrittenSince
  <2> QED
    BY <2>2, <2>3 DEF BillingGood
<1>4. Bill!TypeOK' /\ BillingRowsAreNamed' /\ Bill!OneDocumentOfAKind'
  BY <1>1 DEF BillingInv, Bill!TypeOK, BillingRowsAreNamed, Bill!OneDocumentOfAKind, Bill!Overlapped
<1>5. Bill!FileBearsItsNumber'
  BY DEF BillingInv, Bill!FileBearsItsNumber, Bill!Overlapped
<1>6. \A R : Bill!Overlapped(R)' = Bill!Overlapped(R)
  BY DEF Bill!Overlapped
<1> QED
  BY <1>1, <1>3, <1>2, <1>4, <1>5, <1>6 DEF BillingInv

LEMMA BillingStep == ASSUME BillingInv, [Bill!Next]_Bill!vars PROVE BillingInv'
<1>0. next \in Nat \ {0} /\ date \in 0..Today
  BY DEF BillingInv, Bill!TypeOK
<1>1. CASE UNCHANGED Bill!vars
  BY <1>0, <1>1, IdleKeeps DEF Bill!vars
<1>2. CASE Bill!TimePasses
  BY <1>0, <1>2, IdleKeeps, BillingAssumption DEF Bill!TimePasses
<1> QED
  BY <1>1, <1>2, BeginGenerateKeeps, LookUpKeeps, GenerateKeeps, BeginSignKeeps, SignKeeps,
     BeginDeliverKeeps, BeginSaveKeeps, LoadOrderKeeps, SaveOrderKeeps DEF Bill!Next

LEMMA BillingInvariant == Bill!Spec => []BillingInv
BY BillingInit, BillingStep, PTL DEF Bill!Spec

\* The invoices of a line add up to what it is marked invoiced, unless what bills or
\* saves the order missed a bill, and no more than was delivered, unless what saves the
\* order missed a delivery.
THEOREM BilledOnce == Bill!Spec => []GoodsBilledOnce
<1>1. BillingInv => GoodsBilledOnce
  BY SameSums DEF BillingInv, AllBilled, InQuantity, Billed, GoodsBilledOnce, Bill!GoodsBilledOnce
<1> QED
  BY <1>1, BillingInvariant, PTL

\* An order has one document of a kind, unless two requests were inserting it at once.
THEOREM OneOfAKind == Bill!Spec => []OneDocumentOfAKind
<1>1. BillingInv => OneDocumentOfAKind
  BY DEF BillingInv, OneDocumentOfAKind
<1> QED
  BY <1>1, BillingInvariant, PTL

\* A document whose file bears another number was written by requests that overlapped.
THEOREM NumberOnFile == Bill!Spec => []FileBearsItsNumber
<1>1. BillingInv => FileBearsItsNumber
  BY DEF BillingInv, FileBearsItsNumber
<1> QED
  BY <1>1, BillingInvariant, PTL

-----------------------------------------------------------------------------
\* The portal.  The share links of an order are capabilities, and one only unless their
\* creations overlapped.

\* Only a creation that has committed has a link, in the table or expired.
LinksWereShared == links \subseteq Share!Shared /\ expired \subseteq Share!Shared

\* What was over when a request began is still over; and of the links made by then,
\* those in the table are ones the request has read.
HistoryIsPast == \A r \in Requests :
  /\ sharing[r].after \subseteq Share!Over
  /\ sharing[r].phase = "read" => links \cap sharing[r].after \subseteq sharing[r].seen

PortalInv == Share!TypeOK /\ LinksWereShared /\ HistoryIsPast /\ Share!LinksAloneUnlessOverlapping

LEMMA PortalInit == Share!Init => PortalInv
  BY DEF Share!Init, PortalInv, Share!TypeOK, Share!Request, LinksWereShared, Share!Shared,
     HistoryIsPast, Share!Over,
     Share!LinksAloneUnlessOverlapping

\* Every step keeps the invariant.
LEMMA PortalStep == ASSUME PortalInv, [Share!Next]_Share!vars PROVE PortalInv'
  <1> USE DEF Share!Request, Share!Shared, Share!Over
  <1>1. ASSUME NEW r \in Requests, NEW op \in {"share", "revoke", "view"},
               NEW l \in Requests \cup {None}, NEW p \in {"read", "notFound"},
               Share!Read(r, op, l, p)
        PROVE  PortalInv'
    <2>1. Share!TypeOK'
      BY <1>1 DEF PortalInv, Share!TypeOK, Share!Read
    <2>2. LinksWereShared' /\ HistoryIsPast' /\ Share!LinksAloneUnlessOverlapping'
      <3>1. r \notin Share!Shared
        BY <1>1 DEF Share!Read
      <3> QED
        BY <1>1, <3>1 DEF PortalInv, Share!TypeOK, LinksWereShared, HistoryIsPast,
           Share!LinksAloneUnlessOverlapping, Share!Read
    <2> QED BY <2>1, <2>2 DEF PortalInv
  <1>2. ASSUME NEW r \in Requests, Share!Share(r) PROVE PortalInv'
    <2>1. Share!TypeOK' /\ LinksWereShared'
      BY <1>2 DEF PortalInv, Share!TypeOK, LinksWereShared, Share!Share, Share!Commit
    <2>2. HistoryIsPast' /\ Share!LinksAloneUnlessOverlapping'
      BY <1>2 DEF PortalInv, Share!TypeOK, LinksWereShared, HistoryIsPast,
         Share!LinksAloneUnlessOverlapping, Share!Share, Share!Commit
    <2> QED BY <2>1, <2>2 DEF PortalInv
  <1>3. ASSUME NEW r \in Requests, Share!Revoke(r) PROVE PortalInv'
    <2>1. Share!TypeOK' /\ LinksWereShared'
      BY <1>3 DEF PortalInv, Share!TypeOK, LinksWereShared, Share!Revoke, Share!Commit
    <2>2. HistoryIsPast' /\ Share!LinksAloneUnlessOverlapping'
      BY <1>3 DEF PortalInv, Share!TypeOK, HistoryIsPast, Share!LinksAloneUnlessOverlapping,
         Share!Revoke, Share!Commit
    <2> QED BY <2>1, <2>2 DEF PortalInv
  <1>4. ASSUME NEW r \in Requests, Share!View(r) PROVE PortalInv'
    <2>1. Share!TypeOK' /\ LinksWereShared'
      BY <1>4 DEF PortalInv, Share!TypeOK, LinksWereShared, Share!View
    <2>2. HistoryIsPast' /\ Share!LinksAloneUnlessOverlapping'
      BY <1>4 DEF PortalInv, Share!TypeOK, HistoryIsPast, Share!LinksAloneUnlessOverlapping,
         Share!View
    <2> QED BY <2>1, <2>2 DEF PortalInv
  <1>5. ASSUME NEW l \in Requests, Share!LinkExpires(l) PROVE PortalInv'
    BY <1>5 DEF PortalInv, Share!TypeOK, LinksWereShared, HistoryIsPast,
       Share!LinksAloneUnlessOverlapping, Share!LinkExpires
  <1>6. CASE Share!DeleteOrder
    BY <1>6 DEF PortalInv, Share!TypeOK, LinksWereShared, HistoryIsPast,
       Share!LinksAloneUnlessOverlapping, Share!DeleteOrder
  <1>7. CASE UNCHANGED Share!vars
    BY <1>7 DEF PortalInv, Share!TypeOK, LinksWereShared, HistoryIsPast,
       Share!LinksAloneUnlessOverlapping, Share!vars
  <1>8. ASSUME NEW r \in Requests, Share!BeginShare(r) \/ Share!BeginRevoke(r) PROVE PortalInv'
    BY <1>1, <1>8 DEF Share!BeginShare, Share!BeginRevoke
  <1>9. ASSUME NEW r \in Requests, NEW l \in Requests, Share!BeginView(r, l) PROVE PortalInv'
    BY <1>1, <1>9 DEF Share!BeginView
  <1> QED BY <1>2, <1>3, <1>4, <1>5, <1>6, <1>7, <1>8, <1>9 DEF Share!Next

LEMMA PortalInvariant == Share!Spec => []PortalInv
  BY PortalInit, PortalStep, PTL DEF Share!Spec

\* Two links of one order are alive together only if their creations overlapped.
THEOREM LinksAlone == Share!Spec => []LinksAloneUnlessOverlapping
  <1>1. PortalInv => LinksAloneUnlessOverlapping
    BY DEF PortalInv, LinksAloneUnlessOverlapping
  <1> QED BY PortalInvariant, <1>1, PTL

-----------------------------------------------------------------------------
\* The table of links is a store of capabilities: every step issues one, revokes
\* some, lets a visitor in by one, or does nothing to them.
LEMMA StepIsCapability ==
  ASSUME PortalInv, [Share!Next]_Share!vars
  PROVE  [Share!Capabilities!Next]_<<Share!Usable, Share!Dead, Share!LetIn>>
  <1> USE DEF Share!Request, Share!Shared, Share!Visits, Share!Usable, Share!Dead, Share!LetIn
  <1>1. ASSUME NEW r \in Requests, Share!Share(r) PROVE Share!Capabilities!Issue(r, Share!Usable \cap sharing[r].seen)
    <2>1. r \notin Share!Shared /\ Share!Shared' = Share!Shared \cup {r} /\ Share!Visits' = Share!Visits
      BY <1>1 DEF PortalInv, Share!TypeOK, Share!Share, Share!Commit
    <2>2. r \notin links /\ r \notin expired
      BY <2>1 DEF PortalInv, LinksWereShared
    <2>3. UNCHANGED Share!LetIn
      BY <1>1, <2>1 DEF PortalInv, Share!TypeOK, Share!Share, Share!Commit
    <2>4. Share!Usable' = (Share!Usable \ (Share!Usable \cap sharing[r].seen)) \cup {r}
      BY <1>1, <2>2 DEF Share!Share, Share!Commit
    <2>5. Share!Dead' = Share!Dead \cup (Share!Usable \cap sharing[r].seen)
      BY <1>1, <2>1, <2>2 DEF PortalInv, LinksWereShared, Share!Share, Share!Commit
    <2> QED BY <2>2, <2>1, <2>3, <2>4, <2>5 DEF Share!Capabilities!Issue, Share!Capabilities!Gone
  <1>2. ASSUME NEW r \in Requests, Share!Revoke(r) PROVE Share!Capabilities!Revoke(Share!Usable \cap sharing[r].seen)
    <2>1. Share!Shared' = Share!Shared /\ Share!Visits' = Share!Visits
      BY <1>2 DEF PortalInv, Share!TypeOK, Share!Revoke, Share!Commit
    <2>2. UNCHANGED Share!LetIn
      BY <1>2, <2>1 DEF PortalInv, Share!TypeOK, Share!Revoke, Share!Commit
    <2>3. Share!Usable' = Share!Usable \ (Share!Usable \cap sharing[r].seen)
      BY <1>2 DEF Share!Revoke, Share!Commit
    <2>4. Share!Dead' = Share!Dead \cup (Share!Usable \cap sharing[r].seen)
      BY <1>2, <2>1 DEF PortalInv, LinksWereShared, Share!Revoke, Share!Commit
    <2> QED BY <2>2, <2>3, <2>4 DEF Share!Capabilities!Revoke, Share!Capabilities!Gone
  <1>3. ASSUME NEW l \in Requests, Share!LinkExpires(l) PROVE Share!Capabilities!Revoke({l})
    BY <1>3 DEF PortalInv, LinksWereShared, Share!LinkExpires, Share!Capabilities!Revoke,
       Share!Capabilities!Gone
  <1>4. ASSUME NEW r \in Requests, NEW l \in Requests, Share!BeginView(r, l), l \in Share!Usable
        PROVE  Share!Capabilities!Use(l, r)
    <2>1. Share!Shared' = Share!Shared /\ Share!Visits' = Share!Visits \cup {r} /\ r \notin Share!Visits
      BY <1>4 DEF PortalInv, Share!TypeOK, Share!BeginView, Share!Read
    <2>2. Share!LetIn' = Share!LetIn \cup {<<l, r>>}
      BY <1>4, <2>1 DEF PortalInv, Share!TypeOK, Share!BeginView, Share!Read
    <2> QED BY <1>4, <2>1, <2>2 DEF Share!BeginView, Share!Read, Share!Capabilities!Use
  <1>5. ASSUME NEW r \in Requests,
               \/ Share!BeginShare(r) \/ Share!BeginRevoke(r) \/ Share!View(r)
               \/ \E l \in Requests : Share!BeginView(r, l) /\ l \notin Share!Usable
        PROVE  UNCHANGED <<Share!Usable, Share!Dead, Share!LetIn>>
    <2>1. Share!Shared' = Share!Shared /\ Share!Visits' = Share!Visits
      BY <1>5 DEF PortalInv, Share!TypeOK, Share!BeginShare, Share!BeginRevoke, Share!BeginView,
         Share!View, Share!Read
    <2>2. \A v \in Share!Visits : sharing'[v].link = sharing[v].link
      BY <1>5 DEF PortalInv, Share!TypeOK, Share!BeginShare, Share!BeginRevoke, Share!BeginView,
         Share!View, Share!Read
    <2>3. UNCHANGED <<links, expired>>
      BY <1>5 DEF Share!BeginShare, Share!BeginRevoke, Share!BeginView, Share!View, Share!Read
    <2> QED BY <2>1, <2>2, <2>3
  <1>6. Share!DeleteOrder \/ UNCHANGED Share!vars => UNCHANGED <<Share!Usable, Share!Dead, Share!LetIn>>
    BY DEF Share!DeleteOrder, Share!vars
  <1>7. \A r \in Requests : Share!Usable \cap sharing[r].seen \in SUBSET Requests
    BY DEF PortalInv, Share!TypeOK
  <1> HIDE DEF Share!Request, Share!Shared, Share!Visits, Share!Usable, Share!Dead, Share!LetIn
  <1>8. ASSUME NEW r \in Requests, Share!Share(r) PROVE Share!Capabilities!Next
    BY <1>1, <1>7, <1>8 DEF Share!Capabilities!Next
  <1>9. ASSUME NEW r \in Requests, Share!Revoke(r) PROVE Share!Capabilities!Next
    BY <1>2, <1>7, <1>9 DEF Share!Capabilities!Next
  <1>10. ASSUME NEW l \in Requests, Share!LinkExpires(l) PROVE Share!Capabilities!Next
    BY <1>3, <1>10 DEF Share!Capabilities!Next
  <1>11. ASSUME NEW r \in Requests, NEW l \in Requests, Share!BeginView(r, l)
         PROVE  Share!Capabilities!Next \/ UNCHANGED <<Share!Usable, Share!Dead, Share!LetIn>>
    BY <1>4, <1>5, <1>11 DEF Share!Capabilities!Next
  <1> QED BY <1>5, <1>6, <1>8, <1>9, <1>10, <1>11 DEF Share!Next

\* A visitor is let in by a link that is live, and a link that was replaced, revoked
\* or has expired lets no one in again.
THEOREM LinksRefineCapability == Share!Spec => LinksAreCapabilities
  <1>1. Share!Init => Share!Capabilities!Init
    BY DEF Share!Init, Share!Capabilities!Init, Share!Usable, Share!Dead, Share!LetIn,
       Share!Shared, Share!Visits
  <1> QED
    BY <1>1, PortalInvariant, StepIsCapability, PTL
    DEF Share!Spec, LinksAreCapabilities, Share!LinksAreCapabilities, Share!Capabilities!Spec

-----------------------------------------------------------------------------
\* Purchases and stock.

ProcurementDone == {r \in Requests : buying[r].phase = "done"}
Under == {"read", "ready"}

\* An item is known by its key: only one request ever inserts it, with one quantity.
ItemsAreNamed ==
  /\ IsFiniteSet(lines)
  /\ \A x \in lines : x.quantity > 0 /\ x.by \in ProcurementDone \cup {None}
  /\ \A x, y \in lines : Buy!SameItem(x, y) => x = y
  /\ \A p \in Purchases : purchase[p] = None => Buy!Mine(p) = {}

\* What was read of the purchase order.
ReadPurchase(q) ==
  /\ IsFiniteSet(q.items) /\ (q.phase = "new" => q.items = {})
  /\ \A x \in q.items : x.of = q.on /\ x.by \in ProcurementDone \cup {None}
  /\ \A x, y \in q.items : Buy!SameItem(x, y) => x = y
  /\ \A x \in q.items, y \in lines : Buy!SameItem(x, y) => x.quantity = y.quantity
  /\ q.phase \in Under /\ q.op \in Buy!PurchaseOps => q.on \in Purchases
  /\ q.phase \in Under /\ q.op = "create" => purchase[q.on] = None
  /\ q.phase \in Under /\ q.op \in {"update", "confirm", "receive"} =>
       /\ q.purchase \in Buy!Purchase /\ purchase[q.on] # None
       /\ q.op = "update"  => q.purchase.status \in {"draft", "ordered"}
       /\ q.op = "confirm" => q.purchase.status = "draft"
       /\ q.saw[q.on] = version[q.on] => purchase[q.on] = q.purchase /\ Buy!Mine(q.on) = q.items

\* Nobody else has the source document, unless their purchase order was written since.
CheckedSource(q) ==
  q.phase = "ready" /\ q.op \in {"create", "update"} /\ q.source # None =>
    \A p \in Purchases \ {q.on} :
      q.saw[p] = version[p] /\ purchase[p] # None => purchase[p].source # q.source

\* What was read of the product.
HasProduct(q) == \/ q.phase \in Under /\ q.op \in Buy!ProductOps \cup {"adjust", "config"}
                 \/ q.phase = "ready" /\ q.op = "receive"
ReadStock(q) ==
  /\ HasProduct(q)
       => q.product \in Buy!Product /\ (q.saw[Buy!Stock] = version[Buy!Stock] => q.product = product)
  /\ q.phase = "ready" /\ q.op \in Buy!ProductOps
       => q.row \in Buy!Product /\ (q.saw[Buy!Stock] = version[Buy!Stock] => q.row = product)

ProcurementGood(q) == /\ \A x \in Buy!Rows : q.saw[x] <= version[x]
                      /\ ReadPurchase(q) /\ CheckedSource(q) /\ ReadStock(q)

\* A purchase order that is being created is nobody else's.
CreatesAlone ==
  \A r, s \in Requests :
    r # s /\ buying[r].op = "create" /\ buying[r].phase \in Under => buying[s].on # buying[r].on

\* The parts of the properties that are about one purchase order.
Closed(p) ==
  purchase[p] # None =>
    /\ Buy!Mine(p) # {}
    /\ purchase[p].status = "received" <=> \A x \in Buy!Mine(p) : x.received = x.quantity
    /\ purchase[p].status \in {"draft", "ordered"} => \A x \in Buy!Mine(p) : x.received = 0

ProcurementInv == /\ Buy!TypeOK /\ ItemsAreNamed
                  /\ \A r \in Requests : ProcurementGood(buying[r])
                  /\ CreatesAlone
                  /\ Buy!ReceivedWithinOrdered
                  /\ \A p \in Purchases \ stale : Closed(p)
                  /\ Buy!StockFollowsMovements
                  /\ Buy!SourceUsedOnce

\* The items of a body, as a request inserts them.
LEMMA ItemsOfFacts ==
  ASSUME NEW p \in Purchases, NEW r \in Requests \cup {None}, NEW body \in Bought
  PROVE  /\ IsFiniteSet(Buy!ItemsOf(p, r, body)) /\ Buy!ItemsOf(p, r, body) # {}
         /\ \A x \in Buy!ItemsOf(p, r, body) :
              x \in Buy!Item /\ x.of = p /\ x.by = r /\ x.quantity > 0 /\ x.received = 0
         /\ \A x, y \in Buy!ItemsOf(p, r, body) : Buy!SameItem(x, y) => x = y
<1> DEFINE it(i) == [of |-> p, by |-> r, position |-> i, quantity |-> body[i], received |-> 0]
<1>1. body \in Seq(Nat \ {0}) /\ body # << >>
  BY NoneAssumption, ProcurementAssumption
<1>2. /\ Len(body) \in Nat /\ DOMAIN body = 1..Len(body) /\ DOMAIN body # {}
      /\ \A i \in DOMAIN body : body[i] \in Nat \ {0} /\ i \in Nat
  <2>1. Len(body) \in Nat \ {0}
    BY <1>1, EmptySeq
  <2>2. body \in [1..Len(body) -> Nat \ {0}]
    BY <1>1, LenProperties
  <2>3. 1 \in 1..Len(body) /\ DOMAIN body = 1..Len(body)
    BY <2>1, <2>2
  <2> QED
    BY <2>1, <2>2, <2>3
<1>3. Buy!ItemsOf(p, r, body) = {it(i) : i \in DOMAIN body}
  BY DEF Buy!ItemsOf
<1>4. \A i \in DOMAIN body : /\ it(i) \in Buy!Item /\ it(i).of = p /\ it(i).by = r /\ it(i).position = i
                             /\ it(i).quantity > 0 /\ it(i).received = 0
  BY <1>2 DEF Buy!Item
<1>5. IsFiniteSet(DOMAIN body)
  BY <1>2, FS_Interval
<1> HIDE DEF it
<1>6. IsFiniteSet({it(i) : i \in DOMAIN body})
  <2> DEFINE f == [i \in DOMAIN body |-> it(i)]
  <2>1. {it(i) : i \in DOMAIN body} = {f[i] : i \in DOMAIN body}
    OBVIOUS
  <2> HIDE DEF f
  <2> QED
    BY <1>5, <2>1, FiniteImage
<1> QED
  BY <1>2, <1>3, <1>4, <1>6 DEF Buy!SameItem

LEMMA ProcurementInit == Buy!Init => ProcurementInv
<1> SUFFICES ASSUME Buy!Init PROVE ProcurementInv
  OBVIOUS
<1> USE NoneAssumption, ProcurementAssumption
<1>1. PICK b \in Bought : lines = Buy!ItemsOf(Sent, None, b)
  BY DEF Buy!Init
<1>2. /\ IsFiniteSet(lines) /\ lines # {}
      /\ \A x \in lines : x \in Buy!Item /\ x.of = Sent /\ x.by = None /\ x.quantity > 0 /\ x.received = 0
      /\ \A x, y \in lines : Buy!SameItem(x, y) => x = y
  BY <1>1, ItemsOfFacts
<1>3. \A r \in Requests : /\ buying[r].op = None /\ buying[r].phase = "new" /\ buying[r].items = {}
                          /\ buying[r].saw = [x \in Buy!Rows |-> 0] /\ buying[r] \in Buy!Request
  BY DEF Buy!Init, Buy!Request
<1>4. /\ version = [x \in Buy!Rows |-> 0] /\ moved = 0 /\ stale = {}
      /\ product \in Buy!Product /\ product.stock = 0
      /\ buying \in [Requests -> Buy!Request]
  BY <1>3 DEF Buy!Init, Buy!Product
<1>5. purchase \in [Purchases -> Buy!Purchase \cup {None}]
      /\ purchase[Sent].status = "ordered"
      /\ \A p \in Purchases : purchase[p] # None => p = Sent
  BY DEF Buy!Init, Buy!Purchase
<1>6. Buy!TypeOK
  BY <1>2, <1>4, <1>5 DEF Buy!TypeOK
<1>7. ItemsAreNamed
  BY <1>2, <1>5 DEF ItemsAreNamed, Buy!Mine, Buy!Init, Buy!Purchase
<1>8. ASSUME NEW r \in Requests PROVE ProcurementGood(buying[r])
  <2>1. IsFiniteSet(buying[r].items)
    BY <1>3, FS_EmptySet
  <2> QED
    BY <1>3, <1>4, <2>1 DEF ProcurementGood, ReadPurchase, CheckedSource, ReadStock, HasProduct,
       Under, Buy!PurchaseOps, Buy!ProductOps
<1>9. CreatesAlone
  BY <1>3 DEF CreatesAlone, Under
<1>10. \A p \in Purchases : Closed(p)
  BY <1>2, <1>5 DEF Closed, Buy!Mine, Buy!Item
<1>11. Buy!ReceivedWithinOrdered
  BY <1>2 DEF Buy!ReceivedWithinOrdered, Buy!Item
<1>12. Buy!SourceUsedOnce
  BY <1>5 DEF Buy!SourceUsedOnce
<1> QED
  BY <1>4, <1>6, <1>7, <1>8, <1>9, <1>10, <1>11, <1>12 DEF ProcurementInv, Buy!StockFollowsMovements

-----------------------------------------------------------------------------
(* A request reads, or fails: the tables stay.                             *)

tables == <<purchase, lines, product, moved, version, stale>>

LEMMA ProcurementReadKeeps ==
  ASSUME ProcurementInv, NEW r \in Requests, NEW q \in Buy!Request, buying[r].phase # "done",
         q.phase # "done",
         buying' = [buying EXCEPT ![r] = q], UNCHANGED tables, ProcurementGood(q),
         \/ q.on = buying[r].on
         \/ q.op # "create" /\ purchase[q.on] # None
         \/ \A s \in Requests : buying[s].on # q.on,
         q.op = "create" /\ q.phase \in Under /\ q.on = buying[r].on =>
           (buying[r].op = "create" /\ buying[r].phase \in Under) \/ \A s \in Requests : buying[s].on # q.on
  PROVE  ProcurementInv'
<1>0. UNCHANGED <<purchase, lines, product, moved, version, stale>>
  BY DEF tables
<1>1. \A s \in Requests : buying'[s] = IF s = r THEN q ELSE buying[s]
  BY DEF ProcurementInv, Buy!TypeOK
<1>2. ProcurementDone' = ProcurementDone
  BY <1>1 DEF ProcurementDone
<1>3. Buy!TypeOK'
  BY <1>0 DEF ProcurementInv, Buy!TypeOK
<1>4. ItemsAreNamed'
  BY <1>0, <1>2 DEF ProcurementInv, ItemsAreNamed, Buy!Mine
<1>5. \A i : ProcurementGood(i) => ProcurementGood(i)'
  BY <1>0, <1>2 DEF ProcurementGood, ReadPurchase, CheckedSource, ReadStock, HasProduct, Buy!Mine
<1>6. \A s \in Requests : ProcurementGood(buying'[s])
  BY <1>1 DEF ProcurementInv
<1>7. \A s \in Requests : ProcurementGood(buying[s])'
  BY <1>5, <1>6
<1>8. CreatesAlone'
  <2> SUFFICES ASSUME NEW s \in Requests, NEW t \in Requests, s # t,
                      buying'[s].op = "create", buying'[s].phase \in Under, buying'[t].on = buying'[s].on
               PROVE  FALSE
    BY DEF CreatesAlone
  <2>1. CASE s # r /\ t # r
    BY <1>1, <2>1 DEF ProcurementInv, CreatesAlone
  <2>2. CASE s = r
    <3>1. q.op = "create" /\ q.phase \in Under /\ buying[t].on = q.on
      BY <1>1, <2>2
    <3> QED
      BY <2>2, <3>1 DEF ProcurementInv, CreatesAlone
  <2>3. CASE t = r
    <3>1. buying[s].op = "create" /\ buying[s].phase \in Under /\ q.on = buying[s].on
      BY <1>1, <2>3
    <3>2. purchase[buying[s].on] = None
      BY <3>1 DEF ProcurementInv, ProcurementGood, ReadPurchase
    <3> QED
      BY <2>3, <3>1, <3>2 DEF ProcurementInv, CreatesAlone
  <2> QED
    BY <2>1, <2>2, <2>3
<1>9. Buy!ReceivedWithinOrdered' /\ Buy!StockFollowsMovements' /\ Buy!SourceUsedOnce'
  BY <1>0 DEF ProcurementInv, Buy!ReceivedWithinOrdered, Buy!StockFollowsMovements,
     Buy!SourceUsedOnce
<1>10. \A p \in Purchases \ stale' : Closed(p)'
  BY <1>0 DEF ProcurementInv, Closed, Buy!Mine
<1> QED
  BY <1>3, <1>4, <1>7, <1>8, <1>9, <1>10 DEF ProcurementInv

-----------------------------------------------------------------------------
(* A request commits, and writes the rows W.                               *)

ProcurementCommits(r, W) == buying[r].phase \in Under /\ Buy!Committed(r, W)

LEMMA ProcurementCommitFacts ==
  ASSUME ProcurementInv, NEW r \in Requests, NEW W \in SUBSET Buy!Rows, ProcurementCommits(r, W)
  PROVE  /\ \A s \in Requests : /\ s # r => buying'[s] = buying[s]
                                /\ buying'[s].phase = IF s = r THEN "done" ELSE buying[s].phase
                                /\ buying'[s].op = buying[s].op /\ buying'[s].on = buying[s].on
                                /\ buying'[s].purchase = buying[s].purchase
                                /\ buying'[s].items = buying[s].items
                                /\ buying'[s].source = buying[s].source
                                /\ buying'[s].product = buying[s].product
                                /\ buying'[s].row = buying[s].row /\ buying'[s].saw = buying[s].saw
         /\ r \notin ProcurementDone /\ ProcurementDone' = ProcurementDone \cup {r}
         /\ buying' \in [Requests -> Buy!Request]
         /\ version' \in [Buy!Rows -> Nat]
         /\ \A x \in Buy!Rows : version'[x] = IF x \in W THEN version[x] + 1 ELSE version[x]
         /\ stale \subseteq stale' /\ stale' \subseteq Buy!Rows
         /\ \A x \in W \ stale' :
              /\ buying[r].saw[x] = version[x]
              /\ buying[r].source # None => \A p \in Purchases : buying[r].saw[p] = version[p]
<1>0. buying \in [Requests -> Buy!Request] /\ version \in [Buy!Rows -> Nat] /\ stale \subseteq Buy!Rows
  BY DEF ProcurementInv, Buy!TypeOK
<1>1. \A s \in Requests : /\ s # r => buying'[s] = buying[s]
                          /\ buying'[s].phase = IF s = r THEN "done" ELSE buying[s].phase
                          /\ buying'[s].op = buying[s].op /\ buying'[s].on = buying[s].on
                          /\ buying'[s].purchase = buying[s].purchase
                          /\ buying'[s].items = buying[s].items
                          /\ buying'[s].source = buying[s].source
                          /\ buying'[s].product = buying[s].product
                          /\ buying'[s].row = buying[s].row /\ buying'[s].saw = buying[s].saw
  BY <1>0 DEF ProcurementCommits, Buy!Committed, Buy!Request
<1>2. r \notin ProcurementDone /\ ProcurementDone' = ProcurementDone \cup {r}
  BY <1>1 DEF ProcurementCommits, ProcurementDone, Under
<1>3. buying' \in [Requests -> Buy!Request]
  <2> DEFINE d == [buying[r] EXCEPT !.phase = "done"]
  <2>1. d \in Buy!Request
    BY <1>0 DEF Buy!Request
  <2>2. buying' = [buying EXCEPT ![r] = d]
    BY DEF ProcurementCommits, Buy!Committed
  <2> HIDE DEF d
  <2> QED
    BY <1>0, <2>1, <2>2
<1>4. /\ version' \in [Buy!Rows -> Nat]
      /\ \A x \in Buy!Rows : version'[x] = IF x \in W THEN version[x] + 1 ELSE version[x]
  BY <1>0 DEF ProcurementCommits, Buy!Committed
<1> DEFINE passed == {x \in Buy!Rows : buying[r].saw[x] # version[x]}
<1>5. stale' = stale \cup (IF buying[r].source # None /\ passed \cap Purchases # {}
                             THEN W ELSE W \cap passed)
  BY DEF ProcurementCommits, Buy!Committed
<1>6. stale \subseteq stale' /\ stale' \subseteq Buy!Rows
  BY <1>0, <1>5
<1>7. \A x \in W \ stale' :
        /\ buying[r].saw[x] = version[x]
        /\ buying[r].source # None => \A p \in Purchases : buying[r].saw[p] = version[p]
  BY <1>5 DEF Buy!Rows
<1> QED
  BY <1>1, <1>2, <1>3, <1>4, <1>6, <1>7

\* What the writer of a purchase order owes the invariant.
LEMMA ProcurementCommitKeeps ==
  ASSUME ProcurementInv, NEW r \in Requests, NEW W \in SUBSET Buy!Rows, W \subseteq {buying[r].on, Buy!Stock}, ProcurementCommits(r, W),
         purchase' \in [Purchases -> Buy!Purchase \cup {None}], lines' \subseteq Buy!Item,
         product' \in Buy!Product, moved' \in Int,
         \A p \in Purchases \ W : purchase'[p] = purchase[p] /\ Buy!Mine(p)' = Buy!Mine(p),
         Buy!Stock \notin W => UNCHANGED <<product, moved>>,
         \A p \in Purchases : purchase[p] # None => purchase'[p] # None,
         \A p \in Purchases \cap W : purchase'[p] # None,
         IsFiniteSet(lines'),
         \A y \in lines' : /\ y.quantity > 0 /\ y.received <= y.quantity
                           /\ y.by = r \/ \E x \in lines : Buy!SameItem(x, y) /\ x.quantity = y.quantity,
         \A x, y \in lines' : Buy!SameItem(x, y) => x = y,
         \A p \in (Purchases \cap W) \ stale' : Closed(p)',
         \A p \in (Purchases \cap W) \ stale', q \in Purchases \ stale :
           p # q /\ purchase'[p].source # None /\ purchase[q] # None
             => purchase[q].source # purchase'[p].source,
         Buy!Stock \in W \ stale' /\ product.stock = moved => product'.stock = moved'
  PROVE  ProcurementInv'
<1> USE ProcurementCommitFacts
<1>0. ProcurementDone \subseteq Requests /\ None \notin Requests /\ Buy!Stock \notin Purchases
      /\ Buy!Rows = Purchases \cup {Buy!Stock} /\ None \notin Purchases
  BY NoneAssumption, ProcurementAssumption DEF ProcurementDone, Buy!Rows
<1>1. Buy!TypeOK'
  BY DEF ProcurementInv, Buy!TypeOK
<1>2. ItemsAreNamed'
  <2>1. \A y \in lines' : y.by \in ProcurementDone' \cup {None}
    BY DEF ProcurementInv, ItemsAreNamed, Buy!SameItem
  <2>2. \A p \in Purchases : purchase'[p] = None => Buy!Mine(p)' = {}
    BY DEF ProcurementInv, ItemsAreNamed
  <2> QED
    BY <2>1, <2>2 DEF ItemsAreNamed
<1>3. ASSUME NEW s \in Requests, s # r PROVE ProcurementGood(buying[s])'
  <2> DEFINE q == buying[s]
  <2>0. q' = q /\ ProcurementGood(q) /\ q \in Buy!Request
    BY <1>3 DEF ProcurementInv, Buy!TypeOK
  <2>1. \A x \in Buy!Rows : q.saw[x] \in Nat /\ version[x] \in Nat /\ q.saw[x] <= version[x]
    BY <2>0 DEF ProcurementGood, Buy!Request, ProcurementInv, Buy!TypeOK
  <2>2. \A x \in Buy!Rows : q.saw[x] <= version'[x] /\ (x \in W => q.saw[x] # version'[x])
    BY <2>1
  <2>3. ReadPurchase(q)'
    <3>1. \A x \in q.items : \A y \in lines' : Buy!SameItem(x, y) => x.quantity = y.quantity
      <4> SUFFICES ASSUME NEW x \in q.items, NEW y \in lines', Buy!SameItem(x, y)
                   PROVE  x.quantity = y.quantity
        OBVIOUS
      <4>1. x.by # r
        BY <1>0, <2>0 DEF ProcurementGood, ReadPurchase
      <4>2. PICK z \in lines : Buy!SameItem(z, y) /\ z.quantity = y.quantity
        BY <4>1 DEF Buy!SameItem
      <4>3. Buy!SameItem(x, z)
        BY <4>2 DEF Buy!SameItem
      <4> QED
        BY <2>0, <4>2, <4>3 DEF ProcurementGood, ReadPurchase
    <3>2. ASSUME q.phase \in Under, q.op = "create" PROVE purchase'[q.on] = None
      <4>1. q.on \in Purchases /\ purchase[q.on] = None
        BY <2>0, <3>2 DEF ProcurementGood, ReadPurchase, Buy!PurchaseOps
      <4>2. q.on \notin W
        BY <1>0, <1>3, <3>2, <4>1 DEF ProcurementInv, CreatesAlone
      <4> QED
        BY <4>1, <4>2
    <3>3. ASSUME q.phase \in Under, q.op \in {"update", "confirm", "receive"},
                 NEW p \in Purchases, p = q.on
          PROVE  /\ purchase'[p] # None
                 /\ q.saw[p] = version'[p] => purchase'[p] = q.purchase /\ Buy!Mine(p)' = q.items
      <4>1. /\ purchase[p] # None
            /\ q.saw[p] = version[p] => purchase[p] = q.purchase /\ Buy!Mine(p) = q.items
        BY <2>0, <3>3 DEF ProcurementGood, ReadPurchase
      <4>2. CASE p \in W
        <5>1. q.saw[p] # version'[p]
          BY <1>0, <2>2, <4>2
        <5> QED
          BY <4>1, <5>1
      <4>3. CASE p \notin W
        <5>1. Buy!Mine(p)' = Buy!Mine(p) /\ purchase'[p] = purchase[p] /\ version'[p] = version[p]
          BY <1>0, <4>3
        <5> QED
          BY <4>1, <5>1
      <4> QED
        BY <4>2, <4>3
    <3>4. q.phase \in Under /\ q.op \in {"update", "confirm", "receive"} => q.on \in Purchases
      BY <2>0 DEF ProcurementGood, ReadPurchase, Buy!PurchaseOps
    <3> QED
      BY <2>0, <3>1, <3>2, <3>3, <3>4 DEF ProcurementGood, ReadPurchase, Buy!Mine
  <2>4. CheckedSource(q)'
    BY <1>0, <2>0, <2>2 DEF ProcurementGood, CheckedSource
  <2>5. ReadStock(q)'
    BY <1>0, <2>0, <2>2 DEF ProcurementGood, ReadStock, HasProduct
  <2> QED
    BY <2>0, <2>2, <2>3, <2>4, <2>5 DEF ProcurementGood
<1>4. ProcurementGood(buying[r])'
  <2> DEFINE q == buying[r]
  <2>0. ProcurementGood(q) /\ q \in Buy!Request /\ q'.phase = "done" /\ q'.items = q.items
        /\ q'.saw = q.saw /\ q'.on = q.on
    BY DEF ProcurementInv, Buy!TypeOK
  <2>1. \A x \in Buy!Rows : q.saw[x] \in Nat /\ version[x] \in Nat /\ q.saw[x] <= version[x]
    BY <2>0 DEF ProcurementGood, Buy!Request, ProcurementInv, Buy!TypeOK
  <2>2. \A x \in Buy!Rows : q.saw[x] <= version'[x]
    BY <2>1
  <2>3. \A x \in q.items : \A y \in lines' : Buy!SameItem(x, y) => x.quantity = y.quantity
    <3> SUFFICES ASSUME NEW x \in q.items, NEW y \in lines', Buy!SameItem(x, y)
                 PROVE  x.quantity = y.quantity
      OBVIOUS
    <3>1. x.by # r
      BY <1>0, <2>0 DEF ProcurementGood, ReadPurchase
    <3>2. PICK z \in lines : Buy!SameItem(z, y) /\ z.quantity = y.quantity
      BY <3>1 DEF Buy!SameItem
    <3>3. Buy!SameItem(x, z)
      BY <3>2 DEF Buy!SameItem
    <3> QED
      BY <2>0, <3>2, <3>3 DEF ProcurementGood, ReadPurchase
  <2> QED
    BY <2>0, <2>2, <2>3 DEF ProcurementGood, ReadPurchase, CheckedSource, ReadStock, HasProduct,
       Under
<1>5. CreatesAlone'
  BY DEF ProcurementInv, CreatesAlone, Under
<1>6. Buy!ReceivedWithinOrdered'
  BY DEF Buy!ReceivedWithinOrdered
<1>7. ASSUME NEW p \in Purchases \ stale' PROVE Closed(p)'
  <2>1. CASE p \in W
    BY <2>1
  <2>2. CASE p \notin W
    <3>1. Closed(p) /\ purchase'[p] = purchase[p] /\ Buy!Mine(p)' = Buy!Mine(p)
      BY <2>2 DEF ProcurementInv
    <3> QED
      BY <3>1 DEF Closed
  <2> QED
    BY <2>1, <2>2
<1>8. Buy!StockFollowsMovements'
  BY <1>0 DEF ProcurementInv, Buy!StockFollowsMovements
<1>9. Buy!SourceUsedOnce'
  <2> SUFFICES ASSUME NEW p \in Purchases \ stale', NEW q \in Purchases \ stale', p # q,
                      purchase'[p] # None, purchase'[q] # None, purchase'[p].source # None,
                      purchase'[p].source = purchase'[q].source
               PROVE  FALSE
    BY DEF Buy!SourceUsedOnce
  <2>1. p \notin W \/ q \notin W
    BY <1>0
  <2>2. CASE p \notin W /\ q \notin W
    BY <2>2 DEF ProcurementInv, Buy!SourceUsedOnce
  <2>3. CASE p \in W /\ q \notin W
    BY <2>3
  <2>4. CASE p \notin W /\ q \in W
    BY <2>4
  <2> QED
    BY <2>1, <2>2, <2>3, <2>4
<1>10. \A s \in Requests : ProcurementGood(buying[s])'
  BY <1>3, <1>4
<1> QED
  BY <1>1, <1>2, <1>5, <1>6, <1>7, <1>8, <1>9, <1>10 DEF ProcurementInv

-----------------------------------------------------------------------------
(* Rows that are updated where the new one differs from the one read.      *)

LEMMA ChangedPurchase ==
  ASSUME NEW row \in Buy!Purchase, NEW seen \in Buy!Purchase, NEW new \in Buy!Purchase
  PROVE  /\ Buy!Changed(row, seen, new) \in Buy!Purchase
         /\ row = seen => Buy!Changed(row, seen, new) = new
         /\ new.source = seen.source => Buy!Changed(row, seen, new).source = row.source
         /\ new.status = seen.status => Buy!Changed(row, seen, new).status = row.status
<1>1. DOMAIN row = {"status", "source"} /\ DOMAIN new = {"status", "source"}
  BY DEF Buy!Purchase
<1>2. /\ Buy!Changed(row, seen, new).status = IF new.status # seen.status THEN new.status ELSE row.status
      /\ Buy!Changed(row, seen, new).source = IF new.source # seen.source THEN new.source ELSE row.source
  BY <1>1 DEF Buy!Changed
<1>3. Buy!Changed(row, seen, new) = [status |-> Buy!Changed(row, seen, new).status,
                                     source |-> Buy!Changed(row, seen, new).source]
  BY <1>1 DEF Buy!Changed
<1>4. new = [status |-> new.status, source |-> new.source]
  BY DEF Buy!Purchase
<1> QED
  BY <1>2, <1>3, <1>4 DEF Buy!Purchase

LEMMA ChangedProduct ==
  ASSUME NEW row \in Buy!Product, NEW seen \in Buy!Product, NEW new \in Buy!Product
  PROVE  /\ Buy!Changed(row, seen, new) \in Buy!Product
         /\ row = seen => Buy!Changed(row, seen, new).stock = new.stock
         /\ Buy!Changed(row, seen, new).stock = IF new.stock # seen.stock THEN new.stock ELSE row.stock
<1>1. DOMAIN row = {"track_stock", "stock", "active", "is_deleted"}
  BY DEF Buy!Product
<1> DEFINE now(f) == IF new[f] # seen[f] THEN new[f] ELSE row[f]
<1>2. Buy!Changed(row, seen, new) = [track_stock |-> now("track_stock"), stock |-> now("stock"),
                                     active |-> now("active"), is_deleted |-> now("is_deleted")]
  BY <1>1 DEF Buy!Changed
<1>3. now("track_stock") \in BOOLEAN /\ now("stock") \in Nat /\ now("active") \in BOOLEAN
      /\ now("is_deleted") \in BOOLEAN
  BY DEF Buy!Product
<1>4. now("stock") = IF new.stock # seen.stock THEN new.stock ELSE row.stock
  OBVIOUS
<1> HIDE DEF now
<1> QED
  BY <1>2, <1>3, <1>4 DEF Buy!Product

-----------------------------------------------------------------------------
(* The commits.                                                            *)

LEMMA ProcurementCreateKeeps ==
  ASSUME ProcurementInv, NEW r \in Requests, NEW body \in Bought, Buy!CreatePurchase(r, body)
  PROVE  ProcurementInv'
<1> DEFINE p == buying[r].on
           new == Buy!ItemsOf(p, r, body)
           row == [status |-> "draft", source |-> buying[r].source]
<1>0. /\ buying[r] \in Buy!Request /\ ProcurementGood(buying[r]) /\ buying[r].op = "create"
      /\ buying[r].phase = "ready"
      /\ purchase \in [Purchases -> Buy!Purchase \cup {None}] /\ lines \subseteq Buy!Item
      /\ product \in Buy!Product /\ moved \in Int
  BY DEF Buy!CreatePurchase, Buy!Ending, ProcurementInv, Buy!TypeOK
<1>1. p \in Purchases /\ purchase[p] = None /\ Buy!Mine(p) = {}
  BY <1>0 DEF ProcurementGood, ReadPurchase, Under, Buy!PurchaseOps, ProcurementInv, ItemsAreNamed
<1>2. row \in Buy!Purchase /\ row.source = buying[r].source /\ row.status = "draft" /\ row # None
  BY <1>0, NoneAssumption, ProcurementAssumption DEF Buy!Purchase, Buy!Request
<1>3. /\ IsFiniteSet(new) /\ new # {}
      /\ \A x \in new : x \in Buy!Item /\ x.of = p /\ x.by = r /\ x.quantity > 0 /\ x.received = 0
      /\ \A x, y \in new : Buy!SameItem(x, y) => x = y
  BY <1>1, ItemsOfFacts
<1>4. /\ purchase' = [purchase EXCEPT ![p] = row] /\ lines' = lines \cup new
      /\ UNCHANGED <<product, moved>> /\ ProcurementCommits(r, {p}) /\ {p} \in SUBSET Buy!Rows
      /\ Buy!Stock \notin {p}
  BY <1>0, <1>1, NoneAssumption, ProcurementAssumption
  DEF Buy!CreatePurchase, ProcurementCommits, Under, Buy!Rows
<1> HIDE DEF row, new
<1>5. \A q \in Purchases : purchase'[q] = IF q = p THEN row ELSE purchase[q]
  BY <1>0, <1>4
<1>6. Buy!Mine(p)' = new /\ \A q \in Purchases \ {p} : Buy!Mine(q)' = Buy!Mine(q)
  <2>1. \A q \in Purchases \ {p} : Buy!Mine(q)' = Buy!Mine(q)
    BY <1>3, <1>4 DEF Buy!Mine
  <2>2. {x \in lines' : x.of = p} = new
    BY <1>1, <1>3, <1>4 DEF Buy!Mine
  <2>3. buying'[r].on = p
    BY <1>4, ProcurementCommitFacts
  <2> QED
    BY <2>1, <2>2, <2>3 DEF Buy!Mine
<1>7. \A y \in lines' : /\ y.quantity > 0 /\ y.received <= y.quantity
                        /\ y.by = r \/ \E x \in lines : Buy!SameItem(x, y) /\ x.quantity = y.quantity
  BY <1>3, <1>4 DEF ProcurementInv, ItemsAreNamed, Buy!ReceivedWithinOrdered, Buy!SameItem, Buy!Item
<1>8. \A x, y \in lines' : Buy!SameItem(x, y) => x = y
  <2>1. \A x \in lines, y \in new : ~Buy!SameItem(x, y) /\ ~Buy!SameItem(y, x)
    BY <1>3, <1>4, ProcurementCommitFacts, NoneAssumption, ProcurementAssumption
    DEF ProcurementInv, ItemsAreNamed, Buy!SameItem
  <2> QED
    BY <1>3, <1>4, <2>1 DEF ProcurementInv, ItemsAreNamed
<1>9. ASSUME NEW q \in Purchases, q = p PROVE Closed(q)'
  <2>1. Buy!Mine(q)' = new
    BY <1>6, <1>9, <1>4, ProcurementCommitFacts DEF Buy!Mine
  <2>2. purchase'[q].status = "draft"
    BY <1>2, <1>5, <1>9
  <2> QED
    BY <1>3, <2>1, <2>2 DEF Closed, Buy!Item
<1>10. p \notin stale' /\ buying[r].source # None =>
         \A q \in Purchases \ {p} : purchase[q] # None => purchase[q].source # buying[r].source
  BY <1>0, <1>1, <1>4, ProcurementCommitFacts DEF ProcurementGood, CheckedSource
<1>11. IsFiniteSet(lines') /\ lines' \subseteq Buy!Item
  BY <1>0, <1>3, <1>4, FS_Union DEF ProcurementInv, ItemsAreNamed
<1>12. purchase' \in [Purchases -> Buy!Purchase \cup {None}]
  BY <1>0, <1>2, <1>4
<1> HIDE DEF p
<1>13. Purchases \cap {p} = {p} /\ {p} \subseteq {buying[r].on, Buy!Stock}
  BY <1>1 DEF p
<1>14. \A q \in Purchases \ {p} : purchase'[q] = purchase[q] /\ Buy!Mine(q)' = Buy!Mine(q)
  BY <1>5, <1>6
<1>15. /\ \A q \in Purchases : purchase[q] # None => purchase'[q] # None
       /\ \A q \in Purchases \cap {p} : purchase'[q] # None
  BY <1>1, <1>2, <1>5
<1>16. \A q \in (Purchases \cap {p}) \ stale' : Closed(q)'
  BY <1>9
<1>17. \A q \in (Purchases \cap {p}) \ stale', o \in Purchases \ stale :
         q # o /\ purchase'[q].source # None /\ purchase[o] # None
           => purchase[o].source # purchase'[q].source
  BY <1>2, <1>5, <1>10
<1> QED
  BY <1>0, <1>4, <1>7, <1>8, <1>11, <1>12, <1>13, <1>14, <1>15, <1>16, <1>17, ProcurementCommitKeeps

LEMMA UpdateKeeps ==
  ASSUME ProcurementInv, NEW r \in Requests, NEW body \in Bought, Buy!UpdatePurchase(r, body)
  PROVE  ProcurementInv'
<1> DEFINE q == buying[r]
<1>0. /\ q \in Buy!Request /\ ProcurementGood(q) /\ q.op = "update" /\ q.phase = "ready"
      /\ purchase \in [Purchases -> Buy!Purchase \cup {None}] /\ lines \subseteq Buy!Item
      /\ product \in Buy!Product /\ moved \in Int
  BY DEF Buy!UpdatePurchase, Buy!Ending, ProcurementInv, Buy!TypeOK
<1>1. PICK p \in Purchases : p = q.on
  BY <1>0 DEF ProcurementGood, ReadPurchase, Under, Buy!PurchaseOps
<1> DEFINE new  == Buy!ItemsOf(p, r, body)
           kept == {x \in lines : \A y \in q.items : ~Buy!SameItem(x, y)}
           row  == [q.purchase EXCEPT !.source = q.source]
<1>2. /\ q.purchase \in Buy!Purchase /\ purchase[p] # None /\ q.purchase.status \in {"draft", "ordered"}
      /\ q.saw[p] = version[p] => purchase[p] = q.purchase /\ Buy!Mine(p) = q.items
  BY <1>0, <1>1 DEF ProcurementGood, ReadPurchase, Under
<1>3. row \in Buy!Purchase /\ row.source = q.source /\ row.status = q.purchase.status
  BY <1>0, <1>2 DEF Buy!Purchase, Buy!Request
<1>4. /\ IsFiniteSet(new) /\ new # {}
      /\ \A x \in new : x \in Buy!Item /\ x.of = p /\ x.by = r /\ x.quantity > 0 /\ x.received = 0
      /\ \A x, y \in new : Buy!SameItem(x, y) => x = y
  BY <1>1, ItemsOfFacts
<1>5. /\ purchase' = [purchase EXCEPT ![p] = Buy!Changed(purchase[p], q.purchase, row)]
      /\ lines' = kept \cup new /\ UNCHANGED <<product, moved>>
      /\ ProcurementCommits(r, {p}) /\ {p} \in SUBSET Buy!Rows /\ Buy!Stock \notin {p}
  BY <1>0, <1>1, NoneAssumption, ProcurementAssumption
  DEF Buy!UpdatePurchase, ProcurementCommits, Under, Buy!Rows
<1> HIDE DEF row, new
<1>6. /\ Buy!Changed(purchase[p], q.purchase, row) \in Buy!Purchase
      /\ purchase[p] = q.purchase => Buy!Changed(purchase[p], q.purchase, row) = row
  BY <1>0, <1>2, <1>3, ChangedPurchase
<1>7. /\ \A o \in Purchases \ {p} : purchase'[o] = purchase[o]
      /\ purchase'[p] \in Buy!Purchase /\ purchase'[p] # None
      /\ purchase[p] = q.purchase => purchase'[p] = row
  BY <1>0, <1>5, <1>6, NoneAssumption, ProcurementAssumption
<1>8. \A o \in Purchases \ {p} : Buy!Mine(o)' = Buy!Mine(o)
  <2>1. \A y \in q.items : y.of = p
    BY <1>0, <1>1 DEF ProcurementGood, ReadPurchase
  <2>2. \A x \in lines : x.of # p => x \in kept
    BY <2>1 DEF Buy!SameItem
  <2> QED
    BY <1>4, <1>5, <2>2 DEF Buy!Mine
<1>9. ASSUME p \notin stale' PROVE Buy!Mine(p)' = new
  <2>1. Buy!Mine(p) = q.items
    BY <1>2, <1>5, <1>9, ProcurementCommitFacts
  <2>2. \A x \in lines : x.of = p => x \notin kept
    BY <2>1 DEF Buy!Mine, Buy!SameItem
  <2> QED
    BY <1>4, <1>5, <2>2 DEF Buy!Mine
<1>10. \A y \in lines' : /\ y.quantity > 0 /\ y.received <= y.quantity
                         /\ y.by = r \/ \E x \in lines : Buy!SameItem(x, y) /\ x.quantity = y.quantity
  BY <1>4, <1>5 DEF ProcurementInv, ItemsAreNamed, Buy!ReceivedWithinOrdered, Buy!SameItem, Buy!Item
<1>11. \A x, y \in lines' : Buy!SameItem(x, y) => x = y
  <2>1. \A x \in lines, y \in new : ~Buy!SameItem(x, y) /\ ~Buy!SameItem(y, x)
    BY <1>4, <1>5, ProcurementCommitFacts, NoneAssumption, ProcurementAssumption
    DEF ProcurementInv, ItemsAreNamed, Buy!SameItem
  <2> QED
    BY <1>4, <1>5, <2>1 DEF ProcurementInv, ItemsAreNamed
<1>12. p \notin stale' => Closed(p)'
  <2> SUFFICES ASSUME p \notin stale' PROVE Closed(p)'
    OBVIOUS
  <2>1. purchase'[p].status \in {"draft", "ordered"}
    BY <1>2, <1>3, <1>5, <1>7, ProcurementCommitFacts
  <2> QED
    BY <1>4, <1>9, <2>1 DEF Closed, Buy!Item
<1>13. p \notin stale' /\ purchase'[p].source # None =>
         \A o \in Purchases \ {p} : purchase[o] # None => purchase[o].source # purchase'[p].source
  <2> SUFFICES ASSUME p \notin stale', purchase'[p].source # None,
                      NEW o \in Purchases \ {p}, purchase[o] # None
               PROVE  purchase[o].source # purchase'[p].source
    OBVIOUS
  <2>1. purchase'[p].source = q.source
    BY <1>2, <1>3, <1>5, <1>7, ProcurementCommitFacts
  <2>2. q.saw[o] = version[o]
    BY <1>5, <2>1, ProcurementCommitFacts
  <2> QED
    BY <1>0, <1>1, <2>1, <2>2 DEF ProcurementGood, CheckedSource
<1>14. IsFiniteSet(lines') /\ lines' \subseteq Buy!Item
  <2>1. IsFiniteSet(kept)
    BY FS_Subset DEF ProcurementInv, ItemsAreNamed
  <2> QED
    BY <1>0, <1>4, <1>5, <2>1, FS_Union
<1>15. purchase' \in [Purchases -> Buy!Purchase \cup {None}]
  BY <1>0, <1>5, <1>6
<1>16. Purchases \cap {p} = {p} /\ {p} \subseteq {q.on, Buy!Stock}
  BY <1>1
<1> QED
  BY <1>0, <1>1, <1>5, <1>7, <1>8, <1>10, <1>11, <1>12, <1>13, <1>14, <1>15, <1>16,
     ProcurementCommitKeeps

LEMMA ConfirmKeeps ==
  ASSUME ProcurementInv, NEW r \in Requests, Buy!ConfirmPurchase(r)
  PROVE  ProcurementInv'
<1> DEFINE q == buying[r]
<1>0. /\ q \in Buy!Request /\ ProcurementGood(q) /\ q.op = "confirm" /\ q.phase = "read"
      /\ purchase \in [Purchases -> Buy!Purchase \cup {None}] /\ lines \subseteq Buy!Item
      /\ product \in Buy!Product /\ moved \in Int
  BY DEF Buy!ConfirmPurchase, Buy!Ending, ProcurementInv, Buy!TypeOK
<1>1. PICK p \in Purchases : p = q.on
  BY <1>0 DEF ProcurementGood, ReadPurchase, Under, Buy!PurchaseOps
<1> DEFINE row == [purchase[p] EXCEPT !.status = "ordered"]
<1>2. /\ purchase[p] # None /\ q.purchase.status = "draft"
      /\ q.saw[p] = version[p] => purchase[p] = q.purchase
  BY <1>0, <1>1 DEF ProcurementGood, ReadPurchase, Under
<1>3. purchase[p] \in Buy!Purchase /\ row \in Buy!Purchase /\ row.source = purchase[p].source
      /\ row.status = "ordered" /\ row # None
  BY <1>0, <1>2, NoneAssumption, ProcurementAssumption DEF Buy!Purchase
<1>4. /\ purchase' = [purchase EXCEPT ![p] = row] /\ UNCHANGED <<lines, product, moved>>
      /\ ProcurementCommits(r, {p}) /\ {p} \in SUBSET Buy!Rows /\ Buy!Stock \notin {p}
  BY <1>0, <1>1, NoneAssumption, ProcurementAssumption
  DEF Buy!ConfirmPurchase, ProcurementCommits, Under, Buy!Rows
<1> HIDE DEF row
<1>5. \A o \in Purchases : purchase'[o] = IF o = p THEN row ELSE purchase[o]
  BY <1>0, <1>4
<1>6. \A o \in Purchases : Buy!Mine(o)' = Buy!Mine(o)
  BY <1>4 DEF Buy!Mine
<1>7. \A y \in lines' : /\ y.quantity > 0 /\ y.received <= y.quantity
                        /\ y.by = r \/ \E x \in lines : Buy!SameItem(x, y) /\ x.quantity = y.quantity
  BY <1>4 DEF ProcurementInv, ItemsAreNamed, Buy!ReceivedWithinOrdered, Buy!SameItem
<1>8. p \notin stale' => Closed(p)'
  <2> SUFFICES ASSUME p \notin stale' PROVE Closed(p)'
    OBVIOUS
  <2>1. Closed(p) /\ purchase[p].status = "draft"
    BY <1>2, <1>4, ProcurementCommitFacts DEF ProcurementInv
  <2>2. \A x \in Buy!Mine(p) : x.received = 0 /\ x.quantity > 0
    BY <1>2, <2>1 DEF Closed, Buy!Mine, ProcurementInv, ItemsAreNamed
  <2> QED
    BY <1>2, <1>3, <1>5, <1>6, <2>1, <2>2 DEF Closed
<1>9. p \notin stale' /\ purchase'[p].source # None =>
         \A o \in Purchases \ stale : p # o /\ purchase[o] # None => purchase[o].source # purchase'[p].source
  BY <1>2, <1>3, <1>4, <1>5, ProcurementCommitFacts DEF ProcurementInv, Buy!SourceUsedOnce
<1>10. IsFiniteSet(lines') /\ \A x, y \in lines' : Buy!SameItem(x, y) => x = y
  BY <1>4 DEF ProcurementInv, ItemsAreNamed
<1>11. purchase' \in [Purchases -> Buy!Purchase \cup {None}]
  BY <1>0, <1>3, <1>4
<1>12. Purchases \cap {p} = {p} /\ {p} \subseteq {q.on, Buy!Stock}
  BY <1>1
<1> QED
  BY <1>0, <1>1, <1>3, <1>4, <1>5, <1>6, <1>7, <1>8, <1>9, <1>10, <1>11, <1>12,
     ProcurementCommitKeeps

\* A reception, of what it has read.
LEMMA ReceiptKeeps ==
  ASSUME ProcurementInv, NEW r \in Requests, Buy!Ending(r, "receive", "ready"),
         NEW receipt \in Buy!Receipts(buying[r].items), Buy!ReceiptWrites(r, receipt)
  PROVE  ProcurementInv'
<1> DEFINE q        == buying[r]
           seen     == q.items
           received == SumFunctionOnSet(receipt, seen)
           status   == IF Buy!Complete(seen, receipt) THEN "received" ELSE "partially_received"
           Was(y)   == CHOOSE x \in seen : Buy!SameItem(x, y)
           Now(y)   == IF \E x \in seen : Buy!SameItem(x, y) /\ receipt[x] > 0
                         THEN [y EXCEPT !.received = Was(y).received + receipt[Was(y)]]
                         ELSE y
<1>0. /\ q \in Buy!Request /\ ProcurementGood(q) /\ q.op = "receive" /\ q.phase = "ready"
      /\ purchase \in [Purchases -> Buy!Purchase \cup {None}] /\ lines \subseteq Buy!Item
      /\ product \in Buy!Product /\ moved \in Int /\ seen \subseteq Buy!Item
  BY DEF Buy!Ending, ProcurementInv, Buy!TypeOK, Buy!Request
<1>1. PICK p \in Purchases : p = q.on
  BY <1>0 DEF ProcurementGood, ReadPurchase, Under, Buy!PurchaseOps
<1>2. /\ q.purchase \in Buy!Purchase /\ purchase[p] # None
      /\ q.saw[p] = version[p] => purchase[p] = q.purchase /\ Buy!Mine(p) = seen
      /\ q.product \in Buy!Product /\ (q.saw[Buy!Stock] = version[Buy!Stock] => q.product = product)
      /\ IsFiniteSet(seen) /\ \A x \in seen : x.of = p
      /\ \A x, y \in seen : Buy!SameItem(x, y) => x = y
      /\ \A x \in seen, y \in lines : Buy!SameItem(x, y) => x.quantity = y.quantity
  BY <1>0, <1>1 DEF ProcurementGood, ReadPurchase, ReadStock, HasProduct, Under
<1>3. \A x \in seen : /\ receipt[x] \in Nat /\ x.received \in Nat /\ x.quantity \in Nat
                      /\ x.received + receipt[x] <= x.quantity
  <2> DEFINE m == Buy!Max({x.quantity : x \in seen} \cup {0})
  <2>1. /\ receipt \in [seen -> 0..m]
        /\ \A x \in seen : x.received + receipt[x] <= x.quantity
    BY DEF Buy!Receipts
  <2> HIDE DEF m
  <2>2. \A x \in seen : receipt[x] \in Nat
    BY <2>1
  <2>3. \A x \in seen : x.received \in Nat /\ x.quantity \in Nat
    BY <1>0 DEF Buy!Item
  <2> HIDE DEF seen
  <2> QED
    BY <2>1, <2>2, <2>3
<1>4. received \in Nat
  BY <1>2, <1>3, SumType
<1>5. \A y \in lines, x \in seen : Buy!SameItem(x, y) => Was(y) = x
  <2> SUFFICES ASSUME NEW y \in lines, NEW x \in seen, Buy!SameItem(x, y) PROVE Was(y) = x
    OBVIOUS
  <2>1. \A z \in seen : Buy!SameItem(z, y) => Buy!SameItem(z, x)
    BY DEF Buy!SameItem
  <2> QED
    BY <1>2, <2>1
<1> HIDE DEF Was
<1>6. ASSUME NEW y \in lines
      PROVE  /\ Now(y) \in Buy!Item /\ Buy!SameItem(y, Now(y)) /\ Now(y).of = y.of
             /\ Now(y).quantity = y.quantity /\ Now(y).received <= y.quantity
             /\ \A x \in seen : Buy!SameItem(x, y) /\ receipt[x] > 0 => Now(y).received = x.received + receipt[x]
             /\ (\A x \in seen : Buy!SameItem(x, y) => receipt[x] = 0) => Now(y) = y
  <2>1. CASE \E x \in seen : Buy!SameItem(x, y) /\ receipt[x] > 0
    <3>1. PICK x \in seen : Buy!SameItem(x, y) /\ receipt[x] > 0
      BY <2>1
    <3>2. \A z \in seen : Buy!SameItem(z, y) => z = x
      BY <1>5, <3>1
    <3>3. Now(y) = [y EXCEPT !.received = x.received + receipt[x]]
      BY <1>5, <3>1
    <3>4. Now(y) \in Buy!Item /\ Now(y).received = x.received + receipt[x]
          /\ Now(y).of = y.of /\ Now(y).by = y.by /\ Now(y).position = y.position
          /\ Now(y).quantity = y.quantity
      BY <1>0, <1>3, <3>1, <3>3 DEF Buy!Item
    <3> HIDE DEF Now
    <3>5. x.quantity = y.quantity
      BY <1>2, <3>1
    <3> QED
      BY <1>3, <3>1, <3>2, <3>4, <3>5 DEF Buy!SameItem
  <2>2. CASE ~ \E x \in seen : Buy!SameItem(x, y) /\ receipt[x] > 0
    <3>1. Now(y) = y
      BY <2>2
    <3> HIDE DEF Now
    <3> QED
      BY <1>0, <2>2, <3>1 DEF ProcurementInv, Buy!ReceivedWithinOrdered, Buy!SameItem
  <2> QED
    BY <2>1, <2>2
<1>7. /\ lines' = {Now(y) : y \in lines}
      /\ purchase' = [purchase EXCEPT ![p] = Buy!Changed(purchase[p], q.purchase, [q.purchase EXCEPT !.status = status])]
      /\ product' = Buy!Changed(product, q.product,
                      [q.product EXCEPT !.track_stock = TRUE, !.stock = q.product.stock + received])
      /\ moved' = moved + received
      /\ ProcurementCommits(r, {p, Buy!Stock}) /\ {p, Buy!Stock} \in SUBSET Buy!Rows
  <2>1. lines' = {Now(y) : y \in lines}
    BY DEF Buy!ReceiptWrites, Was
  <2> HIDE DEF Now, seen
  <2> QED
    BY <1>0, <1>1, <2>1, SameSums DEF Buy!ReceiptWrites, ProcurementCommits, Under, Buy!Rows, seen
<1> HIDE DEF Now, received
<1> DEFINE row   == [q.purchase EXCEPT !.status = status]
           stock == [q.product EXCEPT !.track_stock = TRUE, !.stock = q.product.stock + received]
<1>8. row \in Buy!Purchase /\ row.source = q.purchase.source /\ row.status = status
  BY <1>2 DEF Buy!Purchase
<1>9. stock \in Buy!Product /\ stock.stock = q.product.stock + received
  <2>1. q.product \in Buy!Product /\ q.product.stock + received \in Nat
    BY <1>2, <1>4 DEF Buy!Product
  <2> QED
    BY <2>1 DEF Buy!Product
<1> HIDE DEF row, stock
<1>10. product' \in Buy!Product /\ moved' \in Int
       /\ (Buy!Stock \notin stale' /\ product.stock = moved => product'.stock = moved')
  <2>1. product' \in Buy!Product /\ (product = q.product => product'.stock = stock.stock)
    BY <1>0, <1>2, <1>7, <1>9, ChangedProduct DEF stock
  <2>2. Buy!Stock \notin stale' => product = q.product
    BY <1>2, <1>7, ProcurementCommitFacts
  <2> QED
    BY <1>0, <1>4, <1>7, <1>9, <2>1, <2>2
<1>11. /\ \A o \in Purchases \ {p} : purchase'[o] = purchase[o]
       /\ purchase'[p] \in Buy!Purchase /\ purchase'[p] # None
       /\ purchase'[p].source = purchase[p].source
       /\ purchase[p] = q.purchase => purchase'[p] = row
       /\ purchase' \in [Purchases -> Buy!Purchase \cup {None}]
  <2>1. purchase[p] \in Buy!Purchase
    BY <1>0, <1>2
  <2> DEFINE new == Buy!Changed(purchase[p], q.purchase, row)
  <2>2. new \in Buy!Purchase /\ new.source = purchase[p].source /\ (purchase[p] = q.purchase => new = row)
    BY <1>2, <1>8, <2>1, ChangedPurchase
  <2>3. purchase' = [purchase EXCEPT ![p] = new]
    BY <1>7 DEF row
  <2> HIDE DEF new
  <2> QED
    BY <1>0, <2>2, <2>3, NoneAssumption, ProcurementAssumption
<1>12. \A o \in Purchases \ {p} : Buy!Mine(o)' = Buy!Mine(o)
  <2>1. \A y \in lines : y.of # p => Now(y) = y
    BY <1>2, <1>6 DEF Buy!SameItem
  <2> QED
    BY <1>6, <1>7, <2>1 DEF Buy!Mine
<1>13. p \notin stale' => Closed(p)'
  <2> SUFFICES ASSUME p \notin stale' PROVE Closed(p)'
    OBVIOUS
  <2>1. purchase[p] = q.purchase /\ Buy!Mine(p) = seen /\ Closed(p)
    BY <1>2, <1>7, ProcurementCommitFacts DEF ProcurementInv
  <2>2. purchase'[p].status = status
    BY <1>8, <1>11, <2>1
  <2>3. \A y \in seen : Now(y).received = y.received + receipt[y] /\ Now(y).quantity = y.quantity
    <3> SUFFICES ASSUME NEW y \in seen
                 PROVE  Now(y).received = y.received + receipt[y] /\ Now(y).quantity = y.quantity
      OBVIOUS
    <3>1. y \in lines /\ Buy!SameItem(y, y) /\ \A x \in seen : Buy!SameItem(x, y) => x = y
      BY <1>2, <2>1 DEF Buy!Mine, Buy!SameItem
    <3>2. CASE receipt[y] > 0
      BY <1>6, <3>1, <3>2
    <3>3. CASE receipt[y] = 0
      <4>1. Now(y) = y
        BY <1>6, <3>1, <3>3
      <4> QED
        BY <1>3, <3>3, <4>1
    <3> QED
      BY <1>3, <3>2, <3>3
  <2>4. Buy!Mine(p)' = {Now(y) : y \in seen}
    BY <1>6, <1>7, <2>1 DEF Buy!Mine
  <2>5. Buy!Mine(p)' # {}
    BY <1>2, <2>1, <2>4 DEF Closed
  <2>6. Buy!Complete(seen, receipt) <=> \A x \in Buy!Mine(p)' : x.received = x.quantity
    BY <1>3, <2>3, <2>4 DEF Buy!Complete
  <2> QED
    BY <2>2, <2>5, <2>6 DEF Closed
<1>14. p \notin stale' /\ purchase'[p].source # None =>
         \A o \in Purchases \ stale : p # o /\ purchase[o] # None => purchase[o].source # purchase'[p].source
  BY <1>2, <1>7, <1>11, ProcurementCommitFacts DEF ProcurementInv, Buy!SourceUsedOnce
<1>15. IsFiniteSet(lines') /\ lines' \subseteq Buy!Item
  <2> DEFINE f == [y \in lines |-> Now(y)]
  <2>1. lines' = {f[y] : y \in lines}
    BY <1>7
  <2> HIDE DEF f
  <2>2. IsFiniteSet(lines')
    BY <2>1, FiniteImage DEF ProcurementInv, ItemsAreNamed
  <2> QED
    BY <1>6, <1>7, <2>2
<1>16. \A y \in lines' : /\ y.quantity > 0 /\ y.received <= y.quantity
                         /\ y.by = r \/ \E x \in lines : Buy!SameItem(x, y) /\ x.quantity = y.quantity
  BY <1>6, <1>7 DEF ProcurementInv, ItemsAreNamed
<1>17. \A x, y \in lines' : Buy!SameItem(x, y) => x = y
  <2> SUFFICES ASSUME NEW x \in lines, NEW y \in lines, Buy!SameItem(Now(x), Now(y))
               PROVE  x = y
    BY <1>7
  <2>1. Buy!SameItem(x, y)
    BY <1>6 DEF Buy!SameItem
  <2> QED
    BY <2>1 DEF ProcurementInv, ItemsAreNamed
<1> DEFINE W == {p, Buy!Stock}
<1>18. /\ Purchases \cap W = {p} /\ Purchases \ W = Purchases \ {p} /\ W \subseteq {q.on, Buy!Stock}
       /\ W \in SUBSET Buy!Rows /\ ProcurementCommits(r, W) /\ Buy!Stock \in W
  BY <1>1, <1>7, NoneAssumption, ProcurementAssumption
<1> HIDE DEF W
<1>19. /\ \A o \in Purchases \ W : purchase'[o] = purchase[o] /\ Buy!Mine(o)' = Buy!Mine(o)
       /\ \A o \in Purchases : purchase[o] # None => purchase'[o] # None
       /\ \A o \in Purchases \cap W : purchase'[o] # None
  BY <1>11, <1>12, <1>18
<1>20. /\ \A o \in (Purchases \cap W) \ stale' : Closed(o)'
       /\ \A x \in (Purchases \cap W) \ stale', o \in Purchases \ stale :
            x # o /\ purchase'[x].source # None /\ purchase[o] # None
              => purchase[o].source # purchase'[x].source
  BY <1>13, <1>14, <1>18
<1> QED
  BY <1>10, <1>11, <1>15, <1>16, <1>17, <1>18, <1>19, <1>20, ProcurementCommitKeeps

\* A commit that writes the product only.
LEMMA StockKeeps ==
  ASSUME ProcurementInv, NEW r \in Requests, ProcurementCommits(r, {Buy!Stock}),
         UNCHANGED <<purchase, lines>>,
         product' \in Buy!Product, moved' \in Int,
         Buy!Stock \notin stale' /\ product.stock = moved => product'.stock = moved'
  PROVE  ProcurementInv'
<1>1. {Buy!Stock} \in SUBSET Buy!Rows /\ Purchases \cap {Buy!Stock} = {}
      /\ Purchases \ {Buy!Stock} = Purchases
  BY NoneAssumption, ProcurementAssumption DEF Buy!Rows
<1>2. /\ purchase' \in [Purchases -> Buy!Purchase \cup {None}] /\ lines' \subseteq Buy!Item
      /\ IsFiniteSet(lines')
      /\ \A x, y \in lines' : Buy!SameItem(x, y) => x = y
  BY DEF ProcurementInv, Buy!TypeOK, ItemsAreNamed
<1>3. \A p \in Purchases : Buy!Mine(p)' = Buy!Mine(p)
  BY DEF Buy!Mine
<1>4. \A y \in lines' : /\ y.quantity > 0 /\ y.received <= y.quantity
                        /\ y.by = r \/ \E x \in lines : Buy!SameItem(x, y) /\ x.quantity = y.quantity
  BY DEF ProcurementInv, ItemsAreNamed, Buy!ReceivedWithinOrdered, Buy!SameItem
<1> QED
  BY <1>1, <1>2, <1>3, <1>4, ProcurementCommitKeeps

LEMMA WriteStockKeeps ==
  ASSUME ProcurementInv, NEW r \in Requests, buying[r].op \in {"adjust", "config"},
         buying[r].phase = "read",
         NEW new \in Buy!Product, NEW level \in Int, Buy!WriteStock(r, new, level),
         buying[r].product.stock = moved => new.stock = level
  PROVE  ProcurementInv'
<1>1. /\ buying[r].product \in Buy!Product /\ (buying[r].saw[Buy!Stock] = version[Buy!Stock] => buying[r].product = product)
      /\ product \in Buy!Product
  BY DEF ProcurementInv, Buy!TypeOK, ProcurementGood, ReadStock, HasProduct, Under
<1>2. /\ ProcurementCommits(r, {Buy!Stock}) /\ UNCHANGED <<purchase, lines>> /\ moved' = level
      /\ product' = Buy!Changed(product, buying[r].product, new) /\ {Buy!Stock} \in SUBSET Buy!Rows
  BY DEF Buy!WriteStock, ProcurementCommits, Under, Buy!Rows
<1>3. product' \in Buy!Product /\ (product = buying[r].product => product'.stock = new.stock)
  BY <1>1, <1>2, ChangedProduct
<1>4. Buy!Stock \notin stale' => buying[r].product = product
  BY <1>1, <1>2, ProcurementCommitFacts
<1> QED
  BY <1>2, <1>3, <1>4, StockKeeps

LEMMA AdjustKeeps ==
  ASSUME ProcurementInv, NEW r \in Requests, NEW delta \in Deltas, Buy!AdjustStock(r, delta)
  PROVE  ProcurementInv'
<1> DEFINE seen == buying[r].product
           new  == [seen EXCEPT !.stock = seen.stock + delta]
<1>1. /\ buying[r].op = "adjust" /\ buying[r].phase = "read" /\ seen \in Buy!Product /\ moved \in Int
      /\ delta \in Int /\ seen.stock + delta >= 0
  BY NoneAssumption, ProcurementAssumption
  DEF Buy!AdjustStock, Buy!Ending, ProcurementInv, Buy!TypeOK, ProcurementGood, ReadStock,
     HasProduct, Under
<1>2. new \in Buy!Product /\ new.stock = seen.stock + delta
  BY <1>1 DEF Buy!Product
<1>3. Buy!WriteStock(r, new, moved + delta)
  BY DEF Buy!AdjustStock
<1> HIDE DEF new
<1> QED
  BY <1>1, <1>2, <1>3, WriteStockKeeps DEF Buy!Product

LEMMA ConfigKeeps ==
  ASSUME ProcurementInv, NEW r \in Requests, NEW track \in BOOLEAN, NEW level \in Levels \cup {None},
         Buy!ConfigStock(r, track, level)
  PROVE  ProcurementInv'
<1> DEFINE seen == buying[r].product
           new  == [seen EXCEPT !.track_stock = track, !.stock = IF level = None THEN seen.stock ELSE level]
           to   == IF level = None THEN moved ELSE level
<1>1. /\ buying[r].op = "config" /\ buying[r].phase = "read" /\ seen \in Buy!Product /\ moved \in Int
      /\ level # None => level \in Nat
  BY NoneAssumption, ProcurementAssumption
  DEF Buy!ConfigStock, Buy!Ending, ProcurementInv, Buy!TypeOK, ProcurementGood, ReadStock,
     HasProduct, Under
<1>2. new \in Buy!Product /\ new.stock = (IF level = None THEN seen.stock ELSE level)
  BY <1>1 DEF Buy!Product
<1>3. Buy!WriteStock(r, new, to)
  BY DEF Buy!ConfigStock
<1>4. to \in Int
  BY <1>1
<1> HIDE DEF new
<1> QED
  BY <1>1, <1>2, <1>3, <1>4, WriteStockKeeps

\* An edit of the product writes its entity, with the stock it read, over the row: the
\* stock read and that of the row differ only when the request overlapped another.
LEMMA SaveProductKeeps ==
  ASSUME ProcurementInv, NEW r \in Requests, Buy!SaveProduct(r)
  PROVE  ProcurementInv'
<1> DEFINE q   == buying[r]
           new == Buy!AfterProduct(q.op, q.product)
<1>1. /\ q.op \in Buy!ProductOps /\ q.phase = "ready" /\ q.product \in Buy!Product
      /\ q.row \in Buy!Product
      /\ product \in Buy!Product /\ moved \in Int
      /\ q.saw[Buy!Stock] = version[Buy!Stock] => q.product = product /\ q.row = product
  BY DEF Buy!SaveProduct, ProcurementInv, Buy!TypeOK, ProcurementGood, ReadStock, HasProduct, Under
<1>2. new \in Buy!Product /\ new.stock = q.product.stock
  BY <1>1 DEF Buy!AfterProduct, Buy!ProductOps, Buy!Product
<1>3. /\ ProcurementCommits(r, {Buy!Stock}) /\ UNCHANGED <<purchase, lines, moved>>
      /\ {Buy!Stock} \in SUBSET Buy!Rows
      /\ product' = Buy!Changed(product, q.row, new)
  BY <1>1 DEF Buy!SaveProduct, ProcurementCommits, Under, Buy!Rows
<1> HIDE DEF new
<1>4. product' \in Buy!Product /\ (product = q.row => product'.stock = new.stock)
  BY <1>1, <1>2, <1>3, ChangedProduct
<1>5. Buy!Stock \notin stale' => q.product = product /\ q.row = product
  BY <1>1, <1>3, ProcurementCommitFacts
<1> QED
  BY <1>1, <1>2, <1>3, <1>4, <1>5, StockKeeps

-----------------------------------------------------------------------------
(* The steps that read, and the reception that fails.                      *)

LEMMA FailKeeps ==
  ASSUME ProcurementInv, NEW r \in Requests, buying[r].phase # "done",
         buying' = [buying EXCEPT ![r].phase = "failed"], UNCHANGED tables
  PROVE  ProcurementInv'
<1> DEFINE i == buying[r]
           q == [i EXCEPT !.phase = "failed"]
<1>0. i \in Buy!Request /\ buying \in [Requests -> Buy!Request] /\ ProcurementGood(i)
  BY DEF ProcurementInv, Buy!TypeOK
<1>1. buying' = [buying EXCEPT ![r] = q]
  BY <1>0
<1>2. /\ q \in Buy!Request /\ q.phase = "failed" /\ q.op = i.op /\ q.on = i.on /\ q.items = i.items
      /\ q.saw = i.saw
  BY <1>0 DEF Buy!Request
<1> HIDE DEF q
<1>3. ProcurementGood(q)
  BY <1>0, <1>2 DEF ProcurementGood, ReadPurchase, CheckedSource, ReadStock, HasProduct, Under
<1> QED
  BY <1>1, <1>2, <1>3, ProcurementReadKeeps DEF Under

LEMMA BeginCreateKeeps ==
  ASSUME ProcurementInv, NEW r \in Requests, NEW p \in Purchases, Buy!BeginCreate(r, p)
  PROVE  ProcurementInv'
<1> DEFINE i == buying[r]
           q == [i EXCEPT !.op = "create", !.phase = "read", !.on = p]
<1>0. i \in Buy!Request /\ buying \in [Requests -> Buy!Request] /\ ProcurementGood(i) /\ i.phase = "new"
      /\ purchase[p] = None /\ \A s \in Requests : buying[s].on # p
  BY DEF Buy!BeginCreate, ProcurementInv, Buy!TypeOK
<1>1. buying' = [buying EXCEPT ![r] = q] /\ UNCHANGED tables
  BY <1>0 DEF Buy!BeginCreate, tables
<1>2. /\ q \in Buy!Request /\ q.phase = "read" /\ q.op = "create" /\ q.on = p /\ q.items = i.items
      /\ q.saw = i.saw
  <2>1. q \in Buy!Request
    <3>1. i \in Buy!Request
      BY <1>0
    <3>2. "create" \in Buy!PurchaseOps \cup {"adjust", "config", None} \cup Buy!ProductOps
      BY DEF Buy!PurchaseOps
    <3> QED
      BY <3>1, <3>2 DEF Buy!Request
  <2>2. q.phase = "read" /\ q.op = "create" /\ q.on = p /\ q.items = i.items /\ q.saw = i.saw
    BY <1>0 DEF Buy!Request
  <2> QED
    BY <2>1, <2>2
<1> HIDE DEF q
<1>3. i.items = {}
  BY <1>0 DEF ProcurementGood, ReadPurchase
<1>4. ProcurementGood(q)
  BY <1>0, <1>2, <1>3 DEF ProcurementGood, ReadPurchase, CheckedSource, ReadStock, HasProduct,
     Buy!ProductOps
<1> QED
  BY <1>0, <1>1, <1>2, <1>4, ProcurementReadKeeps DEF Under

LEMMA LoadKeeps ==
  ASSUME ProcurementInv, NEW r \in Requests, NEW p \in Purchases, NEW op \in {"update", "confirm", "receive"},
         NEW suits, Buy!Load(r, op, p, suits),
         op = "update"  => purchase[p].status \in {"draft", "ordered"},
         op = "confirm" => purchase[p].status = "draft"
  PROVE  ProcurementInv'
<1> DEFINE i == buying[r]
           q == [i EXCEPT !.op = op, !.phase = "read", !.on = p, !.purchase = purchase[p],
                          !.items = Buy!Mine(p), !.saw = [i.saw EXCEPT ![p] = version[p]]]
<1>0. /\ i \in Buy!Request /\ buying \in [Requests -> Buy!Request] /\ ProcurementGood(i)
      /\ i.phase = "new"
      /\ purchase[p] # None /\ purchase[p] \in Buy!Purchase \cup {None} /\ lines \subseteq Buy!Item
      /\ version \in [Buy!Rows -> Nat] /\ p \in Buy!Rows
  BY DEF Buy!Load, ProcurementInv, Buy!TypeOK, Buy!Rows
<1>1. buying' = [buying EXCEPT ![r] = q] /\ UNCHANGED tables
  BY <1>0 DEF Buy!Load, tables
<1>2. i.saw \in [Buy!Rows -> Nat] /\ Buy!Mine(p) \subseteq Buy!Item
  BY <1>0 DEF Buy!Request, Buy!Mine
<1>3. /\ q \in Buy!Request /\ q.phase = "read" /\ q.op = op /\ q.on = p /\ q.items = Buy!Mine(p)
      /\ q.purchase = purchase[p] /\ q.saw = [i.saw EXCEPT ![p] = version[p]]
  BY <1>0, <1>2 DEF Buy!Request, Buy!PurchaseOps
<1> HIDE DEF q
<1>4. \A x \in Buy!Rows : q.saw[x] <= version[x]
  BY <1>0, <1>2, <1>3 DEF ProcurementGood
<1>5. IsFiniteSet(Buy!Mine(p))
  BY FS_Subset DEF ProcurementInv, ItemsAreNamed, Buy!Mine
<1>6. ProcurementGood(q)
  BY <1>0, <1>3, <1>4, <1>5 DEF ProcurementGood, ReadPurchase, CheckedSource, ReadStock,
     HasProduct, Buy!ProductOps,
     ProcurementInv, ItemsAreNamed, Buy!Mine
<1> QED
  BY <1>0, <1>1, <1>3, <1>6, ProcurementReadKeeps DEF Under

LEMMA ValidateKeeps ==
  ASSUME ProcurementInv, NEW r \in Requests, NEW d \in Documents \cup {None}, Buy!ValidateSource(r, d)
  PROVE  ProcurementInv'
<1> DEFINE i == buying[r]
           saw == [x \in Buy!Rows |-> IF x \in {i.on, Buy!Stock} THEN i.saw[x] ELSE version[x]]
           q == [i EXCEPT !.phase = "ready", !.source = d, !.saw = saw]
<1>0. /\ i \in Buy!Request /\ buying \in [Requests -> Buy!Request] /\ ProcurementGood(i)
      /\ i.phase = "read"
      /\ i.op \in {"create", "update"} /\ version \in [Buy!Rows -> Nat] /\ i.saw \in [Buy!Rows -> Nat]
  BY DEF Buy!ValidateSource, ProcurementInv, Buy!TypeOK, Buy!Request
<1>1. buying' = [buying EXCEPT ![r] = q] /\ UNCHANGED tables
  BY <1>0 DEF Buy!ValidateSource, tables
<1>2. /\ saw \in [Buy!Rows -> Nat] /\ \A x \in Buy!Rows : saw[x] <= version[x]
      /\ i.on \in Buy!Rows => saw[i.on] = i.saw[i.on]
  BY <1>0 DEF ProcurementGood
<1> HIDE DEF saw
<1>3. /\ q \in Buy!Request /\ q.phase = "ready" /\ q.op = i.op /\ q.on = i.on /\ q.items = i.items
      /\ q.purchase = i.purchase /\ q.saw = saw /\ q.source = d
  BY <1>0, <1>2 DEF Buy!Request
<1> HIDE DEF q
<1>4. i.on \in Purchases /\ i.on \in Buy!Rows
  BY <1>0 DEF ProcurementGood, ReadPurchase, Under, Buy!PurchaseOps, Buy!Rows
<1>5. CheckedSource(q)
  BY <1>0, <1>3 DEF CheckedSource, Buy!ValidateSource
<1>6. ProcurementGood(q)
  BY <1>0, <1>2, <1>3, <1>4, <1>5 DEF ProcurementGood, ReadPurchase, ReadStock, HasProduct,
     Buy!ProductOps, Under
<1> QED
  BY <1>0, <1>1, <1>3, <1>6, ProcurementReadKeeps DEF Under

\* A request reads the product; what it knows of a purchase order stays.
LEMMA SeesProduct ==
  ASSUME ProcurementInv, NEW r \in Requests, NEW q \in Buy!Request,
         buying' = [buying EXCEPT ![r] = q], UNCHANGED tables,
         \/ buying[r].phase = "new" /\ q.phase = "read" /\ q.op \in Buy!ProductOps \cup {"adjust", "config"}
         \/ /\ buying[r].phase = "read" /\ q.phase = "ready" /\ q.op = "receive" /\ buying[r].op = "receive"
            /\ q.purchase = buying[r].purchase,
         q.on = buying[r].on, q.items = buying[r].items, q.product = product,
         q.saw = [buying[r].saw EXCEPT ![Buy!Stock] = version[Buy!Stock]]
  PROVE  ProcurementInv'
<1>0. /\ buying[r] \in Buy!Request /\ ProcurementGood(buying[r]) /\ version \in [Buy!Rows -> Nat]
      /\ buying[r].saw \in [Buy!Rows -> Nat]
      /\ product \in Buy!Product /\ Buy!Stock \in Buy!Rows /\ Buy!Stock \notin Purchases
  BY NoneAssumption, ProcurementAssumption DEF ProcurementInv, Buy!TypeOK, Buy!Request, Buy!Rows
<1>1. /\ \A x \in Buy!Rows : q.saw[x] <= version[x]
      /\ q.saw[Buy!Stock] = version[Buy!Stock] /\ \A p \in Purchases : q.saw[p] = buying[r].saw[p]
  BY <1>0 DEF ProcurementGood, Buy!Rows
<1>2. ReadPurchase(q)
  BY <1>0, <1>1 DEF ProcurementGood, ReadPurchase, Under, Buy!PurchaseOps, Buy!ProductOps
<1>3. CheckedSource(q) /\ ReadStock(q)
  BY <1>0 DEF CheckedSource, ReadStock, HasProduct, Buy!ProductOps
<1> QED
  BY <1>0, <1>1, <1>2, <1>3, ProcurementReadKeeps DEF ProcurementGood, Buy!ProductOps

LEMMA ReadProductKeeps ==
  ASSUME ProcurementInv, NEW r \in Requests, Buy!ReadProduct(r)
  PROVE  ProcurementInv'
<1> DEFINE i == buying[r]
           q == [i EXCEPT !.phase = "ready", !.product = product,
                          !.saw = [i.saw EXCEPT ![Buy!Stock] = version[Buy!Stock]]]
<1>0. /\ i \in Buy!Request /\ buying \in [Requests -> Buy!Request] /\ i.phase = "read"
      /\ i.op = "receive"
      /\ version \in [Buy!Rows -> Nat] /\ i.saw \in [Buy!Rows -> Nat] /\ product \in Buy!Product
  BY DEF Buy!ReadProduct, Buy!Ending, ProcurementInv, Buy!TypeOK, Buy!Request
<1>1. buying' = [buying EXCEPT ![r] = q] /\ UNCHANGED tables
  BY <1>0 DEF Buy!ReadProduct, tables
<1>2. /\ q \in Buy!Request /\ q.phase = "ready" /\ q.op = "receive" /\ q.on = i.on /\ q.items = i.items
      /\ q.purchase = i.purchase /\ q.product = product
      /\ q.saw = [i.saw EXCEPT ![Buy!Stock] = version[Buy!Stock]]
  <2>1. [i.saw EXCEPT ![Buy!Stock] = version[Buy!Stock]] \in [Buy!Rows -> Nat]
    BY <1>0 DEF Buy!Rows
  <2> QED
    BY <1>0, <2>1 DEF Buy!Request
<1> HIDE DEF q
<1> QED
  BY <1>0, <1>1, <1>2, SeesProduct

LEMMA BeginProductKeeps ==
  ASSUME ProcurementInv, NEW r \in Requests, NEW op \in Buy!ProductOps \cup {"adjust", "config"},
         Buy!BeginStock(r, op) \/ Buy!BeginProduct(r, op)
  PROVE  ProcurementInv'
<1> DEFINE i == buying[r]
           q == [i EXCEPT !.op = op, !.phase = "read", !.product = product,
                          !.saw = [i.saw EXCEPT ![Buy!Stock] = version[Buy!Stock]]]
<1>0. /\ i \in Buy!Request /\ buying \in [Requests -> Buy!Request] /\ i.phase = "new"
      /\ version \in [Buy!Rows -> Nat] /\ i.saw \in [Buy!Rows -> Nat] /\ product \in Buy!Product
  BY DEF Buy!BeginStock, Buy!BeginProduct, ProcurementInv, Buy!TypeOK, Buy!Request
<1>1. buying' = [buying EXCEPT ![r] = q] /\ UNCHANGED tables
  BY <1>0 DEF Buy!BeginStock, Buy!BeginProduct, tables
<1>2. /\ q \in Buy!Request /\ q.phase = "read" /\ q.op = op /\ q.on = i.on /\ q.items = i.items
      /\ q.product = product /\ q.saw = [i.saw EXCEPT ![Buy!Stock] = version[Buy!Stock]]
  <2>1. [i.saw EXCEPT ![Buy!Stock] = version[Buy!Stock]] \in [Buy!Rows -> Nat]
    BY <1>0 DEF Buy!Rows
  <2>2. q \in Buy!Request
    BY <1>0, <2>1 DEF Buy!Request
  <2>3. /\ q.phase = "read" /\ q.op = op /\ q.on = i.on /\ q.items = i.items
        /\ q.product = product /\ q.saw = [i.saw EXCEPT ![Buy!Stock] = version[Buy!Stock]]
    BY <1>0 DEF Buy!Request
  <2> QED
    BY <2>2, <2>3
<1> HIDE DEF q
<1> QED
  BY <1>0, <1>1, <1>2, SeesProduct

LEMMA ReadAgainKeeps ==
  ASSUME ProcurementInv, NEW r \in Requests, Buy!ReadProductAgain(r)
  PROVE  ProcurementInv'
<1> DEFINE i == buying[r]
           q == [i EXCEPT !.phase = "ready", !.row = product]
<1>0. /\ i \in Buy!Request /\ buying \in [Requests -> Buy!Request] /\ i.phase = "read"
      /\ i.op \in Buy!ProductOps
      /\ product \in Buy!Product /\ ProcurementGood(i)
  BY DEF Buy!ReadProductAgain, ProcurementInv, Buy!TypeOK
<1>1. buying' = [buying EXCEPT ![r] = q] /\ UNCHANGED tables
  BY <1>0 DEF Buy!ReadProductAgain, tables
<1>2. /\ q \in Buy!Request /\ q.phase = "ready" /\ q.op = i.op /\ q.on = i.on /\ q.items = i.items
      /\ q.product = i.product /\ q.row = product /\ q.saw = i.saw /\ q.purchase = i.purchase
  BY <1>0 DEF Buy!Request
<1> HIDE DEF q
<1>3. ProcurementGood(q)
  BY <1>0, <1>2 DEF ProcurementGood, ReadPurchase, CheckedSource, ReadStock, HasProduct,
     Buy!ProductOps, Buy!PurchaseOps, Under
<1> QED
  BY <1>0, <1>1, <1>2, <1>3, ProcurementReadKeeps DEF Buy!ProductOps

LEMMA ProcurementStep == ASSUME ProcurementInv, [Buy!Next]_Buy!vars PROVE ProcurementInv'
<1>1. CASE UNCHANGED Buy!vars
  <2>0. UNCHANGED <<purchase, lines, product, buying, moved, version, stale>>
    BY <1>1 DEF Buy!vars
  <2>1. ProcurementDone' = ProcurementDone /\ \A p : Buy!Mine(p)' = Buy!Mine(p)
    BY <2>0 DEF ProcurementDone, Buy!Mine
  <2>2. \A q : ProcurementGood(q)' = ProcurementGood(q)
    BY <2>0, <2>1 DEF ProcurementGood, ReadPurchase, CheckedSource, ReadStock, HasProduct, Buy!Mine
  <2>3. Buy!TypeOK' /\ ItemsAreNamed' /\ CreatesAlone' /\ Buy!ReceivedWithinOrdered'
        /\ Buy!StockFollowsMovements'
        /\ Buy!SourceUsedOnce'
    BY <2>0, <2>1 DEF ProcurementInv, Buy!TypeOK, ItemsAreNamed, CreatesAlone,
       Buy!ReceivedWithinOrdered,
       Buy!StockFollowsMovements, Buy!SourceUsedOnce
  <2>4. \A p \in Purchases : Closed(p)' = Closed(p)
    BY <2>0, <2>1 DEF Closed
  <2> QED
    BY <2>0, <2>2, <2>3, <2>4 DEF ProcurementInv
<1>2. ASSUME NEW r \in Requests, NEW p \in Purchases,
             Buy!BeginUpdate(r, p) \/ Buy!BeginConfirm(r, p) \/ Buy!BeginReceive(r, p)
      PROVE  ProcurementInv'
  BY <1>2, LoadKeeps DEF Buy!BeginUpdate, Buy!BeginConfirm, Buy!BeginReceive, Buy!Load
<1>3. ASSUME NEW r \in Requests, Buy!ReceivePurchase(r)
      PROVE  ProcurementInv'
  <2>1. PICK receipt \in Buy!Receipts(buying[r].items) : Buy!ReceiptFails(r, receipt) \/ Buy!ReceiptWrites(r, receipt)
    BY <1>3 DEF Buy!ReceivePurchase
  <2>2. CASE Buy!ReceiptFails(r, receipt)
    BY <1>3, <2>2, FailKeeps DEF Buy!ReceiptFails, Buy!ReceivePurchase, Buy!Ending, tables
  <2>3. CASE Buy!ReceiptWrites(r, receipt)
    BY <1>3, <2>3, ReceiptKeeps DEF Buy!ReceivePurchase
  <2> QED
    BY <2>1, <2>2, <2>3
<1> QED
  BY <1>1, <1>2, <1>3, BeginCreateKeeps, ValidateKeeps, ProcurementCreateKeeps, UpdateKeeps,
     ConfirmKeeps,
     ReadProductKeeps, BeginProductKeeps, AdjustKeeps, ConfigKeeps, ReadAgainKeeps, SaveProductKeeps
     DEF Buy!Next

LEMMA ProcurementInvariant == Buy!Spec => []ProcurementInv
BY ProcurementInit, ProcurementStep, PTL DEF Buy!Spec

\* No line shows more received than ordered, and a purchase no two requests overlapped on
\* is closed when, and only when, all of it has come in.
THEOREM Closes == Buy!Spec => []ClosedWhenComplete
<1>1. ProcurementInv => ClosedWhenComplete
  BY DEF ProcurementInv, Closed, ClosedWhenComplete, Buy!ClosedWhenComplete
<1> QED
  BY <1>1, ProcurementInvariant, PTL

\* The stock is the sum of the movements, unless two requests overlapped on it.
THEOREM StockFollows == Buy!Spec => []StockFollowsMovements
<1>1. ProcurementInv => StockFollowsMovements
  BY DEF ProcurementInv, StockFollowsMovements
<1> QED
  BY <1>1, ProcurementInvariant, PTL

\* No two purchases have one source, but for one written on a check already outdated.
THEOREM SourceOnce == Buy!Spec => []SourceUsedOnce
<1>1. ProcurementInv => SourceUsedOnce
  BY DEF ProcurementInv, SourceUsedOnce
<1> QED
  BY <1>1, ProcurementInvariant, PTL

-----------------------------------------------------------------------------
\* Clients and suppliers.

Begun == {r \in Requests : dealing[r].op \in Deal!Creators}

\* A row is named after a request that is over, and is the only one of that name.
PartnersRowsAreNamed ==
  /\ \A c \in clients : c.id \in Deal!Done
  /\ \A c, d \in clients : c.id = d.id => c = d
  /\ \A s \in suppliers : s.id \in Deal!Done
  /\ \A s, t \in suppliers : s.id = t.id => s = t
  /\ \A o \in sales : o.id \in Deal!Done
  /\ \A o, p \in sales : o.id = p.id => o = p
  /\ meetings \subseteq Deal!Done \X Deal!Done

\* What a request has read is of its kind, and its client's row is still there.
PartnersReadWell(q) ==
  /\ q.after \subseteq Deal!Done
  /\ q.op \in {"updateClient", "deleteClient", "order", "convert", "fromClient"} =>
       q.client \in Deal!Client /\ \E c \in clients : c.id = q.client.id
  /\ q.op = "updateClient" => ~q.client.is_deleted
  /\ q.op \in {"updateClient", "deleteClient"} /\ q.phase = "ready" =>
       q.row \in Deal!Client /\ q.row.id = q.client.id
  /\ q.op = "asClient" => q.supplier \in Deal!Supplier
  /\ q.op \in {"createClient", "supplier"} => q.company \in Companies
  /\ q.op = "saveOrder" => q.order \in Deal!Order /\ q.order.id \in Deal!Done

\* The company of the supplier the request is about to insert.
Inserts(q) == \/ q.op = "supplier" /\ q.phase = "begun"
              \/ q.op = "fromClient" /\ q.phase = "ready" /\ q.supplier = None
Naming(q)  == IF q.op = "supplier" THEN q.company ELSE q.client

SameData(s, t) == s.phone = t.phone /\ s.name = t.name /\ s.email = t.email

\* Suppliers of that phone, or address, or name if names are compared, have been inserted
\* since the request began.
PartnersInsertsUnseen(q) ==
  Inserts(q) => \A s \in suppliers :
    Deal!SameContact(Naming(q), s) \/ (q.op = "supplier" /\ s.name = Naming(q).name)
      => s.id \notin q.after

Later(o) == \E p \in sales : p.client = o.client /\ p.nth > o.nth

\* The entity is open where the row no longer is, and has been closed since q read.
Loses(entity, row) == \/ entity.status = "active" /\ row.status # "active"
                      \/ ~entity.is_deleted /\ row.is_deleted
ShutBy(x, id) == /\ dealing[x].order # None /\ dealing[x].order.id = id
                 /\ ~Deal!Open(dealing[x].order)
ClosedSince(q) == \E x \in Deal!Done \ q.after : ShutBy(x, q.order.id)

SameOrder(o, p) == o.id = p.id /\ o.client = p.client /\ o.nth = p.nth

\* An order is as open as it was read, or has been closed since.
SawOpen(q) ==
  q.op = "saveOrder" /\ q.phase \in {"begun", "ready"} =>
    /\ \A o \in sales : o.id = q.order.id =>
         SameOrder(o, q.order) /\ (Loses(q.order, o) => ClosedSince(q))
    /\ q.phase = "ready" => /\ q.row \in Deal!Order /\ SameOrder(q.row, q.order)
                            /\ Loses(q.order, q.row) => ClosedSince(q)

\* The last order a deletion has checked was not active; others came since, or were
\* opened again.
ChecksLast(q) ==
  q.op = "deleteClient" /\ q.phase \in {"checked", "ready"} =>
    \A o \in sales : o.client = q.client.id /\ Deal!Open(o) =>
      Later(o) \/ Deal!ReopenedStale(o) \/ o.id \notin q.after

\* The deletion that the client of this id is deleted by, for good or until an update
\* that read it before brings it back.
DeletedBy(id, r) ==
  /\ dealing[r].op = "deleteClient" /\ dealing[r].phase = "done" /\ dealing[r].client.id = id
  /\ \A o \in sales : o.client = id /\ Deal!Open(o) =>
       \/ Later(o) \/ Deal!ReopenedStale(o)
       \/ Deal!Overlapped({r, o.id}) \/ (dealing[o.id].op = "convert" /\ r \in dealing[o.id].after)
  /\ \A s \in Requests : dealing[s].op = "order" /\ dealing[s].phase = "begun" /\ dealing[s].client.id = id
       => r \notin dealing[s].after

DeletionsAreMade == \A c \in clients : c.is_deleted => \E r \in Requests : DeletedBy(c.id, r)

PartnersGood(q) == PartnersReadWell(q) /\ PartnersInsertsUnseen(q) /\ SawOpen(q) /\ ChecksLast(q)

PartnersInv == /\ Deal!TypeOK /\ IsFiniteSet(Begun) /\ PartnersRowsAreNamed
               /\ \A r \in Requests : PartnersGood(dealing[r])
               /\ Deal!SuppliersAreDistinct
               /\ DeletionsAreMade

LEMMA PartnersInit == Deal!Init => PartnersInv
<1> SUFFICES ASSUME Deal!Init PROVE PartnersInv
  OBVIOUS
<1>1. Begun = {}
  BY PartnersAssumption DEF Deal!Init, Begun, Deal!Operations
<1>2. IsFiniteSet(Begun)
  BY <1>1, FS_EmptySet
<1>3. Deal!TypeOK
  BY DEF Deal!Init, Deal!TypeOK, Deal!Request
<1>4. ASSUME NEW r \in Requests PROVE PartnersGood(dealing[r])
  <2>1. dealing[r].op = None /\ dealing[r].after = {}
    BY DEF Deal!Init
  <2> QED
    BY <2>1, PartnersAssumption DEF PartnersGood, PartnersReadWell, PartnersInsertsUnseen, Inserts,
       SawOpen, ChecksLast, Deal!Operations, Deal!Creators
<1> QED
  BY <1>2, <1>3, <1>4 DEF Deal!Init, PartnersInv, PartnersRowsAreNamed, Deal!SuppliersAreDistinct,
     DeletionsAreMade

-----------------------------------------------------------------------------
\* What is over stays as it was.
LEMMA OverStaysOver ==
  ASSUME PartnersInv, Deal!Done \subseteq Deal!Done', meetings \subseteq meetings',
         \A s \in Deal!Done : dealing'[s] = dealing[s]
  PROVE  /\ \A q : ClosedSince(q) => ClosedSince(q)'
         /\ \A o : Deal!ReopenedStale(o) => Deal!ReopenedStale(o)'
         /\ \A R : Deal!Overlapped(R) => Deal!Overlapped(R)'
<1>1. ASSUME NEW q, ClosedSince(q) PROVE ClosedSince(q)'
  BY <1>1 DEF ClosedSince, ShutBy
<1>2. ASSUME NEW o, Deal!ReopenedStale(o) PROVE Deal!ReopenedStale(o)'
  <2>1. meetings \subseteq Deal!Done \X Deal!Done
    BY DEF PartnersInv, PartnersRowsAreNamed
  <2> QED
    BY <1>2, <2>1 DEF Deal!ReopenedStale
<1>3. ASSUME NEW R, Deal!Overlapped(R) PROVE Deal!Overlapped(R)'
  BY <1>3 DEF Deal!Overlapped
<1> QED
  BY <1>1, <1>2, <1>3

(* A request reads: the tables stay.                                       *)

LEMMA PartnersReadKeeps ==
  ASSUME PartnersInv, NEW r \in Requests, NEW q \in Deal!Request, dealing[r].phase # "done",
         q.phase # "new",
         dealing' = [dealing EXCEPT ![r] = q], UNCHANGED <<Deal!Tables, meetings>>, PartnersGood(q),
         q.op = "order" /\ q.phase = "begun" =>
           \A c \in clients : c.id = q.client.id => ~c.is_deleted \/ dealing[r] = q
  PROVE  PartnersInv'
<1>0. UNCHANGED <<clients, suppliers, sales, meetings>>
  BY DEF Deal!Tables
<1>1. \A s \in Requests : dealing'[s] = IF s = r THEN q ELSE dealing[s]
  BY DEF PartnersInv, Deal!TypeOK
<1>2. Deal!Done \subseteq Deal!Done' /\ \A s \in Deal!Done : s # r /\ dealing'[s] = dealing[s]
  BY <1>1 DEF Deal!Done
<1>3. IsFiniteSet(Begun')
  <2>1. Begun' \subseteq Begun \cup {r}
    BY <1>1 DEF Begun
  <2>2. IsFiniteSet(Begun \cup {r})
    BY FS_AddElement DEF PartnersInv
  <2> QED
    BY <2>1, <2>2, FS_Subset
<1>4. Deal!TypeOK'
  BY <1>0 DEF PartnersInv, Deal!TypeOK
<1>5. PartnersRowsAreNamed'
  BY <1>0, <1>2 DEF PartnersInv, PartnersRowsAreNamed
<1>6. Deal!SuppliersAreDistinct'
  <2>1. \A s \in suppliers : s.id \in Deal!Done
    BY DEF PartnersInv, PartnersRowsAreNamed
  <2> QED
    <3> USE <1>0, <1>2, <2>1 DEF PartnersInv
    <3>1. ASSUME NEW s \in suppliers, NEW t \in suppliers, s # t, Deal!SameContact(s, t)
          PROVE  Deal!Overlapped({s.id, t.id})'
      BY <3>1 DEF Deal!SuppliersAreDistinct, Deal!Overlapped
    <3>2. ASSUME NEW s \in suppliers, NEW t \in suppliers, s # t, s.name = t.name
          PROVE  \/ Deal!Overlapped({s.id, t.id})'
                 \/ \E x, y \in {s.id, t.id} : dealing'[x].op = "fromClient" /\ y \in dealing'[x].after
      <4>1. dealing'[s.id] = dealing[s.id] /\ dealing'[t.id] = dealing[t.id]
        OBVIOUS
      <4> QED
        BY <3>2, <4>1 DEF Deal!SuppliersAreDistinct, Deal!Overlapped
    <3> QED
      BY <3>1, <3>2 DEF Deal!SuppliersAreDistinct, Deal!SameContact, Deal!SameEmail
<1>7. /\ \A i : ClosedSince(i) => ClosedSince(i)'
      /\ \A o : Deal!ReopenedStale(o) => Deal!ReopenedStale(o)'
      /\ \A R : Deal!Overlapped(R) => Deal!Overlapped(R)'
      /\ \A o : Later(o)' = Later(o)
  BY <1>0, <1>2, OverStaysOver DEF Later
<1>8. ASSUME NEW i, PartnersGood(i) PROVE PartnersGood(i)'
  <2>1. PartnersReadWell(i)'
    BY <1>0, <1>2, <1>8 DEF PartnersGood, PartnersReadWell
  <2>2. PartnersInsertsUnseen(i)'
    BY <1>0, <1>8 DEF PartnersGood, PartnersInsertsUnseen, Inserts, Naming
  <2>3. SawOpen(i)'
    BY <1>0, <1>7, <1>8 DEF PartnersGood, SawOpen
  <2>4. ChecksLast(i)'
    BY <1>0, <1>7, <1>8 DEF PartnersGood, ChecksLast
  <2> QED
    BY <2>1, <2>2, <2>3, <2>4 DEF PartnersGood
<1>9. \A s \in Requests : PartnersGood(dealing'[s])
  BY <1>1 DEF PartnersInv
<1>10. \A s \in Requests : PartnersGood(dealing[s])'
  BY <1>8, <1>9
<1>11. DeletionsAreMade'
  <2> SUFFICES ASSUME NEW c \in clients, c.is_deleted
               PROVE  \E w \in Requests : DeletedBy(c.id, w)'
    BY <1>0 DEF DeletionsAreMade
  <2>1. PICK w \in Requests : DeletedBy(c.id, w)
    BY DEF PartnersInv, DeletionsAreMade
  <2>2. w # r /\ dealing'[w] = dealing[w]
    BY <1>1, <2>1 DEF DeletedBy
  <2>3. ASSUME NEW o \in sales, o.client = c.id, Deal!Open(o)
        PROVE  \/ Later(o)' \/ Deal!ReopenedStale(o)' \/ Deal!Overlapped({w, o.id})'
               \/ (dealing'[o.id].op = "convert" /\ w \in dealing'[o.id].after)
    <3>1. o.id \in Deal!Done
      BY DEF PartnersInv, PartnersRowsAreNamed
    <3> QED
      BY <1>2, <1>7, <2>1, <2>3, <3>1 DEF DeletedBy
  <2>4. ASSUME NEW s \in Requests, dealing'[s].op = "order", dealing'[s].phase = "begun",
               dealing'[s].client.id = c.id
        PROVE  w \notin dealing'[s].after
    BY <1>1, <2>1, <2>4 DEF DeletedBy
  <2> QED
    BY <1>0, <2>1, <2>2, <2>3, <2>4 DEF DeletedBy, Deal!Open
<1> QED
  BY <1>3, <1>4, <1>5, <1>6, <1>10, <1>11 DEF PartnersInv

-----------------------------------------------------------------------------
(* A request commits.                                                      *)

\* What every commit changes of the requests.
PartnersCommits(r) == /\ dealing[r].phase \notin {"new", "done"}
                      /\ Deal!Committed(r)

\* What a commit may do to the orders: it makes one, or saves them, which opens what was
\* closed or closes what was open for a reason.
SalesFollow(r) ==
  /\ \A o \in sales' :
       \/ \E p \in sales : /\ SameOrder(o, p)
                           /\ Deal!Open(o) => Deal!Open(p) \/ Deal!ReopenedStale(o)'
                           /\ \A e \in Deal!Order : Loses(e, o) => Loses(e, p) \/ ShutBy(r, o.id)
       \/ /\ o.id = r /\ dealing[r].op \in Deal!Creators /\ dealing[r].phase = "begun"
          /\ o.client = dealing[r].client.id
  /\ \A p \in sales : \E o \in sales' : o.client = p.client /\ o.nth = p.nth

LEMMA UnchangedFollows == ASSUME NEW r, UNCHANGED sales PROVE SalesFollow(r)
BY DEF SalesFollow, SameOrder

LEMMA PartnersCommitFacts ==
  ASSUME PartnersInv, NEW r \in Requests, PartnersCommits(r)
  PROVE  /\ \A s \in Requests : /\ dealing'[s].phase = IF s = r THEN "done" ELSE dealing[s].phase
                                /\ dealing'[s].op = dealing[s].op
                                /\ dealing'[s].client = dealing[s].client
                                /\ dealing'[s].order = dealing[s].order
                                /\ dealing'[s].row = dealing[s].row
                                /\ dealing'[s].supplier = dealing[s].supplier
                                /\ dealing'[s].company = dealing[s].company
                                /\ dealing'[s].after = dealing[s].after
                                /\ s # r => dealing'[s] = dealing[s]
         /\ r \notin Deal!Done /\ Deal!Done' = Deal!Done \cup {r}
         /\ dealing' \in [Requests -> Deal!Request] /\ IsFiniteSet(Begun')
         /\ meetings \subseteq meetings' /\ meetings' \subseteq Requests \X Requests
         /\ meetings' \subseteq Deal!Done' \X Deal!Done'
         /\ \A t \in Deal!Done \ dealing[r].after : <<r, t>> \in meetings'
<1>0. dealing \in [Requests -> Deal!Request] /\ meetings \subseteq Requests \X Requests
  BY DEF PartnersInv, Deal!TypeOK
<1>1. \A s \in Requests : /\ dealing'[s].phase = IF s = r THEN "done" ELSE dealing[s].phase
                          /\ dealing'[s].op = dealing[s].op /\ dealing'[s].client = dealing[s].client
                          /\ dealing'[s].order = dealing[s].order
                          /\ dealing'[s].row = dealing[s].row
                          /\ dealing'[s].supplier = dealing[s].supplier
                          /\ dealing'[s].company = dealing[s].company
                          /\ dealing'[s].after = dealing[s].after
                          /\ s # r => dealing'[s] = dealing[s]
  BY <1>0 DEF PartnersCommits, Deal!Committed, Deal!Request
<1>2. r \notin Deal!Done /\ Deal!Done' = Deal!Done \cup {r}
  BY <1>1 DEF PartnersCommits, Deal!Done
<1>3. dealing' \in [Requests -> Deal!Request]
  BY <1>0 DEF PartnersCommits, Deal!Committed, Deal!Request
<1>4. Begun' = Begun
  BY <1>1 DEF Begun
<1>5. meetings' = meetings \cup ({r} \X (Deal!Done \ dealing[r].after)) /\ Deal!Done \subseteq Requests
  BY DEF PartnersCommits, Deal!Committed, Deal!Done
<1>6. meetings \subseteq Deal!Done \X Deal!Done
  BY DEF PartnersInv, PartnersRowsAreNamed
<1>7. meetings \subseteq meetings' /\ meetings' \subseteq Requests \X Requests
      /\ meetings' \subseteq Deal!Done' \X Deal!Done'
  BY <1>0, <1>2, <1>5, <1>6
<1>8. \A t \in Deal!Done \ dealing[r].after : <<r, t>> \in meetings'
  BY <1>5
<1> QED
  BY <1>1, <1>2, <1>3, <1>4, <1>7, <1>8 DEF PartnersInv

\* What the other requests have read stays good, whatever the commit writes.
LEMMA PartnersCommitKeepsGood ==
  ASSUME PartnersInv, NEW r \in Requests, PartnersCommits(r), SalesFollow(r),
         \A c \in clients : \E d \in clients' : d.id = c.id,
         \A s \in suppliers' : s.id = r \/ \E t \in suppliers : t.id = s.id /\ SameData(t, s)
  PROVE  \A s \in Requests : PartnersGood(dealing[s])'
<1> SUFFICES ASSUME NEW s \in Requests PROVE PartnersGood(dealing[s])'
  OBVIOUS
<1> USE PartnersCommitFacts
<1> DEFINE q == dealing[s]
<1>0. /\ PartnersGood(q)
      /\ PartnersReadWell(q) /\ PartnersInsertsUnseen(q) /\ SawOpen(q) /\ ChecksLast(q)
      /\ q.after \subseteq Deal!Done /\ r \notin q.after
  BY DEF PartnersInv, PartnersGood, PartnersReadWell
<1>1. PartnersReadWell(dealing[s])'
  BY <1>0 DEF PartnersReadWell
<1>2. PartnersInsertsUnseen(dealing[s])'
  BY <1>0 DEF PartnersInsertsUnseen, Inserts, Naming, SameData, Deal!SameContact, Deal!SameEmail
<1>3. /\ \A o, p : SameOrder(o, p) /\ Later(p) => Later(o)'
      /\ \A i : ClosedSince(i) => ClosedSince(i)'
      /\ \A o : Deal!ReopenedStale(o) => Deal!ReopenedStale(o)'
  <2>1. \A x \in Deal!Done : dealing'[x] = dealing[x]
    BY DEF Deal!Done
  <2> QED
    BY <2>1, OverStaysOver DEF SameOrder, SalesFollow, Later
<1>4. CASE s = r
  BY <1>1, <1>2, <1>4 DEF PartnersGood, SawOpen, ChecksLast
<1>5. CASE s # r
  <2>0. dealing'[s] = q
    BY <1>5
  <2>1. ASSUME q.op = "saveOrder", q.phase \in {"begun", "ready"}, NEW o \in sales', o.id = q.order.id
        PROVE  SameOrder(o, q.order) /\ (Loses(q.order, o) => ClosedSince(q)')
    <3>1. q.order \in Deal!Order /\ q.order.id \in Deal!Done
      BY <1>0, <2>1 DEF PartnersReadWell
    <3>2. o.id # r
      BY <2>1, <3>1
    <3>3. PICK p \in sales : SameOrder(o, p) /\ (Loses(q.order, o) => Loses(q.order, p) \/ ShutBy(r, o.id))
      BY <3>1, <3>2 DEF SalesFollow
    <3>4. SameOrder(p, q.order) /\ (Loses(q.order, p) => ClosedSince(q))
      BY <1>0, <2>1, <3>3 DEF SawOpen, SameOrder
    <3>5. ShutBy(r, o.id) => ClosedSince(q)'
      BY <1>0, <2>0, <2>1 DEF ShutBy, ClosedSince
    <3>6. ClosedSince(q) => ClosedSince(q)'
      BY <1>3, <2>0
    <3> QED
      BY <3>3, <3>4, <3>5, <3>6 DEF SameOrder
  <2>2. q.op = "saveOrder" /\ q.phase = "ready" =>
          q.row \in Deal!Order /\ SameOrder(q.row, q.order) /\ (Loses(q.order, q.row) => ClosedSince(q)')
    <3>1. ClosedSince(q) => ClosedSince(q)'
      BY <1>3, <2>0
    <3> QED
      BY <1>0, <3>1 DEF SawOpen
  <2>3. SawOpen(dealing[s])'
    BY <2>0, <2>1, <2>2 DEF SawOpen
  <2>4. ASSUME q.op = "deleteClient", q.phase \in {"checked", "ready"}, NEW o \in sales',
               o.client = q.client.id, Deal!Open(o), o.id \in q.after
        PROVE  Later(o)' \/ Deal!ReopenedStale(o)'
    <3>1. PICK p \in sales : SameOrder(o, p) /\ (Deal!Open(p) \/ Deal!ReopenedStale(o)')
      BY <1>0, <2>4 DEF SalesFollow
    <3>2. Deal!Open(p) => Later(p) \/ Deal!ReopenedStale(p)
      BY <1>0, <2>4, <3>1 DEF ChecksLast, SameOrder
    <3>3. Deal!ReopenedStale(p) => Deal!ReopenedStale(o)
      <4>1. o.id = p.id
        BY <3>1 DEF SameOrder
      <4> HIDE <1>0
      <4> QED
        BY <4>1, Zenon DEF Deal!ReopenedStale
    <3> QED
      BY <1>3, <3>1, <3>2, <3>3
  <2>5. ChecksLast(dealing[s])'
    BY <2>0, <2>4 DEF ChecksLast, Deal!Open
  <2> QED
    BY <1>1, <1>2, <2>3, <2>5 DEF PartnersGood
<1> QED
  BY <1>4, <1>5

\* The suppliers after a commit are those of before, by name and data, and perhaps one
\* more.
LEMMA CommitKeepsDistinct ==
  ASSUME PartnersInv, NEW r \in Requests, PartnersCommits(r),
         \A s \in suppliers' :
           \/ s.id = r /\ Inserts(dealing[r]) /\ SameData(s, Naming(dealing[r]))
           \/ \E t \in suppliers : t.id = s.id /\ SameData(t, s),
         \A s, t \in suppliers' : s.id = t.id => s = t
  PROVE  Deal!SuppliersAreDistinct'
<1> DEFINE Apart(x, y) ==
      /\ Deal!SameContact(x, y) => Deal!Overlapped({x.id, y.id})'
      /\ x.name = y.name =>
           \/ Deal!Overlapped({x.id, y.id})'
           \/ \E i, j \in {x.id, y.id} : dealing[i].op = "fromClient" /\ j \in dealing[i].after
<1> USE PartnersCommitFacts
<1>0. \A s \in suppliers : s.id \in Deal!Done /\ s.id \in Requests /\ s.id # r
  BY DEF PartnersInv, PartnersRowsAreNamed, Deal!Done
<1>1. ASSUME NEW x, NEW y, x.id = r, Inserts(dealing[r]), SameData(x, Naming(dealing[r])),
             NEW u \in suppliers, u.id = y.id, SameData(u, y)
      PROVE  Apart(x, y)
  <2>1. PartnersInsertsUnseen(dealing[r])
    BY DEF PartnersInv, PartnersGood
  <2>2. Deal!SameContact(x, y) = Deal!SameContact(Naming(dealing[r]), u)
    BY <1>1 DEF SameData, Deal!SameContact, Deal!SameEmail
  <2>3. u.id \notin dealing[r].after => Deal!Overlapped({x.id, y.id})'
    BY <1>0, <1>1 DEF Deal!Overlapped
  <2>4. dealing[r].op \in {"supplier", "fromClient"}
    BY <1>1 DEF Inserts
  <2>5. x.name = Naming(dealing[r]).name /\ u.name = y.name
    BY <1>1 DEF SameData
  <2> QED
    BY <1>1, <2>1, <2>2, <2>3, <2>4, <2>5 DEF PartnersInsertsUnseen
<1>2. \A x, y : Apart(x, y) => Apart(y, x)
  <2> SUFFICES ASSUME NEW x, NEW y, Apart(x, y) PROVE Apart(y, x)
    OBVIOUS
  <2>1. {x.id, y.id} = {y.id, x.id} /\ Deal!SameContact(x, y) = Deal!SameContact(y, x)
    BY DEF Deal!SameContact, Deal!SameEmail
  <2> QED
    BY <2>1
<1>3. ASSUME NEW x, NEW y, NEW u \in suppliers, u.id = x.id, SameData(u, x),
             NEW v \in suppliers, v.id = y.id, SameData(v, y), x.id # y.id
      PROVE  Apart(x, y)
  <2>1. u # v
    BY <1>3
  <2>2. Deal!SameContact(x, y) = Deal!SameContact(u, v) /\ (x.name = y.name <=> u.name = v.name)
    BY <1>3 DEF SameData, Deal!SameContact, Deal!SameEmail
  <2>3. Deal!Overlapped({x.id, y.id}) => Deal!Overlapped({x.id, y.id})'
    BY DEF Deal!Overlapped
  <2>4. /\ Deal!SameContact(u, v) => Deal!Overlapped({x.id, y.id})
        /\ u.name = v.name =>
             \/ Deal!Overlapped({x.id, y.id})
             \/ \E i, j \in {x.id, y.id} : dealing[i].op = "fromClient" /\ j \in dealing[i].after
    BY <1>3, <2>1 DEF PartnersInv, Deal!SuppliersAreDistinct
  <2> QED
    BY <2>2, <2>3, <2>4
<1>4. \A s, t \in suppliers' : s # t => Apart(s, t)
  <2> SUFFICES ASSUME NEW s \in suppliers', NEW t \in suppliers', s # t PROVE Apart(s, t)
    OBVIOUS
  <2> HIDE DEF Apart
  <2>1. s.id # t.id
    OBVIOUS
  <2>2. CASE s.id = r
    BY <1>0, <1>1, <2>1, <2>2
  <2>3. CASE t.id = r
    BY <1>0, <1>1, <1>2, <2>1, <2>3
  <2>4. CASE s.id # r /\ t.id # r
    BY <1>3, <2>1, <2>4
  <2> QED
    BY <2>2, <2>3, <2>4
<1>5. \A s \in suppliers' : s.id \in Requests
  BY <1>0
<1>6. ASSUME NEW s \in suppliers', NEW t \in suppliers', s # t
      PROVE  /\ Deal!SameContact(s, t) => Deal!Overlapped({s.id, t.id})'
             /\ s.name = t.name =>
                  \/ Deal!Overlapped({s.id, t.id})'
                  \/ \E i, j \in {s.id, t.id} : dealing'[i].op = "fromClient" /\ j \in dealing'[i].after
  <2>1. \A i \in {s.id, t.id} : dealing'[i].op = dealing[i].op /\ dealing'[i].after = dealing[i].after
    BY <1>5
  <2> QED
    BY <1>4, <1>6, <2>1
<1> QED
  BY <1>6 DEF Deal!SuppliersAreDistinct, Deal!SameContact, Deal!SameEmail

\* A client that was deleted stays accounted for, by name.
LEMMA CommitKeepsDeletions ==
  ASSUME PartnersInv, NEW r \in Requests, PartnersCommits(r), SalesFollow(r),
         NEW c \in clients, c.is_deleted
  PROVE  \E w \in Requests : DeletedBy(c.id, w)'
<1> USE PartnersCommitFacts
<1>1. PICK w \in Requests : DeletedBy(c.id, w)
  BY DEF PartnersInv, DeletionsAreMade
<1>2. w # r /\ w \in Deal!Done /\ dealing'[w] = dealing[w]
  BY <1>1 DEF DeletedBy, PartnersCommits, Deal!Done
<1>3. /\ \A o, p : SameOrder(o, p) /\ Later(p) => Later(o)'
      /\ \A o : Deal!ReopenedStale(o) => Deal!ReopenedStale(o)'
      /\ \A R : Deal!Overlapped(R) => Deal!Overlapped(R)'
  <2>1. \A x \in Deal!Done : dealing'[x] = dealing[x]
    BY DEF Deal!Done
  <2> QED
    BY <2>1, OverStaysOver DEF SameOrder, SalesFollow, Later
<1>4. ASSUME NEW o \in sales', o.client = c.id, Deal!Open(o)
      PROVE  \/ Later(o)' \/ Deal!ReopenedStale(o)' \/ Deal!Overlapped({w, o.id})'
             \/ (dealing'[o.id].op = "convert" /\ w \in dealing'[o.id].after)
  <2>1. CASE \E p \in sales : SameOrder(o, p) /\ (Deal!Open(p) \/ Deal!ReopenedStale(o)')
    <3>1. PICK p \in sales : SameOrder(o, p) /\ (Deal!Open(p) \/ Deal!ReopenedStale(o)')
      BY <2>1
    <3>2. p.id = o.id /\ p.client = c.id /\ p.id \in Deal!Done /\ dealing'[p.id] = dealing[p.id]
      BY <1>4, <3>1 DEF SameOrder, PartnersInv, PartnersRowsAreNamed, Deal!Done
    <3>3. Deal!ReopenedStale(p) => Deal!ReopenedStale(o)
      BY <3>2, Zenon DEF Deal!ReopenedStale
    <3> QED
      BY <1>1, <1>3, <3>1, <3>2, <3>3 DEF DeletedBy
  <2>2. CASE /\ o.id = r /\ dealing[r].op \in Deal!Creators /\ dealing[r].phase = "begun"
             /\ o.client = dealing[r].client.id
    <3>1. dealing[r].op \in {"order", "convert"}
      BY <2>2 DEF Deal!Creators
    <3>2. w \in dealing[r].after => dealing[r].op = "convert"
      BY <1>1, <1>4, <2>2, <3>1 DEF DeletedBy
    <3>3. w \notin dealing[r].after => Deal!Overlapped({w, o.id})'
      BY <1>2, <2>2 DEF Deal!Overlapped
    <3> QED
      BY <2>2, <3>2, <3>3
  <2> QED
    BY <1>4, <2>1, <2>2 DEF SalesFollow
<1>5. ASSUME NEW s \in Requests, dealing'[s].op = "order", dealing'[s].phase = "begun",
             dealing'[s].client.id = c.id
      PROVE  w \notin dealing'[s].after
  BY <1>1, <1>5 DEF DeletedBy
<1>6. DeletedBy(c.id, w)'
  BY <1>1, <1>2, <1>4, <1>5 DEF DeletedBy, Deal!Open
<1> QED
  BY <1>6

-----------------------------------------------------------------------------
LEMMA NewRows ==
  ASSUME NEW r \in Requests, NEW x, x.phone \in Deal!Phones, x.name \in Deal!Names,
         x.email \in Deal!Emails, NEW k \in Requests \cup {None}
  PROVE  /\ Deal!NewClient(r, x) \in Deal!Client /\ Deal!NewClient(r, x).id = r
         /\ ~Deal!NewClient(r, x).is_deleted
         /\ Deal!NewSupplier(r, x, k) \in Deal!Supplier /\ Deal!NewSupplier(r, x, k).id = r
         /\ SameData(Deal!NewSupplier(r, x, k), x)
BY DEF Deal!Client, Deal!Supplier, Deal!NewClient, Deal!NewSupplier, SameData

LEMMA CompaniesAreData ==
  ASSUME NEW d \in Companies
  PROVE  d.phone \in Deal!Phones /\ d.name \in Deal!Names /\ d.email \in Deal!Emails
BY DEF Deal!Phones, Deal!Names, Deal!Emails

\* A commit that leaves the data of the suppliers and the orders, and may add a client.
LEMMA InsertClientKeeps ==
  ASSUME PartnersInv, NEW r \in Requests, PartnersCommits(r), NEW n \in Deal!Client, n.id = r,
         ~n.is_deleted,
         clients' \in {clients, clients \cup {n}}, UNCHANGED sales,
         suppliers' \subseteq Deal!Supplier,
         \A s \in suppliers' : \E t \in suppliers : t.id = s.id /\ SameData(t, s),
         \A s, t \in suppliers' : s.id = t.id => s = t
  PROVE  PartnersInv'
<1> USE PartnersCommitFacts, UnchangedFollows
<1>1. clients \subseteq clients' /\ clients' \subseteq clients \cup {n}
  OBVIOUS
<1>2. Deal!TypeOK'
  BY <1>1 DEF PartnersInv, Deal!TypeOK
<1>3. PartnersRowsAreNamed'
  BY <1>1 DEF PartnersInv, PartnersRowsAreNamed
<1>4. \A s \in Requests : PartnersGood(dealing[s])'
  BY <1>1, PartnersCommitKeepsGood
<1>5. Deal!SuppliersAreDistinct'
  BY CommitKeepsDistinct
<1>6. DeletionsAreMade'
  BY <1>1, CommitKeepsDeletions DEF DeletionsAreMade
<1> QED
  BY <1>2, <1>3, <1>4, <1>5, <1>6 DEF PartnersInv

LEMMA CreateClientKeeps ==
  ASSUME PartnersInv, NEW r \in Requests, Deal!CreateClient(r)
  PROVE  PartnersInv'
<1> DEFINE n == Deal!NewClient(r, dealing[r].company)
<1>1. dealing[r].company \in Companies /\ PartnersCommits(r)
  BY DEF Deal!CreateClient, Deal!At, PartnersCommits, PartnersInv, PartnersGood, PartnersReadWell
<1>2. n \in Deal!Client /\ n.id = r /\ ~n.is_deleted
  BY <1>1, CompaniesAreData, NewRows
<1>3. clients' = clients \cup {n} /\ UNCHANGED <<suppliers, sales>>
  BY DEF Deal!CreateClient
<1> HIDE DEF n
<1>4. /\ \A s, t \in suppliers' : s.id = t.id => s = t
      /\ suppliers' \subseteq Deal!Supplier
      /\ \A s \in suppliers' : SameData(s, s)
  BY <1>3 DEF PartnersInv, PartnersRowsAreNamed, Deal!TypeOK, SameData
<1> QED
  BY <1>1, <1>2, <1>3, <1>4, InsertClientKeeps

LEMMA InsertSupplierKeeps ==
  ASSUME PartnersInv, NEW r \in Requests, PartnersCommits(r), NEW n \in Deal!Supplier, n.id = r,
         Inserts(dealing[r]), SameData(n, Naming(dealing[r])),
         suppliers' = suppliers \cup {n}, UNCHANGED <<clients, sales>>
  PROVE  PartnersInv'
<1> USE PartnersCommitFacts, UnchangedFollows
<1>1. Deal!TypeOK'
  BY DEF PartnersInv, Deal!TypeOK
<1>2. PartnersRowsAreNamed'
  BY DEF PartnersInv, PartnersRowsAreNamed
<1>3. \A s \in suppliers' : s = n \/ \E t \in suppliers : t.id = s.id /\ SameData(t, s)
  BY DEF SameData
<1>4. \A s \in Requests : PartnersGood(dealing[s])'
  BY <1>3, PartnersCommitKeepsGood
<1>5. Deal!SuppliersAreDistinct'
  BY <1>2, <1>3, CommitKeepsDistinct DEF PartnersRowsAreNamed
<1>6. DeletionsAreMade'
  BY CommitKeepsDeletions DEF DeletionsAreMade
<1> QED
  BY <1>1, <1>2, <1>4, <1>5, <1>6 DEF PartnersInv

LEMMA CreateSupplierKeeps ==
  ASSUME PartnersInv, NEW r \in Requests, Deal!CreateSupplier(r)
  PROVE  PartnersInv'
<1> DEFINE n == Deal!NewSupplier(r, dealing[r].company, None)
<1>1. dealing[r].company \in Companies /\ PartnersCommits(r) /\ Inserts(dealing[r])
      /\ Naming(dealing[r]) = dealing[r].company
  BY DEF Deal!CreateSupplier, Deal!At, PartnersCommits, PartnersInv, PartnersGood,
     PartnersReadWell, Inserts, Naming
<1>2. n \in Deal!Supplier /\ n.id = r /\ SameData(n, dealing[r].company)
  BY <1>1, CompaniesAreData, NewRows
<1>3. suppliers' = suppliers \cup {n} /\ UNCHANGED <<clients, sales>>
  BY DEF Deal!CreateSupplier
<1> HIDE DEF n
<1> QED
  BY <1>1, <1>2, <1>3, InsertSupplierKeeps

LEMMA LinkedFacts ==
  ASSUME PartnersInv, NEW s, NEW c \in Requests
  PROVE  /\ Deal!Linked(s, c) \subseteq Deal!Supplier
         /\ \A t \in Deal!Linked(s, c) : \E u \in suppliers : u.id = t.id /\ SameData(u, t)
         /\ \A t, u \in Deal!Linked(s, c) : t.id = u.id => t = u
<1> DEFINE Now(t) == IF t.id = s THEN [t EXCEPT !.client = c] ELSE t
<1>1. \A t \in suppliers : Now(t) \in Deal!Supplier /\ Now(t).id = t.id /\ SameData(t, Now(t))
  BY DEF PartnersInv, Deal!TypeOK, Deal!Supplier, SameData
<1>2. Deal!Linked(s, c) = {Now(t) : t \in suppliers}
  BY DEF Deal!Linked
<1>3. \A t, u \in suppliers : t.id = u.id => t = u
  BY DEF PartnersInv, PartnersRowsAreNamed
<1> HIDE DEF Now
<1> QED
  BY <1>1, <1>2, <1>3

\* A request that ends without having written anything.
LEMMA EndKeeps ==
  ASSUME PartnersInv, NEW r \in Requests, dealing[r].op \in {"fromClient", "asClient"},
         dealing[r].phase = "ready", NEW p \in {"done", "failed"}, Deal!Goes(r, p)
  PROVE  PartnersInv'
<1> DEFINE i == dealing[r]
           q == [i EXCEPT !.phase = p]
<1>0. i \in Deal!Request /\ PartnersGood(i) /\ i.phase = "ready"
  BY DEF PartnersInv, Deal!TypeOK
<1>1. q \in Deal!Request /\ q.phase = p /\ q.op = i.op /\ q.client = i.client
      /\ q.supplier = i.supplier /\ q.after = i.after
  BY <1>0 DEF Deal!Request
<1>2. dealing' = [dealing EXCEPT ![r] = q] /\ UNCHANGED <<Deal!Tables, meetings>>
  BY DEF Deal!Goes
<1> HIDE DEF q
<1>3. PartnersGood(q)
  BY <1>0, <1>1 DEF PartnersGood, PartnersReadWell, PartnersInsertsUnseen, Inserts, ChecksLast, SawOpen
<1> QED
  BY <1>0, <1>1, <1>2, <1>3, PartnersReadKeeps

LEMMA FromClientKeeps ==
  ASSUME PartnersInv, NEW r \in Requests, Deal!FromClient(r)
  PROVE  PartnersInv'
<1> DEFINE c == dealing[r].client
           s == dealing[r].supplier
<1>0. /\ dealing[r].op = "fromClient" /\ dealing[r].phase = "ready"
      /\ c \in Deal!Client /\ s \in Deal!Supplier \cup {None}
  BY DEF Deal!FromClient, Deal!At, PartnersInv, Deal!TypeOK, PartnersGood, PartnersReadWell,
     Deal!Request
<1>1. CASE Deal!Goes(r, "done") \/ Deal!Goes(r, "failed")
  BY <1>0, <1>1, EndKeeps
<1>2. CASE /\ Deal!Committed(r) /\ s = None /\ UNCHANGED <<clients, sales>>
           /\ suppliers' = suppliers \cup {Deal!NewSupplier(r, c, c.id)}
  <2> DEFINE n == Deal!NewSupplier(r, c, c.id)
  <2>1. n \in Deal!Supplier /\ n.id = r /\ SameData(n, c)
    BY <1>0, NewRows DEF Deal!Client
  <2>2. Inserts(dealing[r]) /\ Naming(dealing[r]) = c /\ PartnersCommits(r)
    BY <1>0, <1>2 DEF Inserts, Naming, PartnersCommits
  <2>3. suppliers' = suppliers \cup {n} /\ UNCHANGED <<clients, sales>>
    BY <1>2
  <2> HIDE DEF n
  <2> QED
    BY <2>1, <2>2, <2>3, InsertSupplierKeeps
<1>3. CASE /\ Deal!Committed(r) /\ s # None /\ UNCHANGED <<clients, sales>>
           /\ suppliers' = Deal!Linked(s.id, c.id)
  <2> DEFINE n == Deal!NewClient(r, c)
  <2>1. n \in Deal!Client /\ n.id = r /\ ~n.is_deleted /\ c.id \in Requests
    BY <1>0, NewRows DEF Deal!Client
  <2>2. PartnersCommits(r)
    BY <1>0, <1>3 DEF PartnersCommits
  <2> HIDE DEF n
  <2> QED
    BY <1>3, <2>1, <2>2, LinkedFacts, InsertClientKeeps
<1> QED
  BY <1>0, <1>1, <1>2, <1>3 DEF Deal!FromClient

LEMMA AsClientKeeps ==
  ASSUME PartnersInv, NEW r \in Requests, Deal!AsClient(r)
  PROVE  PartnersInv'
<1> DEFINE s == dealing[r].supplier
           c == IF dealing[r].client = None THEN r ELSE dealing[r].client.id
<1>0. /\ dealing[r].op = "asClient" /\ dealing[r].phase = "ready"
      /\ s \in Deal!Supplier /\ dealing[r].client \in Deal!Client \cup {None}
  BY DEF Deal!AsClient, Deal!At, PartnersInv, Deal!TypeOK, PartnersGood, PartnersReadWell,
     Deal!Request
<1>1. CASE Deal!Goes(r, "failed")
  BY <1>0, <1>1, EndKeeps
<1>2. CASE /\ Deal!Committed(r) /\ suppliers' = Deal!Linked(s.id, c) /\ UNCHANGED sales
           /\ clients' = IF dealing[r].client # None THEN clients
                         ELSE clients \cup {Deal!NewClient(r, s)}
  <2> DEFINE n == Deal!NewClient(r, s)
  <2>1. n \in Deal!Client /\ n.id = r /\ ~n.is_deleted /\ c \in Requests
    BY <1>0, NewRows DEF Deal!Client, Deal!Supplier
  <2>2. PartnersCommits(r) /\ clients' \in {clients, clients \cup {n}}
    BY <1>0, <1>2 DEF PartnersCommits
  <2> HIDE DEF n, c
  <2> QED
    BY <1>2, <2>1, <2>2, LinkedFacts, InsertClientKeeps
<1> QED
  BY <1>0, <1>1, <1>2 DEF Deal!AsClient

-----------------------------------------------------------------------------
\* A commit that changes the orders only.
LEMMA SalesKeep ==
  ASSUME PartnersInv, NEW r \in Requests, PartnersCommits(r), SalesFollow(r),
         sales' \subseteq Deal!Order, \A o \in sales' : o.id = r \/ \E p \in sales : p.id = o.id,
         \A o, p \in sales' : o.id = p.id => o = p,
         UNCHANGED <<clients, suppliers>>
  PROVE  PartnersInv'
<1> USE PartnersCommitFacts
<1>1. Deal!TypeOK' /\ PartnersRowsAreNamed'
  BY DEF PartnersInv, Deal!TypeOK, PartnersRowsAreNamed
<1>2. \A s \in suppliers : SameData(s, s)
  BY DEF SameData
<1>3. \A s \in Requests : PartnersGood(dealing[s])'
  BY <1>2, PartnersCommitKeepsGood
<1>4. Deal!SuppliersAreDistinct'
  BY <1>1, <1>2, CommitKeepsDistinct DEF PartnersRowsAreNamed
<1>5. DeletionsAreMade'
  BY CommitKeepsDeletions DEF DeletionsAreMade
<1> QED
  BY <1>1, <1>3, <1>4, <1>5 DEF PartnersInv

LEMMA CreateOrderKeeps ==
  ASSUME PartnersInv, NEW r \in Requests, Deal!CreateOrder(r)
  PROVE  PartnersInv'
<1> DEFINE n == [id |-> r, client |-> dealing[r].client.id, nth |-> dealing[r].nth,
                 status |-> "active", is_deleted |-> FALSE]
<1>0. /\ PartnersCommits(r) /\ dealing[r].op \in Deal!Creators /\ dealing[r].phase = "begun"
      /\ dealing[r] \in Deal!Request
      /\ dealing[r].client \in Deal!Client
  BY DEF Deal!CreateOrder, PartnersCommits, PartnersInv, Deal!TypeOK, PartnersGood,
     PartnersReadWell, Deal!Creators
<1>1. n \in Deal!Order /\ n.id = r /\ n.client = dealing[r].client.id
  BY <1>0 DEF Deal!Order, Deal!Request, Deal!Client
<1>2. sales' = sales \cup {n} /\ UNCHANGED <<clients, suppliers>>
  BY DEF Deal!CreateOrder
<1> HIDE DEF n
<1>3. SalesFollow(r)
  BY <1>0, <1>1, <1>2 DEF SalesFollow, SameOrder
<1>4. \A o, p \in sales' : o.id = p.id => o = p
  BY <1>0, <1>1, <1>2, PartnersCommitFacts DEF PartnersInv, PartnersRowsAreNamed
<1> QED
  BY <1>0, <1>1, <1>2, <1>3, <1>4, SalesKeep DEF PartnersInv, Deal!TypeOK

LEMMA SaveSaleKeeps ==
  ASSUME PartnersInv, NEW r \in Requests, Deal!SaveOrder(r)
  PROVE  PartnersInv'
<1> DEFINE entity == dealing[r].order
           base   == dealing[r].row
           Now(o) == IF o.id = entity.id
                       THEN [f \in DOMAIN o |-> IF entity[f] # base[f] THEN entity[f] ELSE o[f]]
                       ELSE o
<1>0. /\ PartnersCommits(r) /\ dealing[r].op = "saveOrder" /\ dealing[r].phase = "ready"
      /\ entity \in Deal!Order /\ base \in Deal!Order /\ SameOrder(base, entity)
      /\ Loses(entity, base) => ClosedSince(dealing[r])
      /\ \A o \in sales : o.id = entity.id => SameOrder(o, entity)
  BY DEF Deal!SaveOrder, Deal!At, PartnersCommits, PartnersInv, PartnersGood, PartnersReadWell,
     SawOpen
<1>1. sales' = {Now(o) : o \in sales} /\ UNCHANGED <<clients, suppliers>>
  BY DEF Deal!SaveOrder, Deal!Saved
<1>2. \A o \in Deal!Order : o.id = entity.id =>
        /\ Now(o) = [id |-> o.id, client |-> o.client, nth |-> o.nth,
                     status |-> IF entity.status # base.status THEN entity.status ELSE o.status,
                     is_deleted |-> IF entity.is_deleted # base.is_deleted THEN entity.is_deleted
                                    ELSE o.is_deleted]
  BY <1>0 DEF Deal!Order, SameOrder
<1>3. \A o \in Deal!Order : /\ Now(o) \in Deal!Order /\ SameOrder(Now(o), o)
                            /\ o.id # entity.id => Now(o) = o
  BY <1>0, <1>2 DEF Deal!Order, SameOrder
<1> HIDE DEF Now
<1> USE PartnersCommitFacts
<1>4. sales \subseteq Deal!Order
  BY DEF PartnersInv, Deal!TypeOK
<1>5. ASSUME NEW o \in sales, o.id = entity.id, NEW n, n = Now(o), Deal!Open(n), ~Deal!Open(o)
      PROVE  Deal!ReopenedStale(n)'
  <2>1. Loses(entity, base)
    BY <1>0, <1>2, <1>4, <1>5 DEF Deal!Open, Loses, Deal!Order
  <2>2. PICK x \in Deal!Done \ dealing[r].after : ShutBy(x, entity.id)
    BY <1>0, <2>1 DEF ClosedSince
  <2>3. <<r, x>> \in meetings' /\ x \in Requests
    BY <1>0, <2>2 DEF Deal!Done
  <2>4. entity # None /\ n.id = entity.id
    BY <1>0, <1>3, <1>4, <1>5, PartnersAssumption DEF SameOrder
  <2>5. dealing'[r].order = entity /\ dealing'[x].order = dealing[x].order
    BY <1>0, <2>3
  <2>6. dealing[x].order # None /\ dealing[x].order.id = n.id /\ ~Deal!Open(dealing[x].order)
    BY <2>2, <2>4 DEF ShutBy
  <2> QED
    BY <2>3, <2>4, <2>5, <2>6 DEF Deal!ReopenedStale, Deal!Open
<1>6. ASSUME NEW o \in sales, o.id = entity.id, NEW e \in Deal!Order, Loses(e, Now(o)), ~Loses(e, o)
      PROVE  ShutBy(r, o.id)
  BY <1>0, <1>2, <1>4, <1>6, PartnersAssumption DEF Loses, ShutBy, Deal!Open, Deal!Order
<1>7. ASSUME NEW o \in sales, NEW n, n = Now(o)
      PROVE  /\ SameOrder(n, o)
             /\ Deal!Open(n) => Deal!Open(o) \/ Deal!ReopenedStale(n)'
             /\ \A e \in Deal!Order : Loses(e, n) => Loses(e, o) \/ ShutBy(r, o.id)
  BY <1>3, <1>4, <1>5, <1>6, <1>7
<1>8. SalesFollow(r)
  <2>1. ASSUME NEW n \in sales'
        PROVE  \E p \in sales : /\ SameOrder(n, p)
                                /\ Deal!Open(n) => Deal!Open(p) \/ Deal!ReopenedStale(n)'
                                /\ \A e \in Deal!Order : Loses(e, n) => Loses(e, p) \/ ShutBy(r, n.id)
    <3>1. PICK o \in sales : n = Now(o)
      BY <1>1
    <3>2. n.id = o.id
      BY <1>7, <3>1 DEF SameOrder
    <3> QED
      BY <1>7, <3>1, <3>2
  <2>2. \A p \in sales : \E o \in sales' : o.client = p.client /\ o.nth = p.nth
    BY <1>1, <1>7 DEF SameOrder
  <2> QED
    BY <2>1, <2>2 DEF SalesFollow
<1>9. sales' \subseteq Deal!Order /\ \A o \in sales' : \E p \in sales : p.id = o.id
  BY <1>1, <1>3, <1>4 DEF SameOrder
<1>10. \A n, m \in sales' : n.id = m.id => n = m
  BY <1>1, <1>3, <1>4 DEF SameOrder, PartnersInv, PartnersRowsAreNamed
<1> QED
  BY <1>0, <1>1, <1>8, <1>9, <1>10, SalesKeep

LEMMA SaveClientKeeps ==
  ASSUME PartnersInv, NEW r \in Requests, Deal!SaveClient(r)
  PROVE  PartnersInv'
<1> DEFINE entity == dealing[r].client
           base   == dealing[r].row
           Now(c) == IF c.id = entity.id
                       THEN [f \in DOMAIN c |-> IF entity[f] # base[f] THEN entity[f] ELSE c[f]]
                       ELSE c
<1>0. /\ PartnersCommits(r) /\ dealing[r].op \in {"updateClient", "deleteClient"}
      /\ dealing[r].phase = "ready"
      /\ entity \in Deal!Client /\ base \in Deal!Client /\ base.id = entity.id
      /\ dealing[r].op = "updateClient" => ~entity.is_deleted
      /\ PartnersGood(dealing[r])
  BY DEF Deal!SaveClient, PartnersCommits, PartnersInv, PartnersGood, PartnersReadWell
<1>1. clients' = {Now(c) : c \in clients} /\ UNCHANGED <<suppliers, sales>>
  BY DEF Deal!SaveClient, Deal!Saved
<1>2. \A c \in Deal!Client : /\ Now(c) \in Deal!Client /\ Now(c).id = c.id
                             /\ Now(c).is_deleted =>
                                  c.is_deleted \/ (c.id = entity.id /\ dealing[r].op = "deleteClient")
  BY <1>0 DEF Deal!Client
<1> HIDE DEF Now
<1> USE PartnersCommitFacts, UnchangedFollows
<1>3. clients \subseteq Deal!Client /\ \A s \in suppliers : SameData(s, s)
  BY DEF PartnersInv, Deal!TypeOK, SameData
<1>4. Deal!TypeOK'
  BY <1>0, <1>1, <1>2, <1>3 DEF PartnersInv, Deal!TypeOK
<1>5. PartnersRowsAreNamed'
  BY <1>0, <1>1, <1>2, <1>3 DEF PartnersInv, PartnersRowsAreNamed
<1>6. \A s \in Requests : PartnersGood(dealing[s])'
  BY <1>0, <1>1, <1>2, <1>3, PartnersCommitKeepsGood
<1>7. Deal!SuppliersAreDistinct'
  BY <1>0, <1>1, <1>3, <1>5, CommitKeepsDistinct DEF PartnersRowsAreNamed
<1>8. ASSUME NEW c \in clients, Now(c).is_deleted
      PROVE  \E w \in Requests : DeletedBy(c.id, w)'
  <2>1. CASE c.is_deleted
    BY <1>0, <1>1, <2>1, CommitKeepsDeletions
  <2>2. CASE ~c.is_deleted
    <3>1. c.id = entity.id /\ dealing[r].op = "deleteClient"
      BY <1>2, <1>3, <1>8, <2>2
    <3>2. \A o \in sales : o.client = c.id /\ Deal!Open(o) =>
            Later(o) \/ Deal!ReopenedStale(o) \/ o.id \notin dealing[r].after
      BY <1>0, <3>1 DEF PartnersGood, ChecksLast
    <3>3. \A o \in sales : o.id \in Deal!Done
      BY DEF PartnersInv, PartnersRowsAreNamed
    <3>4. \A o : Deal!ReopenedStale(o) => Deal!ReopenedStale(o)'
      <4>1. \A x \in Deal!Done : dealing'[x] = dealing[x]
        BY <1>0 DEF Deal!Done
      <4> QED
        BY <1>0, <4>1, OverStaysOver
    <3>5. ASSUME NEW o \in sales', o.client = c.id, Deal!Open(o)
          PROVE  Later(o)' \/ Deal!ReopenedStale(o)' \/ Deal!Overlapped({r, o.id})'
      BY <1>0, <1>1, <3>2, <3>3, <3>4, <3>5 DEF Later, Deal!Overlapped
    <3>6. \A s \in Requests : r \notin dealing'[s].after
      BY <1>0 DEF PartnersInv, PartnersGood, PartnersReadWell
    <3>7. dealing'[r].op = "deleteClient" /\ dealing'[r].phase = "done" /\ dealing'[r].client.id = c.id
      BY <1>0, <3>1
    <3>8. DeletedBy(c.id, r)'
      BY <3>5, <3>6, <3>7 DEF DeletedBy, Deal!Open
    <3> QED
      BY <3>8
  <2> QED
    BY <2>1, <2>2
<1>9. DeletionsAreMade'
  <2> SUFFICES ASSUME NEW d \in clients', d.is_deleted
               PROVE  \E w \in Requests : DeletedBy(d.id, w)'
    BY DEF DeletionsAreMade
  <2>1. PICK c \in clients : d = Now(c)
    BY <1>1
  <2>2. d.id = c.id
    BY <1>2, <1>3, <2>1
  <2> QED
    BY <1>8, <2>1, <2>2
<1> QED
  BY <1>0, <1>4, <1>5, <1>6, <1>7, <1>9 DEF PartnersInv

-----------------------------------------------------------------------------
(* The steps that read.                                                    *)

LEMMA BeginKeeps ==
  ASSUME PartnersInv, NEW r \in Requests, NEW op \in Deal!Operations, NEW c \in Deal!Client \cup {None},
         NEW o \in Deal!Order \cup {None}, NEW s \in Deal!Supplier \cup {None},
         NEW d \in Companies \cup {None}, Deal!Begin(r, op, c, o, s, d),
         op \in {"updateClient", "deleteClient", "order", "convert", "fromClient"} =>
           c \in Deal!Client /\ \E e \in clients : e.id = c.id,
         op = "updateClient" => ~c.is_deleted,
         op = "order" => c \in Deal!Live,
         op = "saveOrder" => /\ o \in Deal!Order /\ o.id \in Deal!Done
                             /\ \A p \in sales : p.id = o.id => SameOrder(p, o) /\ ~Loses(o, p),
         op = "asClient" => s \in Deal!Supplier,
         op \in {"createClient", "supplier"} => d \in Companies,
         op = "supplier" => \A t \in suppliers : t.name # d.name /\ ~Deal!SameContact(d, t)
  PROVE  PartnersInv'
<1> DEFINE k == IF op \in Deal!Creators
                  THEN Cardinality({t \in Requests : dealing[t].op \in Deal!Creators}) ELSE 0
           q == [op |-> op, phase |-> "begun", client |-> c, order |-> o, row |-> None, supplier |-> s,
                 company |-> d, after |-> Deal!Done, nth |-> k]
<1>0. dealing' = [dealing EXCEPT ![r] = q] /\ UNCHANGED <<Deal!Tables, meetings>>
      /\ dealing[r].phase = "new"
  BY SameSizes DEF Deal!Begin
<1>1. k \in Nat
  BY FS_CardinalityType DEF PartnersInv, Begun
<1> HIDE DEF k
<1>2. /\ q \in Deal!Request /\ q.op = op /\ q.phase = "begun" /\ q.client = c /\ q.supplier = s
      /\ q.company = d /\ q.order = o /\ q.after = Deal!Done
  BY <1>1 DEF Deal!Request, Deal!Done
<1> HIDE DEF q
<1>3. PartnersGood(q)
  BY <1>2 DEF PartnersGood, PartnersReadWell, PartnersInsertsUnseen, Inserts, Naming, ChecksLast,
     SawOpen
<1>4. op = "order" => \A e \in clients : e.id = c.id => ~e.is_deleted
  BY DEF Deal!Live, PartnersInv, PartnersRowsAreNamed
<1> QED
  BY <1>0, <1>2, <1>3, <1>4, PartnersReadKeeps

\* What a handler leaves of an order is no more open than what it read.
LEMMA HandledFacts ==
  ASSUME NEW o \in Deal!Order, NEW entity \in Deal!Handled(o)
  PROVE  entity \in Deal!Order /\ SameOrder(o, entity) /\ ~Loses(entity, o)
BY DEF Deal!Handled, Deal!Order, SameOrder, Loses

LEMMA BeginSaveOrderKeeps ==
  ASSUME PartnersInv, NEW r \in Requests, NEW o \in sales, Deal!BeginSaveOrder(r, o)
  PROVE  PartnersInv'
<1>1. PICK entity \in Deal!Handled(o) : Deal!Begin(r, "saveOrder", None, entity, None, None)
  BY DEF Deal!BeginSaveOrder
<1>2. o \in Deal!Order /\ o.id \in Deal!Done
  BY DEF PartnersInv, Deal!TypeOK, PartnersRowsAreNamed
<1>3. entity \in Deal!Order /\ SameOrder(o, entity) /\ ~Loses(entity, o)
  BY <1>2, HandledFacts
<1>4. \A p \in sales : p.id = entity.id => p = o
  BY <1>3 DEF SameOrder, PartnersInv, PartnersRowsAreNamed
<1>5. entity.id \in Deal!Done
  BY <1>2, <1>3 DEF SameOrder
<1> QED
  BY <1>1, <1>3, <1>4, <1>5, BeginKeeps, PartnersAssumption DEF Deal!Operations

LEMMA BeginsKeep ==
  ASSUME PartnersInv, NEW r \in Requests,
         \/ \E d \in Companies : Deal!BeginCreateClient(r, d) \/ Deal!BeginSupplier(r, d)
         \/ \E c \in clients : \/ \E d \in Companies : Deal!BeginUpdateClient(r, c, d)
                               \/ Deal!BeginDeleteClient(r, c) \/ Deal!BeginFromClient(r, c)
                               \/ Deal!BeginOrder(r, c) \/ Deal!BeginConvert(r, c)
         \/ \E s \in suppliers : Deal!BeginAsClient(r, s)
  PROVE  PartnersInv'
<1>0. clients \subseteq Deal!Client /\ suppliers \subseteq Deal!Supplier
  BY DEF PartnersInv, Deal!TypeOK
<1>1. ASSUME NEW d \in Companies, Deal!BeginCreateClient(r, d) \/ Deal!BeginSupplier(r, d)
      PROVE  PartnersInv'
  BY <1>1, BeginKeeps DEF Deal!BeginCreateClient, Deal!BeginSupplier, Deal!Operations
<1>2. ASSUME NEW c \in clients, NEW d \in Companies, Deal!BeginUpdateClient(r, c, d)
      PROVE  PartnersInv'
  <2> DEFINE n == Deal!Updated(c, d)
  <2>1. n \in Deal!Client /\ n.id = c.id /\ ~n.is_deleted
    BY <1>0, <1>2, CompaniesAreData DEF Deal!Updated, Deal!Client, Deal!BeginUpdateClient, Deal!Live
  <2>2. Deal!Begin(r, "updateClient", n, None, None, None)
    BY <1>2 DEF Deal!BeginUpdateClient
  <2> HIDE DEF n
  <2> QED
    BY <2>1, <2>2, BeginKeeps DEF Deal!Operations
<1>3. ASSUME NEW c \in clients, Deal!BeginDeleteClient(r, c)
      PROVE  PartnersInv'
  <2> DEFINE n == Deal!SoftDeleted(c)
  <2>1. n \in Deal!Client /\ n.id = c.id
    BY <1>0 DEF Deal!SoftDeleted, Deal!Client
  <2>2. Deal!Begin(r, "deleteClient", n, None, None, None)
    BY <1>3 DEF Deal!BeginDeleteClient
  <2> HIDE DEF n
  <2> QED
    BY <2>1, <2>2, BeginKeeps DEF Deal!Operations
<1>4. ASSUME NEW c \in clients,
             Deal!BeginOrder(r, c) \/ Deal!BeginConvert(r, c) \/ Deal!BeginFromClient(r, c)
      PROVE  PartnersInv'
  BY <1>0, <1>4, BeginKeeps DEF Deal!BeginOrder, Deal!BeginConvert, Deal!BeginFromClient,
     Deal!Operations, Deal!Creators
<1>5. ASSUME NEW s \in suppliers, Deal!BeginAsClient(r, s)
      PROVE  PartnersInv'
  <2>1. Deal!Begin(r, "asClient", None, None, s, None) /\ s \in Deal!Supplier
    BY <1>0, <1>5 DEF Deal!BeginAsClient
  <2> QED
    BY <2>1, BeginKeeps DEF Deal!Operations
<1> QED
  BY <1>1, <1>2, <1>3, <1>4, <1>5

LEMMA CheckOrdersKeeps ==
  ASSUME PartnersInv, NEW r \in Requests, Deal!CheckOrders(r)
  PROVE  PartnersInv'
<1> DEFINE i == dealing[r]
           q == [i EXCEPT !.phase = "checked"]
<1>0. i \in Deal!Request /\ PartnersGood(i)
  BY DEF PartnersInv, Deal!TypeOK
<1>1. /\ q \in Deal!Request /\ q.phase = "checked" /\ q.op = "deleteClient" /\ q.client = i.client
      /\ q.after = i.after /\ i.phase = "begun" /\ i.op = "deleteClient"
  BY <1>0 DEF Deal!CheckOrders, Deal!At, Deal!Request
<1>2. dealing' = [dealing EXCEPT ![r] = q] /\ UNCHANGED <<Deal!Tables, meetings>>
  BY DEF Deal!CheckOrders, Deal!Goes
<1> HIDE DEF q
<1>3. ASSUME NEW o \in sales, o.client = i.client.id, Deal!Open(o)
      PROVE  Later(o)
  <2>1. o \in Deal!OrdersOf(i.client) /\ o.status = "active"
    BY <1>3 DEF Deal!OrdersOf, Deal!Open
  <2>2. PICK p \in Deal!OrdersOf(i.client) : ~(p.nth <= o.nth)
    BY <1>3, <2>1 DEF Deal!CheckOrders
  <2>3. p \in sales /\ p.client = o.client /\ p.nth \in Nat /\ o.nth \in Nat
    BY <1>3, <2>2 DEF Deal!OrdersOf, PartnersInv, Deal!TypeOK, Deal!Order
  <2> QED
    BY <2>2, <2>3 DEF Later
<1>4. PartnersGood(q)
  BY <1>0, <1>1, <1>3 DEF PartnersGood, PartnersReadWell, PartnersInsertsUnseen, Inserts,
     ChecksLast, SawOpen
<1> QED
  BY <1>1, <1>2, <1>4, PartnersReadKeeps

LEMMA ReadClientKeeps ==
  ASSUME PartnersInv, NEW r \in Requests, Deal!ReadAgain(r)
  PROVE  PartnersInv'
<1> DEFINE i == dealing[r]
           n == CHOOSE c \in clients : c.id = i.client.id
           q == [i EXCEPT !.phase = "ready", !.row = n]
<1>0. i \in Deal!Request /\ PartnersGood(i)
  BY DEF PartnersInv, Deal!TypeOK
<1>1. /\ \/ i.op = "updateClient" /\ i.phase = "begun"
         \/ i.op = "deleteClient" /\ i.phase = "checked"
      /\ dealing' = [dealing EXCEPT ![r].phase = "ready", ![r].row = n]
      /\ UNCHANGED <<Deal!Tables, meetings>>
  BY DEF Deal!ReadAgain, Deal!At
<1>2. n \in clients /\ n.id = i.client.id
  <2>1. \E c \in clients : c.id = i.client.id
    BY <1>0, <1>1 DEF PartnersGood, PartnersReadWell
  <2> QED
    BY <2>1
<1> HIDE DEF n
<1>3. n \in Deal!Client
  BY <1>2 DEF PartnersInv, Deal!TypeOK
<1>4. /\ q \in Deal!Request /\ q.phase = "ready" /\ q.op = i.op /\ q.client = i.client /\ q.row = n
      /\ q.after = i.after
  BY <1>0, <1>3 DEF Deal!Request
<1>5. dealing' = [dealing EXCEPT ![r] = q]
  BY <1>0, <1>1 DEF PartnersInv, Deal!TypeOK, Deal!Request
<1> HIDE DEF q
<1>6. PartnersGood(q)
  BY <1>0, <1>1, <1>2, <1>3, <1>4 DEF PartnersGood, PartnersReadWell, PartnersInsertsUnseen,
     Inserts, ChecksLast, SawOpen
<1> QED
  BY <1>1, <1>4, <1>5, <1>6, PartnersReadKeeps

LEMMA ReadSaleKeeps ==
  ASSUME PartnersInv, NEW r \in Requests, Deal!ReadOrderAgain(r)
  PROVE  PartnersInv'
<1> DEFINE i == dealing[r]
<1>0. i \in Deal!Request /\ PartnersGood(i) /\ i.op = "saveOrder" /\ i.phase = "begun"
      /\ dealing \in [Requests -> Deal!Request] /\ UNCHANGED <<Deal!Tables, meetings>>
  BY DEF PartnersInv, Deal!TypeOK, Deal!ReadOrderAgain, Deal!At
<1>1. PICK o \in sales : /\ o.id = i.order.id
                         /\ dealing' = [dealing EXCEPT ![r].phase = "ready", ![r].row = o]
  BY DEF Deal!ReadOrderAgain
<1> DEFINE q == [i EXCEPT !.phase = "ready", !.row = o]
<1>2. o \in Deal!Order
  BY DEF PartnersInv, Deal!TypeOK
<1>3. /\ q \in Deal!Request /\ q.phase = "ready" /\ q.op = "saveOrder" /\ q.order = i.order
      /\ q.row = o /\ q.after = i.after
  BY <1>0, <1>2 DEF Deal!Request
<1>4. dealing' = [dealing EXCEPT ![r] = q]
  BY <1>0, <1>1 DEF Deal!Request
<1> HIDE DEF q
<1>5. ClosedSince(i) => ClosedSince(q)
  BY <1>3 DEF ClosedSince
<1>6. SawOpen(q)
  BY <1>0, <1>1, <1>2, <1>3, <1>5 DEF PartnersGood, SawOpen
<1>7. PartnersGood(q)
  BY <1>0, <1>3, <1>6 DEF PartnersGood, PartnersReadWell, PartnersInsertsUnseen, Inserts, ChecksLast
<1> QED
  BY <1>0, <1>3, <1>4, <1>7, PartnersReadKeeps

LEMMA FindsKeep ==
  ASSUME PartnersInv, NEW r \in Requests, Deal!FindSupplier(r) \/ Deal!FindClient(r)
  PROVE  PartnersInv'
<1> DEFINE i == dealing[r]
<1>0. i \in Deal!Request /\ PartnersGood(i) /\ dealing \in [Requests -> Deal!Request]
  BY DEF PartnersInv, Deal!TypeOK
<1>1. CASE Deal!FindSupplier(r)
  <2>1. PICK s \in suppliers \cup {None} :
          /\ s = None => \A t \in suppliers : ~Deal!SameContact(i.client, t)
          /\ dealing' = [dealing EXCEPT ![r].phase = "ready", ![r].supplier = s]
          /\ i.op = "fromClient" /\ i.phase = "begun" /\ UNCHANGED <<Deal!Tables, meetings>>
    <3> DEFINE found == {s \in suppliers : s.client = i.client.id \/ Deal!SameContact(i.client, s)}
    <3>1. PICK s \in IF found = {} THEN {None} ELSE found :
            dealing' = [dealing EXCEPT ![r].phase = "ready", ![r].supplier = s]
      BY <1>1 DEF Deal!FindSupplier
    <3>2. None \notin suppliers
      BY PartnersAssumption DEF PartnersInv, Deal!TypeOK
    <3>3. s = None => \A t \in suppliers : ~Deal!SameContact(i.client, t)
      BY <3>1, <3>2
    <3>4. s \in suppliers \cup {None}
      BY <3>1
    <3> QED
      BY <1>1, <3>1, <3>3, <3>4 DEF Deal!FindSupplier, Deal!At
  <2> DEFINE q == [i EXCEPT !.phase = "ready", !.supplier = s]
  <2>2. s \in Deal!Supplier \cup {None}
    BY <2>1 DEF PartnersInv, Deal!TypeOK
  <2>3. /\ q \in Deal!Request /\ q.phase = "ready" /\ q.op = "fromClient" /\ q.client = i.client
        /\ q.supplier = s /\ q.after = i.after
    BY <1>0, <2>1, <2>2 DEF Deal!Request
  <2>4. dealing' = [dealing EXCEPT ![r] = q]
    BY <1>0, <2>1 DEF Deal!Request
  <2> HIDE DEF q
  <2>5. PartnersGood(q)
    BY <1>0, <2>1, <2>3 DEF PartnersGood, PartnersReadWell, PartnersInsertsUnseen, Inserts, Naming,
       ChecksLast, SawOpen
  <2> QED
    BY <2>1, <2>3, <2>4, <2>5, PartnersReadKeeps
<1>2. CASE Deal!FindClient(r)
  <2>1. PICK c \in clients \cup {None} :
          /\ dealing' = [dealing EXCEPT ![r].phase = "ready", ![r].client = c]
          /\ i.op = "asClient" /\ i.phase = "begun" /\ UNCHANGED <<Deal!Tables, meetings>>
    BY <1>2 DEF Deal!FindClient, Deal!At, Deal!Live
  <2> DEFINE q == [i EXCEPT !.phase = "ready", !.client = c]
  <2>2. c \in Deal!Client \cup {None}
    BY <2>1 DEF PartnersInv, Deal!TypeOK
  <2>3. /\ q \in Deal!Request /\ q.phase = "ready" /\ q.op = "asClient"
        /\ q.supplier = i.supplier /\ q.after = i.after
    BY <1>0, <2>1, <2>2 DEF Deal!Request
  <2>4. dealing' = [dealing EXCEPT ![r] = q]
    BY <1>0, <2>1 DEF Deal!Request
  <2> HIDE DEF q
  <2>5. PartnersGood(q)
    BY <1>0, <2>1, <2>3 DEF PartnersGood, PartnersReadWell, PartnersInsertsUnseen, Inserts,
       ChecksLast, SawOpen
  <2> QED
    BY <2>1, <2>3, <2>4, <2>5, PartnersReadKeeps
<1> QED
  BY <1>1, <1>2

-----------------------------------------------------------------------------
LEMMA PartnersStep == ASSUME PartnersInv, [Deal!Next]_Deal!vars PROVE PartnersInv'
<1>1. CASE UNCHANGED Deal!vars
  <2>0. UNCHANGED <<clients, suppliers, sales, dealing, meetings>>
    BY <1>1 DEF Deal!vars
  <2>1. Deal!Done' = Deal!Done /\ Begun' = Begun
    BY <2>0 DEF Deal!Done, Begun
  <2>2. \A q : PartnersGood(q) => PartnersGood(q)'
    BY <2>0, <2>1 DEF PartnersGood, PartnersReadWell, PartnersInsertsUnseen, Inserts,
       Naming, ChecksLast, Later, SawOpen, ClosedSince, ShutBy, Deal!ReopenedStale
  <2>3. \A c, r : DeletedBy(c, r) => DeletedBy(c, r)'
    BY <2>0 DEF DeletedBy, Later, Deal!Overlapped, Deal!ReopenedStale, Deal!Open
  <2> QED
    BY <2>0, <2>1, <2>2, <2>3 DEF PartnersInv, Deal!TypeOK, PartnersRowsAreNamed,
       Deal!SuppliersAreDistinct, Deal!Overlapped, DeletionsAreMade
<1>2. ASSUME NEW r \in Requests, NEW o \in sales, Deal!BeginSaveOrder(r, o) PROVE PartnersInv'
  BY <1>2, BeginSaveOrderKeeps
<1> QED
  BY <1>1, <1>2, BeginsKeep, CheckOrdersKeeps, ReadClientKeeps, ReadSaleKeeps, FindsKeep,
     CreateClientKeeps, SaveClientKeeps, CreateOrderKeeps, SaveSaleKeeps, CreateSupplierKeeps,
     FromClientKeeps, AsClientKeeps DEF Deal!Next

LEMMA PartnersInvariant == Deal!Spec => []PartnersInv
BY PartnersInit, PartnersStep, PTL DEF Deal!Spec

\* Two suppliers with a phone or an address in common were created by requests that
\* overlapped; and two of one name too, but when one was made from a client after the other.
THEOREM SuppliersDistinct == Deal!Spec => []SuppliersAreDistinct
<1>1. PartnersInv => SuppliersAreDistinct
  BY DEF PartnersInv, SuppliersAreDistinct
<1> QED
  BY <1>1, PartnersInvariant, PTL

\* The last order of a deleted client is open only when a conversion made it, when it was
\* created while the client was deleted, or when a save that had read it open came last.
THEOREM LastOrderKeeps == Deal!Spec => []LastOrderKeepsClient
<1>1. ASSUME PartnersInv, NEW c \in clients, NEW o \in sales, c.is_deleted, o.client = c.id,
             Deal!Open(o)
      PROVE  \/ Later(o) \/ Deal!ReopenedStale(o)
             \/ \E r \in Requests :
                  /\ dealing[r].op = "deleteClient" /\ dealing[r].client.id = c.id
                  /\ \/ Deal!Overlapped({r, o.id})
                     \/ dealing[o.id].op = "convert" /\ r \in dealing[o.id].after
  <2>1. PICK r \in Requests : DeletedBy(c.id, r)
    BY <1>1 DEF PartnersInv, DeletionsAreMade
  <2> QED
    BY <1>1, <2>1 DEF DeletedBy
<1>2. PartnersInv => LastOrderKeepsClient
  <2> SUFFICES ASSUME PartnersInv, NEW c \in clients, NEW o \in sales, c.is_deleted, o.client = c.id,
                      Deal!Open(o)
               PROVE  \/ \E p \in sales : p.client = c.id /\ p.nth > o.nth
                      \/ Deal!ReopenedStale(o)
                      \/ \E r \in Requests :
                           /\ dealing[r].op = "deleteClient" /\ dealing[r].client.id = c.id
                           /\ \/ Deal!Overlapped({r, o.id})
                              \/ dealing[o.id].op = "convert" /\ r \in dealing[o.id].after
    BY DEF LastOrderKeepsClient, Deal!LastOrderKeepsClient
  <2>1. Later(o) => \E p \in sales : p.client = c.id /\ p.nth > o.nth
    BY DEF Later
  <2> QED
    BY <1>1, <2>1
<1> QED
  BY <1>2, PartnersInvariant, PTL

-----------------------------------------------------------------------------
\* Scanned documents and the orders they are attached to.

Linked(i) == {r \in Scan!Done : linking[r].document.id = i}

\* A request names a document that a request over has uploaded.
RequestsReadScans ==
  \A r \in Requests : linking[r].phase \in {"read", "done"} =>
    /\ linking[r].document \in Scan!Document
    /\ linking[r].document.id \in IF linking[r].phase = "read" THEN Scan!Done ELSE Scan!Done \cup {r}
    /\ linking[r].after \subseteq Scan!Done
    /\ linking[r].phase = "read" => linking[r].document.order \in {None, linking[r].order}

OneRowEach == /\ \A d \in scans : d.id \in Scan!Done
              /\ \A d, e \in scans : d.id = e.id => d = e

\* The row is as it was read, or a request that the reader did not see has attached it.
SeenOrChanged ==
  \A r \in Requests, d \in scans :
    linking[r].phase = "read" /\ linking[r].document.id = d.id =>
      d.order = linking[r].document.order \/ Linked(d.id) \ linking[r].after # {}

ScansInv == Scan!TypeOK /\ RequestsReadScans /\ OneRowEach /\ SeenOrChanged /\ Scan!LinksAgree

LEMMA ScansInit == Scan!Init => ScansInv
BY DEF Scan!Init, ScansInv, Scan!TypeOK, Scan!Request, RequestsReadScans, OneRowEach,
   SeenOrChanged, Scan!LinksAgree

LEMMA ScanKeeps ==
  ASSUME ScansInv, NEW r \in Requests, NEW o \in Orders \cup {None}, Scan!ScanInvoice(r, o)
  PROVE  ScansInv'
<1> DEFINE n == [id |-> r, order |-> o]
           q == [phase |-> "done", document |-> n, order |-> o, after |-> Scan!Done]
<1>0. linking' = [linking EXCEPT ![r] = q] /\ scans' = scans \cup {n} /\ crossed' = crossed
  BY DEF Scan!ScanInvoice
<1>1. n \in Scan!Document /\ n.id = r /\ n.order = o
  BY DEF Scan!Document
<1>2. q \in Scan!Request /\ q.phase = "done" /\ q.document = n /\ q.order = o /\ q.after = Scan!Done
  BY <1>1 DEF Scan!Request, Scan!Done
<1> HIDE DEF n, q
<1>3. \A s \in Requests : linking'[s] = IF s = r THEN q ELSE linking[s]
  BY <1>0 DEF ScansInv, Scan!TypeOK
<1>4. r \notin Scan!Done /\ Scan!Done' = Scan!Done \cup {r}
  BY <1>2, <1>3 DEF Scan!ScanInvoice, Scan!Done
<1>5. Scan!TypeOK'
  BY <1>0, <1>1, <1>2 DEF ScansInv, Scan!TypeOK
<1>6. RequestsReadScans'
  BY <1>1, <1>2, <1>3, <1>4 DEF ScansInv, RequestsReadScans
<1>7. OneRowEach'
  BY <1>0, <1>1, <1>4 DEF ScansInv, OneRowEach
<1>8. Linked(r)' = {r}
  <2>0. \A s \in Scan!Done : s \in Requests /\ linking[s].phase = "done" /\ s # r
    BY <1>4 DEF Scan!Done
  <2>1. \A s \in Scan!Done : linking[s].document.id # r
    BY <1>4, <2>0 DEF ScansInv, RequestsReadScans
  <2>2. Linked(r)' = {s \in Scan!Done' : linking'[s].document.id = r}
    BY DEF Linked
  <2> QED
    BY <1>1, <1>2, <1>3, <1>4, <2>0, <2>1, <2>2
<1>9. ASSUME NEW d \in scans
      PROVE  Linked(d.id)' = Linked(d.id) /\ Linked(d.id) \subseteq Requests /\ d.id # r
  BY <1>1, <1>2, <1>3, <1>4 DEF ScansInv, OneRowEach, Linked, Scan!Done
<1>10. SeenOrChanged'
  <2> SUFFICES ASSUME NEW s \in Requests, NEW d \in scans', linking'[s].phase = "read",
                      linking'[s].document.id = d.id
               PROVE  d.order = linking'[s].document.order \/ Linked(d.id)' \ linking'[s].after # {}
    BY DEF SeenOrChanged, Linked, Scan!Done
  <2>1. s # r /\ linking'[s] = linking[s] /\ d.id \in Scan!Done
    BY <1>2, <1>3 DEF ScansInv, RequestsReadScans
  <2>2. d \in scans
    BY <1>0, <1>1, <1>4, <2>1
  <2> QED
    BY <1>9, <2>1, <2>2 DEF ScansInv, SeenOrChanged
<1>11. Scan!LinksAgree'
  <2>1. ASSUME NEW d \in scans, NEW s \in Linked(d.id)
        PROVE  linking'[s].order \in {d.order, None} \/ Scan!Overlapped(Linked(d.id))'
    BY <1>0, <1>3, <1>4, <1>9 DEF ScansInv, Scan!LinksAgree, Linked, Scan!Done, Scan!Overlapped
  <2>2. linking'[r].order = n.order
    BY <1>1, <1>2, <1>3
  <2>3. \A d \in scans' : \A s \in Linked(d.id)' :
          linking'[s].order \in {d.order, None} \/ Scan!Overlapped(Linked(d.id))'
    BY <1>0, <1>1, <1>8, <1>9, <2>1, <2>2
  <2> QED
    BY <2>3 DEF Scan!LinksAgree, Linked
<1> QED
  BY <1>5, <1>6, <1>7, <1>10, <1>11 DEF ScansInv

LEMMA BeginLinkKeeps ==
  ASSUME ScansInv, NEW r \in Requests, NEW d \in Scan!Document, NEW o \in Orders, Scan!BeginLink(r, d, o)
  PROVE  ScansInv'
<1> DEFINE q == [phase |-> "read", document |-> d, order |-> o, after |-> Scan!Done]
<1>0. linking' = [linking EXCEPT ![r] = q] /\ UNCHANGED <<scans, crossed>>
  BY DEF Scan!BeginLink
<1>1. q \in Scan!Request /\ q.phase = "read" /\ q.document = d /\ q.order = o /\ q.after = Scan!Done
  BY DEF Scan!Request, Scan!Done
<1> HIDE DEF q
<1>2. \A s \in Requests : linking'[s] = IF s = r THEN q ELSE linking[s]
  BY <1>0 DEF ScansInv, Scan!TypeOK
<1>3. r \notin Scan!Done /\ Scan!Done' = Scan!Done
  BY <1>1, <1>2 DEF Scan!BeginLink, Scan!Done
<1>4. Scan!TypeOK'
  BY <1>0, <1>1 DEF ScansInv, Scan!TypeOK
<1>5. d \in scans /\ d.order \in {None, o}
  BY DEF Scan!BeginLink, Scan!Found
<1>6. RequestsReadScans'
  BY <1>1, <1>2, <1>3, <1>5 DEF ScansInv, RequestsReadScans, OneRowEach
<1>7. ASSUME NEW i
      PROVE  Linked(i)' = Linked(i)
  BY <1>2, <1>3 DEF Linked, Scan!Done
<1>8. SeenOrChanged'
  <2> SUFFICES ASSUME NEW s \in Requests, NEW e \in scans, linking'[s].phase = "read",
                      linking'[s].document.id = e.id
               PROVE  e.order = linking'[s].document.order \/ Linked(e.id) \ linking'[s].after # {}
    BY <1>0, <1>7 DEF SeenOrChanged
  <2> QED
    BY <1>1, <1>2, <1>5 DEF ScansInv, SeenOrChanged, OneRowEach
<1>9. Scan!LinksAgree'
  <2>1. \A e \in scans : \A s \in Linked(e.id) : linking'[s].order = linking[s].order
    BY <1>2, <1>3 DEF Linked, Scan!Done
  <2> QED
    <3> SUFFICES ASSUME NEW e \in scans, NEW s \in Linked(e.id)'
                 PROVE  linking'[s].order \in {e.order, None} \/ Scan!Overlapped(Linked(e.id))'
      BY <1>0 DEF Scan!LinksAgree, Linked
    <3>1. linking[s].order \in {e.order, None} \/ Scan!Overlapped(Linked(e.id))
      BY <1>7 DEF ScansInv, Scan!LinksAgree, Linked
    <3>2. Scan!Overlapped(Linked(e.id))' <=> Scan!Overlapped(Linked(e.id))
      BY <1>0, <1>7 DEF Scan!Overlapped
    <3> QED
      BY <1>7, <2>1, <3>1, <3>2
<1> QED
  BY <1>0, <1>3, <1>4, <1>6, <1>8, <1>9 DEF ScansInv, OneRowEach

LEMMA LinkKeeps ==
  ASSUME ScansInv, NEW r \in Requests, Scan!LinkToOrder(r)
  PROVE  ScansInv'
<1> DEFINE seen == linking[r].document
           o    == linking[r].order
           Now(d) == IF d.id = seen.id /\ seen.order # o THEN [d EXCEPT !.order = o] ELSE d
<1>0. /\ linking[r].phase = "read" /\ seen \in Scan!Document /\ seen.id \in Scan!Done
      /\ o \in Orders \cup {None}
      /\ seen.order \in {None, o} /\ scans \subseteq Scan!Document
      /\ linking \in [Requests -> Scan!Request]
      /\ linking[r].after \subseteq Scan!Done
  BY DEF Scan!LinkToOrder, ScansInv, Scan!TypeOK, RequestsReadScans, Scan!Request
<1>1. /\ scans' = {Now(d) : d \in scans}
      /\ linking' = [linking EXCEPT ![r].phase = "done"]
      /\ crossed' = crossed \cup ({r} \X (Scan!Done \ linking[r].after))
  BY DEF Scan!LinkToOrder
<1>2. \A d \in Scan!Document :
        /\ Now(d) \in Scan!Document /\ Now(d).id = d.id
        /\ Now(d).order = IF d.id = seen.id /\ seen.order # o THEN o ELSE d.order
  BY <1>0 DEF Scan!Document
<1> HIDE DEF Now
<1>3. \A s \in Requests : /\ linking'[s].phase = IF s = r THEN "done" ELSE linking[s].phase
                          /\ linking'[s].document = linking[s].document
                          /\ linking'[s].order = linking[s].order
                          /\ linking'[s].after = linking[s].after
  BY <1>0, <1>1 DEF Scan!Request
<1>4. r \notin Scan!Done /\ Scan!Done' = Scan!Done \cup {r}
  BY <1>0, <1>3 DEF Scan!Done
<1>5. Scan!TypeOK'
  BY <1>0, <1>1, <1>2 DEF ScansInv, Scan!TypeOK, Scan!Request, Scan!Done
<1>6. RequestsReadScans'
  <2> SUFFICES ASSUME NEW s \in Requests, linking'[s].phase \in {"read", "done"}
               PROVE  /\ linking'[s].document \in Scan!Document
                      /\ linking'[s].document.id \in IF linking'[s].phase = "read" THEN Scan!Done'
                                                    ELSE Scan!Done' \cup {s}
                      /\ linking'[s].after \subseteq Scan!Done'
                      /\ linking'[s].phase = "read" => linking'[s].document.order \in {None, linking'[s].order}
    BY DEF RequestsReadScans
  <2>1. CASE s = r
    BY <1>0, <1>3, <1>4, <2>1
  <2>2. CASE s # r
    BY <1>3, <1>4, <2>2 DEF ScansInv, RequestsReadScans
  <2> QED
    BY <2>1, <2>2
<1>7. OneRowEach'
  BY <1>0, <1>1, <1>2, <1>4 DEF ScansInv, OneRowEach
<1>8. \A i : Linked(i)' = IF i = seen.id THEN Linked(i) \cup {r} ELSE Linked(i)
  BY <1>3, <1>4 DEF Linked, Scan!Done
<1>9. \A d \in scans' : \E e \in scans : e \in Scan!Document /\ d = Now(e) /\ d.id = e.id
  BY <1>0, <1>1, <1>2
<1>10. SeenOrChanged'
  <2> SUFFICES ASSUME NEW s \in Requests, NEW d \in scans', linking'[s].phase = "read",
                      linking'[s].document.id = d.id
               PROVE  d.order = linking'[s].document.order \/ Linked(d.id)' \ linking'[s].after # {}
    BY DEF SeenOrChanged, Linked, Scan!Done
  <2>1. PICK e \in scans : e \in Scan!Document /\ d = Now(e) /\ d.id = e.id
    BY <1>9
  <2>2. s # r /\ linking[s].phase = "read" /\ linking[s].document.id = e.id /\ r \notin linking[s].after
    BY <1>0, <1>3, <1>4, <2>1 DEF ScansInv, RequestsReadScans
  <2> QED
    BY <1>2, <1>3, <1>8, <2>1, <2>2 DEF ScansInv, SeenOrChanged
<1>11. Scan!LinksAgree'
  <2>0. ASSUME NEW d \in scans', NEW s \in Linked(d.id)'
        PROVE  linking'[s].order \in {d.order, None} \/ Scan!Overlapped(Linked(d.id))'
    <3>1. PICK e \in scans : e \in Scan!Document /\ d = Now(e) /\ d.id = e.id
      BY <1>9
    <3>2. \A t \in Linked(e.id) : linking[t].order \in {e.order, None} \/ Scan!Overlapped(Linked(e.id))
      BY DEF ScansInv, Scan!LinksAgree, Linked
    <3>3. Scan!Overlapped(Linked(e.id)) => Scan!Overlapped(Linked(d.id))'
      BY <1>1, <1>8, <3>1 DEF Scan!Overlapped
    <3>4. s # r => s \in Linked(e.id)
      BY <1>8, <3>1
    <3>5. CASE e.id # seen.id
      <4>1. s \in Linked(e.id) /\ d.order = e.order
        BY <1>2, <1>8, <3>1, <3>5
      <4>2. linking'[s].order = linking[s].order
        BY <1>3, <4>1 DEF Linked, Scan!Done
      <4> QED
        BY <3>2, <3>3, <4>1, <4>2
    <3>6. CASE e.id = seen.id /\ e.order # seen.order
      <4>1. PICK t \in Linked(e.id) : t \notin linking[r].after
        BY <1>0, <3>6 DEF ScansInv, SeenOrChanged
      <4>2. <<r, t>> \in crossed'
        BY <1>1, <4>1 DEF Linked
      <4> QED
        BY <1>8, <3>1, <3>6, <4>1, <4>2 DEF Scan!Overlapped
    <3>7. CASE e.id = seen.id /\ e.order = seen.order
      <4>1. d.order = o
        BY <1>0, <1>2, <3>1, <3>7
      <4>2. linking'[s].order = linking[s].order
        BY <1>3 DEF Linked, Scan!Done
      <4> QED
        BY <1>0, <3>2, <3>3, <3>4, <3>7, <4>1, <4>2
    <3> QED
      BY <3>5, <3>6, <3>7
  <2> QED
    BY <2>0 DEF Scan!LinksAgree, Linked, Scan!Overlapped
<1> QED
  BY <1>5, <1>6, <1>7, <1>10, <1>11 DEF ScansInv

LEMMA ScansStep == ASSUME ScansInv, [Scan!Next]_Scan!vars PROVE ScansInv'
<1>1. CASE UNCHANGED Scan!vars
  <2>1. Scan!TypeOK' /\ RequestsReadScans' /\ OneRowEach'
    BY <1>1 DEF Scan!vars, ScansInv, Scan!TypeOK, RequestsReadScans, OneRowEach, Scan!Done
  <2>2. SeenOrChanged'
    BY <1>1 DEF Scan!vars, ScansInv, SeenOrChanged, Linked, Scan!Done
  <2>3. Scan!LinksAgree'
    BY <1>1 DEF Scan!vars, ScansInv, Scan!LinksAgree, Linked, Scan!Done, Scan!Overlapped
  <2> QED
    BY <2>1, <2>2, <2>3 DEF ScansInv
<1> QED
  BY <1>1, ScanKeeps, BeginLinkKeeps, LinkKeeps DEF Scan!Next

\* A request answered that a scan is on an order named the order it is on for good,
\* unless two of the requests that attached the scan overlapped.
THEOREM LinksStay == Scan!Spec => []LinksAgree
<1>1. ScansInv => LinksAgree
  BY DEF ScansInv, LinksAgree
<1> QED
  BY <1>1, ScansInit, ScansStep, PTL DEF Scan!Spec

-----------------------------------------------------------------------------
\* Products.  The codes of the rows are those from one to their number, and a creation
\* that has counted them has the next one unless another has ended since.

N == Cardinality(Make!Rows)

CodesAreCounted == /\ IsFiniteSet(Make!Rows)
                   /\ {p.code : p \in Make!Rows} = 1..N
                   /\ \A p, q \in Make!Rows : p.code = q.code => p = q

\* A code counted is at most the next one, and is the next one as long as no other creation
\* has ended.
CountsAreNext ==
  \A r \in Requests :
    /\ creating[r].after \subseteq Make!Done
    /\ creating[r].phase = "counted" => /\ creating[r].code \in 1..N+1
                                        /\ Make!Done = creating[r].after => creating[r].code = N + 1

FailuresHaveReasons ==
  \A r \in Requests : creating[r].phase = "failed" =>
    Make!BarcodeTaken(creating[r].barcode) \/ \E s \in Requests : <<r, s>> \in collided

CatalogueInv == Make!TypeOK /\ CodesAreCounted /\ CountsAreNext /\ FailuresHaveReasons

LEMMA CatalogueInit == ASSUME Make!Init PROVE CatalogueInv
<1>1. PICK n \in 0..Earlier :
        products = {[organization |-> "other", code |-> c, barcode |-> None,
                     is_deleted |-> FALSE] : c \in 1..n}
  BY DEF Make!Init
<1>2. Make!Rows = {}
  BY <1>1 DEF Make!Rows
<1>3. N = 0 /\ IsFiniteSet(Make!Rows) /\ 1..0 = {}
  BY <1>2, FS_EmptySet DEF N
<1>4. CodesAreCounted
  BY <1>2, <1>3 DEF CodesAreCounted
<1>5. Make!TypeOK
  <2>1. products \subseteq Make!Product
    <3> SUFFICES ASSUME NEW p \in products PROVE p \in Make!Product
      OBVIOUS
    <3>1. PICK c \in 1..n : p = [organization |-> "other", code |-> c, barcode |-> None,
                                 is_deleted |-> FALSE]
      BY <1>1
    <3> QED
      BY <3>1 DEF Make!Product, Make!Organizations
  <2> QED
    BY <2>1 DEF Make!Init, Make!TypeOK, Make!Request
<1>6. CountsAreNext /\ FailuresHaveReasons
  BY DEF Make!Init, CountsAreNext, FailuresHaveReasons
<1> QED
  BY <1>4, <1>5, <1>6 DEF CatalogueInv

LEMMA CountType == ASSUME CatalogueInv PROVE N \in Nat
BY FS_CardinalityType DEF CatalogueInv, CodesAreCounted, N

LEMMA CountKeeps ==
  ASSUME CatalogueInv, NEW r \in Requests, NEW b \in Barcodes \cup {None}, Make!BeginCreateProduct(r, b)
  PROVE  CatalogueInv'
<1> DEFINE q == [phase |-> "counted", code |-> N + 1, barcode |-> b, after |-> Make!Done]
<1>0. creating' = [creating EXCEPT ![r] = q] /\ UNCHANGED <<products, collided>> /\ N \in Nat
  BY CountType, SameSizes DEF Make!BeginCreateProduct, Make!GenerateCode, N
<1>1. /\ q \in Make!Request /\ q.phase = "counted" /\ q.code = N + 1 /\ q.after = Make!Done
  BY <1>0 DEF Make!Request, Make!Done
<1> HIDE DEF q
<1>2. \A s \in Requests : creating'[s] = IF s = r THEN q ELSE creating[s]
  BY <1>0 DEF CatalogueInv, Make!TypeOK
<1>3. Make!Done' = Make!Done
  BY <1>1, <1>2 DEF Make!BeginCreateProduct, Make!Done
<1>4. Make!Rows' = Make!Rows
  BY <1>0 DEF Make!Rows
<1>5. N' = N
  BY <1>4 DEF N
<1>6. Make!TypeOK' /\ CodesAreCounted'
  BY <1>0, <1>1, <1>4, <1>5 DEF CatalogueInv, Make!TypeOK, CodesAreCounted
<1>7. CountsAreNext'
  BY <1>0, <1>1, <1>2, <1>3, <1>5 DEF CatalogueInv, CountsAreNext
<1>8. FailuresHaveReasons'
  BY <1>0, <1>1, <1>2, <1>4 DEF CatalogueInv, FailuresHaveReasons, Make!BarcodeTaken
<1> QED
  BY <1>6, <1>7, <1>8 DEF CatalogueInv

LEMMA CatalogueCreateKeeps ==
  ASSUME CatalogueInv, NEW r \in Requests, Make!CreateProduct(r)
  PROVE  CatalogueInv'
<1> DEFINE c == creating[r].code
           b == creating[r].barcode
           taken == Make!CodeTaken(c) \/ Make!BarcodeTaken(b)
           n == [organization |-> "default", code |-> c, barcode |-> b, is_deleted |-> FALSE]
<1>0. /\ creating[r].phase = "counted" /\ creating \in [Requests -> Make!Request] /\ N \in Nat
      /\ c \in 1..N+1 /\ b \in Barcodes \cup {None} /\ creating[r].after \subseteq Make!Done
      /\ Make!Done = creating[r].after => c = N + 1
      /\ {p.code : p \in Make!Rows} = 1..N /\ IsFiniteSet(Make!Rows)
  BY CountType DEF Make!CreateProduct, CatalogueInv, Make!TypeOK, Make!Request, CountsAreNext,
     CodesAreCounted
<1>1. /\ products' = IF taken THEN products ELSE products \cup {n}
      /\ creating' = [creating EXCEPT ![r].phase = IF taken THEN "failed" ELSE "done"]
      /\ collided' = collided \cup ({r} \X (Make!Done \ creating[r].after))
  BY DEF Make!CreateProduct
<1>2. n \in Make!Product /\ n.code = c /\ n.barcode = b /\ n.organization = "default"
  BY <1>0 DEF Make!Product, Make!Organizations
<1>3. Make!CodeTaken(c) <=> c \in 1..N
  BY <1>0 DEF Make!CodeTaken
<1> HIDE DEF n, taken
<1>4. \A s \in Requests :
        /\ creating'[s].phase = IF s = r THEN (IF taken THEN "failed" ELSE "done") ELSE creating[s].phase
        /\ creating'[s].code = creating[s].code /\ creating'[s].barcode = creating[s].barcode
        /\ creating'[s].after = creating[s].after
  BY <1>0, <1>1 DEF Make!Request
<1>5. Make!TypeOK'
  BY <1>0, <1>1, <1>2 DEF CatalogueInv, Make!TypeOK, Make!Request, Make!Done
<1>6. CASE taken
  <2>1. Make!Rows' = Make!Rows /\ Make!Done' = Make!Done
    BY <1>0, <1>1, <1>4, <1>6 DEF Make!Rows, Make!Done
  <2>2. N' = N
    BY <2>1 DEF N
  <2>3. CodesAreCounted'
    BY <2>1, <2>2 DEF CatalogueInv, CodesAreCounted
  <2>4. CountsAreNext'
    BY <1>4, <1>6, <2>1, <2>2 DEF CatalogueInv, CountsAreNext
  <2>5. Make!BarcodeTaken(b) \/ \E s \in Requests : <<r, s>> \in collided'
    <3>1. CASE Make!CodeTaken(c)
      <4>1. c # N + 1
        BY <1>0, <1>3, <3>1
      <4>2. PICK s \in Make!Done : s \notin creating[r].after
        BY <1>0, <4>1
      <4> QED
        BY <1>1, <4>2 DEF Make!Done
    <3> QED
      BY <1>6, <3>1 DEF taken
  <2>6. FailuresHaveReasons'
    BY <1>1, <1>4, <2>1, <2>5 DEF CatalogueInv, FailuresHaveReasons, Make!BarcodeTaken
  <2> QED
    BY <1>5, <2>3, <2>4, <2>6 DEF CatalogueInv
<1>7. CASE ~taken
  <2>1. Make!Rows' = Make!Rows \cup {n} /\ Make!Done' = Make!Done \cup {r} /\ r \notin Make!Done
    BY <1>0, <1>1, <1>2, <1>4, <1>7 DEF Make!Rows, Make!Done
  <2>2. c = N + 1
    BY <1>0, <1>3, <1>7 DEF taken
  <2>3. n \notin Make!Rows
    BY <1>0, <1>2, <2>2
  <2>4. IsFiniteSet(Make!Rows') /\ N' = N + 1
    BY <1>0, <2>1, <2>3, FS_AddElement DEF N
  <2>5. {p.code : p \in Make!Rows'} = 1..N'
    <3>1. {p.code : p \in Make!Rows'} = {p.code : p \in Make!Rows} \cup {c}
      BY <1>2, <2>1
    <3>2. 1..N+1 = (1..N) \cup {N+1}
      BY <1>0
    <3> QED
      BY <1>0, <2>2, <2>4, <3>1, <3>2
  <2>6. \A p, q \in Make!Rows' : p.code = q.code => p = q
    <3>1. \A p \in Make!Rows : p.code # c
      BY <1>0, <2>2
    <3> QED
      BY <1>2, <2>1, <3>1 DEF CatalogueInv, CodesAreCounted
  <2>7. CodesAreCounted'
    BY <2>4, <2>5, <2>6 DEF CodesAreCounted
  <2>8. CountsAreNext'
    BY <1>0, <1>4, <1>7, <2>1, <2>4 DEF CatalogueInv, CountsAreNext
  <2>9. FailuresHaveReasons'
    BY <1>1, <1>4, <1>7, <2>1 DEF CatalogueInv, FailuresHaveReasons, Make!BarcodeTaken
  <2> QED
    BY <1>5, <2>7, <2>8, <2>9 DEF CatalogueInv
<1> QED
  BY <1>6, <1>7

\* A deleted product keeps its row, its code and its barcode.
LEMMA DeleteKeeps ==
  ASSUME CatalogueInv, NEW p \in products, Make!DeleteProduct(p)
  PROVE  CatalogueInv'
<1> DEFINE n == [p EXCEPT !.is_deleted = TRUE]
<1>0. /\ p \in Make!Product /\ p.organization = "default" /\ ~p.is_deleted
      /\ products' = (products \ {p}) \cup {n} /\ UNCHANGED <<creating, collided>>
      /\ N \in Nat /\ IsFiniteSet(Make!Rows) /\ {q.code : q \in Make!Rows} = 1..N
      /\ \A q, s \in Make!Rows : q.code = s.code => q = s
  BY CountType DEF Make!DeleteProduct, CatalogueInv, Make!TypeOK, CodesAreCounted
<1>1. /\ n \in Make!Product /\ n.code = p.code /\ n.barcode = p.barcode
      /\ n.organization = "default" /\ n # p
  BY <1>0 DEF Make!Product
<1> HIDE DEF n
<1>2. p \in Make!Rows /\ n \notin Make!Rows /\ Make!Rows' = (Make!Rows \ {p}) \cup {n}
  BY <1>0, <1>1 DEF Make!Rows
<1>3. IsFiniteSet(Make!Rows') /\ N' = N
  <2>1. IsFiniteSet(Make!Rows \ {p}) /\ Cardinality(Make!Rows \ {p}) = N - 1
    BY <1>0, <1>2, FS_RemoveElement DEF N
  <2>2. n \notin Make!Rows \ {p}
    BY <1>2
  <2>3. IsFiniteSet(Make!Rows') /\ Cardinality(Make!Rows') = Cardinality(Make!Rows \ {p}) + 1
    BY <1>2, <2>1, <2>2, FS_AddElement
  <2> QED
    BY <1>0, <2>1, <2>3 DEF N
<1>4. CodesAreCounted'
  <2>1. {q.code : q \in Make!Rows'} = {q.code : q \in Make!Rows}
    BY <1>1, <1>2
  <2>2. \A q, s \in Make!Rows' : q.code = s.code => q = s
    BY <1>0, <1>1, <1>2
  <2> QED
    BY <1>0, <1>3, <2>1, <2>2 DEF CodesAreCounted
<1>5. \A b : Make!BarcodeTaken(b) => Make!BarcodeTaken(b)'
  BY <1>1, <1>2 DEF Make!BarcodeTaken
<1>6. Make!Done' = Make!Done
  BY <1>0 DEF Make!Done
<1>7. Make!TypeOK' /\ CountsAreNext' /\ FailuresHaveReasons'
  BY <1>0, <1>1, <1>3, <1>5, <1>6 DEF CatalogueInv, Make!TypeOK, CountsAreNext, FailuresHaveReasons
<1> QED
  BY <1>4, <1>7 DEF CatalogueInv

LEMMA CatalogueStep == ASSUME CatalogueInv, [Make!Next]_Make!vars PROVE CatalogueInv'
<1>1. CASE UNCHANGED Make!vars
  <2>1. Make!Rows' = Make!Rows /\ Make!Done' = Make!Done
    BY <1>1 DEF Make!vars, Make!Rows, Make!Done
  <2>2. N' = N
    BY <2>1 DEF N
  <2> QED
    BY <1>1, <2>1, <2>2 DEF Make!vars, CatalogueInv, Make!TypeOK, CodesAreCounted, CountsAreNext,
       FailuresHaveReasons, Make!BarcodeTaken
<1> QED
  BY <1>1, CountKeeps, CatalogueCreateKeeps, DeleteKeeps DEF Make!Next

\* The codes of the products have no gap, and a creation is refused only for a barcode or
\* for another creation that overlapped it.
THEOREM CreationsAlone == Make!Spec => []CreationsSucceedAlone
<1>1. CatalogueInv => CreationsSucceedAlone
  BY SameSizes DEF CatalogueInv, CodesAreCounted, N, FailuresHaveReasons, CreationsSucceedAlone,
     Make!CreationsSucceedAlone
<1> QED
  BY <1>1, CatalogueInit, CatalogueStep, PTL DEF Make!Spec
=============================================================================
