----------------------------- MODULE Catalogue -----------------------------
(***************************************************************************)
(* The products of one category: created one by one or imported from a     *)
(* CSV file, edited, priced, and labelled.                                 *)
(*                                                                         *)
(* CatalogService and BulkImportService check first and write later, with  *)
(* the database's unique names and barcodes behind them; opening stock is  *)
(* received in a transaction of its own after the product exists.          *)
(* PricesService records every change of a price and queues a label;       *)
(* CatalogService may change the price too and does neither.               *)
(***************************************************************************)
EXTENDS Naturals, Sequences, FiniteSets

CONSTANTS
    Calls,      \* requests in flight at once
    Creates,    \* products somebody may create, as <<name, barcode>>
    Edits,      \* edits somebody may make, as <<name, barcode, price>>
    Reprices,   \* price changes somebody may ask for, as <<name, price>>
    Names,      \* product names
    Fold,       \* a name without its case
    Barcodes,   \* barcodes; NoCode is the absence of one
    NoCode,
    Prices,     \* selling prices
    KeepPrice,  \* an edit that leaves the price alone
    FirstPrice, \* the price a product is created with
    File,       \* the CSV file: a sequence of [name, barcode, opening, errors]
    MaxImports, \* bound on how often the file is committed
    MaxChanges  \* bound on the price changes

ASSUME CatalogueAssumption ==
    /\ NoCode \notin Barcodes /\ KeepPrice \notin Prices /\ FirstPrice \in Prices /\ Prices \subseteq Nat
    /\ Creates \subseteq Names \X (Barcodes \cup {NoCode})
    /\ Edits \subseteq Names \X (Barcodes \cup {NoCode}) \X (Prices \cup {KeepPrice})
    /\ Reprices \subseteq Names \X Prices
    /\ MaxImports \in Nat /\ MaxChanges \in Nat
    /\ File \in Seq([name : Names, barcode : Barcodes \cup {NoCode},
                     opening : BOOLEAN, errors : BOOLEAN])

VARIABLES
    price,      \* the products: name -> price, for those that exist
    barcode,    \* ProductBarcode rows: [product, code, primary]
    stocked,    \* opening receipts posted: name -> how many
    changes,    \* PriceChange rows of a product: sequence of [old, new]
    labels,     \* LabelReprintQueue: sequence of [product, status]
    locked,     \* products whose row an open transaction holds
    call,       \* each request: [pc, kind, name, code, price, seen]
    import,     \* the import: [pc, row, created, skipped, runs]
    printer,    \* the person at the label printer: [pc, jobs, prices]
    shelf,      \* the price on a product's shelf label
    edited,     \* history: products whose price an edit changed last
    raced       \* history: products edited or with overlapping changes of the price

tables == <<price, barcode, stocked, changes, labels, locked>>
catalogueVars == <<price, barcode, stocked, changes, labels, locked, call, import, printer,
                   shelf, edited, raced>>

Products == DOMAIN price
Codes == {b.code : b \in barcode}
PrimaryOf(p) == {b \in barcode : b.product = p /\ b.primary}

Idle == [pc |-> "idle"]
Ends(r) == call' = [call EXCEPT ![r] = Idle]

CatalogueInit ==
    /\ price = << >> /\ barcode = {} /\ changes = [n \in Names |-> <<>>]
    /\ stocked = [n \in Names |-> 0]
    /\ labels = <<>> /\ locked = {}
    /\ call = [r \in Calls |-> Idle]
    /\ import = [pc |-> "idle", row |-> 0, created |-> {}, skipped |-> {}, runs |-> 0]
    /\ printer = [pc |-> "idle", jobs |-> {}, prices |-> << >>]
    /\ shelf = [n \in Names |-> FirstPrice]
    /\ edited = {} /\ raced = {}

NewProduct(n, c) ==
    /\ price' = [p \in Products \cup {n} |-> IF p = n THEN FirstPrice ELSE price[p]]
    /\ barcode' = IF c = NoCode THEN barcode
                  ELSE barcode \cup {[product |-> n, code |-> c, primary |-> TRUE]}

\* The unique indexes a new product runs into.
Clashes(n, c) == n \in Products \/ c \in Codes

(***************************************************************************)
(* createProduct: check the name, create product, stock row and barcode in *)
(* a transaction, then receive the opening stock, which may fail.          *)
(***************************************************************************)
BeginCreate(r, n, c) ==
    /\ call[r].pc = "idle"
    /\ n \notin Products                      \* otherwise 400
    /\ call' = [call EXCEPT ![r] = [pc |-> "create", name |-> n, code |-> c]]
    /\ UNCHANGED <<tables, import, printer, shelf, edited, raced>>

CreateRow(r) ==
    /\ call[r].pc = "create"
    /\ \/ /\ Clashes(call[r].name, call[r].code)
          /\ Ends(r)
          /\ UNCHANGED <<price, barcode>>
       \/ /\ ~Clashes(call[r].name, call[r].code)
          /\ NewProduct(call[r].name, call[r].code)
          /\ call' = [call EXCEPT ![r].pc = "open"]
    /\ UNCHANGED <<stocked, changes, labels, locked, import, printer, shelf, edited, raced>>

ReceiveOpening(r) ==
    /\ call[r].pc = "open"
    /\ \/ stocked' = [stocked EXCEPT ![call[r].name] = @ + 1]
       \/ UNCHANGED stocked                   \* the receipt failed: 500, the product stays
    /\ Ends(r)
    /\ UNCHANGED <<price, barcode, changes, labels, locked, import, printer, shelf, edited, raced>>

(***************************************************************************)
(* updateProduct: one transaction updates the row, which it then holds,    *)
(* and gives the product's primary barcode a new code or creates it.       *)
(***************************************************************************)
BeginUpdate(r, n, c, v) ==
    /\ call[r].pc = "idle"
    /\ n \in Products
    /\ call' = [call EXCEPT ![r] = [pc |-> "update", name |-> n, code |-> c, price |-> v]]
    /\ UNCHANGED <<tables, import, printer, shelf, edited, raced>>

\* mutant: the barcode is written before the product, whose row is not held yet
UpdateRowLast(r) ==
    /\ call[r].pc = "update"
    /\ call[r].name \notin locked
    /\ call' = [call EXCEPT ![r].pc = "find"]
    /\ UNCHANGED <<tables, import, printer, shelf, edited, raced>>

UpdateRow(r) ==
    /\ call[r].pc = "update"
    /\ call[r].name \notin locked
    /\ locked' = locked \cup {call[r].name}
    /\ call' = [call EXCEPT ![r].pc = "find"]
    /\ UNCHANGED <<price, barcode, stocked, changes, labels, import, printer, shelf, edited, raced>>

FindPrimary(r) ==
    /\ call[r].pc = "find"
    /\ call' = [call EXCEPT ![r] = [pc |-> "barcode", name |-> call[r].name, code |-> call[r].code,
                                    price |-> call[r].price, primary |-> PrimaryOf(call[r].name)]]
    /\ UNCHANGED <<tables, import, printer, shelf, edited, raced>>

\* The primary barcode gets the new code, or a first one is created; a code that is
\* taken rolls everything back.
CommitUpdate(r) ==
    /\ call[r].pc = "barcode"
    /\ LET p == call[r].name
           c == call[r].code
           \* findFirst: one of the primary barcodes, if there is any
           old == IF call[r].primary = {} THEN {} ELSE {CHOOSE b \in call[r].primary : TRUE}
           rest == barcode \ {b \in barcode : \E o \in old : o.code = b.code}
           taken == \E b \in rest : b.code = c
       IN
        /\ barcode' = IF c = NoCode \/ taken THEN barcode
                      ELSE rest \cup {[product |-> p, code |-> c, primary |-> TRUE]}
        /\ IF taken \/ call[r].price = KeepPrice \/ call[r].price = price[p]
           THEN UNCHANGED <<price, edited, raced>>
           ELSE /\ price' = [price EXCEPT ![p] = call[r].price]
                /\ edited' = edited \cup {p}
                /\ raced' = raced \cup {p}
        /\ locked' = locked \ {p}
    /\ Ends(r)
    /\ UNCHANGED <<stocked, changes, labels, import, printer, shelf>>

(***************************************************************************)
(* changePrice: reads the price, then in one transaction sets it, records  *)
(* the change from the price it read and queues a label.                   *)
(***************************************************************************)
BeginPrice(r, n, v) ==
    /\ call[r].pc = "idle"
    /\ n \in Products
    /\ price[n] # v                           \* otherwise 400
    /\ Len(labels) + Cardinality({q \in Calls : call[q].pc = "price"}) < MaxChanges
    /\ call' = [call EXCEPT ![r] = [pc |-> "price", name |-> n, price |-> v, seen |-> price[n]]]
    /\ UNCHANGED <<tables, import, printer, shelf, edited, raced>>

CommitPrice(r) ==
    /\ call[r].pc = "price"
    /\ LET p == call[r].name IN
        /\ p \notin locked
        /\ price' = [price EXCEPT ![p] = call[r].price]
        /\ changes' = [changes EXCEPT ![p] = Append(@, [old |-> call[r].seen, new |-> call[r].price])]
        /\ labels' = Append(labels, [product |-> p, status |-> "PENDING"])
        /\ raced' = IF price[p] = call[r].seen THEN raced ELSE raced \cup {p}
    /\ edited' = edited \ {call[r].name}
    /\ Ends(r)
    /\ UNCHANGED <<barcode, stocked, locked, import, printer, shelf>>

(***************************************************************************)
(* Labels: somebody lists the pending jobs with the prices of their        *)
(* products, prints and places the labels, then marks those jobs printed.  *)
(***************************************************************************)
Pending == {i \in DOMAIN labels : labels[i].status = "PENDING"}

ListPending ==
    /\ printer.pc = "idle" /\ Pending # {}
    /\ printer' = [pc |-> "listed", jobs |-> Pending,
                   prices |-> [p \in {labels[i].product : i \in Pending} |-> price[p]]]
    /\ UNCHANGED <<tables, call, import, shelf, edited, raced>>

\* mutant: every job of the products is marked, also those queued since
MarkPrintedProducts ==
    /\ printer.pc = "listed"
    /\ shelf' = [n \in Names |->
        IF n \in DOMAIN printer.prices THEN printer.prices[n] ELSE shelf[n]]
    /\ labels' = [i \in DOMAIN labels |->
        IF labels[i].product \in DOMAIN printer.prices
        THEN [labels[i] EXCEPT !.status = "PRINTED"] ELSE labels[i]]
    /\ printer' = [pc |-> "idle", jobs |-> {}, prices |-> << >>]
    /\ UNCHANGED <<price, barcode, stocked, changes, locked, call, import, edited, raced>>

MarkPrinted ==
    /\ printer.pc = "listed"
    /\ shelf' = [n \in Names |->
        IF n \in DOMAIN printer.prices THEN printer.prices[n] ELSE shelf[n]]
    /\ labels' = [i \in DOMAIN labels |->
        IF i \in printer.jobs THEN [labels[i] EXCEPT !.status = "PRINTED"] ELSE labels[i]]
    /\ printer' = [pc |-> "idle", jobs |-> {}, prices |-> << >>]
    /\ UNCHANGED <<price, barcode, stocked, changes, locked, call, import, edited, raced>>

(***************************************************************************)
(* commitPreview: the valid rows one by one.  A row whose product or       *)
(* barcode exists is skipped; an error of a row is caught, reported and    *)
(* the next row is taken.                                                  *)
(***************************************************************************)
Row == File[import.row]
Valid == {i \in DOMAIN File : ~File[i].errors}
NextRow(i) == IF {j \in Valid : j > i} = {} THEN 0
              ELSE CHOOSE j \in Valid : j > i /\ \A k \in Valid : k > i => j <= k
Goes(field) ==
    import' = [import EXCEPT ![field] = @ \cup {import.row}, !.row = NextRow(@),
                             !.pc = IF NextRow(import.row) = 0 THEN "idle" ELSE "check"]

StartImport ==
    /\ import.pc = "idle" /\ import.runs < MaxImports
    /\ Valid # {}                             \* otherwise 400
    /\ import' = [pc |-> "check", row |-> NextRow(0), created |-> {}, skipped |-> {},
                  runs |-> import.runs + 1]
    /\ UNCHANGED <<tables, call, printer, shelf, edited, raced>>

\* mutant: the row of a product that exists still receives its opening stock
CheckRowOrReceive ==
    /\ import.pc = "check"
    /\ IF \E p \in Products : Fold[p] = Fold[Row.name]
       THEN import' = [import EXCEPT !.pc = IF Row.name \in Products THEN "open" ELSE "create"]
       ELSE IF Row.barcode \in Codes THEN Goes("skipped")
            ELSE import' = [import EXCEPT !.pc = "create"]
    /\ UNCHANGED <<tables, call, printer, shelf, edited, raced>>

CheckRow ==
    /\ import.pc = "check"
    /\ IF (\E p \in Products : Fold[p] = Fold[Row.name]) \/ Row.barcode \in Codes
       THEN Goes("skipped")
       ELSE import' = [import EXCEPT !.pc = "create"]
    /\ UNCHANGED <<tables, call, printer, shelf, edited, raced>>

ImportRow ==
    /\ import.pc = "create"
    /\ IF Clashes(Row.name, Row.barcode)
       THEN Goes("skipped") /\ UNCHANGED <<price, barcode>>
       ELSE /\ NewProduct(Row.name, Row.barcode)
            /\ IF Row.opening THEN import' = [import EXCEPT !.pc = "open"] ELSE Goes("created")
    /\ UNCHANGED <<stocked, changes, labels, locked, call, printer, shelf, edited, raced>>

ImportOpening ==
    /\ import.pc = "open"
    /\ \/ /\ stocked' = [stocked EXCEPT ![Row.name] = @ + 1]
          /\ Goes("created")
       \/ /\ UNCHANGED stocked
          /\ Goes("skipped")                  \* the receipt failed: the product stays
    /\ UNCHANGED <<price, barcode, changes, labels, locked, call, printer, shelf, edited, raced>>

CatalogueNext ==
    \/ \E r \in Calls :
        \/ \E a \in Creates : BeginCreate(r, a[1], a[2])
        \/ \E a \in Edits : BeginUpdate(r, a[1], a[2], a[3])
        \/ \E a \in Reprices : BeginPrice(r, a[1], a[2])
        \/ CreateRow(r) \/ ReceiveOpening(r)
        \/ UpdateRow(r) \/ FindPrimary(r) \/ CommitUpdate(r)
        \/ CommitPrice(r)
    \/ ListPending \/ MarkPrinted
    \/ StartImport \/ CheckRow \/ ImportRow \/ ImportOpening

CatalogueSpec == CatalogueInit /\ [][CatalogueNext]_catalogueVars

(***************************************************************************)
(* Properties                                                              *)
(***************************************************************************)
\* However often an import or a creation is repeated, and whatever fails in it, the
\* opening stock of a product is received once at most; a row the import reports as
\* created has its product and its stock; and no product has two primary barcodes
\* (catalog.service.ts:306-403 and 493-515, bulk-import.service.ts:145-226).
OpenedOnce ==
    /\ \A n \in Names : stocked[n] <= 1 /\ (stocked[n] = 1 => n \in Products)
    /\ \A i \in import.created :
        File[i].name \in Products /\ (File[i].opening => stocked[File[i].name] = 1)
    /\ \A p \in Products : Cardinality(PrimaryOf(p)) <= 1

\* A price that PricesService set is the last one its history records, the history
\* leads to it step by step unless two changes overlapped or an edit came between,
\* and a product whose shelf label is out of date has a label to print
\* (prices.service.ts:22-71, labels.service.ts:12-43).  Only an edit escapes this.
PricesExplained ==
    \A p \in Products \ edited :
        LET cs == changes[p] IN
        /\ price[p] = (IF cs = <<>> THEN FirstPrice ELSE cs[Len(cs)].new)
        /\ p \notin raced => \A i \in 1..(Len(cs) - 1) : cs[i + 1].old = cs[i].new
        /\ shelf[p] # price[p] => (\E i \in Pending : labels[i].product = p)
=============================================================================
