------------------------------ MODULE Documents -----------------------------
(* The documents that move stock: a transfer between two locations, a return *)
(* to a supplier, a stock count; and a sync conflict, which a manager closes *)
(* in the same way. Every operation reads the document's status first,       *)
(* refuses on it, and then acts in a transaction that does not look at the   *)
(* status again. The transaction itself is one step here: StockLedger       *)
(* shows that its row locks make it one. One document, and sales at the      *)
(* location it takes stock from.                                             *)
EXTENDS Integers

CONSTANTS Requests,      \* calls on the document
          Products,
          Kinds,         \* the kinds of document a run looks at
          OpeningStock,  \* on-hand at the start, the same for every product
          Missing,       \* units a product may lack on the shelf at the start
          MaxQty,        \* bound on the quantity of a line
          MaxSold        \* bound on the units sold

ASSUME KindsAssumption == Kinds \subseteq {"transfer", "return", "count", "conflict"}
ASSUME BoundsAssumption == /\ OpeningStock \in Nat /\ Missing \subseteq 0..OpeningStock
                           /\ MaxQty \in Nat /\ MaxSold \in Nat

VARIABLES kind, status, \* of the document
          qty,          \* units per product on the lines of a transfer or a return
          snapshot,     \* StockCountLine.systemQtySnapshot per product
          counted,      \* countedQty, Uncounted at first
          variance,     \* varianceQty
          onHand,       \* InventoryItem.quantityOnHand at "from" and at "to"
          shelf,        \* units really on the shelf at "from"
          sold,         \* units sold at "from"
          req,          \* of each request: where it is, its operation, the status it
                        \* read, the figures per product it read and when they were taken
          overlap,      \* history: a request acted on a document that had changed since
          soldAt        \* history: what was sold when the count started, when each line
                        \* was recorded, at the post, and when the lines it posted were
                        \* recorded

docVars == <<kind, status, qty, snapshot, counted, variance>>
stockVars == <<onHand, shelf, sold>>
histVars == <<overlap, soldAt>>
vars == <<kind, status, qty, snapshot, counted, variance, onHand, shelf, sold, overlap,
          soldAt, req>>

Uncounted == -1
None == [p \in Products |-> Uncounted]
Idle(p) == [pc |-> p, call |-> "none", seen |-> "NONE", lines |-> None, at |-> None]

Figures == [Products -> Int]

Statuses == {"NONE", "DRAFT", "SENT", "RECEIVED", "COMPLETED", "CANCELLED",
             "IN_PROGRESS", "REVIEW", "POSTED", "OPEN", "RESOLVED", "DISMISSED"}

CallNames == {"none", "send", "receive", "cancel", "complete", "start", "record", "post",
              "resolve", "dismiss"}

RequestState == [pc : {"new", "acting", "done"}, call : CallNames, seen : Statuses,
                 lines : Figures, at : Figures]

TypeOK ==
  /\ kind \in Kinds
  /\ status \in Statuses
  /\ qty \in Figures /\ snapshot \in Figures /\ counted \in Figures /\ variance \in Figures
  /\ onHand \in [from : Figures, to : Figures]
  /\ shelf \in Figures /\ sold \in Figures
  /\ req \in [Requests -> RequestState]
  /\ overlap \in BOOLEAN
  /\ soldAt \in [start : Figures, record : Figures, post : Figures, lines : Figures]

Init == /\ kind \in Kinds
        /\ status = "NONE"
        /\ qty = [p \in Products |-> 0]
        /\ snapshot = None
        /\ counted = None
        /\ variance = None
        /\ onHand = [from |-> [p \in Products |-> OpeningStock], to |-> [p \in Products |-> 0]]
        /\ \E m \in [Products -> Missing] : shelf = [p \in Products |-> OpeningStock - m[p]]
        /\ sold = [p \in Products |-> 0]
        /\ req = [w \in Requests |-> Idle("new")]
        /\ overlap = FALSE
        /\ soldAt = [start |-> sold, record |-> sold, post |-> sold, lines |-> sold]

-----------------------------------------------------------------------------
(* A draft with its lines; a count gets its lines when it starts; a conflict *)
(* is recorded open.                                                         *)
Lines == { q \in [Products -> 0..MaxQty] : \E p \in Products : q[p] > 0 }

New(k, s, lines) == /\ kind = k /\ status = "NONE"
                    /\ status' = s
                    /\ qty' \in lines
                    /\ UNCHANGED <<kind, snapshot, counted, variance, stockVars, req, histVars>>

CreateTransfer == New("transfer", "DRAFT", Lines)
CreateReturn   == New("return", "DRAFT", Lines)
CreateCount    == New("count", "DRAFT", {qty})
CreateConflict == New("conflict", "OPEN", {qty})

Calls == CASE kind = "transfer" -> {"send", "receive", "cancel"}
           [] kind = "return"   -> {"complete", "cancel"}
           [] kind = "count"    -> {"start", "record", "post"}
           [] kind = "conflict" -> {"resolve", "dismiss"}

AllowedToCancelAnything(c) == \* mutant: cancel refuses only what is cancelled already
  CASE c = "send"    -> {"DRAFT"}
    [] c = "receive" -> {"SENT"}
    [] c = "complete" -> {"DRAFT", "SENT"}
    [] c = "cancel"  -> {"DRAFT", "SENT", "RECEIVED", "COMPLETED"}
    [] c = "start"   -> {"DRAFT"}
    [] c \in {"record", "post"} -> {"IN_PROGRESS", "REVIEW"}
    [] c \in {"resolve", "dismiss"} -> {"OPEN"}

(* The statuses an operation accepts. *)
Allowed(c) ==
  CASE c = "send"    -> {"DRAFT"}
    [] c = "receive" -> {"SENT"}
    [] c = "complete" -> {"DRAFT", "SENT"}
    [] c = "cancel"  -> IF kind = "return" THEN {"DRAFT", "SENT"} ELSE {"DRAFT"}
    [] c = "start"   -> {"DRAFT"}
    [] c \in {"record", "post"} -> {"IN_PROGRESS", "REVIEW"}
    [] c \in {"resolve", "dismiss"} -> {"OPEN"}

(* The document is read, outside any transaction; post reads its lines too,  *)
(* and refuses while one is not counted; start reads the rows to be counted. *)
ReadDocument(w) == /\ req[w].pc = "new"
                   /\ status # "NONE"
                   /\ \E c \in Calls :
                        /\ status \in Allowed(c)
                        /\ c = "post" => \A p \in Products : counted[p] # Uncounted
                        /\ LET starts == c = "start"
                           IN  req' = [req EXCEPT ![w] =
                                 [pc |-> "acting", call |-> c, seen |-> status,
                                  lines |-> IF starts THEN onHand.from ELSE counted,
                                  at |-> IF starts THEN sold ELSE soldAt.record]]
                   /\ UNCHANGED <<docVars, stockVars, histVars>>

(* Refused, without effect. *)
Refuse(w) == /\ req[w].pc = "new"
             /\ status # "NONE"
             /\ \E c \in Calls : \/ status \notin Allowed(c)
                                 \/ c = "post" /\ \E p \in Products : counted[p] = Uncounted
             /\ req' = [req EXCEPT ![w] = Idle("done")]
             /\ UNCHANGED <<docVars, stockVars, histVars>>

Runs(w, c) == /\ req[w].pc = "acting"
              /\ req[w].call = c
              /\ req' = [req EXCEPT ![w] = Idle("done")]

Acts(w, c) == /\ Runs(w, c)
              /\ overlap' = (overlap \/ status # req[w].seen)

-----------------------------------------------------------------------------
(* Transfers and supplier returns. *)

Covered == \A p \in Products : onHand.from[p] >= qty[p]

(* sendTransfer and complete lock the rows and check each line's quantity.   *)
TakeOut == /\ Covered
           /\ onHand' = [onHand EXCEPT !.from = [p \in Products |-> @[p] - qty[p]]]
           /\ shelf' = [p \in Products |-> IF shelf[p] > qty[p] THEN shelf[p] - qty[p] ELSE 0]

Send(w) == /\ Acts(w, "send")
           /\ TakeOut
           /\ status' = "SENT"
           /\ UNCHANGED <<kind, qty, snapshot, counted, variance, sold, soldAt>>

ReceiveAtSource(w) ==         \* mutant: the units are put back where they came from
  /\ Acts(w, "receive")
  /\ onHand' = [onHand EXCEPT !.from = [p \in Products |-> @[p] + qty[p]]]
  /\ status' = "RECEIVED"
  /\ UNCHANGED <<kind, qty, snapshot, counted, variance, shelf, sold, soldAt>>

Receive(w) == /\ Acts(w, "receive")
              /\ onHand' = [onHand EXCEPT !.to = [p \in Products |-> @[p] + qty[p]]]
              /\ status' = "RECEIVED"
              /\ UNCHANGED <<kind, qty, snapshot, counted, variance, shelf, sold, soldAt>>

Complete(w) == /\ Acts(w, "complete")
               /\ TakeOut
               /\ status' = "COMPLETED"
               /\ UNCHANGED <<kind, qty, snapshot, counted, variance, sold, soldAt>>

Cancel(w, k) == /\ kind = k
                /\ Acts(w, "cancel")
                /\ status' = "CANCELLED"
                /\ UNCHANGED <<kind, qty, snapshot, counted, variance, stockVars, soldAt>>

CancelTransfer(w) == Cancel(w, "transfer")
CancelReturn(w)   == Cancel(w, "return")

(* resolveConflict: the row is updated whatever its status is by now. *)
CloseConflict(w) == /\ \/ Acts(w, "resolve") /\ status' = "RESOLVED"
                       \/ Acts(w, "dismiss") /\ status' = "DISMISSED"
                    /\ UNCHANGED <<kind, qty, snapshot, counted, variance, stockVars, soldAt>>

(* "Not enough stock": the transaction is rolled back; or it fails. *)
Fail(w) == /\ req[w].pc = "acting"
           /\ req' = [req EXCEPT ![w] = Idle("done")]
           /\ UNCHANGED <<docVars, stockVars, histVars>>

-----------------------------------------------------------------------------
(* Stock counts. *)

(* A line per product of the location, with the on-hand read earlier; lines  *)
(* that exist are kept.                                                      *)
Start(w) == /\ Acts(w, "start")
            /\ status' = "IN_PROGRESS"
            /\ IF snapshot = None
               THEN /\ snapshot' = req[w].lines
                    /\ soldAt' = [soldAt EXCEPT !.start = req[w].at]
               ELSE UNCHANGED <<snapshot, soldAt>>
            /\ UNCHANGED <<kind, qty, counted, variance, stockVars>>

(* Someone counts the shelf and enters the figure. *)
Record(w) == /\ Acts(w, "record")
             /\ \E p \in Products : /\ counted' = [counted EXCEPT ![p] = shelf[p]]
                                    /\ soldAt' = [soldAt EXCEPT !.record[p] = sold[p]]
             /\ UNCHANGED <<kind, status, qty, snapshot, variance, stockVars>>

Finish(w) == /\ Runs(w, "post")
             /\ overlap' = (overlap \/ status # req[w].seen \/ counted # req[w].lines)
             /\ soldAt' = [soldAt EXCEPT !.post = sold, !.lines = req[w].at]
             /\ status' = "POSTED"
             /\ variance' = [p \in Products |-> req[w].lines[p] - snapshot[p]]
             /\ UNCHANGED <<kind, qty, snapshot, counted, shelf, sold>>

PostVariance(w) ==            \* mutant: the variance against the snapshot is posted
  /\ Finish(w)
  /\ onHand' = [onHand EXCEPT !.from = [p \in Products |-> @[p] + req[w].lines[p] - snapshot[p]]]

(* Each row is set to the figure the request read, whatever it is by now. *)
Post(w) == /\ Finish(w)
           /\ onHand' = [onHand EXCEPT !.from = req[w].lines]

-----------------------------------------------------------------------------
(* A checkout takes a unit off the shelf and off the row; it is refused when *)
(* either says there is none.                                                *)
Sell(p) == /\ onHand.from[p] > 0
           /\ shelf[p] > 0
           /\ sold[p] < MaxSold
           /\ onHand' = [onHand EXCEPT !.from[p] = @ - 1]
           /\ shelf' = [shelf EXCEPT ![p] = @ - 1]
           /\ sold' = [sold EXCEPT ![p] = @ + 1]
           /\ UNCHANGED <<docVars, req, histVars>>

Next == \/ CreateTransfer \/ CreateReturn \/ CreateCount \/ CreateConflict
        \/ \E p \in Products : Sell(p)
        \/ \E w \in Requests : \/ ReadDocument(w) \/ Refuse(w) \/ Fail(w)
                               \/ Send(w) \/ Receive(w) \/ CancelTransfer(w)
                               \/ Complete(w) \/ CancelReturn(w)
                               \/ Start(w) \/ Record(w) \/ Post(w) \/ CloseConflict(w)

Spec == Init /\ [][Next]_vars

-----------------------------------------------------------------------------
Out(p) == IF status \in {"SENT", "RECEIVED", "COMPLETED"} THEN qty[p] ELSE 0
In(p) == IF status = "RECEIVED" THEN qty[p] ELSE 0

(* A transfer or a return moves its units once: what is on hand at either    *)
(* location is what its status says, unless a request acted on a document    *)
(* that another had changed since it read the status (transfers.service.ts   *)
(* :121-127, :187-193, :268-271, supplier-returns.service.ts:150-160).       *)
StockFollowsStatus ==
  (kind # "count" /\ ~overlap) =>
    \A p \in Products : /\ onHand.from[p] = OpeningStock - sold[p] - Out(p)
                        /\ onHand.to[p] = In(p)

(* The row is what the lines of a posted count say, less what was sold after *)
(* it was posted; a line recorded after the post read the lines is the one   *)
(* way to lose it (stock-counts.service.ts:178-194). So a count brings the   *)
(* books in line with the shelf, for good, unless a product was sold between *)
(* being counted and being posted ("for simplicity" the on-hand is set to    *)
(* the counted figure, :207), and the variance it reports is what was        *)
(* missing, unless a product was sold since the count started.               *)
CountSetsTheShelf ==
  (kind = "count" /\ status = "POSTED") =>
    /\ ~overlap => \A p \in Products : onHand.from[p] = counted[p] - (sold[p] - soldAt.post[p])
    /\ soldAt.lines = soldAt.post => onHand.from = shelf
    /\ soldAt.start = soldAt.post /\ soldAt.lines = soldAt.post
         => \A p \in Products : variance[p] = shelf[p] + sold[p] - OpeningStock

(* A document that is received, completed, cancelled or posted, and a        *)
(* conflict that is resolved or dismissed, stays so, unless requests         *)
(* overlapped (transfers.service.ts:126, supplier-returns.service.ts:155-160,*)
(* sync.service.ts:89).                                                      *)
FinalStays ==
  [][ (status \in {"RECEIVED", "COMPLETED", "CANCELLED", "POSTED", "RESOLVED", "DISMISSED"}
       /\ status' # status)
      => overlap' ]_vars
=============================================================================
