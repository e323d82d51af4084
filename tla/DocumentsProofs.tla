-------------------------- MODULE DocumentsProofs --------------------------
(* Proofs about Documents, for any requests, products, quantities and        *)
(* bounds.                                                                   *)
EXTENDS Documents, TLAPS

-----------------------------------------------------------------------------
(* Types. *)

(* A line that is not counted yet has a figure too. *)
LEMMA NoFigures == None \in Figures
BY DEF None, Uncounted, Figures

(* A request that is idle has the type of a request. *)
LEMMA IdleType ==
  ASSUME NEW p \in {"new", "acting", "done"}
  PROVE  Idle(p) \in RequestState
BY NoFigures DEF Idle, RequestState, CallNames, Statuses

(* The first state has its types. *)
LEMMA TypeInit == Init => TypeOK
<1> SUFFICES ASSUME Init PROVE TypeOK
  OBVIOUS
<1>1. /\ qty \in Figures /\ snapshot \in Figures /\ counted \in Figures /\ variance \in Figures
      /\ sold \in Figures
  BY NoFigures DEF Init, Figures
<1>2. onHand \in [from : Figures, to : Figures]
  BY BoundsAssumption DEF Init, Figures
<1>3. shelf \in Figures
  <2>1. PICK m \in [Products -> Missing] : shelf = [p \in Products |-> OpeningStock - m[p]]
    BY DEF Init
  <2>2. \A p \in Products : m[p] \in Int
    <3>1. \A x \in Missing : x \in Int
      <4> SUFFICES ASSUME NEW x \in Missing PROVE x \in Int
        OBVIOUS
      <4>1. x \in 0..OpeningStock
        BY BoundsAssumption
      <4> QED BY <4>1, BoundsAssumption
    <3>2. \A p \in Products : m[p] \in Missing
      BY <2>1
    <3> QED BY <3>1, <3>2
  <2> QED BY <2>1, <2>2, BoundsAssumption DEF Figures
<1>4. req \in [Requests -> RequestState]
  BY IdleType DEF Init
<1>5. soldAt \in [start : Figures, record : Figures, post : Figures, lines : Figures]
  BY <1>1 DEF Init
<1>6. overlap \in BOOLEAN
  BY DEF Init
<1> QED
  BY <1>1, <1>2, <1>3, <1>4, <1>5, <1>6 DEF Init, TypeOK, Statuses

(* A request that acts keeps the types of the requests. *)
LEMMA ActsType ==
  ASSUME TypeOK, NEW w \in Requests, NEW c, Acts(w, c)
  PROVE  req' \in [Requests -> RequestState] /\ overlap' \in BOOLEAN
<1>1. req' \in [Requests -> RequestState]
  BY IdleType DEF Acts, Runs, TypeOK
<1>2. overlap' \in BOOLEAN
  BY Zenon DEF Acts
<1> QED BY <1>1, <1>2

(* Taking stock out keeps the types of the stock. *)
LEMMA TakeOutType ==
  ASSUME TypeOK, TakeOut
  PROVE  onHand' \in [from : Figures, to : Figures] /\ shelf' \in Figures
<1>1. [p \in Products |-> onHand.from[p] - qty[p]] \in Figures
  BY DEF TypeOK, Figures
<1>2. onHand' = [onHand EXCEPT !.from = [p \in Products |-> onHand.from[p] - qty[p]]]
  BY DEF TakeOut
<1>3. shelf' \in Figures
  BY DEF TakeOut, TypeOK, Figures
<1> QED BY <1>1, <1>2, <1>3 DEF TypeOK

(* Every step keeps the types. *)
LEMMA TypeInductive ==
  ASSUME TypeOK, [Next]_vars
  PROVE  TypeOK'
<1> USE DEF docVars, stockVars, histVars, Statuses
<1>1. CASE CreateTransfer \/ CreateReturn \/ CreateCount \/ CreateConflict
  <2>1. Lines \subseteq Figures
    BY BoundsAssumption DEF Lines, Figures
  <2>2. qty' \in Figures /\ UNCHANGED <<kind, snapshot, counted, variance, stockVars, req, histVars>>
    BY <1>1, <2>1 DEF CreateTransfer, CreateReturn, CreateCount, CreateConflict, New, TypeOK
  <2>3. status' \in {"DRAFT", "OPEN"}
    BY <1>1 DEF CreateTransfer, CreateReturn, CreateCount, CreateConflict, New
  <2> QED BY <2>2, <2>3 DEF TypeOK
<1>2. ASSUME NEW p \in Products, Sell(p) PROVE TypeOK'
  <2>1. sold' \in Figures /\ shelf' \in Figures
    BY <1>2 DEF Sell, TypeOK, Figures
  <2>2. onHand' \in [from : Figures, to : Figures]
    <3>1. [onHand.from EXCEPT ![p] = onHand.from[p] - 1] \in Figures
      BY DEF TypeOK, Figures
    <3>2. onHand' = [onHand EXCEPT !.from = [onHand.from EXCEPT ![p] = onHand.from[p] - 1]]
      BY <1>2 DEF Sell, TypeOK
    <3> QED BY <3>1, <3>2 DEF TypeOK
  <2> QED BY <1>2, <2>1, <2>2 DEF Sell, TypeOK
<1>3. ASSUME NEW w \in Requests, ReadDocument(w) PROVE TypeOK'
  <2>1. PICK c \in Calls :
          LET starts == c = "start"
          IN  req' = [req EXCEPT ![w] = [pc |-> "acting", call |-> c, seen |-> status,
                                         lines |-> IF starts THEN onHand.from ELSE counted,
                                         at |-> IF starts THEN sold ELSE soldAt.record]]
    BY <1>3 DEF ReadDocument
  <2>2. c \in CallNames
    BY KindsAssumption DEF Calls, CallNames, TypeOK
  <2>3. req' \in [Requests -> RequestState]
    BY <2>1, <2>2 DEF TypeOK, RequestState
  <2> QED BY <1>3, <2>3 DEF ReadDocument, TypeOK
<1>4. ASSUME NEW w \in Requests, Refuse(w) \/ Fail(w) PROVE TypeOK'
  <2>1. req' \in [Requests -> RequestState]
    BY <1>4, IdleType DEF Refuse, Fail, TypeOK
  <2> QED BY <1>4, <2>1 DEF Refuse, Fail, TypeOK
<1>7. ASSUME NEW w \in Requests, Send(w) PROVE TypeOK'
  BY <1>7, ActsType, TakeOutType DEF Send, TypeOK
<1>8. ASSUME NEW w \in Requests, Receive(w) PROVE TypeOK'
  <2>1. [p \in Products |-> onHand.to[p] + qty[p]] \in Figures
    BY DEF TypeOK, Figures
  <2>2. onHand' \in [from : Figures, to : Figures]
    BY <1>8, <2>1 DEF Receive, TypeOK
  <2> QED BY <1>8, <2>2, ActsType DEF Receive, TypeOK
<1>9. ASSUME NEW w \in Requests, Complete(w) PROVE TypeOK'
  BY <1>9, ActsType, TakeOutType DEF Complete, TypeOK
<1>10. ASSUME NEW w \in Requests, CancelTransfer(w) \/ CancelReturn(w) PROVE TypeOK'
  BY <1>10, ActsType DEF CancelTransfer, CancelReturn, Cancel, TypeOK
<1>11. ASSUME NEW w \in Requests, Start(w) PROVE TypeOK'
  <2>1. snapshot' \in Figures /\ soldAt' \in [start : Figures, record : Figures, post : Figures, lines : Figures]
    BY <1>11 DEF Start, TypeOK, RequestState
  <2> QED BY <1>11, <2>1, ActsType DEF Start, TypeOK
<1>12. ASSUME NEW w \in Requests, Record(w) PROVE TypeOK'
  <2>1. PICK p \in Products : /\ counted' = [counted EXCEPT ![p] = shelf[p]]
                              /\ soldAt' = [soldAt EXCEPT !.record = [soldAt.record EXCEPT ![p] = sold[p]]]
    BY <1>12 DEF Record, TypeOK
  <2>2. counted' \in Figures /\ [soldAt.record EXCEPT ![p] = sold[p]] \in Figures
    BY <2>1 DEF TypeOK, Figures
  <2>3. soldAt' \in [start : Figures, record : Figures, post : Figures, lines : Figures]
    BY <2>1, <2>2 DEF TypeOK
  <2> QED BY <1>12, <2>2, <2>3, ActsType DEF Record, TypeOK
<1>13. ASSUME NEW w \in Requests, Post(w) PROVE TypeOK'
  <2>1. req' \in [Requests -> RequestState]
    BY <1>13, IdleType DEF Post, Finish, Runs, TypeOK
  <2>2. overlap' \in BOOLEAN
    BY <1>13, Zenon DEF Post, Finish
  <2>3. req[w].lines \in Figures /\ req[w].at \in Figures
    BY DEF TypeOK, RequestState
  <2>4. variance' \in Figures
    BY <1>13, <2>3 DEF Post, Finish, TypeOK, Figures
  <2>5. /\ onHand' \in [from : Figures, to : Figures]
        /\ soldAt' \in [start : Figures, record : Figures, post : Figures, lines : Figures]
    BY <1>13, <2>3 DEF Post, Finish, TypeOK
  <2> QED BY <1>13, <2>1, <2>2, <2>4, <2>5 DEF Post, Finish, TypeOK
<1>14. ASSUME NEW w \in Requests, CloseConflict(w) PROVE TypeOK'
  BY <1>14, ActsType DEF CloseConflict, TypeOK
<1>15. CASE UNCHANGED vars
  BY <1>15 DEF vars, TypeOK
<1> QED
  BY <1>1, <1>2, <1>3, <1>4, <1>7, <1>8, <1>9, <1>10, <1>11, <1>12, <1>13, <1>14, <1>15 DEF Next

(* The shape of the document, the rows and what requests remember. *)
THEOREM TypeCorrect == Spec => []TypeOK
<1>1. TypeOK /\ [Next]_vars => TypeOK'
  BY TypeInductive
<1> QED
  BY <1>1, TypeInit, PTL DEF Spec

-----------------------------------------------------------------------------
(* What a request may act on. *)

(* A request acts on a status its operation accepts, by an operation of the  *)
(* document's kind.                                                          *)
ReadAllowed == \A w \in Requests : req[w].pc = "acting" => /\ req[w].call \in Calls
                                                           /\ req[w].seen \in Allowed(req[w].call)

(* Only a transfer is sent and received, only a return completed. *)
StatusOfKind == /\ kind # "transfer" => status \notin {"SENT", "RECEIVED"}
                /\ kind # "return" => status # "COMPLETED"

(* A call belongs to its kind of document. *)
LEMMA KindOfCall ==
  ASSUME TypeOK
  PROVE  /\ \A c \in {"send", "receive"} : c \in Calls => kind = "transfer"
         /\ "complete" \in Calls => kind = "return"
         /\ \A c \in {"start", "record", "post"} : c \in Calls => kind = "count"
         /\ \A c \in {"resolve", "dismiss"} : c \in Calls => kind = "conflict"
         /\ "none" \notin Calls
BY KindsAssumption DEF TypeOK, Calls

(* The statuses each call accepts, written out. *)
LEMMA AllowedStatuses ==
  /\ Allowed("send") = {"DRAFT"}
  /\ Allowed("receive") = {"SENT"}
  /\ Allowed("complete") = {"DRAFT", "SENT"}
  /\ Allowed("cancel") = IF kind = "return" THEN {"DRAFT", "SENT"} ELSE {"DRAFT"}
  /\ Allowed("start") = {"DRAFT"}
  /\ Allowed("record") = {"IN_PROGRESS", "REVIEW"}
  /\ Allowed("post") = {"IN_PROGRESS", "REVIEW"}
  /\ Allowed("resolve") = {"OPEN"}
  /\ Allowed("dismiss") = {"OPEN"}
BY DEF Allowed

(* What a request that acts without overlap finds. *)
LEMMA ActsOnWhatItRead ==
  ASSUME ReadAllowed, NEW w \in Requests, NEW c, Acts(w, c)
  PROVE  /\ c \in Calls
         /\ ~overlap' => ~overlap /\ status \in Allowed(c)
BY DEF ReadAllowed, Acts, Runs

(* A document does not change its kind. *)
LEMMA KindStays == [Next]_vars => kind' = kind
BY DEF Next, vars, CreateTransfer, CreateReturn, CreateCount, CreateConflict, New, Sell, ReadDocument,
       Refuse, Fail, Send, Receive, Complete, CancelTransfer, CancelReturn, Cancel, Start, Record,
       Post, Finish, CloseConflict, docVars

(* Whoever acts has read a status its call accepts. *)
LEMMA ReadAllowedInductive ==
  ASSUME TypeOK, ReadAllowed, [Next]_vars
  PROVE  ReadAllowed'
<1> DEFINE Fresh(w) == req'[w].call \in Calls /\ req'[w].seen \in Allowed(req'[w].call)
           Kept == \A w \in Requests : req'[w].pc = "acting" => req'[w] = req[w] \/ Fresh(w)
<1>3. Kept => ReadAllowed'
  BY KindStays DEF ReadAllowed, Calls, Allowed
<1> HIDE DEF Fresh
<1>4. ASSUME NEW w \in Requests, req' = [req EXCEPT ![w] = Idle("done")]
      PROVE  ReadAllowed'
  <2>1. req'[w].pc = "done" /\ \A v \in Requests : v # w => req'[v] = req[v]
    BY <1>4 DEF Idle, TypeOK
  <2>2. Kept
    BY <2>1
  <2> QED BY <2>2, <1>3
<1>5. ASSUME req' = req
      PROVE  ReadAllowed'
  <2>1. Kept
    BY <1>5
  <2> QED BY <2>1, <1>3
<1>6. ASSUME NEW w \in Requests, ReadDocument(w)
      PROVE  ReadAllowed'
  <2>1. PICK c \in Calls : /\ status \in Allowed(c)
                           /\ req'[w].call = c /\ req'[w].seen = status
                           /\ \A v \in Requests : v # w => req'[v] = req[v]
    BY <1>6 DEF ReadDocument, TypeOK
  <2>2. Fresh(w)
    BY <2>1 DEF Fresh
  <2>3. Kept
    BY <2>1, <2>2
  <2> QED BY <2>3, <1>3
<1>7. ASSUME NEW w \in Requests, NEW c, Runs(w, c)
      PROVE  ReadAllowed'
  BY <1>7, <1>4 DEF Runs
<1>8. CASE CreateTransfer \/ CreateReturn \/ CreateCount \/ CreateConflict
  BY <1>8, <1>5 DEF CreateTransfer, CreateReturn, CreateCount, CreateConflict, New
<1>9. ASSUME NEW p \in Products, Sell(p)
      PROVE  ReadAllowed'
  BY <1>9, <1>5 DEF Sell
<1>10. ASSUME NEW w \in Requests, Refuse(w) \/ Fail(w)
       PROVE  ReadAllowed'
  BY <1>10, <1>4 DEF Refuse, Fail
<1>11. ASSUME NEW w \in Requests,
              Send(w) \/ Receive(w) \/ Complete(w) \/ CancelTransfer(w) \/ CancelReturn(w)
              \/ Start(w) \/ Record(w) \/ Post(w) \/ CloseConflict(w)
       PROVE  ReadAllowed'
  BY <1>11, <1>7 DEF Send, Receive, Complete, CancelTransfer, CancelReturn, Cancel, Start, Record,
                     Post, Finish, CloseConflict, Acts
<1>12. CASE UNCHANGED vars
  BY <1>12, <1>5 DEF vars
<1> QED
  BY <1>6, <1>8, <1>9, <1>10, <1>11, <1>12 DEF Next

(* A document only has statuses of its kind. *)
LEMMA StatusOfKindInductive ==
  ASSUME TypeOK, ReadAllowed, StatusOfKind, [Next]_vars
  PROVE  StatusOfKind'
<1> USE KindStays DEF StatusOfKind
<1>1. CASE status' = status
  BY <1>1
<1>2. CASE CreateTransfer \/ CreateReturn \/ CreateCount \/ CreateConflict
  BY <1>2 DEF CreateTransfer, CreateReturn, CreateCount, CreateConflict, New
<1>3. ASSUME NEW w \in Requests, Send(w) \/ Receive(w)
      PROVE  StatusOfKind'
  <2>1. kind = "transfer"
    BY <1>3, ActsOnWhatItRead, KindOfCall DEF Send, Receive
  <2> QED BY <1>3, <2>1 DEF Send, Receive
<1>4. ASSUME NEW w \in Requests, Complete(w)
      PROVE  StatusOfKind'
  BY <1>4, ActsOnWhatItRead, KindOfCall DEF Complete
<1>5. ASSUME NEW w \in Requests,
             CancelTransfer(w) \/ CancelReturn(w) \/ Start(w) \/ Post(w) \/ CloseConflict(w)
      PROVE  StatusOfKind'
  BY <1>5 DEF CancelTransfer, CancelReturn, Cancel, Start, Post, Finish, CloseConflict
<1> QED
  BY <1>1, <1>2, <1>3, <1>4, <1>5
  DEF Next, Sell, ReadDocument, Refuse, Fail, Record, docVars, vars

-----------------------------------------------------------------------------
(* The stock follows the status. *)

(* Each step that moves stock moves the status with it. *)
LEMMA StockFollowsStatusInductive ==
  ASSUME TypeOK, ReadAllowed, StatusOfKind, StockFollowsStatus, [Next]_vars
  PROVE  StockFollowsStatus'
<1> SUFFICES ASSUME kind # "count", ~overlap', NEW p \in Products
             PROVE  /\ onHand'.from[p] = OpeningStock - sold'[p] - Out(p)'
                    /\ onHand'.to[p] = In(p)'
  BY KindStays DEF StockFollowsStatus
<1> DEFINE Goal == /\ onHand'.from[p] = OpeningStock - sold'[p] - Out(p)'
                   /\ onHand'.to[p] = In(p)'
           Before == /\ onHand.from[p] = OpeningStock - sold[p] - Out(p)
                     /\ onHand.to[p] = In(p)
<1>1. ~overlap => Before
  BY DEF StockFollowsStatus
<1>2. qty[p] \in Int /\ sold[p] \in Int /\ OpeningStock \in Int
      /\ onHand.from[p] \in Int /\ onHand.to[p] \in Int
  BY BoundsAssumption DEF TypeOK, Figures
<1>3. ASSUME UNCHANGED <<onHand, sold, qty, overlap>>,
             status' \in {"SENT", "RECEIVED", "COMPLETED"} <=> status \in {"SENT", "RECEIVED", "COMPLETED"},
             status' = "RECEIVED" <=> status = "RECEIVED"
      PROVE  Goal
  BY <1>1, <1>3 DEF Out, In
<1>4. CASE CreateTransfer \/ CreateReturn \/ CreateCount \/ CreateConflict
  <2>1. status = "NONE" /\ status' \in {"DRAFT", "OPEN"} /\ UNCHANGED <<onHand, sold, overlap>>
    BY <1>4 DEF CreateTransfer, CreateReturn, CreateCount, CreateConflict, New, stockVars, histVars
  <2> QED BY <2>1, <1>1, <1>2 DEF Out, In
<1>5. ASSUME NEW s \in Products, Sell(s) PROVE Goal
  <2>1. /\ onHand'.from[p] = IF s = p THEN onHand.from[p] - 1 ELSE onHand.from[p]
        /\ sold'[p] = IF s = p THEN sold[p] + 1 ELSE sold[p]
        /\ onHand'.to = onHand.to
    BY <1>5 DEF Sell, TypeOK, Figures
  <2>2. UNCHANGED <<status, qty, overlap>>
    BY <1>5 DEF Sell, docVars, histVars
  <2> QED BY <2>1, <2>2, <1>1, <1>2 DEF Out, In
<1>6. ASSUME NEW w \in Requests, ReadDocument(w) \/ Refuse(w) \/ Fail(w) PROVE Goal
  BY <1>6, <1>3 DEF ReadDocument, Refuse, Fail, docVars, stockVars, histVars
<1>7. ASSUME TakeOut PROVE onHand'.from[p] = onHand.from[p] - qty[p] /\ onHand'.to = onHand.to
  BY <1>7 DEF TakeOut, TypeOK, Figures
<1>8. ASSUME NEW w \in Requests, Send(w) PROVE Goal
  <2>1. ~overlap /\ status = "DRAFT"
    BY <1>8, ActsOnWhatItRead, AllowedStatuses DEF Send
  <2>2. status' = "SENT" /\ UNCHANGED <<qty, sold>>
    BY <1>8 DEF Send
  <2>3. onHand'.from[p] = onHand.from[p] - qty[p] /\ onHand'.to = onHand.to
    BY <1>7, <1>8 DEF Send
  <2> QED BY <2>1, <2>2, <2>3, <1>1, <1>2 DEF Out, In
<1>9. ASSUME NEW w \in Requests, Receive(w) PROVE Goal
  <2>1. ~overlap /\ status = "SENT"
    BY <1>9, ActsOnWhatItRead, AllowedStatuses DEF Receive
  <2>2. status' = "RECEIVED" /\ UNCHANGED <<qty, sold>>
    BY <1>9 DEF Receive
  <2>3. onHand'.to[p] = onHand.to[p] + qty[p] /\ onHand'.from = onHand.from
    BY <1>9 DEF Receive, TypeOK, Figures
  <2> QED BY <2>1, <2>2, <2>3, <1>1, <1>2 DEF Out, In
<1>10. ASSUME NEW w \in Requests, Complete(w) PROVE Goal
  <2>1. ~overlap /\ status = "DRAFT"
    <3>1. ~overlap /\ status \in {"DRAFT", "SENT"} /\ "complete" \in Calls
      BY <1>10, ActsOnWhatItRead, AllowedStatuses DEF Complete
    <3> QED BY <3>1, KindOfCall DEF StatusOfKind
  <2>2. status' = "COMPLETED" /\ UNCHANGED <<qty, sold>>
    BY <1>10 DEF Complete
  <2>3. onHand'.from[p] = onHand.from[p] - qty[p] /\ onHand'.to = onHand.to
    BY <1>7, <1>10 DEF Complete
  <2> QED BY <2>1, <2>2, <2>3, <1>1, <1>2 DEF Out, In
<1>11. ASSUME NEW w \in Requests, CancelTransfer(w) \/ CancelReturn(w) PROVE Goal
  <2>1. Acts(w, "cancel") /\ status' = "CANCELLED" /\ UNCHANGED <<onHand, sold, qty>>
    BY <1>11 DEF CancelTransfer, CancelReturn, Cancel, stockVars
  <2>2. ~overlap /\ status \in Allowed("cancel")
    BY <2>1, ActsOnWhatItRead
  <2>3. status = "DRAFT"
    BY <2>2, AllowedStatuses DEF StatusOfKind
  <2> QED BY <2>1, <2>2, <2>3, <1>1, <1>2 DEF Out, In
<1>12. ASSUME NEW w \in Requests, Start(w) \/ Record(w) PROVE Goal
  BY <1>12, ActsOnWhatItRead, KindOfCall DEF Start, Record
<1>13. ASSUME NEW w \in Requests, Post(w) PROVE Goal
  <2>1. "post" \in Calls
    BY <1>13 DEF Post, Finish, Runs, ReadAllowed
  <2> QED BY <2>1, KindOfCall
<1>14. ASSUME NEW w \in Requests, CloseConflict(w) PROVE Goal
  <2>1. status' \in {"RESOLVED", "DISMISSED"} /\ UNCHANGED <<onHand, sold, qty>>
    BY <1>14 DEF CloseConflict, stockVars
  <2>2. ~overlap /\ kind = "conflict"
    BY <1>14, ActsOnWhatItRead, KindOfCall DEF CloseConflict
  <2>3. status \notin {"SENT", "RECEIVED", "COMPLETED"}
    BY <2>2 DEF StatusOfKind
  <2> QED BY <2>1, <2>2, <2>3, <1>1, <1>2 DEF Out, In
<1>15. CASE UNCHANGED vars
  BY <1>15, <1>3 DEF vars
<1> QED
  BY <1>4, <1>5, <1>6, <1>8, <1>9, <1>10, <1>11, <1>12, <1>13, <1>14, <1>15 DEF Next

(* The inductive invariant. *)
DocInv == /\ TypeOK
          /\ ReadAllowed
          /\ StatusOfKind
          /\ StockFollowsStatus

(* A call that acts read a status that allows it (transfers, counts,         *)
(* returns, sync), and stock follows the status.                             *)
THEOREM DocInvHolds == Spec => []DocInv
<1>1. Init => DocInv
  <2> SUFFICES ASSUME Init PROVE DocInv
    OBVIOUS
  <2>1. ReadAllowed
    BY DEF Init, ReadAllowed, Idle
  <2>2. StatusOfKind
    BY DEF Init, StatusOfKind
  <2>3. StockFollowsStatus
    BY BoundsAssumption DEF Init, StockFollowsStatus, Out, In
  <2> QED BY <2>1, <2>2, <2>3, TypeInit DEF DocInv
<1>2. DocInv /\ [Next]_vars => DocInv'
  BY TypeInductive, ReadAllowedInductive, StatusOfKindInductive, StockFollowsStatusInductive DEF DocInv
<1> QED
  BY <1>1, <1>2, PTL DEF Spec

(* Requests that act on the status they read move a transfer's or a return's *)
(* units once, whatever else runs (transfers.service.ts:120-282,             *)
(* supplier-returns.service.ts:149-263).                                     *)
THEOREM UnitsMoveOnce == Spec => []StockFollowsStatus
<1>1. DocInv => StockFollowsStatus
  BY DEF DocInv
<1> QED
  BY <1>1, DocInvHolds, PTL

-----------------------------------------------------------------------------
(* Final statuses. *)

Final == {"RECEIVED", "COMPLETED", "CANCELLED", "POSTED", "RESOLVED", "DISMISSED"}

(* No call accepts a final status. *)
LEMMA FinalIsNeverAllowed == \A c \in CallNames \ {"none"} : Allowed(c) \cap Final = {}
BY DEF CallNames, Allowed, Final

(* Leaving a final status takes two calls that overlap. *)
LEMMA FinalStep ==
  ASSUME DocInv, [Next]_vars, status \in Final, status' # status
  PROVE  overlap'
<1> SUFFICES ASSUME ~overlap' PROVE FALSE
  OBVIOUS
<1> USE DEF DocInv
<1>1. ASSUME NEW w \in Requests, NEW c, Acts(w, c) PROVE FALSE
  <2>1. c \in Calls /\ status \in Allowed(c)
    BY <1>1, ActsOnWhatItRead
  <2>2. c \in CallNames \ {"none"}
    BY <2>1, KindsAssumption DEF TypeOK, Calls, CallNames
  <2> QED BY <2>1, <2>2, FinalIsNeverAllowed
<1>2. ASSUME NEW w \in Requests, Post(w) PROVE FALSE
  <2>1. status = req[w].seen /\ req[w].call = "post" /\ req[w].pc = "acting"
    BY <1>2 DEF Post, Finish, Runs
  <2>2. status \in Allowed("post")
    BY <2>1 DEF ReadAllowed
  <2> QED BY <2>2, AllowedStatuses DEF Final
<1>3. CASE CreateTransfer \/ CreateReturn \/ CreateCount \/ CreateConflict
  BY <1>3 DEF CreateTransfer, CreateReturn, CreateCount, CreateConflict, New, Final
<1>4. ASSUME NEW w \in Requests,
             Send(w) \/ Receive(w) \/ Complete(w) \/ CancelTransfer(w) \/ CancelReturn(w)
             \/ Start(w) \/ Record(w) \/ CloseConflict(w)
      PROVE FALSE
  BY <1>1, <1>4 DEF Send, Receive, Complete, CancelTransfer, CancelReturn, Cancel, Start, Record,
                    CloseConflict
<1> QED
  BY <1>2, <1>3, <1>4 DEF Next, Sell, ReadDocument, Refuse, Fail, docVars, vars

(* A document that has ended stays as it ended, unless a request acts on a   *)
(* status another had changed since it read it (transfers.service.ts:126,    *)
(* supplier-returns.service.ts:155-160, sync.service.ts:89).                 *)
THEOREM EndedDocumentsStay == Spec => FinalStays
<1>1. DocInv /\ [Next]_vars =>
        [ (status \in {"RECEIVED", "COMPLETED", "CANCELLED", "POSTED", "RESOLVED", "DISMISSED"}
           /\ status' # status) => overlap' ]_vars
  BY FinalStep DEF Final
<1> QED
  BY <1>1, DocInvHolds, PTL DEF Spec, FinalStays

-----------------------------------------------------------------------------
(* What a count knows. *)

Early == {"NONE", "DRAFT"}

(* A counted figure and what was sold when it was recorded add up to what is *)
(* on the shelf and what is sold by now.                                     *)
CountedFits ==
  \A p \in Products : counted[p] # Uncounted => counted[p] + soldAt.record[p] = shelf[p] + sold[p]

(* The same of the figures a post has read. *)
PostFits == \A w \in Requests : (req[w].pc = "acting" /\ req[w].call = "post") =>
              \A p \in Products : req[w].lines[p] + req[w].at[p] = shelf[p] + sold[p]

(* Before the start, only sales have touched the row, and nobody posts. *)
EarlyFits == status \in Early =>
               /\ \A p \in Products : onHand.from[p] + sold[p] = OpeningStock
               /\ \A w \in Requests : req[w].pc = "acting" => req[w].seen = "DRAFT"

(* A start has read the row before any count was posted. *)
StartFits == \A w \in Requests : (req[w].pc = "acting" /\ req[w].call = "start") =>
               \A p \in Products : req[w].lines[p] + req[w].at[p] = OpeningStock

(* So the snapshot is of then. *)
SnapshotFits == (snapshot # None \/ status \notin Early) =>
                  \A p \in Products : snapshot[p] + soldAt.start[p] = OpeningStock

(* A posted count has set the row and reported the variance. *)
PostedFits == status = "POSTED" => \A p \in Products :
                /\ onHand.from[p] + soldAt.lines[p] = shelf[p] + soldAt.post[p]
                /\ variance[p] + snapshot[p] + soldAt.lines[p] = shelf[p] + sold[p]
                /\ ~overlap => onHand.from[p] = counted[p] - (sold[p] - soldAt.post[p])

CountInv == kind = "count" =>
              CountedFits /\ PostFits /\ EarlyFits /\ StartFits /\ SnapshotFits /\ PostedFits

(* At the start of the document nothing is counted. *)
LEMMA CountInvInit == Init => CountInv
<1> SUFFICES ASSUME Init PROVE CountInv
  OBVIOUS
<1>1. CountedFits
  BY DEF Init, CountedFits, None
<1>2. PostFits /\ StartFits
  BY DEF Init, PostFits, StartFits, Idle
<1>3. EarlyFits
  BY BoundsAssumption DEF Init, EarlyFits, Idle
<1>4. SnapshotFits /\ PostedFits
  BY DEF Init, SnapshotFits, PostedFits, Early
<1> QED BY <1>1, <1>2, <1>3, <1>4 DEF CountInv

(* Only the calls of a count act on one. *)
LEMMA CountCalls ==
  ASSUME DocInv, kind = "count", NEW w \in Requests, NEW c, Runs(w, c)
  PROVE  c \in {"start", "record", "post"}
<1>1. c \in Calls
  BY DEF DocInv, ReadAllowed, Runs
<1> QED BY <1>1 DEF Calls

(* The figures are numbers. *)
LEMMA FiguresAreNumbers ==
  ASSUME TypeOK, NEW p \in Products
  PROVE  /\ counted[p] \in Int /\ snapshot[p] \in Int /\ variance[p] \in Int
         /\ onHand.from[p] \in Int /\ shelf[p] \in Int /\ sold[p] \in Int
         /\ soldAt.start[p] \in Int /\ soldAt.record[p] \in Int
         /\ soldAt.post[p] \in Int /\ soldAt.lines[p] \in Int
         /\ \A w \in Requests : req[w].lines[p] \in Int /\ req[w].at[p] \in Int
         /\ OpeningStock \in Int
<1>1. \A w \in Requests : req[w].lines \in Figures /\ req[w].at \in Figures
  BY DEF TypeOK, RequestState
<1> QED BY <1>1, BoundsAssumption DEF TypeOK, Figures

(* A request that ends is not about to write any more. *)
LEMMA EndsRead ==
  ASSUME TypeOK, NEW w \in Requests, req' = [req EXCEPT ![w] = Idle("done")]
  PROVE  /\ req'[w].pc # "acting"
         /\ \A v \in Requests : v # w => req'[v] = req[v]
BY DEF TypeOK, Idle

(* A step of a count that leaves the figures alone. *)
LEMMA CountInvQuiet ==
  ASSUME CountInv, UNCHANGED <<kind, snapshot, counted, variance, onHand, shelf, sold, overlap, soldAt>>,
         kind = "count",
         \/ status' = status
         \/ status = "NONE" /\ status' = "DRAFT",
         \A v \in Requests : req'[v].pc = "acting" => req'[v] = req[v]
  PROVE  CountInv'
<1> USE DEF CountInv
<1>1. CountedFits' /\ PostFits'
  BY DEF CountedFits, PostFits
<1>2. EarlyFits' /\ StartFits'
  BY DEF EarlyFits, StartFits, Early
<1>3. SnapshotFits'
  BY DEF SnapshotFits, Early, None
<1>4. PostedFits'
  BY DEF PostedFits
<1> QED BY <1>1, <1>2, <1>3, <1>4

(* Reading takes the figures as they are. *)
LEMMA CountInvRead ==
  ASSUME DocInv, CountInv, kind = "count", NEW w \in Requests, ReadDocument(w)
  PROVE  CountInv'
<1> USE DEF CountInv
<1>1. PICK c \in {"start", "record", "post"} :
        /\ status \in Allowed(c)
        /\ c = "post" => \A p \in Products : counted[p] # Uncounted
        /\ req' = [req EXCEPT ![w] = [pc |-> "acting", call |-> c, seen |-> status,
                                      lines |-> IF c = "start" THEN onHand.from ELSE counted,
                                      at |-> IF c = "start" THEN sold ELSE soldAt.record]]
  BY DEF ReadDocument, Calls
<1>2. /\ req'[w].call = c /\ req'[w].seen = status
      /\ c = "start" => req'[w].lines = onHand.from /\ req'[w].at = sold
      /\ c = "post" => req'[w].lines = counted /\ req'[w].at = soldAt.record
      /\ \A v \in Requests : v # w => req'[v] = req[v]
  BY <1>1 DEF DocInv, TypeOK
<1>3. UNCHANGED <<kind, status, snapshot, counted, variance, onHand, shelf, sold, overlap, soldAt>>
  BY DEF ReadDocument, docVars, stockVars, histVars
<1>4. status # "NONE" /\ (c = "start" => status = "DRAFT")
  BY <1>1, AllowedStatuses DEF ReadDocument
<1>5. CountedFits' /\ SnapshotFits' /\ PostedFits'
  BY <1>3 DEF CountedFits, SnapshotFits, PostedFits, None
<1>6. EarlyFits'
  BY <1>2, <1>3, <1>4 DEF EarlyFits, Early
<1>7. PostFits'
  BY <1>1, <1>2, <1>3 DEF PostFits, CountedFits
<1>8. StartFits'
  BY <1>2, <1>3, <1>4 DEF StartFits, EarlyFits, Early
<1> QED BY <1>5, <1>6, <1>7, <1>8

(* A sale takes a unit off the shelf and off the row. *)
LEMMA CountInvSell ==
  ASSUME DocInv, CountInv, kind = "count", NEW s \in Products, Sell(s)
  PROVE  CountInv'
<1> USE DEF CountInv
<1>1. UNCHANGED <<kind, status, snapshot, counted, variance, req, overlap, soldAt>>
  BY DEF Sell, docVars, histVars
<1>2. \A p \in Products :
        /\ onHand'.from[p] = IF p = s THEN onHand.from[p] - 1 ELSE onHand.from[p]
        /\ shelf'[p] = IF p = s THEN shelf[p] - 1 ELSE shelf[p]
        /\ sold'[p] = IF p = s THEN sold[p] + 1 ELSE sold[p]
  BY DEF Sell, DocInv, TypeOK, Figures
<1>3. \A p \in Products : /\ shelf'[p] + sold'[p] = shelf[p] + sold[p]
                          /\ onHand'.from[p] + sold'[p] = onHand.from[p] + sold[p]
                          /\ onHand'.from[p] - shelf'[p] = onHand.from[p] - shelf[p]
  BY <1>2, FiguresAreNumbers DEF DocInv
<1>4. CountedFits'
  BY <1>1, <1>3 DEF CountedFits
<1>5. PostFits'
  BY <1>1, <1>3 DEF PostFits
<1>6. EarlyFits' /\ StartFits' /\ SnapshotFits'
  BY <1>1, <1>3 DEF EarlyFits, StartFits, SnapshotFits, None
<1>7. PostedFits'
  <2> SUFFICES ASSUME status = "POSTED", NEW p \in Products
               PROVE  /\ onHand'.from[p] + soldAt.lines[p] = shelf'[p] + soldAt.post[p]
                      /\ variance[p] + snapshot[p] + soldAt.lines[p] = shelf'[p] + sold'[p]
                      /\ ~overlap => onHand'.from[p] = counted[p] - (sold'[p] - soldAt.post[p])
    BY <1>1 DEF PostedFits
  <2>1. /\ onHand.from[p] + soldAt.lines[p] = shelf[p] + soldAt.post[p]
        /\ variance[p] + snapshot[p] + soldAt.lines[p] = shelf[p] + sold[p]
        /\ ~overlap => onHand.from[p] = counted[p] - (sold[p] - soldAt.post[p])
    BY DEF PostedFits
  <2>2. /\ onHand.from[p] \in Int /\ shelf[p] \in Int /\ sold[p] \in Int /\ counted[p] \in Int
        /\ soldAt.post[p] \in Int /\ soldAt.lines[p] \in Int
        /\ variance[p] \in Int /\ snapshot[p] \in Int
    BY FiguresAreNumbers DEF DocInv
  <2> QED BY <1>2, <2>1, <2>2
<1> QED BY <1>1, <1>4, <1>5, <1>6, <1>7

(* Starting keeps a snapshot that is there, and takes the one it read. *)
LEMMA CountInvStart ==
  ASSUME DocInv, CountInv, kind = "count", NEW w \in Requests, Start(w)
  PROVE  CountInv'
<1> USE DEF CountInv
<1>1. /\ req[w].pc = "acting" /\ req[w].call = "start" /\ req' = [req EXCEPT ![w] = Idle("done")]
      /\ status' = "IN_PROGRESS"
      /\ UNCHANGED <<kind, counted, variance, onHand, shelf, sold>>
  BY DEF Start, Acts, Runs, stockVars
<1>2. soldAt'.record = soldAt.record
  BY DEF Start, DocInv, TypeOK
<1>3. CountedFits' /\ PostFits' /\ StartFits'
  <2>1. req'[w].pc # "acting" /\ \A v \in Requests : v # w => req'[v] = req[v]
    BY <1>1, EndsRead DEF DocInv
  <2> QED BY <1>1, <1>2, <2>1 DEF CountedFits, PostFits, StartFits
<1>4. EarlyFits' /\ PostedFits'
  BY <1>1 DEF EarlyFits, Early, PostedFits
<1>5. \A p \in Products : snapshot'[p] + soldAt'.start[p] = OpeningStock
  <2>1. CASE snapshot = None
    <3>1. snapshot' = req[w].lines /\ soldAt'.start = req[w].at
      BY <2>1 DEF Start, DocInv, TypeOK
    <3> QED BY <1>1, <3>1 DEF StartFits
  <2>2. CASE snapshot # None
    BY <2>2 DEF Start, SnapshotFits
  <2> QED BY <2>1, <2>2
<1> QED BY <1>1, <1>3, <1>4, <1>5 DEF SnapshotFits

(* Recording counts the shelf. *)
LEMMA CountInvRecord ==
  ASSUME DocInv, CountInv, kind = "count", NEW w \in Requests, Record(w)
  PROVE  CountInv'
<1> USE DEF CountInv
<1>1. PICK s \in Products : /\ counted' = [counted EXCEPT ![s] = shelf[s]]
                            /\ soldAt' = [soldAt EXCEPT !.record[s] = sold[s]]
  BY DEF Record
<1>2. /\ req[w].pc = "acting" /\ req[w].call = "record" /\ req' = [req EXCEPT ![w] = Idle("done")]
      /\ overlap' = (overlap \/ status # req[w].seen)
      /\ UNCHANGED <<kind, status, snapshot, variance, onHand, shelf, sold>>
  BY DEF Record, Acts, Runs, stockVars
<1>3. /\ soldAt'.start = soldAt.start /\ soldAt'.post = soldAt.post /\ soldAt'.lines = soldAt.lines
      /\ \A p \in Products : /\ counted'[p] = IF p = s THEN shelf[p] ELSE counted[p]
                             /\ soldAt'.record[p] = IF p = s THEN sold[p] ELSE soldAt.record[p]
  BY <1>1 DEF DocInv, TypeOK, Figures
<1>4. CountedFits'
  BY <1>2, <1>3 DEF CountedFits
<1>5. PostFits' /\ StartFits' /\ EarlyFits' /\ SnapshotFits'
  <2>1. req'[w].pc # "acting" /\ \A v \in Requests : v # w => req'[v] = req[v]
    BY <1>2, EndsRead DEF DocInv
  <2>2. PostFits' /\ StartFits'
    BY <1>2, <1>3, <2>1 DEF PostFits, StartFits
  <2>3. EarlyFits'
    BY <1>2, <1>3, <2>1 DEF EarlyFits
  <2>4. SnapshotFits'
    BY <1>2, <1>3 DEF SnapshotFits, None
  <2> QED BY <2>2, <2>3, <2>4
<1>6. req[w].seen \in {"IN_PROGRESS", "REVIEW"}
  BY <1>2, AllowedStatuses DEF DocInv, ReadAllowed
<1>7. status = "POSTED" => overlap'
  BY <1>2, <1>6
<1>8. PostedFits'
  BY <1>2, <1>3, <1>7 DEF PostedFits
<1> QED BY <1>2, <1>4, <1>5, <1>8

(* Posting sets the row to the lines that were read. *)
LEMMA CountInvPost ==
  ASSUME DocInv, CountInv, kind = "count", NEW w \in Requests, Post(w)
  PROVE  CountInv'
<1> USE DEF CountInv
<1>1. /\ req[w].pc = "acting" /\ req[w].call = "post" /\ req' = [req EXCEPT ![w] = Idle("done")]
      /\ overlap' = (overlap \/ status # req[w].seen \/ counted # req[w].lines)
      /\ status' = "POSTED"
      /\ variance' = [p \in Products |-> req[w].lines[p] - snapshot[p]]
      /\ UNCHANGED <<kind, snapshot, counted, shelf, sold>>
  BY DEF Post, Finish, Runs
<1>2. onHand'.from = req[w].lines
  BY DEF Post, DocInv, TypeOK
<1>3. /\ soldAt'.post = sold /\ soldAt'.lines = req[w].at
      /\ soldAt'.start = soldAt.start /\ soldAt'.record = soldAt.record
  BY DEF Post, Finish, DocInv, TypeOK
<1>4. req[w].seen \in {"IN_PROGRESS", "REVIEW"}
  BY <1>1, AllowedStatuses DEF DocInv, ReadAllowed
<1>5. status \notin Early
  BY <1>1, <1>4 DEF EarlyFits
<1>6. CountedFits' /\ PostFits' /\ StartFits'
  <2>1. req'[w].pc # "acting" /\ \A v \in Requests : v # w => req'[v] = req[v]
    BY <1>1, EndsRead DEF DocInv
  <2> QED BY <1>1, <1>3, <2>1 DEF CountedFits, PostFits, StartFits
<1>7. EarlyFits' /\ SnapshotFits'
  BY <1>1, <1>3, <1>5 DEF EarlyFits, SnapshotFits, Early, None
<1>8. PostedFits'
  <2> SUFFICES ASSUME NEW p \in Products
               PROVE  /\ onHand'.from[p] + soldAt'.lines[p] = shelf[p] + soldAt'.post[p]
                      /\ variance'[p] + snapshot[p] + soldAt'.lines[p] = shelf[p] + sold[p]
                      /\ ~overlap' => onHand'.from[p] = counted[p] - (sold[p] - soldAt'.post[p])
    BY <1>1 DEF PostedFits
  <2>1. req[w].lines[p] + req[w].at[p] = shelf[p] + sold[p]
    BY <1>1 DEF PostFits
  <2>2. /\ req[w].lines[p] \in Int /\ req[w].at[p] \in Int /\ shelf[p] \in Int /\ sold[p] \in Int
        /\ snapshot[p] \in Int /\ counted[p] \in Int
    BY FiguresAreNumbers DEF DocInv
  <2>3. variance'[p] = req[w].lines[p] - snapshot[p]
    BY <1>1
  <2>4. ~overlap' => counted = req[w].lines
    BY <1>1
  <2> QED BY <1>2, <1>3, <2>1, <2>2, <2>3, <2>4
<1> QED BY <1>1, <1>6, <1>7, <1>8

(* Every step keeps what a count knows. *)
LEMMA CountInvStep ==
  ASSUME DocInv, CountInv, [Next]_vars
  PROVE  CountInv'
<1> SUFFICES ASSUME kind = "count" PROVE CountInv'
  BY KindStays DEF CountInv
<1>1. CASE CreateTransfer \/ CreateReturn \/ CreateCount \/ CreateConflict
  <2>1. /\ status = "NONE" /\ status' = "DRAFT"
        /\ UNCHANGED <<kind, snapshot, counted, variance, onHand, shelf, sold, overlap, soldAt, req>>
    BY <1>1 DEF CreateTransfer, CreateReturn, CreateCount, CreateConflict, New, stockVars, histVars
  <2> QED BY <2>1, CountInvQuiet
<1>2. ASSUME NEW w \in Requests, Refuse(w) \/ Fail(w) PROVE CountInv'
  <2>1. /\ req' = [req EXCEPT ![w] = Idle("done")]
        /\ UNCHANGED <<kind, status, snapshot, counted, variance, onHand, shelf, sold, overlap, soldAt>>
    BY <1>2 DEF Refuse, Fail, docVars, stockVars, histVars
  <2> QED BY <2>1, EndsRead, CountInvQuiet DEF DocInv
<1>3. ASSUME NEW w \in Requests,
             Send(w) \/ Receive(w) \/ Complete(w) \/ CancelTransfer(w) \/ CancelReturn(w) \/ CloseConflict(w)
      PROVE  CountInv'
  <2>1. PICK c \in {"send", "receive", "complete", "cancel", "resolve", "dismiss"} : Runs(w, c)
    BY <1>3 DEF Send, Receive, Complete, CancelTransfer, CancelReturn, Cancel, CloseConflict, Acts
  <2> QED BY <2>1, CountCalls
<1>4. CASE UNCHANGED vars
  BY <1>4, CountInvQuiet DEF vars
<1> QED
  BY <1>1, <1>2, <1>3, <1>4, CountInvRead, CountInvSell, CountInvStart, CountInvRecord, CountInvPost DEF Next

(* Posting a count sets the books to the shelf: for good, unless a product   *)
(* was sold between being counted and being posted or another request acted  *)
(* meanwhile; and the variance it reports is what was missing                *)
(* (stock-counts.service.ts:178-215).                                        *)
THEOREM CountsSetTheShelf == Spec => []CountSetsTheShelf
<1>1. DocInv /\ CountInv => CountSetsTheShelf
  <2> SUFFICES ASSUME DocInv, CountInv, kind = "count", status = "POSTED" PROVE CountSetsTheShelf
    BY DEF CountSetsTheShelf
  <2>1. \A p \in Products : /\ onHand.from[p] + soldAt.lines[p] = shelf[p] + soldAt.post[p]
                            /\ variance[p] + snapshot[p] + soldAt.lines[p] = shelf[p] + sold[p]
                            /\ snapshot[p] + soldAt.start[p] = OpeningStock
    BY DEF CountInv, PostedFits, SnapshotFits, Early
  <2>2. ~overlap => \A p \in Products : onHand.from[p] = counted[p] - (sold[p] - soldAt.post[p])
    BY DEF CountInv, PostedFits
  <2>3. ASSUME soldAt.lines = soldAt.post
        PROVE  onHand.from = shelf
    <3>1. \A p \in Products : onHand.from[p] = shelf[p]
      <4> SUFFICES ASSUME NEW p \in Products PROVE onHand.from[p] = shelf[p]
        OBVIOUS
      <4>1. /\ onHand.from[p] \in Int /\ shelf[p] \in Int /\ soldAt.post[p] \in Int
            /\ soldAt.lines[p] \in Int
        BY FiguresAreNumbers DEF DocInv
      <4>2. onHand.from[p] + soldAt.lines[p] = shelf[p] + soldAt.post[p]
        BY <2>1
      <4>3. soldAt.lines[p] = soldAt.post[p]
        BY <2>3
      <4>4. \A a, b, c, d \in Int : a + c = b + d /\ c = d => a = b
        OBVIOUS
      <4> QED BY <4>1, <4>2, <4>3, <4>4
    <3>2. onHand.from \in [Products -> Int] /\ shelf \in [Products -> Int]
      BY DEF DocInv, TypeOK, Figures
    <3> QED BY <3>1, <3>2
  <2>4. ASSUME soldAt.start = soldAt.post, soldAt.lines = soldAt.post, NEW p \in Products
        PROVE  variance[p] = shelf[p] + sold[p] - OpeningStock
    <3>1. /\ variance[p] \in Int /\ shelf[p] \in Int /\ sold[p] \in Int /\ snapshot[p] \in Int
          /\ soldAt.post[p] \in Int /\ soldAt.lines[p] \in Int /\ soldAt.start[p] \in Int
          /\ OpeningStock \in Int
      BY FiguresAreNumbers DEF DocInv
    <3>2. /\ variance[p] + snapshot[p] + soldAt.lines[p] = shelf[p] + sold[p]
          /\ snapshot[p] + soldAt.start[p] = OpeningStock
      BY <2>1
    <3>3. soldAt.lines[p] = soldAt.post[p] /\ soldAt.start[p] = soldAt.post[p]
      BY <2>4
    <3>4. \A a, b, c, d, e, f, m, n \in Int :
            a + b + c = d + e /\ b + f = m /\ c = n /\ f = n => a = d + e - m
      OBVIOUS
    <3> QED BY <3>1, <3>2, <3>3, <3>4
  <2> QED BY <2>2, <2>3, <2>4 DEF CountSetsTheShelf
<1>2. DocInv /\ CountInv /\ [Next]_vars => CountInv'
  BY CountInvStep
<1> QED BY <1>1, <1>2, CountInvInit, DocInvHolds, PTL DEF Spec

=============================================================================
