------------------------------ MODULE Approvals -----------------------------
(* A manager approves a colleague's action with a PIN: attempts are claimed  *)
(* against the PIN's lock before the PIN is compared, a right PIN gives a    *)
(* single-use token, and the approved action consumes the token inside its   *)
(* own transaction. One manager; passwords and permissions are left out.     *)
EXTENDS Integers, FiniteSets

CONSTANTS Asks,          \* calls of approve; a token is named by the call that got it
          Actions,       \* requests that need an approval
          None,
          Purposes,      \* pairs of requester and action a token may be for
          MaxTries       \* MAX_PIN_ATTEMPTS

ASSUME NoneAssumption == None \notin Asks \cup Actions
ASSUME TriesAssumption == MaxTries \in Nat \ {0}

VARIABLES hasPin,        \* is User.pinHash set
          failed,        \* User.pinFailedAttempts
          locked,        \* is pinLockedUntil in the future
          askPc, match,  \* of each call: where it is, does its PIN match the hash it read
          token,         \* Approval rows
          actPc, uses,   \* of each action: where it is, the token it presents
          holder,        \* which transaction has updated each Approval row
          counted, wrong, relocks  \* history, since the count was last reset: the calls that
                                   \* claimed a try, the PINs found wrong, the locks run out

pinVars == <<hasPin, failed, locked, counted, wrong, relocks>>
askVars == <<askPc, match>>
actVars == <<actPc, uses, holder>>
vars == <<hasPin, failed, locked, counted, wrong, relocks, askPc, match, token,
          actPc, uses, holder>>

Demand == [ask : Asks \cup {None}, for : Purposes, noSale : BOOLEAN]

TypeOK ==
  /\ hasPin \in BOOLEAN
  /\ failed \in Nat
  /\ locked \in BOOLEAN
  /\ askPc \in [Asks -> {"new", "read", "claimed", "right", "reset", "done"}]
  /\ match \in [Asks -> BOOLEAN]
  /\ token \in [Asks -> [state : {"none", "live", "expired", "used"}, for : Purposes]]
  /\ actPc \in [Actions -> {"new", "began", "consumed", "paid", "acted", "failed"}]
  /\ uses \in [Actions -> Demand]
  /\ holder \in [Asks -> Actions \cup {None}]
  /\ counted \subseteq Asks /\ wrong \in Nat /\ relocks \in Nat

Init == /\ hasPin = TRUE
        /\ failed = 0
        /\ locked = FALSE
        /\ askPc = [a \in Asks |-> "new"]
        /\ match = [a \in Asks |-> FALSE]
        /\ \E p \in Purposes : /\ token = [a \in Asks |-> [state |-> "none", for |-> p]]
                               /\ uses = [u \in Actions |-> [ask |-> None, for |-> p, noSale |-> FALSE]]
        /\ actPc = [u \in Actions |-> "new"]
        /\ holder = [a \in Asks |-> None]
        /\ counted = {} /\ wrong = 0 /\ relocks = 0

-----------------------------------------------------------------------------
(* approve. *)

AskGoesTo(a, p) == askPc' = [askPc EXCEPT ![a] = p]

(* The manager row is read, with the hash that will be compared. *)
ReadManager(a) == /\ askPc[a] = "new"
                  /\ hasPin
                  /\ \E m \in BOOLEAN : match' = [match EXCEPT ![a] = m]
                  /\ AskGoesTo(a, "read")
                  /\ UNCHANGED <<pinVars, token, actVars>>

ClaimUncounted(a) ==          \* mutant: the lock is checked, the attempt is not counted yet
  /\ askPc[a] = "read"
  /\ ~locked
  /\ counted' = counted \cup {a}
  /\ AskGoesTo(a, "claimed")
  /\ UNCHANGED <<hasPin, failed, locked, wrong, relocks, match, token, actVars>>

(* One UPDATE counts the attempt, sets the lock, and fails if it is set. *)
Claim(a) == /\ askPc[a] = "read"
            /\ ~locked
            /\ failed' = failed + 1
            /\ locked' = (failed + 1 >= MaxTries)
            /\ counted' = counted \cup {a}
            /\ AskGoesTo(a, "claimed")
            /\ UNCHANGED <<hasPin, wrong, relocks, match, token, actVars>>

RefuseLocked(a) == /\ askPc[a] = "read"
                   /\ locked
                   /\ AskGoesTo(a, "done")
                   /\ UNCHANGED <<pinVars, match, token, actVars>>

Wrong(a) == /\ askPc[a] = "claimed"
            /\ ~match[a]
            /\ wrong' = IF a \in counted THEN wrong + 1 ELSE wrong
            /\ AskGoesTo(a, "done")
            /\ UNCHANGED <<hasPin, failed, locked, counted, relocks, match, token, actVars>>

Right(a) == /\ askPc[a] = "claimed"
            /\ match[a]
            /\ AskGoesTo(a, "right")
            /\ UNCHANGED <<pinVars, match, token, actVars>>

ClearTries == /\ failed' = 0
              /\ locked' = FALSE
              /\ counted' = {}
              /\ wrong' = 0
              /\ relocks' = 0

Reset(a) == /\ askPc[a] = "right"
            /\ ClearTries
            /\ AskGoesTo(a, "reset")
            /\ UNCHANGED <<hasPin, match, token, actVars>>

Grant(a) == /\ askPc[a] = "reset"
            /\ \E p \in Purposes : token' = [token EXCEPT ![a] = [state |-> "live", for |-> p]]
            /\ AskGoesTo(a, "done")
            /\ UNCHANGED <<pinVars, match, actVars>>

(* The call fails between two of its steps. *)
AskCrash(a) == /\ askPc[a] \in {"read", "claimed", "right", "reset"}
               /\ AskGoesTo(a, "done")
               /\ UNCHANGED <<pinVars, match, token, actVars>>

(* Set, changed or removed. *)
SetOwnPin == /\ hasPin' \in BOOLEAN
             /\ ClearTries
             /\ UNCHANGED <<askVars, token, actVars>>

-----------------------------------------------------------------------------
(* Time: the lock lasts PIN_LOCK_MINUTES, a token APPROVAL_TTL_SECONDS. The *)
(* count of failed attempts survives the lock.                              *)

LockExpires == /\ locked
               /\ locked' = FALSE
               /\ relocks' = relocks + 1
               /\ UNCHANGED <<hasPin, failed, counted, wrong, askVars, token, actVars>>

TokenExpires(a) == /\ token[a].state = "live"
                   /\ token' = [token EXCEPT ![a].state = "expired"]
                   /\ UNCHANGED <<pinVars, askVars, actVars>>

-----------------------------------------------------------------------------
(* consume, in the transaction of an adjustment, a checkout, a void, a      *)
(* return or a shift close; noSale commits it before it writes anything.    *)

ActGoesTo(u, p) == actPc' = [actPc EXCEPT ![u] = p]

Act(u) == /\ actPc[u] = "new"
          /\ \E a \in Asks, p \in Purposes, n \in BOOLEAN :
               /\ token[a].state # "none"
               /\ uses' = [uses EXCEPT ![u] = [ask |-> a, for |-> p, noSale |-> n]]
          /\ ActGoesTo(u, "began")
          /\ UNCHANGED <<pinVars, askVars, token, holder>>

Consumable(u) == LET t == token[uses[u].ask]
                 IN  t.state = "live" /\ t.for = uses[u].for

ConsumeUnlocked(u) ==         \* mutant: the token is read first and marked used at the end
  /\ actPc[u] = "began"
  /\ Consumable(u)
  /\ ActGoesTo(u, "consumed")
  /\ UNCHANGED <<pinVars, askVars, token, uses, holder>>

ConsumeAtOnce(u) ==           \* mutant: the token is consumed outside the transaction
  /\ actPc[u] = "began"
  /\ holder[uses[u].ask] = None
  /\ Consumable(u)
  /\ token' = [token EXCEPT ![uses[u].ask].state = "used"]
  /\ holder' = [holder EXCEPT ![uses[u].ask] = u]
  /\ ActGoesTo(u, "consumed")
  /\ UNCHANGED <<pinVars, askVars, uses>>

(* The conditional UPDATE waits for another transaction's update of the row *)
(* and then looks at its conditions again.                                  *)
Consume(u) == /\ actPc[u] = "began"
              /\ holder[uses[u].ask] = None
              /\ Consumable(u)
              /\ holder' = [holder EXCEPT ![uses[u].ask] = u]
              /\ ActGoesTo(u, "consumed")
              /\ UNCHANGED <<pinVars, askVars, token, uses>>

RefuseToken(u) == /\ actPc[u] = "began"
                  /\ holder[uses[u].ask] = None
                  /\ ~Consumable(u)
                  /\ ActGoesTo(u, "failed")
                  /\ UNCHANGED <<pinVars, askVars, token, uses, holder>>

LetGo(u) == holder' = [a \in Asks |-> IF holder[a] = u THEN None ELSE holder[a]]

Commit(u) == /\ actPc[u] = "consumed"
             /\ token' = [token EXCEPT ![uses[u].ask].state = "used"]
             /\ LetGo(u)
             /\ ActGoesTo(u, IF uses[u].noSale THEN "paid" ELSE "acted")
             /\ UNCHANGED <<pinVars, askVars, uses>>

Rollback(u) == /\ actPc[u] \in {"began", "consumed"}
               /\ LetGo(u)
               /\ ActGoesTo(u, "failed")
               /\ UNCHANGED <<pinVars, askVars, token, uses>>

(* noSale: the drawer movement follows in a write of its own. *)
OpenDrawer(u) == /\ actPc[u] = "paid"
                 /\ ActGoesTo(u, "acted")
                 /\ UNCHANGED <<pinVars, askVars, token, uses, holder>>

-----------------------------------------------------------------------------
Next == \/ \E a \in Asks : \/ ReadManager(a) \/ Claim(a) \/ RefuseLocked(a) \/ Wrong(a)
                           \/ Right(a) \/ Reset(a) \/ Grant(a) \/ AskCrash(a)
                           \/ TokenExpires(a)
        \/ SetOwnPin
        \/ LockExpires
        \/ \E u \in Actions : \/ Act(u) \/ Consume(u) \/ RefuseToken(u) \/ Commit(u)
                              \/ Rollback(u) \/ OpenDrawer(u)

Spec == Init /\ [][Next]_vars

-----------------------------------------------------------------------------
(* "Parallel guesses cannot get extra tries" (approvals.service.ts:101-104): *)
(* between two resets of the count, wrong PINs are compared at most MaxTries *)
(* times, and once more for each time the lock runs out.                     *)
NoExtraGuesses == wrong <= MaxTries + relocks

(* One approval, one action: however many requests present a token at the    *)
(* same time, at most one of them goes through with it.                      *)
TokenUsedOnce ==
  \A u, v \in Actions : (actPc[u] \in {"paid", "acted"} /\ actPc[v] \in {"paid", "acted"}
                         /\ uses[u].ask = uses[v].ask) => u = v

(* "A failed action gives the token back" (approvals.service.ts:171-172): a  *)
(* token is used up only by an action that took place. Opening the drawer    *)
(* without a sale pays first, and may fail after.                            *)
FailedActionKeepsToken ==
  \A a \in Asks : token[a].state = "used"
    => \E u \in Actions : uses[u].ask = a /\ actPc[u] \in {"paid", "acted"}
=============================================================================
