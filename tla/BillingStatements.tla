--------------------------- MODULE BillingStatements ---------------------------
(***************************************************************************)
(* The monthly statement of one store (services/platform/billing/          *)
(* statements.js), built from the rows of CommissionLedger for the same    *)
(* period, which go on being written meanwhile.                            *)
(*                                                                         *)
(* Every operation reads the statement into a copy, and saves later.  A    *)
(* save writes the fields the operation changed in its copy and no others, *)
(* whatever the statement has become since: the schema switches versioning *)
(* off.  Rows are stamped by a second write, after the save.               *)
(***************************************************************************)
EXTENDS CommissionLedger

CONSTANTS
  Operators,    \* requests and period runs in progress at one time (bound)
  BaseFee,      \* the plan's fee for a month
  MaxRequests   \* started by operators, customers and staff together (bound)

ASSUME BaseFeeAssumption == BaseFee \in Nat
ASSUME MaxRequestsAssumption == MaxRequests \in Nat

VARIABLES
  statement,  \* of the period; its status is "none" before there is one
  job,        \* per operator: the operation, its phase and its copy
  requests,   \* started so far
  stale,      \* history: has a save been made from a copy out of date?
  received    \* history: money operators have recorded

statementVars == <<statement, job, stale, received>>
vars == <<ledgerVars, statementVars, requests>>

Statuses == {"none", "draft", "issued", "paid", "partially_paid", "overdue", "waived", "void"}
Unsettled == {"issued", "partially_paid", "overdue"}
Frozen == {"paid", "partially_paid", "waived"}  \* never generated again

NoStatement == [status |-> "none", billed |-> {}, due |-> 0, amountPaid |-> 0,
                payments |-> 0, balance |-> 0]
Free == [does |-> "nothing", phase |-> "idle", copy |-> NoStatement, amount |-> 0, rows |-> {}]

StatementInit ==
  /\ statement = NoStatement
  /\ job = [w \in Operators |-> Free]
  /\ stale = FALSE
  /\ received = 0

(* findOne, findById: the operation goes on with a copy.                    *)
Take(w, does, phase, amount) ==
  /\ job' = [job EXCEPT ![w] = [does |-> does, phase |-> phase, copy |-> statement,
                                amount |-> amount, rows |-> {}]]
  /\ UNCHANGED <<statement, stale, received>>

Goto(w, phase) == job' = [job EXCEPT ![w] = [Free EXCEPT !.does = job[w].does, !.phase = phase]]
Finish(w) == job' = [job EXCEPT ![w] = Free]

(* document.save(): only the fields that differ from the copy are written.  *)
Saved(copy, new) ==
  [f \in DOMAIN statement |-> IF new[f] # copy[f] THEN new[f] ELSE statement[f]]

Save(w, new) ==
  /\ statement' = Saved(job[w].copy, new)
  /\ stale' = (stale \/ statement # job[w].copy)

-----------------------------------------------------------------------------
(* generateStatement, on its own ("generate") and as the first half of the  *)
(* run of a period ("run"), which goes on to issue a draft that has lines.  *)

\* DEVIATION: a paid statement may be forced.
mayGenerate_MoneyMoved(status, force) ==
  \/ status \in {"none", "draft", "void"}
  \/ force /\ status \notin {"partially_paid", "waived"}

mayGenerate(status, force) ==
  \/ status \in {"none", "draft", "void"}
  \/ force /\ status \notin Frozen

(* One line for the base fee, one for the orders' rows, one for each        *)
(* adjustment: the amounts of the credits are negative.                     *)
amountDue(rows) == Max({0, BaseFee + Fees(rows)})

GenerateRead(w, does, force) ==
  /\ job[w].phase = "idle"
  /\ mayGenerate(statement.status, force)
  /\ Take(w, does, "pricing", 0)

(* The period's rows are read after the statement.  With no line and no     *)
(* statement, nothing is kept.                                              *)
GenerateRows(w) ==
  /\ job[w].phase = "pricing"
  /\ IF job[w].copy.status = "none" /\ Rows = {} /\ BaseFee = 0
     THEN Finish(w)
     ELSE job' = [job EXCEPT ![w].phase = "built", ![w].rows = Rows]
  /\ UNCHANGED <<statement, stale, received>>

Built(w) ==
  LET copy == job[w].copy
      due == amountDue(job[w].rows)
      lines == [copy EXCEPT !.billed = job[w].rows, !.due = due,
                            !.balance = due - copy.amountPaid]
  IN IF copy.status \in {"none", "void"}
     THEN [lines EXCEPT !.status = "draft", !.payments = 0, !.amountPaid = 0, !.balance = due]
     ELSE lines

(* A second statement for the period breaks the unique index: the request   *)
(* fails.                                                                   *)
GenerateSave(w) ==
  LET new == Built(w) IN
  /\ job[w].phase = "built"
  /\ IF job[w].copy.status = "none" /\ statement.status # "none"
     THEN UNCHANGED <<statement, stale>> /\ Finish(w)
     ELSE /\ Save(w, new)
          /\ IF job[w].does = "run" /\ new.status = "draft" /\ (new.billed # {} \/ BaseFee > 0)
             THEN Goto(w, "issue")
             ELSE Finish(w)
  /\ UNCHANGED received

-----------------------------------------------------------------------------
(* issueStatement, and the stamping of the period's rows after it.          *)

IssueRead(w) ==
  /\ job[w].phase = "idle"
  /\ statement.status = "draft"
  /\ Take(w, "issue", "read", 0)

RunIssues(w) ==
  /\ job[w].phase = "issue"
  /\ IF statement.status = "draft"
     THEN Take(w, "issue", "read", 0)
     ELSE Finish(w) /\ UNCHANGED <<statement, stale, received>>

IssueSave(w) ==
  LET copy == job[w].copy IN
  /\ job[w].phase = "read" /\ job[w].does = "issue"
  /\ Save(w, [copy EXCEPT !.status = IF copy.due = 0 THEN "paid" ELSE "issued",
                          !.balance = copy.due - copy.amountPaid])
  /\ Goto(w, "stamp")
  /\ UNCHANGED received

(* updateMany: every row of the period without a statement, whether or not  *)
(* the lines were built from it.                                            *)
Stamp(w) ==
  /\ job[w].phase = "stamp"
  /\ ledger' = [e \in Events |-> [ledger[e] EXCEPT !.stamped = ledger[e].written]]
  /\ Finish(w)
  /\ UNCHANGED <<statement, stale, received>>

-----------------------------------------------------------------------------
(* recordPayment                                                            *)

(* Amounts are in cents, and half a cent over the balance rounds up to one. *)
PayRead(w, amount) ==
  /\ job[w].phase = "idle"
  /\ statement.status \in Unsettled
  /\ amount <= statement.balance + 1
  /\ Take(w, "pay", "read", amount)

\* DEVIATION: the last payment replaces the sum.
settledBy_AmountOnly(copy, amount) ==
  LET paid == copy.amountPaid + amount
  IN [copy EXCEPT !.amountPaid = amount,
                  !.balance = Max({0, copy.due - paid}),
                  !.status = IF paid >= copy.due THEN "paid" ELSE "partially_paid"]

settledBy(copy, amount) ==
  LET paid == copy.amountPaid + amount
  IN [copy EXCEPT !.amountPaid = paid,
                  !.balance = Max({0, copy.due - paid}),
                  !.status = IF paid >= copy.due THEN "paid" ELSE "partially_paid"]

(* The payment itself is pushed, so it is never lost to another save.       *)
PaySave(w) ==
  /\ job[w].phase = "read" /\ job[w].does = "pay"
  /\ statement' = [Saved(job[w].copy, settledBy(job[w].copy, job[w].amount))
                     EXCEPT !.payments = statement.payments + job[w].amount]
  /\ stale' = (stale \/ statement # job[w].copy)
  /\ received' = received + job[w].amount
  /\ Finish(w)

-----------------------------------------------------------------------------
(* waiveStatement, voidStatement, markOverdue                               *)

WaiveRead(w) ==
  /\ job[w].phase = "idle"
  /\ statement.status \in Unsettled
  /\ Take(w, "waive", "read", 0)

WaiveSave(w) ==
  /\ job[w].phase = "read" /\ job[w].does = "waive"
  /\ Save(w, [job[w].copy EXCEPT !.status = "waived", !.balance = 0])
  /\ Finish(w)
  /\ UNCHANGED received

mayVoid(s) == s.status \notin {"none", "paid", "void"} /\ s.amountPaid = 0

VoidRead(w) ==
  /\ job[w].phase = "idle"
  /\ mayVoid(statement)
  /\ Take(w, "void", "read", 0)

VoidSave(w) ==
  /\ job[w].phase = "read" /\ job[w].does = "void"
  /\ Save(w, [job[w].copy EXCEPT !.status = "void", !.balance = 0])
  /\ Goto(w, "unstamp")
  /\ UNCHANGED received

Unstamp(w) ==
  /\ job[w].phase = "unstamp"
  /\ ledger' = [e \in Events |-> [ledger[e] EXCEPT !.stamped = FALSE]]
  /\ Finish(w)
  /\ UNCHANGED <<statement, stale, received>>

(* One atomic write.  Due dates are not modelled: an issued statement may   *)
(* be past its own at any time.                                             *)
markOverdue ==
  /\ statement.status \in {"issued", "partially_paid"}
  /\ statement.balance > 0
  /\ statement' = [statement EXCEPT !.status = "overdue"]
  /\ UNCHANGED <<job, stale, received>>

(* A database call fails, or the process stops: the operation ends where it *)
(* is, possibly between the save and the stamps.                            *)
Abandon(w) ==
  /\ job[w].phase # "idle"
  /\ Finish(w)
  /\ UNCHANGED <<statement, stale, received>>

-----------------------------------------------------------------------------
closed == statement.status \notin {"none", "draft", "void"}

StatementStarts ==
  \E w \in Operators :
    \/ GenerateRead(w, "run", FALSE)
    \/ \E force \in BOOLEAN : GenerateRead(w, "generate", force)
    \/ IssueRead(w) \/ WaiveRead(w) \/ VoidRead(w)
    \/ \E amount \in 1..(statement.balance + 1) : PayRead(w, amount)

StatementContinues ==
  \E w \in Operators :
    \/ GenerateRows(w) \/ GenerateSave(w) \/ RunIssues(w) \/ IssueSave(w)
    \/ PaySave(w) \/ WaiveSave(w) \/ VoidSave(w) \/ Abandon(w)

Init == LedgerInit /\ StatementInit /\ requests = 0

Start ==
  /\ requests < MaxRequests
  /\ requests' = requests + 1
  /\ \/ LedgerStarts(closed) /\ UNCHANGED statementVars
     \/ StatementStarts /\ UNCHANGED ledgerVars

Continue ==
  /\ UNCHANGED requests
  /\ \/ LedgerContinues /\ UNCHANGED statementVars
     \/ StatementContinues /\ UNCHANGED ledgerVars
     \/ markOverdue /\ UNCHANGED ledgerVars
     \/ \E w \in Operators : /\ Stamp(w) \/ Unstamp(w)
                             /\ UNCHANGED <<order, delivery, refund, adjustment>>

Next == Start \/ Continue

Spec == Init /\ [][Next]_vars

-----------------------------------------------------------------------------
Bills == [status : Statuses, billed : SUBSET Events, due : Nat, amountPaid : Nat,
          payments : Nat, balance : Int]

Phases == {"idle", "pricing", "built", "issue", "read", "stamp", "unstamp"}
Operations == {"nothing", "generate", "run", "issue", "pay", "waive", "void"}

TypeOK ==
  /\ LedgerTypeOK
  /\ statement \in Bills
  /\ job \in [Operators -> [does : Operations, phase : Phases, copy : Bills,
                            amount : Nat, rows : SUBSET Events]]
  /\ requests \in 0..MaxRequests
  /\ stale \in BOOLEAN
  /\ received \in Nat

(* Until two operations overlap on the statement, its figures agree with    *)
(* each other and with the money received: payments are all there and add   *)
(* up to what is said to be paid, the balance is what is still due, and a   *)
(* void statement, which the next generation empties, holds no payment.     *)
BooksBalance ==
  stale \/
  LET s == statement IN
  /\ s.payments = received
  /\ s.amountPaid = s.payments
  /\ s.status \in Unsettled \cup {"draft"} => s.balance = s.due - s.amountPaid
  /\ s.status = "paid" => s.amountPaid >= s.due
  /\ s.status \in {"waived", "void"} => s.balance = 0
  /\ s.status = "void" => s.amountPaid = 0

(* A paid statement is final: no generation, forced or not, no void and no  *)
(* waiver changes it.  The one way is a save from a copy read before.       *)
PaidIsFinal == [][statement.status = "paid" => statement' = statement \/ stale']_vars

(* docs/plans/platform-admin-operating-system.md: "Fee events are written   *)
(* when an order reaches Delivered".  Once nothing more is to come, and no  *)
(* event was lost, a delivered order with something left to charge for has  *)
(* its commission row.                                                      *)
DeliveredIsCharged ==
  \A o \in Orders :
    /\ order[o].delivered
    /\ order[o].refunded < Total
    /\ \A d \in Deliveries : delivery[d].order = o => delivery[d].phase \in {"idle", "done"}
    => CommissionsOf(o) # {}

=============================================================================
