----------------------- MODULE BillingStatementsProofs -----------------------
(***************************************************************************)
(* The statement of a period and the ledger under it, for any number of    *)
(* orders, events, requests and operators.                                 *)
(***************************************************************************)
EXTENDS BillingStatements, CommissionLedgerProofs, TLAPS

JobValues == [does : Operations, phase : Phases, copy : Bills, amount : Nat, rows : SUBSET Events]

StatementTypeOK ==
  /\ statement \in Bills
  /\ job \in [Operators -> JobValues]
  /\ stale \in BOOLEAN
  /\ received \in Nat

(* What an operation checked when it read the statement, it still knows of  *)
(* its copy: of the statement it may no longer be true.                     *)
JobSound(j) ==
  /\ j.phase \in {"pricing", "built"} => j.copy.status \notin Frozen
  /\ j.phase = "read" /\ j.does = "issue" => j.copy.status = "draft"
  /\ j.phase = "read" /\ j.does = "pay" =>
       j.copy.status \in Unsettled /\ 1 <= j.amount /\ j.amount <= j.copy.balance + 1
  /\ j.phase = "read" /\ j.does = "waive" => j.copy.status \in Unsettled
  /\ j.phase = "read" /\ j.does = "void" => mayVoid(j.copy)

JobInv == \A w \in Operators : JobSound(job[w])

(* The books of a statement s against the money received.  BooksBalance     *)
(* says nothing of a statement that does not exist: the first generation    *)
(* sets its payments to zero, which is right only if there were none.       *)
Balanced(s, money) ==
  /\ s.payments = money /\ s.amountPaid = s.payments
  /\ s.status = "none" => s.payments = 0
  /\ s.status \in Unsettled \cup {"draft"} => s.balance = s.due - s.amountPaid
  /\ s.status = "paid" => s.amountPaid >= s.due
  /\ s.status \in {"waived", "void"} => s.balance = 0
  /\ s.status = "void" => s.amountPaid = 0

Books == ~stale => Balanced(statement, received)

PaidKept == statement.status = "paid" => statement' = statement \/ stale'

StatementInv == StatementTypeOK /\ JobInv /\ Books

StatementKept == StatementInv' /\ PaidKept

(* save() of a copy that is still the statement writes the operation's      *)
(* result; of any other copy, some mixture of the two.                      *)
LEMMA SavedType ==
  ASSUME statement \in Bills, NEW copy \in Bills, NEW new \in Bills
  PROVE  Saved(copy, new) \in Bills /\ (statement = copy => Saved(copy, new) = new)
<1> DEFINE fields == {"status", "billed", "due", "amountPaid", "payments", "balance"}
           s == Saved(copy, new)
<1>1. DOMAIN statement = fields
  BY DEF Bills
<1>2. s = [f \in fields |-> IF new[f] # copy[f] THEN new[f] ELSE statement[f]]
  BY <1>1 DEF Saved
<1>3. s = [status |-> s.status, billed |-> s.billed, due |-> s.due,
           amountPaid |-> s.amountPaid, payments |-> s.payments, balance |-> s.balance]
  BY <1>2
<1>4. /\ s.status \in {new.status, statement.status}
      /\ s.billed \in {new.billed, statement.billed}
      /\ s.due \in {new.due, statement.due}
      /\ s.amountPaid \in {new.amountPaid, statement.amountPaid}
      /\ s.payments \in {new.payments, statement.payments}
      /\ s.balance \in {new.balance, statement.balance}
  BY <1>2
<1>5. ASSUME statement = copy
      PROVE  /\ s.status = new.status /\ s.billed = new.billed /\ s.due = new.due
             /\ s.amountPaid = new.amountPaid /\ s.payments = new.payments
             /\ s.balance = new.balance
  BY <1>2, <1>5
<1>6. new = [status |-> new.status, billed |-> new.billed, due |-> new.due,
             amountPaid |-> new.amountPaid, payments |-> new.payments, balance |-> new.balance]
  BY DEF Bills
<1> HIDE DEF s
<1>7. s \in Bills
  BY <1>3, <1>4 DEF Bills
<1>8. statement = copy => s = new
  BY <1>3, <1>5, <1>6
<1> QED BY <1>7, <1>8 DEF s

(* An operator goes on to a state of its own that says what it knows.       *)
LEMMA JobMoves ==
  ASSUME StatementInv, NEW w \in Operators, NEW j \in JobValues, JobSound(j),
         job' = [job EXCEPT ![w] = j]
  PROVE  job' \in [Operators -> JobValues] /\ JobInv'
<1>1. job' \in [Operators -> JobValues] /\ job'[w] = j
      /\ \A v \in Operators \ {w} : job'[v] = job[v]
  BY DEF StatementInv, StatementTypeOK
<1>2. ASSUME NEW v \in Operators PROVE JobSound(job'[v])
  BY <1>1 DEF StatementInv, JobInv
<1> QED BY <1>1, <1>2 DEF JobInv, JobSound

LEMMA OnlyJobMoves ==
  ASSUME StatementInv, NEW w \in Operators, NEW j \in JobValues, JobSound(j),
         job' = [job EXCEPT ![w] = j], UNCHANGED <<statement, stale, received>>
  PROVE  StatementKept
<1>1. job' \in [Operators -> JobValues] /\ JobInv'
  BY JobMoves
<1>2. StatementTypeOK' /\ Books'
  BY <1>1 DEF StatementInv, StatementTypeOK, Books
<1> QED BY <1>1, <1>2 DEF StatementKept, StatementInv, PaidKept

(* The two ways a request ends a phase without a copy.                      *)
LEMMA Ended ==
  ASSUME StatementInv, NEW w \in Operators
  PROVE  /\ Free \in JobValues /\ JobSound(Free)
         /\ \A phase \in {"issue", "stamp", "unstamp"} :
              LET j == [Free EXCEPT !.does = job[w].does, !.phase = phase]
              IN j \in JobValues /\ JobSound(j)
<1>1. NoStatement \in Bills
  BY DEF NoStatement, Bills, Statuses
<1>2. Free \in JobValues
  BY <1>1 DEF Free, JobValues, Operations, Phases
<1>3. Free.phase = "idle"
  BY DEF Free
<1>4. JobSound(Free)
  BY <1>3 DEF JobSound
<1>5. job[w].does \in Operations
  BY DEF StatementInv, StatementTypeOK, JobValues
<1>6. ASSUME NEW phase \in {"issue", "stamp", "unstamp"}
      PROVE  LET j == [Free EXCEPT !.does = job[w].does, !.phase = phase]
             IN j \in JobValues /\ JobSound(j)
  <2> DEFINE j == [Free EXCEPT !.does = job[w].does, !.phase = phase]
  <2>1. j \in JobValues /\ j.phase = phase
    BY <1>2, <1>5 DEF JobValues, Phases
  <2> HIDE DEF j
  <2>2. JobSound(j)
    BY <2>1 DEF JobSound
  <2> QED BY <2>1, <2>2 DEF j
<1> QED BY <1>2, <1>4, <1>6

(* A write by an operator whose copy was not a paid statement.              *)
LEMMA Writes ==
  ASSUME StatementInv, NEW w \in Operators, NEW j \in JobValues, JobSound(j),
         job' = [job EXCEPT ![w] = j],
         NEW new, statement' \in Bills, statement = job[w].copy => statement' = new,
         stale' = (stale \/ statement # job[w].copy), received' \in Nat,
         job[w].copy.status # "paid",
         Balanced(job[w].copy, received) => Balanced(new, received')
  PROVE  StatementKept
<1> DEFINE copy == job[w].copy
<1>0. StatementTypeOK /\ Books
  BY DEF StatementInv
<1>1. job' \in [Operators -> JobValues] /\ JobInv'
  BY JobMoves
<1>2. stale' \in BOOLEAN
  OBVIOUS
<1>3. ~stale' => ~stale /\ statement = copy
  BY <1>0 DEF StatementTypeOK
<1>4. Books'
  <2> SUFFICES ASSUME ~stale' PROVE Balanced(statement', received')
    BY DEF Books, Balanced
  <2>1. ~stale /\ statement = copy /\ statement' = new
    BY <1>3
  <2>2. Balanced(copy, received)
    BY <1>0, <2>1 DEF Books
  <2> QED BY <2>1, <2>2
<1>5. PaidKept
  BY <1>3 DEF PaidKept
<1> QED BY <1>1, <1>2, <1>4, <1>5 DEF StatementKept, StatementInv, StatementTypeOK

LEMMA Saves ==
  ASSUME StatementInv, NEW w \in Operators, NEW j \in JobValues, JobSound(j),
         job' = [job EXCEPT ![w] = j],
         NEW new \in Bills, Save(w, new), UNCHANGED received,
         job[w].copy.status # "paid",
         Balanced(job[w].copy, received) => Balanced(new, received)
  PROVE  StatementKept
<1>1. /\ statement \in Bills /\ job[w].copy \in Bills /\ received' \in Nat
      /\ statement' = Saved(job[w].copy, new) /\ stale' = (stale \/ statement # job[w].copy)
  BY DEF StatementInv, StatementTypeOK, JobValues, Save
<1>2. statement' \in Bills /\ (statement = job[w].copy => statement' = new)
  BY <1>1, SavedType
<1> QED BY <1>1, <1>2, Writes

(* --------------------------- Each operation ------------------------------ *)

(* findOne, findById: the copy is the statement, and what was checked holds *)
(* of it.                                                                   *)
LEMMA Takes ==
  ASSUME StatementInv, NEW w \in Operators, NEW does \in Operations, NEW phase \in Phases,
         NEW amount \in Nat, Take(w, does, phase, amount),
         JobSound([does |-> does, phase |-> phase, copy |-> statement,
                   amount |-> amount, rows |-> {}])
  PROVE  StatementKept
<1> DEFINE j == [does |-> does, phase |-> phase, copy |-> statement, amount |-> amount, rows |-> {}]
<1>1. j \in JobValues
  BY DEF StatementInv, StatementTypeOK, JobValues
<1>2. job' = [job EXCEPT ![w] = j] /\ UNCHANGED <<statement, stale, received>>
  BY DEF Take
<1> HIDE DEF j
<1> QED BY <1>1, <1>2, OnlyJobMoves DEF j

LEMMA ReadSteps ==
  ASSUME StatementInv, NEW w \in Operators,
         \/ \E does \in {"run", "generate"}, force \in BOOLEAN : GenerateRead(w, does, force)
         \/ IssueRead(w) \/ WaiveRead(w) \/ VoidRead(w)
         \/ \E amount \in 1..(statement.balance + 1) : PayRead(w, amount)
         \/ RunIssues(w) /\ statement.status = "draft"
  PROVE  StatementKept
<1>0. /\ {"run", "generate", "issue", "waive", "void", "pay"} \subseteq Operations
      /\ "pricing" \in Phases /\ "read" \in Phases
  BY DEF Operations, Phases
<1>1. CASE \E does \in {"run", "generate"}, force \in BOOLEAN : GenerateRead(w, does, force)
  <2>1. PICK does \in {"run", "generate"}, force \in BOOLEAN : GenerateRead(w, does, force)
    BY <1>1
  <2> DEFINE j == [does |-> does, phase |-> "pricing", copy |-> statement,
                   amount |-> 0, rows |-> {}]
  <2>2. Take(w, does, "pricing", 0) /\ statement.status \notin Frozen
    BY <2>1 DEF GenerateRead, mayGenerate, Frozen
  <2>3. JobSound(j)
    BY <2>2 DEF JobSound
  <2> QED BY <1>0, <2>2, <2>3, Takes
<1>2. CASE IssueRead(w) \/ (RunIssues(w) /\ statement.status = "draft")
  <2> DEFINE j == [does |-> "issue", phase |-> "read", copy |-> statement,
                   amount |-> 0, rows |-> {}]
  <2>1. Take(w, "issue", "read", 0) /\ statement.status = "draft"
    BY <1>2 DEF IssueRead, RunIssues
  <2>2. JobSound(j)
    BY <2>1 DEF JobSound
  <2> QED BY <1>0, <2>1, <2>2, Takes
<1>3. CASE WaiveRead(w)
  <2> DEFINE j == [does |-> "waive", phase |-> "read", copy |-> statement,
                   amount |-> 0, rows |-> {}]
  <2>1. Take(w, "waive", "read", 0) /\ statement.status \in Unsettled
    BY <1>3 DEF WaiveRead
  <2>2. JobSound(j)
    BY <2>1 DEF JobSound
  <2> QED BY <1>0, <2>1, <2>2, Takes
<1>4. CASE VoidRead(w)
  <2> DEFINE j == [does |-> "void", phase |-> "read", copy |-> statement, amount |-> 0, rows |-> {}]
  <2>1. Take(w, "void", "read", 0) /\ mayVoid(statement)
    BY <1>4 DEF VoidRead
  <2>2. JobSound(j)
    BY <2>1 DEF JobSound
  <2> QED BY <1>0, <2>1, <2>2, Takes
<1>5. CASE \E amount \in 1..(statement.balance + 1) : PayRead(w, amount)
  <2>1. PICK amount \in 1..(statement.balance + 1) : PayRead(w, amount)
    BY <1>5
  <2> DEFINE j == [does |-> "pay", phase |-> "read", copy |-> statement,
                   amount |-> amount, rows |-> {}]
  <2>2. Take(w, "pay", "read", amount) /\ statement.status \in Unsettled
    BY <2>1 DEF PayRead
  <2>3. statement.balance \in Int
    BY DEF StatementInv, StatementTypeOK, Bills
  <2>4. amount \in Nat /\ 1 <= amount /\ amount <= statement.balance + 1
    BY <2>3
  <2>5. JobSound(j)
    BY <2>2, <2>4 DEF JobSound
  <2> QED BY <1>0, <2>2, <2>4, <2>5, Takes
<1> QED BY <1>1, <1>2, <1>3, <1>4, <1>5

(* An operation that ends, or goes on, without a save.                      *)
LEMMA EndSteps ==
  ASSUME StatementInv, NEW w \in Operators,
         Finish(w), UNCHANGED <<statement, stale, received>>
  PROVE  StatementKept
<1>1. Free \in JobValues /\ JobSound(Free)
  BY Ended
<1> QED BY <1>1, OnlyJobMoves DEF Finish

LEMMA GenerateRowsStep ==
  ASSUME StatementInv, NEW w \in Operators, GenerateRows(w)
  PROVE  StatementKept
<1>0. UNCHANGED <<statement, stale, received>> /\ job[w].phase = "pricing"
  BY DEF GenerateRows
<1>1. CASE Finish(w)
  BY <1>0, <1>1, EndSteps
<1>2. CASE ~Finish(w)
  <2> DEFINE j == [job[w] EXCEPT !.phase = "built", !.rows = Rows]
  <2>1. Rows \in SUBSET Events
    BY DEF Rows
  <2>2. /\ j \in JobValues /\ j.phase = "built" /\ j.copy = job[w].copy
        /\ job[w].copy.status \notin Frozen
    BY <1>0, <2>1 DEF StatementInv, StatementTypeOK, JobInv, JobSound, JobValues, Phases
  <2>3. job' = [job EXCEPT ![w] = j]
    BY <1>2 DEF GenerateRows
  <2> HIDE DEF j
  <2>4. JobSound(j)
    BY <2>2 DEF JobSound
  <2> QED BY <1>0, <2>2, <2>3, <2>4, OnlyJobMoves
<1> QED BY <1>1, <1>2

(* The bill a generation writes: what was paid stays paid, and a statement  *)
(* that is new or void begins with nothing paid.                            *)
LEMMA BuiltBill ==
  ASSUME LedgerTypeOK, StatementInv, NEW w \in Operators,
         job[w].copy.status \notin Frozen
  PROVE  LET new == Built(w) IN
         /\ new \in Bills
         /\ Balanced(job[w].copy, received) => Balanced(new, received)
<1> DEFINE copy == job[w].copy
           rows == job[w].rows
           due == amountDue(rows)
           lines == [copy EXCEPT !.billed = rows, !.due = due, !.balance = due - copy.amountPaid]
           draft == [lines EXCEPT !.status = "draft", !.payments = 0, !.amountPaid = 0,
                                   !.balance = due]
<1>1. copy \in Bills /\ rows \in SUBSET Events
  BY DEF StatementInv, StatementTypeOK, JobValues
<1>2. due \in Nat
  <2>1. Fees(rows) \in Int
    BY <1>1, FeesType
  <2>2. BaseFee + Fees(rows) \in Int
    BY <2>1, BaseFeeAssumption
  <2> DEFINE sum == BaseFee + Fees(rows)
  <2> HIDE DEF sum
  <2>3. sum \in Int
    BY <2>2 DEF sum
  <2>4. Max({0, sum}) \in Nat
    BY <2>3, MaxZero
  <2> QED BY <2>4 DEF amountDue, sum
<1>3. Built(w) = IF copy.status \in {"none", "void"} THEN draft ELSE lines
  BY DEF Built
<1> HIDE DEF due, copy
<1>4. copy.amountPaid \in Nat /\ due - copy.amountPaid \in Int /\ due \in Int
  BY <1>1, <1>2 DEF Bills
<1>5. lines \in Bills
  BY <1>1, <1>2, <1>4 DEF Bills
<1>6. /\ lines.status = copy.status /\ lines.payments = copy.payments
      /\ lines.amountPaid = copy.amountPaid /\ lines.balance = due - copy.amountPaid
      /\ lines.due = due
  BY <1>1 DEF Bills
<1>7. draft \in Bills
  <2>1. "draft" \in Statuses /\ 0 \in Nat
    BY DEF Statuses
  <2> HIDE DEF lines
  <2> QED BY <1>4, <1>5, <2>1 DEF Bills
<1>8. /\ draft.status = "draft" /\ draft.payments = 0 /\ draft.amountPaid = 0
      /\ draft.balance = due /\ draft.due = due
  BY <1>1 DEF Bills
<1> HIDE DEF draft, lines
<1>9. ASSUME Balanced(copy, received) PROVE Balanced(Built(w), received)
  <2>1. CASE copy.status \in {"none", "void"}
    <3>1. received = 0
      BY <1>9, <2>1 DEF Balanced
    <3> QED BY <1>2, <1>3, <1>8, <2>1, <3>1 DEF Balanced, Unsettled
  <2>2. CASE copy.status \notin {"none", "void"}
    <3>1. Built(w) = lines
      BY <1>3, <2>2
    <3>2. copy.status \notin {"none", "void", "paid", "waived"}
      BY <2>2 DEF copy, Frozen
    <3>3. copy.payments = received /\ copy.amountPaid = copy.payments
      BY <1>9 DEF Balanced
    <3> QED BY <1>6, <3>1, <3>2, <3>3 DEF Balanced
  <2> QED BY <2>1, <2>2
<1> QED BY <1>3, <1>5, <1>7, <1>9 DEF copy

LEMMA GenerateSaveStep ==
  ASSUME LedgerTypeOK, StatementInv, NEW w \in Operators, GenerateSave(w)
  PROVE  StatementKept
<1> DEFINE new == Built(w)
<1>0. UNCHANGED received /\ job[w].phase = "built" /\ job[w].copy.status \notin Frozen
  BY DEF GenerateSave, StatementInv, JobInv, JobSound
<1>1. CASE Finish(w) /\ UNCHANGED <<statement, stale>>
  BY <1>0, <1>1, EndSteps
<1>2. CASE Save(w, new) /\ (Finish(w) \/ Goto(w, "issue"))
  <2>1. new \in Bills /\ (Balanced(job[w].copy, received) => Balanced(new, received))
    BY <1>0, BuiltBill
  <2> HIDE DEF new
  <2>2. job[w].copy.status # "paid"
    BY <1>0 DEF Frozen
  <2>3. PICK j \in JobValues : JobSound(j) /\ job' = [job EXCEPT ![w] = j]
    <3>1. CASE Finish(w)
      BY <3>1, Ended DEF Finish
    <3>2. CASE Goto(w, "issue")
      BY <3>2, Ended DEF Goto
    <3> QED BY <1>2, <3>1, <3>2
  <2> QED BY <1>0, <1>2, <2>1, <2>2, <2>3, Saves
<1> QED BY <1>1, <1>2 DEF GenerateSave

LEMMA IssueSaveStep ==
  ASSUME StatementInv, NEW w \in Operators, IssueSave(w)
  PROVE  StatementKept
<1> DEFINE copy == job[w].copy
           status == IF copy.due = 0 THEN "paid" ELSE "issued"
           new == [copy EXCEPT !.status = status, !.balance = copy.due - copy.amountPaid]
<1>1. copy \in Bills /\ copy.status = "draft" /\ UNCHANGED received
  BY DEF IssueSave, StatementInv, StatementTypeOK, JobValues, JobInv, JobSound
<1>2. Save(w, new) /\ Goto(w, "stamp")
  BY DEF IssueSave
<1> HIDE DEF copy
<1>3. copy.due \in Nat /\ copy.amountPaid \in Nat /\ copy.due - copy.amountPaid \in Int
  BY <1>1 DEF Bills
<1>4. new \in Bills
  BY <1>1, <1>3 DEF Bills, Statuses
<1>5. /\ new.status = status /\ new.balance = copy.due - copy.amountPaid /\ new.due = copy.due
      /\ new.payments = copy.payments /\ new.amountPaid = copy.amountPaid
  BY <1>1 DEF Bills
<1> HIDE DEF new
<1>6. Balanced(copy, received) => Balanced(new, received)
  BY <1>3, <1>5 DEF Balanced
<1>7. PICK j \in JobValues : JobSound(j) /\ job' = [job EXCEPT ![w] = j]
  BY <1>2, Ended DEF Goto
<1> QED BY <1>1, <1>2, <1>4, <1>6, <1>7, Saves DEF copy

LEMMA WaiveSaveStep ==
  ASSUME StatementInv, NEW w \in Operators, WaiveSave(w)
  PROVE  StatementKept
<1> DEFINE copy == job[w].copy
           new == [copy EXCEPT !.status = "waived", !.balance = 0]
<1>1. copy \in Bills /\ copy.status \in Unsettled /\ UNCHANGED received
  BY DEF WaiveSave, StatementInv, StatementTypeOK, JobValues, JobInv, JobSound
<1>2. Save(w, new) /\ Finish(w)
  BY DEF WaiveSave
<1> HIDE DEF copy
<1>3. new \in Bills
  <2>1. "waived" \in Statuses /\ 0 \in Int
    BY DEF Statuses
  <2> QED BY <1>1, <2>1 DEF Bills
<1>4. /\ new.status = "waived" /\ new.balance = 0
      /\ new.payments = copy.payments /\ new.amountPaid = copy.amountPaid
  BY <1>1 DEF Bills
<1> HIDE DEF new
<1>5. Balanced(copy, received) => Balanced(new, received)
  BY <1>4 DEF Balanced, Unsettled
<1>6. copy.status # "paid"
  BY <1>1 DEF Unsettled
<1>7. PICK j \in JobValues : JobSound(j) /\ job' = [job EXCEPT ![w] = j]
  BY <1>2, Ended DEF Finish
<1> QED BY <1>1, <1>2, <1>3, <1>5, <1>6, <1>7, Saves DEF copy

LEMMA VoidSaveStep ==
  ASSUME StatementInv, NEW w \in Operators, VoidSave(w)
  PROVE  StatementKept
<1> DEFINE copy == job[w].copy
           new == [copy EXCEPT !.status = "void", !.balance = 0]
<1>1. copy \in Bills /\ mayVoid(copy) /\ UNCHANGED received
  BY DEF VoidSave, StatementInv, StatementTypeOK, JobValues, JobInv, JobSound
<1>2. Save(w, new) /\ Goto(w, "unstamp")
  BY DEF VoidSave
<1> HIDE DEF copy
<1>3. new \in Bills
  <2>1. "void" \in Statuses /\ 0 \in Int
    BY DEF Statuses
  <2> QED BY <1>1, <2>1 DEF Bills
<1>4. /\ new.status = "void" /\ new.balance = 0
      /\ new.payments = copy.payments /\ new.amountPaid = copy.amountPaid
  BY <1>1 DEF Bills
<1> HIDE DEF new
<1>5. Balanced(copy, received) => Balanced(new, received)
  BY <1>1, <1>4 DEF Balanced, Unsettled, mayVoid
<1>6. copy.status # "paid"
  BY <1>1 DEF mayVoid
<1>7. PICK j \in JobValues : JobSound(j) /\ job' = [job EXCEPT ![w] = j]
  BY <1>2, Ended DEF Goto
<1> QED BY <1>1, <1>2, <1>3, <1>5, <1>6, <1>7, Saves DEF copy

(* A payment at most a cent larger than the balance it was checked against. *)
LEMMA PaySaveStep ==
  ASSUME StatementInv, NEW w \in Operators, PaySave(w)
  PROVE  StatementKept
<1> DEFINE copy == job[w].copy
           amount == job[w].amount
           paid == copy.amountPaid + amount
           left == Max({0, copy.due - paid})
           status == IF paid >= copy.due THEN "paid" ELSE "partially_paid"
           settled == settledBy(copy, amount)
           pushed == [Saved(copy, settled) EXCEPT !.payments = statement.payments + amount]
           new == [settled EXCEPT !.payments = copy.payments + amount]
<1>1. /\ copy \in Bills /\ amount \in Nat
      /\ copy.status \in Unsettled
      /\ statement \in Bills /\ received \in Nat
  BY DEF PaySave, StatementInv, StatementTypeOK, JobValues, JobInv, JobSound
<1>2. /\ statement' = pushed /\ stale' = (stale \/ statement # copy)
      /\ received' = received + amount /\ Finish(w)
  BY DEF PaySave
<1>3. settled = [copy EXCEPT !.amountPaid = paid, !.balance = left, !.status = status]
  BY DEF settledBy
<1> HIDE DEF copy, amount
<1>4. /\ copy.due \in Nat /\ copy.amountPaid \in Nat /\ copy.payments \in Nat
      /\ copy.balance \in Int /\ statement.payments \in Nat
  BY <1>1 DEF Bills
<1>5. paid \in Nat /\ copy.due - paid \in Int
  BY <1>1, <1>4
<1> HIDE DEF paid
<1>6. left = (IF copy.due - paid >= 0 THEN copy.due - paid ELSE 0) /\ left \in Int
  BY <1>5, MaxZero
<1>7. status \in Statuses
  BY DEF Statuses
<1> HIDE DEF left, status
<1>8. settled \in Bills
  BY <1>1, <1>3, <1>5, <1>6, <1>7 DEF Bills
<1>9. /\ settled.amountPaid = paid /\ settled.balance = left /\ settled.status = status
      /\ settled.due = copy.due
  BY <1>1, <1>3 DEF Bills
<1> HIDE DEF settled
<1>10. statement.payments + amount \in Nat /\ copy.payments + amount \in Nat
       /\ received + amount \in Nat
  BY <1>1, <1>4
<1>11. Saved(copy, settled) \in Bills /\ (statement = copy => Saved(copy, settled) = settled)
  BY <1>1, <1>8, SavedType
<1>12. pushed \in Bills /\ (statement = copy => pushed = new)
  BY <1>10, <1>11 DEF Bills
<1>13. /\ new.payments = copy.payments + amount /\ new.amountPaid = paid
       /\ new.balance = left /\ new.status = status /\ new.due = copy.due
  BY <1>8, <1>9 DEF Bills
<1> HIDE DEF new, pushed
<1>14. ASSUME Balanced(copy, received) PROVE Balanced(new, received + amount)
  <2>1. /\ copy.payments = received /\ copy.amountPaid = copy.payments
        /\ copy.balance = copy.due - copy.amountPaid
    BY <1>1, <1>14 DEF Balanced
  <2>2. new.payments = received + amount /\ new.amountPaid = new.payments
    BY <1>13, <2>1 DEF paid
  <2>3. new.status = "partially_paid" => ~(paid >= copy.due)
    BY <1>13 DEF status
  <2>4. new.status = "partially_paid" => new.balance = new.due - new.amountPaid
    BY <1>4, <1>5, <1>6, <1>13, <2>3
  <2>5. new.status \in {"paid", "partially_paid"} /\ (new.status = "paid" => paid >= copy.due)
    BY <1>13 DEF status
  <2>6. new.status \notin {"none", "draft", "waived", "void"}
    BY <2>5
  <2>7. new.status = "paid" => new.amountPaid >= new.due
    BY <1>13, <2>5
  <2>8. new.status \in Unsettled => new.status = "partially_paid"
    BY <2>5 DEF Unsettled
  <2> QED BY <2>2, <2>4, <2>6, <2>7, <2>8 DEF Balanced
<1>15. copy.status # "paid"
  BY <1>1 DEF Unsettled
<1>16. PICK j \in JobValues : JobSound(j) /\ job' = [job EXCEPT ![w] = j]
  BY <1>2, Ended DEF Finish
<1>17. /\ statement' \in Bills /\ (statement = copy => statement' = new)
       /\ received' \in Nat
       /\ Balanced(copy, received) => Balanced(new, received')
  BY <1>2, <1>10, <1>12, <1>14
<1> QED BY <1>2, <1>15, <1>16, <1>17, Writes DEF copy

LEMMA OverdueStep ==
  ASSUME StatementInv, markOverdue
  PROVE  StatementKept
<1>1. /\ statement \in Bills /\ statement.status \in {"issued", "partially_paid"}
      /\ UNCHANGED <<job, stale, received>>
      /\ statement' = [statement EXCEPT !.status = "overdue"]
  BY DEF StatementInv, StatementTypeOK, markOverdue
<1>2. statement' \in Bills
  <2>1. "overdue" \in Statuses
    BY DEF Statuses
  <2> QED BY <1>1, <2>1 DEF Bills
<1>3. /\ statement'.status = "overdue" /\ statement'.payments = statement.payments
      /\ statement'.amountPaid = statement.amountPaid /\ statement'.due = statement.due
      /\ statement'.balance = statement.balance
  BY <1>1 DEF Bills
<1>4. Balanced(statement, received) => Balanced(statement', received)
  BY <1>1, <1>3 DEF Balanced, Unsettled
<1>5. StatementTypeOK' /\ Books'
  BY <1>1, <1>2, <1>4 DEF StatementInv, StatementTypeOK, Books, Balanced
<1>6. JobInv'
  BY <1>1 DEF StatementInv, JobInv, JobSound
<1>7. PaidKept
  BY <1>1 DEF PaidKept
<1> QED BY <1>5, <1>6, <1>7 DEF StatementKept, StatementInv

(* ------------------------------ Every step ------------------------------- *)

LEMMA StatementSteps ==
  ASSUME LedgerTypeOK, StatementInv, [Next]_vars
  PROVE  StatementKept
<1>1. CASE StatementStarts
  <2>1. PICK w \in Operators :
          \/ \E does \in {"run", "generate"}, force \in BOOLEAN : GenerateRead(w, does, force)
          \/ IssueRead(w) \/ WaiveRead(w) \/ VoidRead(w)
          \/ \E amount \in 1..(statement.balance + 1) : PayRead(w, amount)
    BY <1>1 DEF StatementStarts
  <2> QED BY <2>1, ReadSteps
<1>2. CASE StatementContinues
  <2>1. PICK w \in Operators :
          \/ GenerateRows(w) \/ GenerateSave(w) \/ RunIssues(w) \/ IssueSave(w)
          \/ PaySave(w) \/ WaiveSave(w) \/ VoidSave(w) \/ Abandon(w)
    BY <1>2 DEF StatementContinues
  <2>2. CASE RunIssues(w)
    <3>1. CASE statement.status = "draft"
      BY <2>2, <3>1, ReadSteps
    <3>2. CASE statement.status # "draft"
      BY <2>2, <3>2, EndSteps DEF RunIssues
    <3> QED BY <3>1, <3>2
  <2>3. CASE Abandon(w)
    BY <2>3, EndSteps DEF Abandon
  <2> QED BY <2>1, <2>2, <2>3, GenerateRowsStep, GenerateSaveStep, IssueSaveStep, PaySaveStep,
             WaiveSaveStep, VoidSaveStep
<1>3. CASE markOverdue
  BY <1>3, OverdueStep
<1>4. CASE \E w \in Operators : Stamp(w) \/ Unstamp(w)
  BY <1>4, EndSteps DEF Stamp, Unstamp
<1>5. CASE UNCHANGED statementVars
  <2>1. UNCHANGED statement /\ UNCHANGED job /\ UNCHANGED stale /\ UNCHANGED received
    BY <1>5 DEF statementVars
  <2>2. StatementTypeOK' /\ JobInv'
    BY <2>1 DEF StatementInv, StatementTypeOK, JobInv, JobSound
  <2>3. Books' /\ PaidKept
    BY <2>1 DEF StatementInv, Books, Balanced, PaidKept
  <2> QED BY <2>2, <2>3 DEF StatementKept, StatementInv
<1> QED BY <1>1, <1>2, <1>3, <1>4, <1>5 DEF Next, Start, Continue, vars

LEMMA LedgerPart ==
  ASSUME LedgerTypeOK, [Next]_vars
  PROVE  LedgerStep
<1>1. CASE LedgerStarts(closed)
  <2>1. closed \in BOOLEAN
    BY DEF closed
  <2> QED BY <1>1, <2>1 DEF LedgerStep
<1>2. CASE LedgerContinues
  BY <1>2 DEF LedgerStep
<1>3. CASE /\ \E w \in Operators : Stamp(w) \/ Unstamp(w)
           /\ UNCHANGED <<order, delivery, refund, adjustment>>
  <2>1. PICK mark \in [Events -> BOOLEAN] :
          ledger' = [e \in Events |-> [ledger[e] EXCEPT !.stamped = mark[e]]]
    <3>1. CASE \E w \in Operators : Stamp(w)
      <4> DEFINE mark == [e \in Events |-> ledger[e].written]
      <4>1. mark \in [Events -> BOOLEAN]
        BY DEF LedgerTypeOK, RowValues
      <4>2. ledger' = [e \in Events |-> [ledger[e] EXCEPT !.stamped = mark[e]]]
        BY <3>1 DEF Stamp
      <4> QED BY <4>1, <4>2
    <3>2. CASE \E w \in Operators : Unstamp(w)
      <4> DEFINE mark == [e \in Events |-> FALSE]
      <4>1. mark \in [Events -> BOOLEAN]
        OBVIOUS
      <4>2. ledger' = [e \in Events |-> [ledger[e] EXCEPT !.stamped = mark[e]]]
        BY <3>2 DEF Unstamp
      <4> QED BY <4>1, <4>2
    <3> QED BY <1>3, <3>1, <3>2
  <2>2. ASSUME NEW e \in Events
        PROVE  /\ ledger'[e] \in RowValues
               /\ ledger'[e].fee = ledger[e].fee /\ ledger'[e].basis = ledger[e].basis
               /\ ledger'[e].written = ledger[e].written
    <3>1. ledger[e] \in RowValues
      BY DEF LedgerTypeOK
    <3>2. ledger'[e] = [ledger[e] EXCEPT !.stamped = mark[e]] /\ mark[e] \in BOOLEAN
      BY <2>1
    <3> QED BY <3>1, <3>2 DEF RowValues
  <2>3. ledger' \in [Events -> RowValues]
    BY <2>1, <2>2
  <2> QED BY <1>3, <2>2, <2>3 DEF LedgerStep, Restamped
<1>4. CASE UNCHANGED ledgerVars
  BY <1>4 DEF LedgerStep
<1> QED BY <1>1, <1>2, <1>3, <1>4 DEF Next, Start, Continue, vars

Inv == LedgerTypeOK /\ LedgerInv /\ StatementInv /\ requests \in 0..MaxRequests

LEMMA Started == Init => Inv
<1> SUFFICES ASSUME Init PROVE Inv
  OBVIOUS
<1>1. LedgerTypeOK /\ LedgerInv
  BY LedgerStarted DEF Init
<1>2. NoStatement \in Bills
  BY DEF NoStatement, Bills, Statuses
<1>3. Free \in JobValues /\ Free.phase = "idle"
  BY <1>2 DEF Free, JobValues, Operations, Phases
<1>4. /\ statement = NoStatement /\ stale = FALSE /\ received = 0
      /\ job = [w \in Operators |-> Free]
  BY DEF Init, StatementInit
<1>5. StatementTypeOK
  BY <1>2, <1>3, <1>4 DEF StatementTypeOK
<1>6. JobInv
  BY <1>3, <1>4 DEF JobInv, JobSound
<1>7. Books
  BY <1>4 DEF Books, Balanced, NoStatement, Unsettled
<1>8. requests \in 0..MaxRequests
  BY MaxRequestsAssumption DEF Init
<1> QED BY <1>1, <1>5, <1>6, <1>7, <1>8 DEF Inv, StatementInv

LEMMA Kept ==
  ASSUME Inv, [Next]_vars
  PROVE  Inv' /\ LedgerKept /\ StatementKept
<1>1. LedgerKept
  BY LedgerPart, LedgerSteps DEF Inv
<1>2. StatementKept
  BY StatementSteps DEF Inv
<1>3. requests' \in 0..MaxRequests
  BY MaxRequestsAssumption DEF Inv, Next, Start, Continue, vars
<1> QED BY <1>1, <1>2, <1>3 DEF Inv, LedgerKept, StatementKept

THEOREM Invariance == Spec => []Inv
<1>1. Inv /\ [Next]_vars => Inv'
  BY Kept
<1> QED BY <1>1, Started, PTL DEF Spec

(* Every amount of the ledger and of the statement stays in its range,      *)
(* whatever an operation's copy has become: no fee beyond the total, no     *)
(* debt below nothing, and what a request reads of the period's fees is at  *)
(* most one cap for each delivery.                                          *)
THEOREM TypeCorrect == Spec => []TypeOK
<1>1. Inv => TypeOK
  BY DEF Inv, StatementInv, StatementTypeOK, JobValues, TypeOK
<1> QED BY <1>1, Invariance, PTL

(* Until two operations overlap on the statement, its figures agree with    *)
(* each other and with the money operators recorded (recordPayment,         *)
(* generateStatement, issueStatement, waiveStatement, voidStatement).       *)
THEOREM BooksAgree == Spec => []BooksBalance
<1>1. Inv => BooksBalance
  BY DEF Inv, StatementInv, StatementTypeOK, Books, Balanced, BooksBalance
<1> QED BY <1>1, Invariance, PTL

(* A paid statement changes only by a save from a copy read before it was   *)
(* paid: no operation that reads it paid writes it.                         *)
THEOREM PaidStays == Spec => PaidIsFinal
<1>1. Inv /\ [Next]_vars =>
        [statement.status = "paid" => statement' = statement \/ stale']_vars
  BY Kept DEF StatementKept, PaidKept
<1> QED BY <1>1, Invariance, PTL DEF Spec, PaidIsFinal

(* What an order owes leaves the range from nothing to one commission only  *)
(* in reverseForRefund, when the reversals it read are not all of them.     *)
THEOREM OverReversalNeedsStaleRead == Spec => OverReversedOnlyByStaleRead
<1>1. Inv /\ [Next]_vars =>
        [\A o \in Orders : InFeeRange(o) =>
           \/ InFeeRange(o)'
           \/ \E r \in Refunds : refund[r].order = o /\ StaleReversal(r)]_ledgerVars
  BY Kept DEF LedgerKept, RangeKept
<1> QED BY <1>1, Invariance, PTL DEF Spec, OverReversedOnlyByStaleRead

(* The fees of a period pass the cap by a commission only if recognize-     *)
(* Delivered computed it from a sum of fees that has changed since.         *)
THEOREM CapNeedsStaleRead == Spec => CapExceededOnlyByStaleRead
<1>1. Inv /\ [Next]_vars =>
        [\A d \in Deliveries :
           /\ ~ledger[d].written /\ ledger'[d].written
           /\ ledger'[d].fee > 0
           /\ FeeSoFar' > PeriodCap
           => delivery[d].feeSoFar # FeeSoFar]_ledgerVars
  BY Kept DEF LedgerKept, CapKept
<1> QED BY <1>1, Invariance, PTL DEF Spec, CapExceededOnlyByStaleRead

=============================================================================
