----------------------------- MODULE PlanChanges -----------------------------
(***************************************************************************)
(* Changes of plan (services/platform/billing/planChanges.js), of the      *)
(* store of TenantLifecycle ("this") and of another one that stays         *)
(* ("other").  A change takes effect at once or at the next month; the     *)
(* period runs apply those that are due, one claim at a time.  The changes *)
(* of a store that has been deleted for good are kept.                     *)
(*                                                                         *)
(* A change is one request: the checks, the cancellation of those it       *)
(* replaces, its row, and, if immediate, the plan and the row again.       *)
(***************************************************************************)
EXTENDS TenantLifecycle

CONSTANTS
  Changes,      \* changes of plan requested, each once (bound)
  Runs,         \* period runs, each once (bound)
  MaxClaims,    \* claims a run makes at most (10000 in the code)
  MaxMonths,    \* ends of a month (bound)
  MaxStarts     \* operations of every kind started (bound)

ASSUME PlanBoundsAssumption == MaxClaims \in Nat /\ MaxMonths \in Nat /\ MaxStarts \in Nat
ASSUME FiniteRunsAssumption == IsFiniteSet(Runs)

VARIABLES
  month,      \* now
  change,     \* per change: its row, and how far the request that makes it is
  run,        \* per run: its phase, what it claimed, and what it can claim
  starts,     \* so far
  takenOver   \* history: changes whose claim passed from one run to another

planVars == <<month, change, run, takenOver>>
vars == <<tenantVars, planVars, starts>>

Stores == {"this", "other"}
exists(store) == store = "other" \/ tenant.exists

NoChange == [store |-> "other", requestedBy |-> "merchant", immediate |-> FALSE, at |-> 0,
             status |-> "none", claimedAt |-> {}, phase |-> "idle"]
NoRun == [phase |-> "idle", began |-> 0, claim |-> {}, due |-> {}, older |-> {}, claims |-> 0,
          tried |-> {}, left |-> {}]

(* Within a month an immediate change takes effect before its end.          *)
now == 2 * month + 1
nextPeriodStart == 2 * month + 2

PlanInit ==
  /\ month = 0
  /\ change = [c \in Changes |-> NoChange]
  /\ run = [r \in Runs |-> NoRun]
  /\ takenOver = {}

Scheduled(store) == {c \in Changes : change[c].status = "scheduled" /\ change[c].store = store}

cancelled(cs) == [c \in Changes |-> IF c \in cs THEN [change[c] EXCEPT !.status = "cancelled"]
                                                ELSE change[c]]

-----------------------------------------------------------------------------
(* schedulePlanChange: the checks.  Merchants schedule for the next month,  *)
(* and not while a change by an operator is scheduled.                      *)
SchedulePlanChange(c, store, by, immediate) ==
  /\ change[c].phase = "idle"
  /\ exists(store)
  /\ by = "merchant" => /\ ~immediate
                        /\ \A d \in Scheduled(store) : change[d].requestedBy # "operator"
  /\ change' = [change EXCEPT ![c] = [NoChange EXCEPT !.store = store, !.requestedBy = by,
                                       !.immediate = immediate, !.phase = "checked",
                                       !.at = IF immediate THEN now ELSE nextPeriodStart]]
  /\ UNCHANGED <<month, run, takenOver>>

Supersede(c) ==
  /\ change[c].phase = "checked"
  /\ change' = [cancelled(Scheduled(change[c].store)) EXCEPT ![c].phase = "superseded"]
  /\ UNCHANGED <<month, run, takenOver>>

Create(c) ==
  /\ change[c].phase = "superseded"
  /\ change' = [change EXCEPT ![c].status = "scheduled",
                              ![c].phase = IF change[c].immediate THEN "created" ELSE "done"]
  /\ UNCHANGED <<month, run, takenOver>>

(* applyPlanToTenant throws when the row is gone.                           *)
ApplyAtOnce(c) ==
  /\ change[c].phase = "created"
  /\ change' = [change EXCEPT ![c].phase = IF exists(change[c].store) THEN "applied" ELSE "done"]
  /\ UNCHANGED <<month, run, takenOver>>

SaveAtOnce(c) ==
  /\ change[c].phase = "applied"
  /\ change' = [change EXCEPT ![c].status = "applied", ![c].phase = "done"]
  /\ UNCHANGED <<month, run, takenOver>>

(* A call of the request fails, or the server stops.                        *)
GiveUp(c) ==
  /\ change[c].phase \notin {"idle", "done"}
  /\ failures < MaxFailures
  /\ failures' = failures + 1
  /\ change' = [change EXCEPT ![c].phase = "done"]
  /\ UNCHANGED <<month, run, takenOver, tenant, data, request, erasing>>

(* cancelScheduledChange, and a merchant's own change.                      *)
CancelScheduled(store) ==
  /\ exists(store) /\ Scheduled(store) # {}
  /\ change' = cancelled(Scheduled(store))
  /\ UNCHANGED <<month, run, takenOver>>

CancelOwn(c) ==
  /\ c \in Scheduled(change[c].store) /\ exists(change[c].store)
  /\ change[c].requestedBy = "merchant"
  /\ change' = cancelled({c})
  /\ UNCHANGED <<month, run, takenOver>>

-----------------------------------------------------------------------------
(* applyDueChanges.  Its clock is read once: what becomes due after the     *)
(* start is not for this run.  A claim carries the start of the run that    *)
(* made it (claimedAt: now), and counts as leaked for the runs that began   *)
(* more than fifteen minutes after that, however fresh it is.               *)
Begun == {r \in Runs : run[r].phase # "idle"}

StartRun(r) ==
  /\ run[r].phase = "idle"
  /\ \E n \in 0..Cardinality(Begun) :
       run' = [run EXCEPT ![r] =
         [NoRun EXCEPT !.phase = "looping",
            !.began = Cardinality(Begun),
            !.due = {c \in Changes : change[c].phase # "idle" /\ change[c].at <= now},
            !.older = {s \in Begun : run[s].began < n}]]
  /\ UNCHANGED <<month, change, takenOver>>

\* DEVIATION: a claim may be taken over at any age.
claimable_AnyClaim(r, c) == change[c].status \in {"scheduled", "applying"} /\ c \in run[r].due

claimable(r, c) ==
  \/ change[c].status = "scheduled" /\ c \in run[r].due
  \/ change[c].status = "applying" /\ change[c].claimedAt \subseteq run[r].older

Claimable(r) == {c \in Changes : claimable(r, c)}

\* DEVIATION: no limit on the claims of a run.
Claim_Forever(r) ==
  /\ run[r].phase = "looping"
  /\ \E c \in Claimable(r) :
       /\ \A d \in Claimable(r) : change[c].at <= change[d].at
       /\ run' = [run EXCEPT ![r].phase = "claimed", ![r].claim = {c}, ![r].claims = @ + 1,
                             ![r].tried = @ \cup {c}]
       /\ change' = [change EXCEPT ![c].status = "applying", ![c].claimedAt = {r}]
       /\ takenOver' = IF change[c].status = "applying" /\ change[c].claimedAt \subseteq run[r].older
                       THEN takenOver \cup {c} ELSE takenOver
  /\ UNCHANGED month

(* findOneAndUpdate, earliest first: the claim is one atomic write.         *)
Claim(r) ==
  /\ run[r].phase = "looping"
  /\ run[r].claims < MaxClaims
  /\ \E c \in Claimable(r) :
       /\ \A d \in Claimable(r) : change[c].at <= change[d].at
       /\ run' = [run EXCEPT ![r].phase = "claimed", ![r].claim = {c}, ![r].claims = @ + 1,
                             ![r].tried = @ \cup {c}]
       /\ change' = [change EXCEPT ![c].status = "applying", ![c].claimedAt = {r}]
       /\ takenOver' = IF change[c].status = "applying" /\ change[c].claimedAt \subseteq run[r].older
                       THEN takenOver \cup {c} ELSE takenOver
  /\ UNCHANGED month

EndRun(r) ==
  /\ run[r].phase = "looping"
  /\ Claimable(r) = {} \/ run[r].claims = MaxClaims
  /\ run' = [run EXCEPT ![r] = [NoRun EXCEPT !.phase = "done", !.began = run[r].began,
                                             !.left = Claimable(r) \ run[r].tried]]
  /\ UNCHANGED <<month, change, takenOver>>

Release(r) == run' = [run EXCEPT ![r].phase = "looping", ![r].claim = {}]

(* The plan is applied to the store, or there is no such store any more.    *)
Apply(r) ==
  \E c \in run[r].claim :
    /\ run[r].phase = "claimed"
    /\ run' = [run EXCEPT ![r].phase = IF exists(change[c].store) THEN "applied" ELSE "failed"]
    /\ UNCHANGED <<month, change, takenOver>>

SaveApplied(r) ==
  \E c \in run[r].claim :
    /\ run[r].phase = "applied"
    /\ change' = [change EXCEPT ![c].status = "applied"]
    /\ Release(r)
    /\ UNCHANGED <<month, takenOver>>

(* The plan has been removed from the catalogue since.                      *)
CancelMissing(r) ==
  \E c \in run[r].claim :
    /\ run[r].phase = "claimed"
    /\ change' = cancelled({c})
    /\ Release(r)
    /\ UNCHANGED <<month, takenOver>>

(* The catch: the claim is given up and the loop goes on.                   *)
ReleaseFailed(r) ==
  \E c \in run[r].claim :
    /\ run[r].phase = "failed"
    /\ change' = IF change[c].status = "applying"
                 THEN [change EXCEPT ![c].status = "scheduled", ![c].claimedAt = {}] ELSE change
    /\ Release(r)
    /\ UNCHANGED <<month, takenOver>>

(* The database refuses the plan or the save.                               *)
FailCall(r) ==
  /\ run[r].phase \in {"claimed", "applied"}
  /\ failures < MaxFailures
  /\ failures' = failures + 1
  /\ run' = [run EXCEPT ![r].phase = "failed"]
  /\ UNCHANGED <<month, change, takenOver, tenant, data, request, erasing>>

(* The server stops: the claim stays.                                       *)
StopRun(r) ==
  /\ run[r].phase \notin {"idle", "done"}
  /\ failures < MaxFailures
  /\ failures' = failures + 1
  /\ run' = [run EXCEPT ![r] = [NoRun EXCEPT !.phase = "done", !.began = run[r].began]]
  /\ UNCHANGED <<month, change, takenOver, tenant, data, request, erasing>>

MonthEnds ==
  /\ month < MaxMonths
  /\ month' = month + 1
  /\ UNCHANGED <<change, run, takenOver>>

-----------------------------------------------------------------------------
PlanStarts ==
  \/ \E c \in Changes, store \in Stores, by \in {"merchant", "operator"}, immediate \in BOOLEAN :
       SchedulePlanChange(c, store, by, immediate)
  \/ \E r \in Runs : StartRun(r)

PlanContinues ==
  \/ \E c \in Changes : \/ Supersede(c) \/ Create(c) \/ ApplyAtOnce(c) \/ SaveAtOnce(c) \/ CancelOwn(c)
  \/ \E store \in Stores : CancelScheduled(store)
  \/ \E r \in Runs : \/ Claim(r) \/ EndRun(r) \/ Apply(r) \/ SaveApplied(r)
                     \/ CancelMissing(r) \/ ReleaseFailed(r)
  \/ MonthEnds

Init == TenantInit /\ PlanInit /\ starts = 0

Start(Op) ==
  /\ starts < MaxStarts
  /\ starts' = starts + 1
  /\ Op

Continue ==
  /\ UNCHANGED starts
  /\ \/ TenantContinues /\ UNCHANGED planVars
     \/ PlanContinues /\ UNCHANGED tenantVars
     \/ \E c \in Changes : GiveUp(c)
     \/ \E r \in Runs : FailCall(r) \/ StopRun(r)

Next ==
  \/ Start(TenantStarts /\ UNCHANGED planVars)
  \/ Start(PlanStarts /\ UNCHANGED tenantVars)
  \/ Continue

Spec == Init /\ [][Next]_vars

(* For the purge alone: the sweep's timer goes on firing, and what has      *)
(* started goes on unless it fails or stops.                                *)
TenantFairness ==
  \A q \in Requests : /\ WF_vars(Start(Sweep(q) /\ UNCHANGED planVars))
                      /\ WF_vars(RequestContinues(q) /\ UNCHANGED <<planVars, starts>>)

FairSpec == Spec /\ TenantFairness

-----------------------------------------------------------------------------
TypeOK ==
  /\ TenantTypeOK
  /\ month \in 0..MaxMonths
  /\ change \in [Changes -> [store : Stores, requestedBy : {"merchant", "operator"},
                             immediate : BOOLEAN, at : 0..2 * MaxMonths + 2, claimedAt : SUBSET Runs,
                             status : {"none", "scheduled", "applying", "applied", "cancelled"},
                             phase : {"idle", "checked", "superseded", "created", "applied", "done"}]]
  /\ run \in [Runs -> [phase : {"idle", "looping", "claimed", "applied", "failed", "done"},
                       began : 0..Cardinality(Runs), older : SUBSET Runs,
                       claim : SUBSET Changes, due : SUBSET Changes,
                       claims : 0..MaxClaims, tried : SUBSET Changes, left : SUBSET Changes]]
  /\ starts \in 0..MaxStarts
  /\ takenOver \subseteq Changes

(* planChanges.js: "Each change is claimed atomically ... so two concurrent *)
(* runs cannot apply the same change twice".  Two runs hold one change only *)
(* if one took over a claim of a run that began fifteen minutes before it.  *)
HeldByOneRun ==
  \A r, s \in Runs : r # s /\ run[r].claim \cap run[s].claim # {}
                       => run[r].claim \subseteq takenOver

(* planChanges.js: the run "loops until nothing is due", and releases a     *)
(* claim that failed "so the next run retries it".  A run that came to its  *)
(* end has tried every change that was due.                                 *)
EveryDueChangeTried == \A r \in Runs : run[r].left = {}

=============================================================================
