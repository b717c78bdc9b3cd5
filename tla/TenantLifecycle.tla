---------------------------- MODULE TenantLifecycle ----------------------------
(***************************************************************************)
(* The life of one store on the platform: suspension, scheduled deletion,  *)
(* the sweep that purges it after its grace period, its permanent deletion *)
(* and the completion of its setup (services/tenantLifecycle.js,           *)
(* services/tenantDeletion.js, services/storeSetup.js and                  *)
(* workers/processors/tenantLifecycle.js).                                 *)
(*                                                                         *)
(* The state lives twice on the tenant row: in lifecycle.state, and in the *)
(* older flags that the rest of the platform still reads.  A transition    *)
(* reads the row, checks the table, and writes both if the state is still  *)
(* what it read.                                                           *)
(***************************************************************************)
EXTENDS Integers, FiniteSets

CONSTANTS
  Collections,  \* the store's data, wiped one collection at a time
  Requests,     \* operators' requests, sweeps and setups in progress at one time (bound)
  MaxFailures   \* failed wipes and stops of the server (bound)

ASSUME MaxFailuresAssumption == MaxFailures \in Nat

VARIABLES
  tenant,    \* the Tenant row
  data,      \* the collections that still hold the store's documents
  request,   \* per request: the operation, its phase, the state it read, what is left to wipe
  failures,  \* so far
  erasing    \* history: has a permanent deletion begun?

tenantVars == <<tenant, data, request, failures, erasing>>

States == {"pending", "onboarding", "active", "suspended", "closed", "archived"}

LIFECYCLE_TRANSITIONS ==
  [pending    |-> {"onboarding", "active", "closed"},
   onboarding |-> {"active", "suspended", "closed"},
   active     |-> {"suspended", "closed"},
   suspended  |-> {"active", "closed"},
   closed     |-> {"active", "archived"},
   archived   |-> {}]

canTransition(from, to) == to \in LIFECYCLE_TRANSITIONS[from]

(* deletionScheduledAt: not set, in the future, or past. *)
Schedules == {"none", "waiting", "due"}

Rows == [exists : BOOLEAN, lifecycle : States \cup {"unset"},
         subscriptionStatus : {"active", "suspended", "cancelled"}, isActive : BOOLEAN,
         suspendedAt : BOOLEAN, deletionScheduledAt : Schedules, deletedAt : BOOLEAN,
         setupCompleted : BOOLEAN]

NewStore ==
  [exists |-> TRUE, lifecycle |-> "onboarding", subscriptionStatus |-> "active",
   isActive |-> TRUE, suspendedAt |-> FALSE, deletionScheduledAt |-> "none",
   deletedAt |-> FALSE, setupCompleted |-> FALSE]

(* Rows from before the lifecycle block: active, suspended, to be deleted.  *)
LegacyStores ==
  LET old == [NewStore EXCEPT !.lifecycle = "unset", !.setupCompleted = TRUE]
  IN {old,
      [old EXCEPT !.subscriptionStatus = "suspended", !.suspendedAt = TRUE],
      [old EXCEPT !.subscriptionStatus = "cancelled", !.isActive = FALSE,
                  !.deletionScheduledAt = "waiting"]}

deriveLifecycleState(t) ==
  CASE t.deletedAt -> "archived"
    [] ~t.deletedAt /\ t.deletionScheduledAt # "none" -> "closed"
    [] ~t.deletedAt /\ t.deletionScheduledAt = "none" ->
         IF t.subscriptionStatus = "suspended" \/ t.suspendedAt THEN "suspended"
         ELSE IF t.subscriptionStatus = "cancelled" \/ ~t.isActive THEN "closed"
         ELSE IF ~t.setupCompleted THEN "onboarding"
         ELSE "active"

currentLifecycleState(t) == IF t.lifecycle = "unset" THEN deriveLifecycleState(t) ELSE t.lifecycle

\* DEVIATION: reactivation leaves the schedule.
legacyFlagsFor_KeepSchedule(t, state) ==
  CASE state = "active" ->
         [t EXCEPT !.subscriptionStatus = "active", !.isActive = TRUE, !.suspendedAt = FALSE]
    [] state = "suspended" ->
         [t EXCEPT !.subscriptionStatus = "suspended", !.suspendedAt = TRUE]
    [] state = "closed" ->
         [t EXCEPT !.subscriptionStatus = "cancelled", !.isActive = FALSE,
                   !.suspendedAt = FALSE, !.deletionScheduledAt = "waiting"]
    [] state = "archived" ->
         [t EXCEPT !.subscriptionStatus = "cancelled", !.isActive = FALSE,
                   !.deletedAt = TRUE, !.deletionScheduledAt = "none"]

(* The flags a state implies, written together with it.  Closing is always  *)
(* by scheduleTenantDeletion, with a schedule.                              *)
legacyFlagsFor(t, state) ==
  CASE state = "active" ->
         [t EXCEPT !.subscriptionStatus = "active", !.isActive = TRUE,
                   !.suspendedAt = FALSE, !.deletionScheduledAt = "none"]
    [] state = "suspended" ->
         [t EXCEPT !.subscriptionStatus = "suspended", !.suspendedAt = TRUE]
    [] state = "closed" ->
         [t EXCEPT !.subscriptionStatus = "cancelled", !.isActive = FALSE,
                   !.suspendedAt = FALSE, !.deletionScheduledAt = "waiting"]
    [] state = "archived" ->
         [t EXCEPT !.subscriptionStatus = "cancelled", !.isActive = FALSE,
                   !.deletedAt = TRUE, !.deletionScheduledAt = "none"]

-----------------------------------------------------------------------------
Free == [does |-> "nothing", phase |-> "idle", read |-> "unset", left |-> {}, failed |-> FALSE]

TenantInit ==
  /\ tenant \in {NewStore} \cup LegacyStores
  /\ data = Collections
  /\ request = [q \in Requests |-> Free]
  /\ failures = 0
  /\ erasing = FALSE

Goto(q, phase) == request' = [request EXCEPT ![q].phase = phase]
Finish(q) == request' = [request EXCEPT ![q] = Free]

(* loadForTransition: of the row that is read, the write needs only the     *)
(* state.                                                                   *)
Load(q, does, phase) ==
  request' = [request EXCEPT ![q].does = does, ![q].phase = phase, ![q].read = tenant.lifecycle]

\* DEVIATION: the write matches on the id alone.
stillAsRead_ById(read) == tenant.exists

(* The write matches on the state that was read.                            *)
stillAsRead(read) == tenant.exists /\ tenant.lifecycle = read

moved(to) == [legacyFlagsFor(tenant, to) EXCEPT !.lifecycle = to]

\* DEVIATION: a write that matched nothing counts as done.
transition_IgnoreConflict(q, to, next) ==
  /\ tenant' = IF stillAsRead(request[q].read) THEN moved(to) ELSE tenant
  /\ next

(* No match is a conflict: the request fails.                               *)
transition(q, to, next) ==
  IF stillAsRead(request[q].read)
  THEN tenant' = moved(to) /\ next
  ELSE UNCHANGED tenant /\ Finish(q)

(* Operators: what each operation asks of the row it loads, on top of the   *)
(* table, and where it leads.                                               *)
Target == [suspend |-> "suspended", unsuspend |-> "active", schedule |-> "closed", cancel |-> "active"]

guard(does, t) ==
  /\ does = "unsuspend" => currentLifecycleState(t) = "suspended"
  /\ does = "cancel" => currentLifecycleState(t) = "closed" /\ t.deletionScheduledAt # "none"

LoadForTransition(q, does) ==
  /\ request[q].phase = "idle"
  /\ tenant.exists
  /\ guard(does, tenant)
  /\ canTransition(currentLifecycleState(tenant), Target[does])
  /\ Load(q, does, "loaded")
  /\ UNCHANGED <<tenant, data, failures, erasing>>

Transition(q) ==
  /\ request[q].phase = "loaded"
  /\ request[q].does \in DOMAIN Target
  /\ transition(q, Target[request[q].does], Finish(q))
  /\ UNCHANGED <<data, failures, erasing>>

-----------------------------------------------------------------------------
(* The sweep selects stores past their grace period, and purges each.       *)

SweepSelects(t) ==
  /\ t.exists /\ t.deletionScheduledAt = "due" /\ ~t.deletedAt
  /\ t.lifecycle \in {"closed", "unset"}

Sweep(q) ==
  /\ request[q].phase = "idle"
  /\ SweepSelects(tenant)
  /\ request' = [request EXCEPT ![q].does = "purge", ![q].phase = "selected"]
  /\ UNCHANGED <<tenant, data, failures, erasing>>

(* purgeTenant, never forced by any caller: closed, and past its schedule.  *)
PurgeLoad(q) ==
  /\ request[q].phase = "selected"
  /\ IF /\ tenant.exists
        /\ canTransition(currentLifecycleState(tenant), "archived")
        /\ tenant.deletionScheduledAt = "due"
     THEN Load(q, "purge", "loaded")
     ELSE Finish(q)
  /\ UNCHANGED <<tenant, data, failures, erasing>>

ToWipe(q) == request' = [request EXCEPT ![q].phase = "wiping", ![q].left = Collections]

(* The tombstone is written before anything is wiped.                       *)
Purge(q) ==
  /\ request[q].phase = "loaded" /\ request[q].does = "purge"
  /\ transition(q, "archived", ToWipe(q))
  /\ UNCHANGED <<data, failures, erasing>>

(* hardDeleteTenant: whatever the state, without a transition.              *)
HardDelete(q) ==
  /\ request[q].phase = "idle"
  /\ tenant.exists
  /\ Load(q, "erase", "loaded")
  /\ UNCHANGED <<tenant, data, failures, erasing>>

MarkDeleted(q) ==
  /\ request[q].phase = "loaded" /\ request[q].does = "erase"
  /\ tenant' = IF tenant.exists THEN [tenant EXCEPT !.isActive = FALSE, !.deletedAt = TRUE] ELSE tenant
  /\ erasing' = TRUE
  /\ ToWipe(q)
  /\ UNCHANGED <<data, failures>>

(* wipeTenantScopedData: a collection that fails is recorded and passed over. *)
Wipe(q) ==
  \E c \in request[q].left :
    /\ request[q].phase = "wiping"
    /\ request' = [request EXCEPT ![q].left = @ \ {c}]
    /\ data' = data \ {c}
    /\ UNCHANGED <<tenant, failures, erasing>>

WipeFails(q) ==
  \E c \in request[q].left :
    /\ request[q].phase = "wiping"
    /\ failures < MaxFailures
    /\ failures' = failures + 1
    /\ request' = [request EXCEPT ![q].left = @ \ {c}, ![q].failed = TRUE]
    /\ UNCHANGED <<tenant, data, erasing>>

(* The row goes last, and only if nothing failed.                           *)
EndWipe(q) ==
  /\ request[q].phase = "wiping"
  /\ request[q].left = {}
  /\ tenant' = IF request[q].does = "erase" /\ ~request[q].failed
               THEN [tenant EXCEPT !.exists = FALSE] ELSE tenant
  /\ Finish(q)
  /\ UNCHANGED <<data, failures, erasing>>

-----------------------------------------------------------------------------
(* initializeStoreSetup, at registration or retried by an operator.         *)

SetupStart(q) ==
  /\ request[q].phase = "idle"
  /\ tenant.exists
  /\ tenant' = [tenant EXCEPT !.setupCompleted = FALSE]
  /\ request' = [request EXCEPT ![q].does = "setup", ![q].phase = "running"]
  /\ UNCHANGED <<data, failures, erasing>>

SetupCompletes(q) ==
  /\ request[q].phase = "running"
  /\ tenant' = [tenant EXCEPT !.setupCompleted = tenant.exists]
  /\ Goto(q, "completed")
  /\ UNCHANGED <<data, failures, erasing>>

(* The failure is written too, over what another run has completed.         *)
SetupFails(q) ==
  /\ request[q].phase = "running"
  /\ tenant' = [tenant EXCEPT !.setupCompleted = FALSE]
  /\ Finish(q)
  /\ UNCHANGED <<data, failures, erasing>>

(* The guard reads the row once ...                                         *)
SetupChecks(q) ==
  /\ request[q].phase = "completed"
  /\ IF tenant.exists /\ currentLifecycleState(tenant) \in {"pending", "onboarding"}
     THEN Goto(q, "activating") ELSE Finish(q)
  /\ UNCHANGED <<tenant, data, failures, erasing>>

(* ... and setLifecycleState reads it again.                                *)
SetupLoads(q) ==
  /\ request[q].phase = "activating"
  /\ IF tenant.exists /\ canTransition(currentLifecycleState(tenant), "active")
     THEN Load(q, "setup", "loaded") ELSE Finish(q)
  /\ UNCHANGED <<tenant, data, failures, erasing>>

SetupActivates(q) ==
  /\ request[q].phase = "loaded" /\ request[q].does = "setup"
  /\ transition(q, "active", Finish(q))
  /\ UNCHANGED <<data, failures, erasing>>

-----------------------------------------------------------------------------
GracePasses ==
  /\ tenant.deletionScheduledAt = "waiting"
  /\ tenant' = [tenant EXCEPT !.deletionScheduledAt = "due"]
  /\ UNCHANGED <<data, request, failures, erasing>>

(* The server stops, or a call outside the wipe fails: the request ends.    *)
Stop(q) ==
  /\ request[q].phase # "idle"
  /\ failures < MaxFailures
  /\ failures' = failures + 1
  /\ Finish(q)
  /\ UNCHANGED <<tenant, data, erasing>>

TenantStarts ==
  \E q \in Requests : \/ \E does \in DOMAIN Target : LoadForTransition(q, does)
                      \/ Sweep(q) \/ HardDelete(q) \/ SetupStart(q)

RequestContinues(q) ==
  \/ Transition(q) \/ PurgeLoad(q) \/ Purge(q) \/ MarkDeleted(q) \/ Wipe(q) \/ EndWipe(q)
  \/ SetupCompletes(q) \/ SetupFails(q) \/ SetupChecks(q) \/ SetupLoads(q) \/ SetupActivates(q)

TenantContinues ==
  \/ \E q \in Requests : RequestContinues(q) \/ WipeFails(q) \/ Stop(q)
  \/ GracePasses

-----------------------------------------------------------------------------
Phases == {"idle", "loaded", "selected", "wiping", "running", "completed", "activating"}
Operations == {"nothing", "suspend", "unsuspend", "schedule", "cancel", "purge", "erase", "setup"}

TenantTypeOK ==
  /\ tenant \in Rows
  /\ data \subseteq Collections
  /\ request \in [Requests -> [does : Operations, phase : Phases, read : States \cup {"unset"},
                               left : SUBSET Collections, failed : BOOLEAN]]
  /\ failures \in 0..MaxFailures
  /\ erasing \in BOOLEAN

(* The state of a store only moves along the table, two operators and the   *)
(* sweep at once notwithstanding.                                           *)
Graph == INSTANCE TenantStates
           WITH state <- IF tenant.exists THEN tenant.lifecycle ELSE "deleted"

FollowsTable == Graph!Spec

(* The older flags, which the gates and the sweep read, agree with the      *)
(* state (schemas/tenant.js: "kept in sync by services/tenantLifecycle.js"):*)
(* an active store is open and has no deletion scheduled, a suspended one   *)
(* is not about to be swept, a closed one is not open.  A permanent         *)
(* deletion overrides the flags alone.                                      *)
FlagsFollowState ==
  LET t == tenant IN
  /\ t.lifecycle = "active" =>
       /\ t.subscriptionStatus = "active" /\ ~t.suspendedAt /\ t.deletionScheduledAt = "none"
       /\ (t.isActive /\ ~t.deletedAt) \/ erasing
  /\ t.lifecycle = "suspended" =>
       t.subscriptionStatus = "suspended" /\ t.suspendedAt /\ t.deletionScheduledAt = "none"
  /\ t.lifecycle = "closed" => t.subscriptionStatus = "cancelled" /\ ~t.isActive
  /\ t.lifecycle = "archived" =>
       t.subscriptionStatus = "cancelled" /\ ~t.isActive /\ t.deletedAt

(* Data is missing only of a store that is archived, or being deleted for   *)
(* good: cancelling a deletion never brings back a store that the sweep has *)
(* wiped or will wipe.                                                      *)
WipedOnlyWhenGone == data # Collections => tenant.lifecycle = "archived" \/ erasing

(* tenantLifecycle.js: "if the wipe below partially fails the tombstone     *)
(* remains so a re-run (or the sweep) can finish it".                       *)
PurgeFinishes == (tenant.exists /\ tenant.lifecycle = "archived") ~> (data = {})

=============================================================================
