--------------------------- MODULE PlanChangesProofs ---------------------------
(***************************************************************************)
(* What TenantLifecycle and PlanChanges guarantee for any number of        *)
(* operators, collections, changes, runs and failures.                     *)
(***************************************************************************)
EXTENDS PlanChanges, FiniteSetTheorems, TLAPS

(* ------------------------------- The row --------------------------------- *)

Targets == {"active", "suspended", "closed", "archived"}
RowStates == States \cup {"unset"}

LEMMA MovedRow ==
  ASSUME tenant \in Rows, NEW to \in Targets
  PROVE  /\ moved(to) \in Rows
         /\ moved(to).lifecycle = to
         /\ moved(to).exists = tenant.exists
<1>1. legacyFlagsFor(tenant, to) \in Rows /\ legacyFlagsFor(tenant, to).exists = tenant.exists
  <2>1. CASE to = "active"
    BY <2>1 DEF legacyFlagsFor, Rows, Schedules
  <2>2. CASE to = "suspended"
    BY <2>2 DEF legacyFlagsFor, Rows, Schedules
  <2>3. CASE to = "closed"
    BY <2>3 DEF legacyFlagsFor, Rows, Schedules
  <2>4. CASE to = "archived"
    BY <2>4 DEF legacyFlagsFor, Rows, Schedules
  <2> QED BY <2>1, <2>2, <2>3, <2>4 DEF Targets
<1> QED BY <1>1 DEF moved, Targets, Rows, States

LEMMA MovedFlags ==
  ASSUME tenant \in Rows
  PROVE  /\ /\ moved("active").subscriptionStatus = "active" /\ moved("active").isActive
            /\ ~moved("active").suspendedAt /\ moved("active").deletionScheduledAt = "none"
            /\ moved("active").deletedAt = tenant.deletedAt
         /\ /\ moved("suspended").subscriptionStatus = "suspended" /\ moved("suspended").suspendedAt
            /\ moved("suspended").deletionScheduledAt = tenant.deletionScheduledAt
            /\ moved("suspended").deletedAt = tenant.deletedAt
         /\ /\ moved("closed").subscriptionStatus = "cancelled" /\ ~moved("closed").isActive
            /\ moved("closed").deletedAt = tenant.deletedAt
         /\ /\ moved("archived").subscriptionStatus = "cancelled" /\ ~moved("archived").isActive
            /\ moved("archived").deletedAt
BY DEF moved, legacyFlagsFor, Rows, Schedules

LEMMA Derived ==
  ASSUME NEW t \in Rows
  PROVE  /\ deriveLifecycleState(t) \in States
         /\ deriveLifecycleState(t) \in {"active", "onboarding"} => t.deletionScheduledAt = "none"
         /\ t.lifecycle \in RowStates
         /\ currentLifecycleState(t) \in States
BY DEF deriveLifecycleState, currentLifecycleState, Rows, States, RowStates, Schedules

LEMMA Table ==
  /\ DOMAIN LIFECYCLE_TRANSITIONS = States
  /\ "suspended" \in LIFECYCLE_TRANSITIONS["active"]
  /\ \A s \in States :
       /\ "archived" \in LIFECYCLE_TRANSITIONS[s] => s = "closed"
       /\ "suspended" \in LIFECYCLE_TRANSITIONS[s] => s \in {"active", "onboarding"}
       /\ LIFECYCLE_TRANSITIONS[s] \subseteq States
       /\ "pending" \notin LIFECYCLE_TRANSITIONS[s]
  /\ LIFECYCLE_TRANSITIONS["archived"] = {}
BY DEF LIFECYCLE_TRANSITIONS, States

RequestRecords ==
  [does : Operations, phase : Phases, read : States \cup {"unset"},
   left : SUBSET Collections, failed : BOOLEAN]

(* ------------------------- The store's invariant ------------------------- *)

(* Where a request that has loaded the row leads. *)
Leads == [suspend |-> "suspended", unsuspend |-> "active", schedule |-> "closed",
          cancel |-> "active", purge |-> "archived", setup |-> "active"]

(* A loaded request moves along the table from what it read; one that read a *)
(* row from before the lifecycle block, and is about to suspend it, finds no *)
(* deletion scheduled as long as nobody else has moved the row.              *)
LoadedInTable(q) ==
  request[q].phase = "loaded" /\ request[q].does \in DOMAIN Leads =>
    /\ request[q].read # "unset" =>
         Leads[request[q].does] \in LIFECYCLE_TRANSITIONS[request[q].read]
    /\ request[q].read = "unset" /\ request[q].does = "suspend" /\ tenant.lifecycle = "unset" =>
         tenant.deletionScheduledAt = "none"

Gone == tenant.lifecycle = "archived" \/ erasing

RequestInv == \A q \in Requests : LoadedInTable(q) /\ (request[q].phase = "wiping" => Gone)

RowInv ==
  /\ tenant.lifecycle # "pending"
  /\ tenant.deletedAt => Gone
  /\ tenant.lifecycle = "onboarding" => tenant.deletionScheduledAt = "none"

StoreInv ==
  TenantTypeOK /\ FlagsFollowState /\ WipedOnlyWhenGone /\ RowInv /\ RequestInv

LEMMA StoreInit == TenantInit => StoreInv
<1> SUFFICES ASSUME TenantInit PROVE StoreInv
  OBVIOUS
<1>1. /\ tenant \in Rows
      /\ tenant.lifecycle \in {"onboarding", "unset"}
      /\ tenant.lifecycle = "onboarding" => tenant.deletionScheduledAt = "none"
      /\ ~tenant.deletedAt
  <2>1. /\ NewStore \in Rows /\ NewStore.lifecycle = "onboarding"
        /\ NewStore.deletionScheduledAt = "none" /\ ~NewStore.deletedAt
    BY DEF NewStore, Rows, Schedules, States
  <2>2. CASE tenant = NewStore
    BY <2>1, <2>2
  <2>3. CASE tenant \in LegacyStores
    <3> DEFINE old == [NewStore EXCEPT !.lifecycle = "unset", !.setupCompleted = TRUE]
               Legacy(t) == t \in Rows /\ t.lifecycle = "unset" /\ ~t.deletedAt
    <3>1. Legacy(old)
      BY DEF NewStore, Rows, Schedules, States
    <3>2. Legacy([old EXCEPT !.subscriptionStatus = "suspended", !.suspendedAt = TRUE])
      BY DEF NewStore, Rows, Schedules, States
    <3>3. Legacy([old EXCEPT !.subscriptionStatus = "cancelled", !.isActive = FALSE,
                             !.deletionScheduledAt = "waiting"])
      BY DEF NewStore, Rows, Schedules, States
    <3> HIDE DEF Legacy
    <3>4. \A t \in LegacyStores : Legacy(t)
      BY <3>1, <3>2, <3>3 DEF LegacyStores
    <3>5. Legacy(tenant)
      BY <2>3, <3>4
    <3> USE DEF Legacy
    <3> QED BY <3>5
  <2> QED BY <2>2, <2>3 DEF TenantInit
<1>2. TenantTypeOK
  <2>1. Free \in RequestRecords
    BY DEF Free, RequestRecords, Phases, Operations
  <2>2. request \in [Requests -> RequestRecords]
    BY <2>1 DEF TenantInit
  <2>3. data \subseteq Collections /\ failures \in 0..MaxFailures /\ erasing \in BOOLEAN
    <3>1. failures = 0 /\ data = Collections /\ erasing = FALSE
      BY DEF TenantInit
    <3>2. failures \in 0..MaxFailures
      BY <3>1, MaxFailuresAssumption
    <3> QED BY <3>1, <3>2
  <2> QED BY <1>1, <2>2, <2>3 DEF TenantTypeOK, RequestRecords
<1>3. \A q \in Requests : request[q].phase = "idle"
  BY DEF TenantInit, Free
<1>4. RequestInv
  BY <1>3 DEF LoadedInTable, RequestInv
<1>5. FlagsFollowState /\ WipedOnlyWhenGone /\ RowInv
  BY <1>1 DEF TenantInit, FlagsFollowState, WipedOnlyWhenGone, RowInv
<1> QED BY <1>2, <1>4, <1>5 DEF StoreInv

(* What a transition that follows the table does to the row: it keeps every *)
(* part of the invariant, and nothing leaves "archived".                    *)
LEMMA TransitionKeeps ==
  ASSUME StoreInv, NEW q \in Requests, NEW next,
         request[q].phase = "loaded", request[q].does \in DOMAIN Leads,
         tenant' = moved(Leads[request[q].does]), stillAsRead(request[q].read),
         UNCHANGED <<data, erasing>>
  PROVE  /\ tenant' \in Rows
         /\ (FlagsFollowState /\ WipedOnlyWhenGone /\ RowInv)'
         /\ tenant'.lifecycle \in Targets
         /\ Gone => Gone'
<1> DEFINE to == Leads[request[q].does]
<1>1. to \in Targets /\ tenant \in Rows
  BY DEF Leads, Targets, StoreInv, TenantTypeOK
<1>2. tenant' \in Rows /\ tenant'.lifecycle = to
  BY <1>1, MovedRow
<1>3. tenant.lifecycle = request[q].read
  BY DEF stillAsRead
<1>4. tenant.lifecycle # "unset" => to \in LIFECYCLE_TRANSITIONS[tenant.lifecycle]
  BY <1>3 DEF StoreInv, RequestInv, LoadedInTable
<1>5. Gone => Gone'
  BY <1>4, Table DEF Gone
<1>6. to = "suspended" => tenant.deletionScheduledAt = "none"
  <2> SUFFICES ASSUME to = "suspended" PROVE tenant.deletionScheduledAt = "none"
    OBVIOUS
  <2>1. request[q].does = "suspend"
    BY DEF Leads
  <2>2. CASE tenant.lifecycle = "unset"
    BY <1>3, <2>1, <2>2 DEF StoreInv, RequestInv, LoadedInTable
  <2>3. CASE tenant.lifecycle # "unset"
    <3>1. tenant.lifecycle \in {"active", "onboarding"}
      BY <1>1, <1>4, <2>3, Table DEF Rows
    <3> QED BY <3>1 DEF StoreInv, FlagsFollowState, RowInv
  <2> QED BY <2>2, <2>3
<1>7. FlagsFollowState'
  <2>1. tenant.deletedAt => Gone
    BY DEF StoreInv, RowInv
  <2>2. to = "active" => ~tenant.deletedAt \/ erasing
    BY <1>4, <2>1, Table DEF Gone
  <2>3. CASE to = "active"
    BY <1>1, <1>2, <2>2, <2>3, MovedFlags DEF FlagsFollowState
  <2>4. CASE to = "suspended"
    BY <1>1, <1>2, <1>6, <2>4, MovedFlags DEF FlagsFollowState
  <2>5. CASE to = "closed"
    BY <1>1, <1>2, <2>5, MovedFlags DEF FlagsFollowState
  <2>6. CASE to = "archived"
    BY <1>1, <1>2, <2>6, MovedFlags DEF FlagsFollowState
  <2> QED BY <1>1, <2>3, <2>4, <2>5, <2>6 DEF Targets
<1>8. WipedOnlyWhenGone'
  BY <1>5 DEF StoreInv, WipedOnlyWhenGone, Gone
<1>9. RowInv'
  <2>1. tenant'.deletedAt => tenant.deletedAt \/ to = "archived"
    BY <1>1, MovedFlags DEF Targets
  <2>2. tenant.deletedAt => Gone
    BY DEF StoreInv, RowInv
  <2>3. to = "archived" => Gone'
    BY <1>2 DEF Gone
  <2> QED BY <1>1, <1>2, <1>5, <2>1, <2>2, <2>3 DEF RowInv, Targets
<1> QED BY <1>1, <1>2, <1>5, <1>7, <1>8, <1>9

(* A step of one request, or of none, that leaves the others alone.         *)
LEMMA OthersKept ==
  ASSUME StoreInv, NEW q, NEW r \in RequestRecords,
         request' = [request EXCEPT ![q] = r],
         tenant' \in Rows, data' \subseteq Collections, failures' \in 0..MaxFailures, erasing' \in BOOLEAN,
         FlagsFollowState', WipedOnlyWhenGone', RowInv', Gone => Gone',
         tenant'.lifecycle = "unset" =>
           /\ tenant.lifecycle = "unset"
           /\ tenant.deletionScheduledAt = "none" => tenant'.deletionScheduledAt = "none",
         q \in Requests => LoadedInTable(q)' /\ (r.phase = "wiping" => Gone')
  PROVE  StoreInv'
<1>1. request \in [Requests -> RequestRecords]
  BY DEF StoreInv, TenantTypeOK, RequestRecords
<1>2. request' \in [Requests -> RequestRecords]
  BY <1>1
<1>3. TenantTypeOK'
  BY <1>2 DEF TenantTypeOK, RequestRecords
<1>4. ASSUME NEW p \in Requests PROVE LoadedInTable(p)' /\ (request'[p].phase = "wiping" => Gone')
  <2>1. CASE p = q
    BY <1>1, <2>1
  <2>2. CASE p # q
    <3>1. request'[p] = request[p]
      BY <1>1, <2>2
    <3>2. LoadedInTable(p) /\ (request[p].phase = "wiping" => Gone)
      BY DEF StoreInv, RequestInv
    <3> QED BY <3>1, <3>2 DEF LoadedInTable
  <2> QED BY <2>1, <2>2
<1> QED BY <1>3, <1>4 DEF StoreInv, RequestInv

LEMMA RequestTypes ==
  ASSUME StoreInv, NEW q \in Requests, NEW phase \in Phases, NEW does \in Operations
  PROVE  /\ request[q] \in RequestRecords /\ Free \in RequestRecords
         /\ [request[q] EXCEPT !.phase = phase] \in RequestRecords
         /\ [request[q] EXCEPT !.does = does, !.phase = phase] \in RequestRecords
         /\ [request[q] EXCEPT !.does = does, !.phase = phase, !.read = tenant.lifecycle]
              \in RequestRecords
         /\ [request[q] EXCEPT !.phase = phase, !.left = Collections] \in RequestRecords
<1>1. request[q] \in RequestRecords /\ tenant.lifecycle \in States \cup {"unset"}
  BY DEF StoreInv, TenantTypeOK, RequestRecords, Rows
<1>2. Free \in RequestRecords
  BY DEF Free, RequestRecords, Phases, Operations
<1> QED BY <1>1, <1>2 DEF RequestRecords

(* A step that changes a request but not the row, the data or the history.  *)
LEMMA RowUnchanged ==
  ASSUME StoreInv, NEW q \in Requests, NEW r \in RequestRecords,
         request' = [request EXCEPT ![q] = r],
         UNCHANGED <<tenant, data, erasing>>, failures' \in 0..MaxFailures,
         LoadedInTable(q)', r.phase = "wiping" => Gone
  PROVE  StoreInv'
<1>1. Gone' = Gone
  BY DEF Gone
<1>2. FlagsFollowState' /\ WipedOnlyWhenGone' /\ RowInv'
  BY <1>1 DEF StoreInv, FlagsFollowState, WipedOnlyWhenGone, RowInv
<1>3. tenant' \in Rows /\ data' \subseteq Collections /\ erasing' \in BOOLEAN
  BY DEF StoreInv, TenantTypeOK
<1> QED BY <1>1, <1>2, <1>3, OthersKept

LEMMA NotLoaded ==
  ASSUME StoreInv, NEW q \in Requests, NEW r \in RequestRecords, r.phase # "loaded",
         request' = [request EXCEPT ![q] = r]
  PROVE  LoadedInTable(q)'
BY DEF LoadedInTable, StoreInv, TenantTypeOK

LEMMA FinishKeeps ==
  ASSUME StoreInv, NEW q \in Requests, Finish(q), UNCHANGED <<tenant, data, erasing>>,
         failures' \in 0..MaxFailures
  PROVE  StoreInv'
<1>1. request' = [request EXCEPT ![q] = Free] /\ Free \in RequestRecords /\ Free.phase = "idle"
  BY DEF Finish, Free, RequestRecords, Phases, Operations
<1>2. LoadedInTable(q)'
  BY <1>1, NotLoaded
<1> QED BY <1>1, <1>2, RowUnchanged

(* Whatever ends in a transition: it moves the row or ends the request.     *)
LEMMA TransitionStep ==
  ASSUME StoreInv, NEW q \in Requests, NEW next, NEW r \in RequestRecords,
         request[q].phase = "loaded", request[q].does \in DOMAIN Leads,
         transition(q, Leads[request[q].does], next),
         next => request' = [request EXCEPT ![q] = r], r.phase # "loaded",
         r.phase = "wiping" => request[q].does = "purge",
         UNCHANGED <<data, failures, erasing>>
  PROVE  StoreInv'
<1>0. failures' \in 0..MaxFailures /\ data' \subseteq Collections /\ erasing' \in BOOLEAN
  BY DEF StoreInv, TenantTypeOK
<1>1. CASE ~stillAsRead(request[q].read)
  <2>1. tenant' = tenant /\ Finish(q)
    BY <1>1 DEF transition
  <2> QED BY <1>0, <2>1, FinishKeeps
<1>2. CASE stillAsRead(request[q].read)
  <2>1. tenant' = moved(Leads[request[q].does]) /\ request' = [request EXCEPT ![q] = r]
    BY <1>2 DEF transition
  <2>2. /\ tenant' \in Rows /\ (FlagsFollowState /\ WipedOnlyWhenGone /\ RowInv)'
        /\ tenant'.lifecycle \in Targets /\ (Gone => Gone')
    BY <1>2, <2>1, TransitionKeeps
  <2>3. LoadedInTable(q)'
    BY <2>1, NotLoaded
  <2>4. r.phase = "wiping" => Gone'
    <3>1. tenant \in Rows
      BY DEF StoreInv, TenantTypeOK
    <3>2. request[q].does = "purge" => tenant'.lifecycle = "archived"
      BY <2>1, <3>1, MovedRow DEF Leads, Targets
    <3> QED BY <3>2 DEF Gone
  <2>5. tenant'.lifecycle # "unset"
    BY <2>2 DEF Targets
  <2> QED BY <1>0, <2>1, <2>2, <2>3, <2>4, <2>5, OthersKept
<1> QED BY <1>1, <1>2

LEMMA LoadStep ==
  ASSUME StoreInv, NEW q \in Requests, NEW does \in Operations, Load(q, does, "loaded"),
         does \in DOMAIN Leads => canTransition(currentLifecycleState(tenant), Leads[does]),
         UNCHANGED <<tenant, data, failures, erasing>>
  PROVE  StoreInv'
<1> DEFINE r == [request[q] EXCEPT !.does = does, !.phase = "loaded", !.read = tenant.lifecycle]
<1>1. request \in [Requests -> RequestRecords] /\ tenant \in Rows /\ failures' \in 0..MaxFailures
  BY DEF StoreInv, TenantTypeOK, RequestRecords
<1>2. r \in RequestRecords /\ "loaded" \in Phases
  BY RequestTypes DEF Phases
<1>3. request' = [request EXCEPT ![q] = r]
  BY <1>1 DEF Load, RequestRecords
<1>4. r.phase = "loaded" /\ r.does = does /\ r.read = tenant.lifecycle
  BY <1>1 DEF RequestRecords
<1>5. LoadedInTable(q)'
  <2> SUFFICES ASSUME does \in DOMAIN Leads
               PROVE  /\ tenant.lifecycle # "unset" =>
                           Leads[does] \in LIFECYCLE_TRANSITIONS[tenant.lifecycle]
                      /\ tenant.lifecycle = "unset" /\ does = "suspend" =>
                           tenant.deletionScheduledAt = "none"
    BY <1>1, <1>3, <1>4 DEF LoadedInTable
  <2>1. Leads[does] \in LIFECYCLE_TRANSITIONS[currentLifecycleState(tenant)]
    BY DEF canTransition
  <2>2. CASE tenant.lifecycle # "unset"
    BY <2>1, <2>2 DEF currentLifecycleState
  <2>3. CASE tenant.lifecycle = "unset" /\ does = "suspend"
    <3>1. deriveLifecycleState(tenant) \in {"active", "onboarding"}
      BY <1>1, <2>1, <2>3, Derived, Table DEF currentLifecycleState, Leads
    <3> QED BY <1>1, <2>3, <3>1, Derived
  <2> QED BY <2>2, <2>3
<1> QED BY <1>1, <1>2, <1>3, <1>4, <1>5, RowUnchanged

(* A request that goes on without loading and without touching the row.     *)
LEMMA PhaseStep ==
  ASSUME StoreInv, NEW q \in Requests, NEW r \in RequestRecords, r.phase \notin {"loaded", "wiping"},
         request' = [request EXCEPT ![q] = r],
         UNCHANGED <<tenant, data, erasing>>, failures' \in 0..MaxFailures
  PROVE  StoreInv'
BY NotLoaded, RowUnchanged

LEMMA OperatorSteps ==
  ASSUME StoreInv, NEW q \in Requests,
         \/ \E does \in DOMAIN Target : LoadForTransition(q, does)
         \/ Transition(q) \/ PurgeLoad(q) \/ Purge(q) \/ HardDelete(q)
         \/ SetupLoads(q) \/ SetupActivates(q)
  PROVE  StoreInv'
<1>0. failures \in 0..MaxFailures
  BY DEF StoreInv, TenantTypeOK
<1>1. ASSUME NEW does \in DOMAIN Target, LoadForTransition(q, does) PROVE StoreInv'
  <2>1. does \in DOMAIN Leads /\ does \in Operations /\ Leads[does] = Target[does]
    BY DEF Target, Leads, Operations
  <2> QED BY <1>1, <2>1, LoadStep DEF LoadForTransition
<1>2. CASE Transition(q)
  <2>1. request[q].does \in DOMAIN Leads /\ Leads[request[q].does] = Target[request[q].does]
    BY <1>2 DEF Transition, Target, Leads
  <2>2. Free \in RequestRecords /\ Free.phase = "idle"
    BY DEF Free, RequestRecords, Phases, Operations
  <2>3. Finish(q) => request' = [request EXCEPT ![q] = Free]
    BY DEF Finish
  <2> QED BY <1>2, <2>1, <2>2, <2>3, TransitionStep DEF Transition
<1>3. CASE PurgeLoad(q)
  <2>1. CASE Finish(q)
    BY <1>0, <1>3, <2>1, FinishKeeps DEF PurgeLoad
  <2>2. CASE ~Finish(q)
    <3>1. Load(q, "purge", "loaded") /\ canTransition(currentLifecycleState(tenant), "archived")
      BY <1>3, <2>2 DEF PurgeLoad
    <3>2. Leads["purge"] = "archived" /\ "purge" \in Operations
      BY DEF Leads, Operations
    <3> QED BY <1>3, <3>1, <3>2, LoadStep DEF PurgeLoad
  <2> QED BY <2>1, <2>2
<1>4. CASE Purge(q)
  <2> DEFINE r == [request[q] EXCEPT !.phase = "wiping", !.left = Collections]
  <2>1. request[q].does \in DOMAIN Leads /\ Leads[request[q].does] = "archived"
    BY <1>4 DEF Purge, Leads
  <2>2. "wiping" \in Phases /\ "nothing" \in Operations
    BY DEF Phases, Operations
  <2>3. r \in RequestRecords /\ r.phase = "wiping"
    BY <2>2, RequestTypes DEF RequestRecords
  <2>4. ToWipe(q) => request' = [request EXCEPT ![q] = r]
    BY DEF ToWipe, StoreInv, TenantTypeOK
  <2> HIDE DEF r
  <2> QED BY <1>4, <2>1, <2>3, <2>4, TransitionStep DEF Purge
<1>5. CASE HardDelete(q)
  <2>1. "erase" \in Operations /\ "erase" \notin DOMAIN Leads
    BY DEF Operations, Leads
  <2> QED BY <1>5, <2>1, LoadStep DEF HardDelete
<1>6. CASE SetupLoads(q)
  <2>1. CASE Finish(q)
    BY <1>0, <1>6, <2>1, FinishKeeps DEF SetupLoads
  <2>2. CASE ~Finish(q)
    <3>1. Load(q, "setup", "loaded") /\ canTransition(currentLifecycleState(tenant), "active")
      BY <1>6, <2>2 DEF SetupLoads
    <3>2. Leads["setup"] = "active" /\ "setup" \in Operations
      BY DEF Leads, Operations
    <3> QED BY <1>6, <3>1, <3>2, LoadStep DEF SetupLoads
  <2> QED BY <2>1, <2>2
<1>7. CASE SetupActivates(q)
  <2>1. request[q].does \in DOMAIN Leads /\ Leads[request[q].does] = "active"
    BY <1>7 DEF SetupActivates, Leads
  <2>2. Free \in RequestRecords /\ Free.phase = "idle"
    BY DEF Free, RequestRecords, Phases, Operations
  <2>3. Finish(q) => request' = [request EXCEPT ![q] = Free]
    BY DEF Finish
  <2> QED BY <1>7, <2>1, <2>2, <2>3, TransitionStep DEF SetupActivates
<1> QED BY <1>1, <1>2, <1>3, <1>4, <1>5, <1>6, <1>7

LEMMA SetupSteps ==
  ASSUME StoreInv, NEW q \in Requests,
         SetupStart(q) \/ SetupCompletes(q) \/ SetupFails(q) \/ SetupChecks(q) \/ Sweep(q)
  PROVE  StoreInv'
<1>0. /\ failures \in 0..MaxFailures /\ request \in [Requests -> RequestRecords] /\ tenant \in Rows
      /\ data \subseteq Collections /\ erasing \in BOOLEAN
  BY DEF StoreInv, TenantTypeOK, RequestRecords
<1>1. ASSUME NEW completed \in BOOLEAN, NEW r \in RequestRecords, r.phase \notin {"loaded", "wiping"},
             tenant' = [tenant EXCEPT !.setupCompleted = completed],
             request' = [request EXCEPT ![q] = r], UNCHANGED <<data, failures, erasing>>
      PROVE  StoreInv'
  <2>1. /\ tenant' \in Rows /\ tenant'.lifecycle = tenant.lifecycle
        /\ tenant'.deletionScheduledAt = tenant.deletionScheduledAt
        /\ tenant'.deletedAt = tenant.deletedAt /\ tenant'.isActive = tenant.isActive
        /\ tenant'.suspendedAt = tenant.suspendedAt
        /\ tenant'.subscriptionStatus = tenant.subscriptionStatus
    BY <1>0, <1>1 DEF Rows
  <2>2. Gone' = Gone
    BY <1>1, <2>1 DEF Gone
  <2>3. RowInv' /\ WipedOnlyWhenGone'
    BY <1>1, <2>1, <2>2 DEF StoreInv, RowInv, WipedOnlyWhenGone
  <2>4. FlagsFollowState'
    BY <1>1, <2>1 DEF StoreInv, FlagsFollowState
  <2>5. LoadedInTable(q)'
    BY <1>1, NotLoaded
  <2> QED BY <1>0, <1>1, <2>1, <2>2, <2>3, <2>4, <2>5, OthersKept
<1>2. CASE SetupStart(q)
  <2>1. [request[q] EXCEPT !.does = "setup", !.phase = "running"] \in RequestRecords
    BY <1>0 DEF RequestRecords, Phases, Operations
  <2>2. request' = [request EXCEPT ![q] = [request[q] EXCEPT !.does = "setup", !.phase = "running"]]
    BY <1>0, <1>2 DEF SetupStart, RequestRecords
  <2>3. [request[q] EXCEPT !.does = "setup", !.phase = "running"].phase = "running"
    BY <1>0 DEF RequestRecords
  <2> QED BY <1>1, <1>2, <2>1, <2>2, <2>3 DEF SetupStart
<1>3. CASE SetupCompletes(q)
  <2>1. [request[q] EXCEPT !.phase = "completed"] \in RequestRecords
    BY <1>0 DEF RequestRecords, Phases
  <2>2. request' = [request EXCEPT ![q] = [request[q] EXCEPT !.phase = "completed"]]
    BY <1>0, <1>3 DEF SetupCompletes, Goto, RequestRecords
  <2>3. [request[q] EXCEPT !.phase = "completed"].phase = "completed"
    BY <1>0 DEF RequestRecords
  <2>4. tenant.exists \in BOOLEAN
    BY <1>0 DEF Rows
  <2> QED BY <1>1, <1>3, <2>1, <2>2, <2>3, <2>4 DEF SetupCompletes
<1>4. CASE SetupFails(q)
  <2>1. Free \in RequestRecords /\ Free.phase = "idle"
    BY DEF Free, RequestRecords, Phases, Operations
  <2>2. request' = [request EXCEPT ![q] = Free]
    BY <1>4 DEF SetupFails, Finish
  <2> QED BY <1>1, <1>4, <2>1, <2>2 DEF SetupFails
<1>5. CASE SetupChecks(q)
  <2>1. CASE Finish(q)
    BY <1>0, <1>5, <2>1, FinishKeeps DEF SetupChecks
  <2>2. CASE Goto(q, "activating")
    <3>1. [request[q] EXCEPT !.phase = "activating"] \in RequestRecords
      BY <1>0 DEF RequestRecords, Phases
    <3>2. request' = [request EXCEPT ![q] = [request[q] EXCEPT !.phase = "activating"]]
      BY <1>0, <2>2 DEF Goto, RequestRecords
    <3>3. [request[q] EXCEPT !.phase = "activating"].phase = "activating"
      BY <1>0 DEF RequestRecords
    <3> QED BY <1>0, <1>5, <3>1, <3>2, <3>3, PhaseStep DEF SetupChecks
  <2> QED BY <1>5, <2>1, <2>2 DEF SetupChecks
<1>6. CASE Sweep(q)
  <2>1. [request[q] EXCEPT !.does = "purge", !.phase = "selected"] \in RequestRecords
    BY <1>0 DEF RequestRecords, Phases, Operations
  <2>2. request' = [request EXCEPT ![q] = [request[q] EXCEPT !.does = "purge", !.phase = "selected"]]
    BY <1>0, <1>6 DEF Sweep, RequestRecords
  <2>3. [request[q] EXCEPT !.does = "purge", !.phase = "selected"].phase = "selected"
    BY <1>0 DEF RequestRecords
  <2> QED BY <1>0, <1>6, <2>1, <2>2, <2>3, PhaseStep DEF Sweep
<1> QED BY <1>2, <1>3, <1>4, <1>5, <1>6

LEMMA WipeSteps ==
  ASSUME StoreInv, NEW q \in Requests,
         MarkDeleted(q) \/ Wipe(q) \/ WipeFails(q) \/ EndWipe(q)
  PROVE  StoreInv'
<1>0. /\ failures \in 0..MaxFailures /\ request \in [Requests -> RequestRecords] /\ tenant \in Rows
      /\ data \subseteq Collections /\ erasing \in BOOLEAN
  BY DEF StoreInv, TenantTypeOK, RequestRecords
<1>1. CASE MarkDeleted(q)
  <2> DEFINE r == [request[q] EXCEPT !.phase = "wiping", !.left = Collections]
  <2>1. r \in RequestRecords /\ r.phase = "wiping"
    BY <1>0 DEF RequestRecords, Phases
  <2>2. request' = [request EXCEPT ![q] = r]
    BY <1>0, <1>1 DEF MarkDeleted, ToWipe, RequestRecords
  <2>3. erasing' /\ Gone'
    BY <1>1 DEF MarkDeleted, Gone
  <2>4. /\ tenant' \in Rows /\ tenant'.lifecycle = tenant.lifecycle
        /\ tenant'.deletionScheduledAt = tenant.deletionScheduledAt
        /\ tenant'.suspendedAt = tenant.suspendedAt
        /\ tenant'.subscriptionStatus = tenant.subscriptionStatus
        /\ tenant'.isActive => tenant.isActive
        /\ tenant.deletedAt => tenant'.deletedAt
    BY <1>0, <1>1 DEF MarkDeleted, Rows
  <2>5. FlagsFollowState'
    BY <2>3, <2>4 DEF StoreInv, FlagsFollowState
  <2>6. WipedOnlyWhenGone' /\ RowInv'
    BY <2>3, <2>4 DEF StoreInv, RowInv, WipedOnlyWhenGone
  <2>7. LoadedInTable(q)'
    BY <2>1, <2>2, NotLoaded
  <2>8. data' = data /\ failures' = failures /\ erasing' \in BOOLEAN
    BY <1>1 DEF MarkDeleted
  <2> HIDE DEF r
  <2> QED BY <1>0, <2>1, <2>2, <2>3, <2>4, <2>5, <2>6, <2>7, <2>8, OthersKept
<1>2. CASE Wipe(q)
  <2>1. PICK c \in request[q].left : Wipe(q)!(c)
    BY <1>2 DEF Wipe
  <2> DEFINE r == [request[q] EXCEPT !.left = @ \ {c}]
  <2>2. r \in RequestRecords /\ r.phase = "wiping"
    BY <1>0, <2>1 DEF RequestRecords
  <2>3. request' = [request EXCEPT ![q] = r]
    BY <1>0, <2>1 DEF RequestRecords
  <2>4. Gone
    BY <2>1 DEF StoreInv, RequestInv
  <2>5. Gone' /\ WipedOnlyWhenGone'
    BY <2>1, <2>4 DEF Gone, WipedOnlyWhenGone
  <2>6. FlagsFollowState' /\ RowInv'
    BY <2>1, <2>5 DEF StoreInv, FlagsFollowState, RowInv
  <2>7. LoadedInTable(q)'
    BY <2>2, <2>3, NotLoaded
  <2>8. data' \subseteq Collections /\ UNCHANGED <<tenant, failures, erasing>>
    BY <1>0, <2>1
  <2> HIDE DEF r
  <2> QED BY <1>0, <2>2, <2>3, <2>5, <2>6, <2>7, <2>8, OthersKept
<1>3. CASE WipeFails(q)
  <2>1. PICK c \in request[q].left : WipeFails(q)!(c)
    BY <1>3 DEF WipeFails
  <2> DEFINE r == [request[q] EXCEPT !.left = @ \ {c}, !.failed = TRUE]
  <2>2. r \in RequestRecords /\ r.phase = "wiping"
    BY <1>0, <2>1 DEF RequestRecords
  <2>3. request' = [request EXCEPT ![q] = r]
    BY <1>0, <2>1 DEF RequestRecords
  <2>4. Gone
    BY <2>1 DEF StoreInv, RequestInv
  <2>5. LoadedInTable(q)'
    BY <2>2, <2>3, NotLoaded
  <2>6. failures' \in 0..MaxFailures /\ UNCHANGED <<tenant, data, erasing>>
    BY <1>0, <2>1, MaxFailuresAssumption
  <2> HIDE DEF r
  <2> QED BY <2>2, <2>3, <2>4, <2>5, <2>6, RowUnchanged
<1>4. CASE EndWipe(q)
  <2>1. request' = [request EXCEPT ![q] = Free] /\ Free \in RequestRecords /\ Free.phase = "idle"
    BY <1>4 DEF EndWipe, Finish, Free, RequestRecords, Phases, Operations
  <2>2. /\ tenant' \in Rows /\ tenant'.lifecycle = tenant.lifecycle
        /\ tenant'.deletionScheduledAt = tenant.deletionScheduledAt
        /\ tenant'.deletedAt = tenant.deletedAt /\ tenant'.isActive = tenant.isActive
        /\ tenant'.suspendedAt = tenant.suspendedAt
        /\ tenant'.subscriptionStatus = tenant.subscriptionStatus
    BY <1>0, <1>4 DEF EndWipe, Rows
  <2>3. UNCHANGED <<data, failures, erasing>>
    BY <1>4 DEF EndWipe
  <2>4. Gone' = Gone
    BY <2>2, <2>3 DEF Gone
  <2>5. RowInv' /\ WipedOnlyWhenGone'
    BY <2>2, <2>3, <2>4 DEF StoreInv, RowInv, WipedOnlyWhenGone
  <2>6. FlagsFollowState'
    BY <2>2, <2>3 DEF StoreInv, FlagsFollowState
  <2>7. LoadedInTable(q)'
    BY <2>1, NotLoaded
  <2> QED BY <1>0, <2>1, <2>2, <2>3, <2>4, <2>5, <2>6, <2>7, OthersKept
<1> QED BY <1>1, <1>2, <1>3, <1>4

LEMMA ClockStep == StoreInv /\ GracePasses => StoreInv'
<1> SUFFICES ASSUME StoreInv, GracePasses PROVE StoreInv'
  OBVIOUS
<1>0. /\ failures \in 0..MaxFailures /\ request \in [Requests -> RequestRecords] /\ tenant \in Rows
      /\ data \subseteq Collections /\ erasing \in BOOLEAN
  BY DEF StoreInv, TenantTypeOK, RequestRecords
<1>1. /\ tenant' \in Rows /\ tenant'.lifecycle = tenant.lifecycle
      /\ tenant.deletionScheduledAt = "waiting"
      /\ tenant'.deletedAt = tenant.deletedAt /\ tenant'.isActive = tenant.isActive
      /\ tenant'.suspendedAt = tenant.suspendedAt
      /\ tenant'.subscriptionStatus = tenant.subscriptionStatus
  BY <1>0 DEF GracePasses, Rows, Schedules
<1>2. UNCHANGED <<data, request, failures, erasing>>
  BY DEF GracePasses
<1>3. Gone' = Gone
  BY <1>1, <1>2 DEF Gone
<1>4. RowInv' /\ WipedOnlyWhenGone'
  BY <1>1, <1>2, <1>3 DEF StoreInv, RowInv, WipedOnlyWhenGone
<1>5. FlagsFollowState'
  BY <1>1, <1>2 DEF StoreInv, FlagsFollowState
<1>6. RequestInv'
  BY <1>1, <1>2, <1>3 DEF StoreInv, RequestInv, LoadedInTable
<1>7. TenantTypeOK'
  BY <1>0, <1>1, <1>2 DEF TenantTypeOK, RequestRecords
<1> QED BY <1>4, <1>5, <1>6, <1>7 DEF StoreInv

LEMMA StoreUnchanged ==
  ASSUME StoreInv, UNCHANGED <<tenant, data, request, erasing>>, failures' \in 0..MaxFailures
  PROVE  StoreInv'
<1>1. TenantTypeOK'
  BY DEF StoreInv, TenantTypeOK
<1>2. FlagsFollowState' /\ WipedOnlyWhenGone' /\ RowInv'
  BY DEF StoreInv, FlagsFollowState, WipedOnlyWhenGone, RowInv, Gone
<1>3. RequestInv'
  BY DEF StoreInv, RequestInv, LoadedInTable, Gone
<1> QED BY <1>1, <1>2, <1>3 DEF StoreInv

LEMMA StopStep == ASSUME StoreInv, NEW q \in Requests, Stop(q) PROVE StoreInv'
<1>1. failures' \in 0..MaxFailures
  BY MaxFailuresAssumption DEF Stop, StoreInv, TenantTypeOK
<1> QED BY <1>1, FinishKeeps DEF Stop

LEMMA FailureCounted ==
  ASSUME StoreInv, failures < MaxFailures, failures' = failures + 1,
         UNCHANGED <<tenant, data, request, erasing>>
  PROVE  StoreInv'
<1>1. failures' \in 0..MaxFailures
  BY MaxFailuresAssumption DEF StoreInv, TenantTypeOK
<1> QED BY <1>1, StoreUnchanged

LEMMA StoreStep == StoreInv /\ [Next]_vars => StoreInv'
<1> SUFFICES ASSUME StoreInv, [Next]_vars PROVE StoreInv'
  OBVIOUS
<1>0. failures \in 0..MaxFailures
  BY DEF StoreInv, TenantTypeOK
<1>1. CASE UNCHANGED tenantVars
  BY <1>0, <1>1, StoreUnchanged DEF tenantVars
<1>2. CASE TenantStarts
  <2> PICK q \in Requests : \/ \E does \in DOMAIN Target : LoadForTransition(q, does)
                          \/ Sweep(q) \/ HardDelete(q) \/ SetupStart(q)
    BY <1>2 DEF TenantStarts
  <2> QED BY OperatorSteps, SetupSteps
<1>3. CASE TenantContinues
  <2>1. CASE GracePasses
    BY <2>1, ClockStep
  <2>2. CASE \E q \in Requests : RequestContinues(q) \/ WipeFails(q) \/ Stop(q)
    BY <2>2, OperatorSteps, SetupSteps, WipeSteps, StopStep DEF RequestContinues
  <2> QED BY <1>3, <2>1, <2>2 DEF TenantContinues
<1>4. ASSUME NEW c \in Changes, GiveUp(c) PROVE StoreInv'
  BY <1>4, FailureCounted DEF GiveUp
<1>5. ASSUME NEW r \in Runs, FailCall(r) \/ StopRun(r) PROVE StoreInv'
  BY <1>5, FailureCounted DEF FailCall, StopRun
<1>6. CASE UNCHANGED vars
  BY <1>1, <1>6 DEF vars
<1> QED BY <1>1, <1>2, <1>3, <1>4, <1>5, <1>6 DEF Next, Start, Continue

LEMMA StoreInvariant == Spec => []StoreInv
<1>1. Init => StoreInv
  BY StoreInit DEF Init
<1> QED BY <1>1, StoreStep, PTL DEF Spec

(* The older flags agree with the state of the store, whatever operators,   *)
(* sweeps, deletions and setups run at once.                                *)
THEOREM FlagsAgreeWithState == Spec => []FlagsFollowState
<1>1. StoreInv => FlagsFollowState
  BY DEF StoreInv
<1> QED BY <1>1, StoreInvariant, PTL

(* Data is wiped only of a store that is archived or being deleted for good. *)
THEOREM OnlyGoneStoresWiped == Spec => []WipedOnlyWhenGone
<1>1. StoreInv => WipedOnlyWhenGone
  BY DEF StoreInv
<1> QED BY <1>1, StoreInvariant, PTL

(* ------------------------------ Refinement ------------------------------- *)

(* What TenantStates sees of the row. *)
seen == IF tenant.exists THEN tenant.lifecycle ELSE "deleted"

StaysOrMoves == Graph!Next \/ seen' = seen

LEMMA TransitionMoves ==
  ASSUME StoreInv, NEW q \in Requests, NEW next,
         request[q].phase = "loaded", request[q].does \in DOMAIN Leads,
         transition(q, Leads[request[q].does], next)
  PROVE  StaysOrMoves
<1> DEFINE to == Leads[request[q].does]
<1>1. tenant \in Rows /\ to \in Targets
  BY DEF StoreInv, TenantTypeOK, Leads, Targets
<1>2. CASE ~stillAsRead(request[q].read)
  BY <1>2 DEF transition, StaysOrMoves, seen
<1>3. CASE stillAsRead(request[q].read)
  <2>1. tenant.exists /\ tenant.lifecycle = request[q].read
    BY <1>3 DEF stillAsRead
  <2>2. tenant'.exists /\ tenant'.lifecycle = to
    BY <1>1, <1>3, <2>1, MovedRow DEF transition
  <2>3. CASE tenant.lifecycle = "unset"
    BY <1>1, <2>1, <2>2, <2>3 DEF StaysOrMoves, seen, Graph!Next, Graph!FirstState, Graph!States, Targets
  <2>4. CASE tenant.lifecycle # "unset"
    <3>1. to \in LIFECYCLE_TRANSITIONS[tenant.lifecycle]
      BY <2>1, <2>4 DEF StoreInv, RequestInv, LoadedInTable
    <3>2. tenant.lifecycle \in States
      BY <1>1, <2>4 DEF Rows
    <3> QED BY <2>1, <2>2, <3>1, <3>2
            DEF StaysOrMoves, seen, Graph!Next, Graph!Move, Graph!States, States,
                LIFECYCLE_TRANSITIONS, Graph!LIFECYCLE_TRANSITIONS
  <2> QED BY <2>3, <2>4
<1> QED BY <1>2, <1>3

LEMMA RequestMoves ==
  ASSUME StoreInv, NEW q \in Requests, RequestContinues(q)
  PROVE  StaysOrMoves
<1>0. tenant \in Rows
  BY DEF StoreInv, TenantTypeOK
<1>1. CASE Transition(q)
  <2>1. request[q].does \in DOMAIN Leads /\ Leads[request[q].does] = Target[request[q].does]
    BY <1>1 DEF Transition, Target, Leads
  <2> QED BY <1>1, <2>1, TransitionMoves DEF Transition
<1>2. CASE Purge(q)
  <2>1. request[q].does \in DOMAIN Leads /\ Leads[request[q].does] = "archived"
    BY <1>2 DEF Purge, Leads
  <2> QED BY <1>2, <2>1, TransitionMoves DEF Purge
<1>3. CASE SetupActivates(q)
  <2>1. request[q].does \in DOMAIN Leads /\ Leads[request[q].does] = "active"
    BY <1>3 DEF SetupActivates, Leads
  <2> QED BY <1>3, <2>1, TransitionMoves DEF SetupActivates
<1>4. CASE MarkDeleted(q)
  <2>1. tenant'.exists = tenant.exists /\ tenant'.lifecycle = tenant.lifecycle
    BY <1>0, <1>4 DEF MarkDeleted, Rows
  <2> QED BY <2>1 DEF StaysOrMoves, seen
<1>5. CASE EndWipe(q)
  <2>1. tenant' = tenant \/ ~tenant'.exists
    BY <1>0, <1>5 DEF EndWipe, Rows
  <2> QED BY <2>1 DEF StaysOrMoves, seen, Graph!Next, Graph!Delete
<1>6. CASE SetupCompletes(q) \/ SetupFails(q)
  <2>1. tenant'.exists = tenant.exists /\ tenant'.lifecycle = tenant.lifecycle
    BY <1>0, <1>6 DEF SetupCompletes, SetupFails, Rows
  <2> QED BY <2>1 DEF StaysOrMoves, seen
<1>7. CASE PurgeLoad(q) \/ Wipe(q) \/ SetupChecks(q) \/ SetupLoads(q)
  BY <1>7 DEF PurgeLoad, Wipe, SetupChecks, SetupLoads, StaysOrMoves, seen
<1> QED BY <1>1, <1>2, <1>3, <1>4, <1>5, <1>6, <1>7 DEF RequestContinues

LEMMA StateStep == StoreInv /\ [Next]_vars => [Graph!Next]_seen
<1> SUFFICES ASSUME StoreInv, [Next]_vars PROVE StaysOrMoves
  BY DEF StaysOrMoves
<1>0. tenant \in Rows
  BY DEF StoreInv, TenantTypeOK
<1>1. CASE UNCHANGED tenant
  BY <1>1 DEF StaysOrMoves, seen
<1>2. ASSUME NEW q \in Requests, SetupStart(q) PROVE StaysOrMoves
  <2>1. tenant'.exists = tenant.exists /\ tenant'.lifecycle = tenant.lifecycle
    BY <1>0, <1>2 DEF SetupStart, Rows
  <2> QED BY <2>1 DEF StaysOrMoves, seen
<1>3. CASE GracePasses
  <2>1. tenant'.exists = tenant.exists /\ tenant'.lifecycle = tenant.lifecycle
    BY <1>0, <1>3 DEF GracePasses, Rows
  <2> QED BY <2>1 DEF StaysOrMoves, seen
<1>4. CASE TenantStarts
  BY <1>1, <1>2, <1>4 DEF TenantStarts, LoadForTransition, Sweep, HardDelete
<1>5. CASE TenantContinues
  BY <1>1, <1>3, <1>5, RequestMoves DEF TenantContinues, WipeFails, Stop
<1>6. CASE UNCHANGED tenantVars \/ UNCHANGED vars
  BY <1>1, <1>6 DEF tenantVars, vars
<1>7. ASSUME NEW c \in Changes, GiveUp(c) PROVE StaysOrMoves
  BY <1>1, <1>7 DEF GiveUp
<1>8. ASSUME NEW r \in Runs, FailCall(r) \/ StopRun(r) PROVE StaysOrMoves
  BY <1>1, <1>8 DEF FailCall, StopRun
<1> QED BY <1>4, <1>5, <1>6, <1>7, <1>8 DEF Next, Start, Continue

(* The state of the store moves along LIFECYCLE_TRANSITIONS only: the       *)
(* compare-and-set makes TenantLifecycle implement TenantStates.            *)
THEOREM StoreImplementsTable == Spec => FollowsTable
<1>1. Init => Graph!Init
  <2> SUFFICES ASSUME Init PROVE Graph!Init
    OBVIOUS
  <2>1. ASSUME NEW t \in LegacyStores PROVE t.exists /\ t.lifecycle = "unset"
    BY <2>1 DEF LegacyStores, NewStore
  <2>2. NewStore.exists /\ NewStore.lifecycle = "onboarding"
    BY DEF NewStore
  <2>3. tenant \in {NewStore} \cup LegacyStores
    BY DEF Init, TenantInit
  <2> QED BY <2>1, <2>2, <2>3 DEF Graph!Init
<1>2. [Graph!Next]_seen => [Graph!Next]_(IF tenant.exists THEN tenant.lifecycle ELSE "deleted")
  BY DEF seen
<1> QED BY <1>1, <1>2, StateStep, StoreInvariant, PTL DEF Spec, FollowsTable, Graph!Spec

(* ----------------------------- Plan changes ------------------------------ *)

ChangeRecords ==
  [store : Stores, requestedBy : {"merchant", "operator"}, immediate : BOOLEAN,
   at : 0..2 * MaxMonths + 2, claimedAt : SUBSET Runs,
   status : {"none", "scheduled", "applying", "applied", "cancelled"},
   phase : {"idle", "checked", "superseded", "created", "applied", "done"}]

RunRecords ==
  [phase : {"idle", "looping", "claimed", "applied", "failed", "done"},
   began : 0..Cardinality(Runs), older : SUBSET Runs,
   claim : SUBSET Changes, due : SUBSET Changes,
   claims : 0..MaxClaims, tried : SUBSET Changes, left : SUBSET Changes]

PlanTypeOK ==
  /\ month \in 0..MaxMonths
  /\ change \in [Changes -> ChangeRecords]
  /\ run \in [Runs -> RunRecords]
  /\ takenOver \subseteq Changes

LEMMA BegunCount == Cardinality(Begun) \in 0..Cardinality(Runs)
<1>1. Begun \in SUBSET Runs
  BY DEF Begun
<1>2. IsFiniteSet(Begun) /\ Cardinality(Begun) <= Cardinality(Runs)
  BY <1>1, FiniteRunsAssumption, FS_Subset
<1> QED BY <1>2, FiniteRunsAssumption, FS_CardinalityType

LEMMA CancelledTypes ==
  ASSUME PlanTypeOK, NEW cs
  PROVE  cancelled(cs) \in [Changes -> ChangeRecords]
BY DEF PlanTypeOK, cancelled, ChangeRecords

LEMMA NoRunType == NoRun \in RunRecords
<1>1. 0 \in 0..Cardinality(Runs) /\ 0 \in 0..MaxClaims
  BY FiniteRunsAssumption, FS_CardinalityType, PlanBoundsAssumption
<1> QED BY <1>1 DEF NoRun, RunRecords

Statuses == {"none", "scheduled", "applying", "applied", "cancelled"}
RunPhases == {"idle", "looping", "claimed", "applied", "failed", "done"}

LEMMA StatusWrite ==
  ASSUME change \in [Changes -> ChangeRecords], NEW c \in Changes, NEW st \in Statuses
  PROVE  [change EXCEPT ![c].status = st] \in [Changes -> ChangeRecords]
<1>1. [change[c] EXCEPT !.status = st] \in ChangeRecords
  BY DEF ChangeRecords, Statuses
<1> QED BY <1>1

LEMMA ClaimWrite ==
  ASSUME change \in [Changes -> ChangeRecords], NEW c \in Changes,
         NEW rs \in SUBSET Runs
  PROVE  /\ [change EXCEPT ![c].status = "applying", ![c].claimedAt = rs] \in [Changes -> ChangeRecords]
         /\ [change EXCEPT ![c].status = "scheduled", ![c].claimedAt = rs] \in [Changes -> ChangeRecords]
<1>1. ASSUME NEW st \in Statuses
      PROVE  [change EXCEPT ![c].status = st, ![c].claimedAt = rs] \in [Changes -> ChangeRecords]
  <2>1. [change[c] EXCEPT !.status = st, !.claimedAt = rs] \in ChangeRecords
    BY DEF ChangeRecords, Statuses
  <2>2. [change EXCEPT ![c].status = st, ![c].claimedAt = rs]
          = [change EXCEPT ![c] = [change[c] EXCEPT !.status = st, !.claimedAt = rs]]
    BY DEF ChangeRecords
  <2> QED BY <2>1, <2>2
<1> QED BY <1>1 DEF Statuses

LEMMA PhaseWrite ==
  ASSUME run \in [Runs -> RunRecords], NEW r \in Runs, NEW ph \in RunPhases
  PROVE  [run EXCEPT ![r].phase = ph] \in [Runs -> RunRecords]
<1>1. [run[r] EXCEPT !.phase = ph] \in RunRecords
  BY DEF RunRecords, RunPhases
<1> QED BY <1>1

LEMMA RunWrite ==
  ASSUME run \in [Runs -> RunRecords], NEW r \in Runs, NEW ph \in RunPhases,
         NEW cs \in SUBSET Changes
  PROVE  [run EXCEPT ![r].phase = ph, ![r].claim = cs] \in [Runs -> RunRecords]
<1>1. [run[r] EXCEPT !.phase = ph, !.claim = cs] \in RunRecords
  <2>1. run[r] \in RunRecords
    OBVIOUS
  <2>2. ASSUME NEW x \in RunRecords PROVE [x EXCEPT !.phase = ph] \in RunRecords
    BY DEF RunRecords, RunPhases
  <2>3. ASSUME NEW x \in RunRecords PROVE [x EXCEPT !.claim = cs] \in RunRecords
    BY DEF RunRecords
  <2> QED BY <2>1, <2>2, <2>3
<1>2. [run EXCEPT ![r].phase = ph, ![r].claim = cs]
        = [run EXCEPT ![r] = [run[r] EXCEPT !.phase = ph, !.claim = cs]]
  BY DEF RunRecords
<1> QED BY <1>1, <1>2

LEMMA ChangeSteps ==
  ASSUME PlanTypeOK, NEW c \in Changes,
         \/ \E store \in Stores, by \in {"merchant", "operator"}, immediate \in BOOLEAN :
              SchedulePlanChange(c, store, by, immediate)
         \/ Supersede(c) \/ Create(c) \/ ApplyAtOnce(c) \/ SaveAtOnce(c) \/ GiveUp(c) \/ CancelOwn(c)
  PROVE  PlanTypeOK'
<1>1. ASSUME NEW store \in Stores, NEW by \in {"merchant", "operator"}, NEW immediate \in BOOLEAN,
             SchedulePlanChange(c, store, by, immediate)
      PROVE  PlanTypeOK'
  <2>1. now \in 0..2 * MaxMonths + 2 /\ nextPeriodStart \in 0..2 * MaxMonths + 2
    BY PlanBoundsAssumption DEF PlanTypeOK, now, nextPeriodStart
  <2> DEFINE at == IF immediate THEN now ELSE nextPeriodStart
             new == [NoChange EXCEPT !.store = store, !.requestedBy = by, !.immediate = immediate,
                                     !.phase = "checked", !.at = at]
  <2>2. at \in 0..2 * MaxMonths + 2
    BY <2>1
  <2> HIDE DEF at
  <2>3. new \in ChangeRecords
    BY <2>2 DEF NoChange, ChangeRecords, Stores
  <2>4. change' = [change EXCEPT ![c] = new] /\ UNCHANGED <<month, run, takenOver>>
    BY <1>1 DEF SchedulePlanChange, at
  <2> QED BY <2>3, <2>4 DEF PlanTypeOK
<1>2. CASE Supersede(c)
  <2>1. cancelled(Scheduled(change[c].store)) \in [Changes -> ChangeRecords]
    BY CancelledTypes
  <2>2. change' \in [Changes -> ChangeRecords]
    BY <1>2, <2>1 DEF Supersede, ChangeRecords
  <2> QED BY <1>2, <2>2 DEF Supersede, PlanTypeOK
<1>3. ASSUME Create(c) \/ ApplyAtOnce(c) \/ SaveAtOnce(c) \/ GiveUp(c)
      PROVE  PlanTypeOK'
  <2>1. change[c] \in ChangeRecords
    BY DEF PlanTypeOK
  <2>2. ASSUME NEW st \in {"none", "scheduled", "applying", "applied", "cancelled"},
               NEW ph \in {"idle", "checked", "superseded", "created", "applied", "done"}
        PROVE  [change[c] EXCEPT !.status = st, !.phase = ph] \in ChangeRecords
    BY <2>1, <2>2 DEF ChangeRecords
  <2>3. \E st \in {"none", "scheduled", "applying", "applied", "cancelled"},
           ph \in {"idle", "checked", "superseded", "created", "applied", "done"} :
          change' = [change EXCEPT ![c] = [change[c] EXCEPT !.status = st, !.phase = ph]]
    <3>1. CASE Create(c)
      <4>1. PICK ph \in {"created", "done"} :
              change' = [change EXCEPT ![c].status = "scheduled", ![c].phase = ph]
        BY <3>1 DEF Create
      <4> QED BY <2>1, <4>1 DEF PlanTypeOK
    <3>2. ASSUME NEW ph \in {"applied", "done"}, change' = [change EXCEPT ![c].phase = ph]
          PROVE  change' = [change EXCEPT ![c] =
                              [change[c] EXCEPT !.status = change[c].status, !.phase = ph]]
      BY <2>1, <3>2 DEF PlanTypeOK, ChangeRecords
    <3>3. change[c].status \in {"none", "scheduled", "applying", "applied", "cancelled"}
      BY <2>1 DEF ChangeRecords
    <3>4. CASE ApplyAtOnce(c)
      <4>1. PICK ph \in {"applied", "done"} : change' = [change EXCEPT ![c].phase = ph]
        BY <3>4 DEF ApplyAtOnce
      <4> QED BY <3>2, <3>3, <4>1
    <3>5. CASE GiveUp(c)
      BY <3>2, <3>3, <3>5 DEF GiveUp
    <3>6. CASE SaveAtOnce(c)
      BY <2>1, <3>6 DEF SaveAtOnce, PlanTypeOK
    <3> QED BY <1>3, <3>1, <3>4, <3>5, <3>6
  <2>4. change' \in [Changes -> ChangeRecords]
    <3>1. PICK x \in ChangeRecords : change' = [change EXCEPT ![c] = x]
      BY <2>2, <2>3
    <3> QED BY <3>1 DEF PlanTypeOK
  <2> QED BY <1>3, <2>4 DEF PlanTypeOK, Create, ApplyAtOnce, SaveAtOnce, GiveUp
<1>4. CASE CancelOwn(c)
  BY <1>4, CancelledTypes DEF CancelOwn, PlanTypeOK
<1> QED BY <1>1, <1>2, <1>3, <1>4

LEMMA RunSteps ==
  ASSUME PlanTypeOK, NEW r \in Runs,
         \/ StartRun(r) \/ Claim(r) \/ EndRun(r) \/ Apply(r) \/ SaveApplied(r)
         \/ CancelMissing(r) \/ ReleaseFailed(r) \/ FailCall(r) \/ StopRun(r)
  PROVE  PlanTypeOK'
<1>0. /\ run \in [Runs -> RunRecords] /\ change \in [Changes -> ChangeRecords]
      /\ takenOver \subseteq Changes /\ month \in 0..MaxMonths
  BY DEF PlanTypeOK
<1>1. CASE StartRun(r)
  <2> DEFINE due == {c \in Changes : change[c].phase # "idle" /\ change[c].at <= now}
  <2>1. PICK n \in 0..Cardinality(Begun) : run' = [run EXCEPT ![r] =
          [NoRun EXCEPT !.phase = "looping", !.began = Cardinality(Begun), !.due = due,
                        !.older = {s \in Begun : run[s].began < n}]]
    BY <1>1 DEF StartRun
  <2>2. due \in SUBSET Changes /\ {s \in Begun : run[s].began < n} \in SUBSET Runs
    BY DEF Begun
  <2> HIDE DEF due
  <2>3. [NoRun EXCEPT !.phase = "looping", !.began = Cardinality(Begun), !.due = due,
                      !.older = {s \in Begun : run[s].began < n}] \in RunRecords
    BY <2>2, NoRunType, BegunCount DEF RunRecords
  <2>4. run' \in [Runs -> RunRecords]
    BY <1>0, <2>1, <2>3
  <2> QED BY <1>1, <2>4 DEF StartRun, PlanTypeOK
<1>2. CASE Claim(r)
  <2>1. PICK c \in Claimable(r) :
          /\ run' = [run EXCEPT ![r].phase = "claimed", ![r].claim = {c}, ![r].claims = @ + 1,
                                ![r].tried = @ \cup {c}]
          /\ change' = [change EXCEPT ![c].status = "applying", ![c].claimedAt = {r}]
          /\ takenOver' = takenOver \/ takenOver' = takenOver \cup {c}
    BY <1>2 DEF Claim
  <2>2. c \in Changes
    BY DEF Claimable
  <2>3. run[r] \in RunRecords /\ run[r].claims < MaxClaims
    BY <1>0, <1>2 DEF Claim
  <2>4. run[r].claims + 1 \in 0..MaxClaims
    BY <2>3, PlanBoundsAssumption DEF RunRecords
  <2>5. run' \in [Runs -> RunRecords]
    BY <1>0, <2>1, <2>2, <2>4 DEF RunRecords
  <2>6. change' \in [Changes -> ChangeRecords]
    <3>1. {r} \in SUBSET Runs
      OBVIOUS
    <3> QED BY <1>0, <2>1, <2>2, <3>1, ClaimWrite
  <2>7. takenOver' \subseteq Changes
    BY <1>0, <2>1, <2>2
  <2> QED BY <1>0, <1>2, <2>5, <2>6, <2>7 DEF Claim, PlanTypeOK
<1>3. CASE EndRun(r)
  <2>1. run[r] \in RunRecords /\ Claimable(r) \ run[r].tried \in SUBSET Changes
    BY <1>0 DEF Claimable
  <2>2. [NoRun EXCEPT !.phase = "done", !.began = run[r].began, !.left = Claimable(r) \ run[r].tried]
          \in RunRecords
    BY <2>1, NoRunType DEF RunRecords
  <2>3. run' \in [Runs -> RunRecords]
    BY <1>0, <1>3, <2>2 DEF EndRun
  <2> QED BY <1>3, <2>3 DEF EndRun, PlanTypeOK
<1>4. CASE StopRun(r)
  <2>1. [NoRun EXCEPT !.phase = "done", !.began = run[r].began] \in RunRecords
    BY <1>0, NoRunType DEF RunRecords
  <2>2. run' \in [Runs -> RunRecords]
    BY <1>0, <1>4, <2>1 DEF StopRun
  <2> QED BY <1>4, <2>2 DEF StopRun, PlanTypeOK
<1>5. ASSUME Release(r) PROVE run' \in [Runs -> RunRecords]
  BY <1>0, <1>5, RunWrite DEF Release, RunPhases
<1>6. CASE Apply(r)
  <2>1. PICK ph \in {"applied", "failed"} : run' = [run EXCEPT ![r].phase = ph]
    BY <1>6 DEF Apply
  <2>2. run' \in [Runs -> RunRecords]
    BY <1>0, <2>1, PhaseWrite DEF RunPhases
  <2> QED BY <1>6, <2>2 DEF Apply, PlanTypeOK
<1>9. CASE FailCall(r)
  <2>1. run' \in [Runs -> RunRecords]
    BY <1>0, <1>9, PhaseWrite DEF FailCall, RunPhases
  <2> QED BY <1>9, <2>1 DEF FailCall, PlanTypeOK
<1>7. CASE SaveApplied(r)
  <2>1. PICK c \in run[r].claim : change' = [change EXCEPT ![c].status = "applied"]
    BY <1>7 DEF SaveApplied
  <2>2. c \in Changes
    BY <1>0, <2>1 DEF RunRecords
  <2>3. change' \in [Changes -> ChangeRecords]
    BY <1>0, <2>1, <2>2, StatusWrite DEF Statuses
  <2>4. Release(r) /\ UNCHANGED <<month, takenOver>>
    BY <1>7 DEF SaveApplied
  <2> QED BY <1>0, <1>5, <2>3, <2>4 DEF PlanTypeOK
<1>10. CASE ReleaseFailed(r)
  <2>1. PICK c \in run[r].claim :
          \/ change' = [change EXCEPT ![c].status = "scheduled", ![c].claimedAt = {}]
          \/ change' = change
    BY <1>10 DEF ReleaseFailed
  <2>2. c \in Changes
    BY <1>0, <2>1 DEF RunRecords
  <2>3. change' \in [Changes -> ChangeRecords]
    <3>1. {} \in SUBSET Runs
      OBVIOUS
    <3>2. [change EXCEPT ![c].status = "scheduled", ![c].claimedAt = {}] \in [Changes -> ChangeRecords]
      BY <1>0, <2>2, <3>1, ClaimWrite
    <3> QED BY <1>0, <2>1, <3>2, Zenon
  <2>4. Release(r) /\ UNCHANGED <<month, takenOver>>
    BY <1>10 DEF ReleaseFailed
  <2> QED BY <1>0, <1>5, <2>3, <2>4 DEF PlanTypeOK
<1>8. CASE CancelMissing(r)
  BY <1>5, <1>8, CancelledTypes DEF CancelMissing, PlanTypeOK
<1> QED BY <1>1, <1>2, <1>3, <1>4, <1>6, <1>7, <1>8, <1>9, <1>10


LEMMA PlanStep == PlanTypeOK /\ [Next]_vars => PlanTypeOK'
<1> SUFFICES ASSUME PlanTypeOK, [Next]_vars PROVE PlanTypeOK'
  OBVIOUS
<1>1. CASE UNCHANGED planVars \/ UNCHANGED vars
  BY <1>1 DEF planVars, vars, PlanTypeOK
<1>2. CASE PlanStarts
  BY <1>2, ChangeSteps, RunSteps DEF PlanStarts
<1>3. ASSUME NEW store \in Stores, CancelScheduled(store) PROVE PlanTypeOK'
  BY <1>3, CancelledTypes DEF CancelScheduled, PlanTypeOK
<1>4. CASE MonthEnds
  <2>1. month' \in 0..MaxMonths
    BY <1>4, PlanBoundsAssumption DEF MonthEnds, PlanTypeOK
  <2> QED BY <1>4, <2>1 DEF MonthEnds, PlanTypeOK
<1>5. CASE PlanContinues
  BY <1>3, <1>4, <1>5, ChangeSteps, RunSteps DEF PlanContinues
<1>6. ASSUME NEW c \in Changes, GiveUp(c) PROVE PlanTypeOK'
  BY <1>6, ChangeSteps
<1>7. ASSUME NEW r \in Runs, FailCall(r) \/ StopRun(r) PROVE PlanTypeOK'
  BY <1>7, RunSteps
<1> QED BY <1>1, <1>2, <1>5, <1>6, <1>7 DEF Next, Start, Continue

LEMMA PlanTypeInit == Init => PlanTypeOK
<1> SUFFICES ASSUME Init PROVE PlanTypeOK
  OBVIOUS
<1>1. NoChange \in ChangeRecords
  BY PlanBoundsAssumption DEF NoChange, ChangeRecords, Stores
<1>2. month \in 0..MaxMonths
  BY PlanBoundsAssumption DEF Init, PlanInit
<1> QED BY <1>1, <1>2, NoRunType DEF Init, PlanInit, PlanTypeOK

LEMMA PlanTypes == Spec => []PlanTypeOK
BY PlanTypeInit, PlanStep, PTL DEF Spec

LEMMA StartsBound == Spec => [](starts \in 0..MaxStarts)
<1>1. Init => starts \in 0..MaxStarts
  BY PlanBoundsAssumption DEF Init
<1>2. starts \in 0..MaxStarts /\ [Next]_vars => (starts \in 0..MaxStarts)'
  <2> SUFFICES ASSUME starts \in 0..MaxStarts, [Next]_vars PROVE starts' \in 0..MaxStarts
    OBVIOUS
  <2>1. starts' = starts \/ (starts < MaxStarts /\ starts' = starts + 1)
    BY DEF Next, Start, Continue, vars
  <2> QED BY <2>1, PlanBoundsAssumption
<1> QED BY <1>1, <1>2, PTL DEF Spec

(* Every variable of the store and of its plan changes keeps its type, for  *)
(* any number of requests, changes and runs.                                *)
THEOREM TypeCorrect == Spec => []TypeOK
<1>1. StoreInv /\ PlanTypeOK /\ starts \in 0..MaxStarts => TypeOK
  BY DEF StoreInv, PlanTypeOK, TypeOK, ChangeRecords, RunRecords
<1> QED BY <1>1, StoreInvariant, PlanTypes, StartsBound, PTL

(* A change with a row is past its creation; a change that a run holds is   *)
(* not scheduled and is held by that run alone, unless it was taken over.   *)
Late == {"created", "applied", "done"}

HeldAlone(r, c) ==
  change[c].status # "scheduled" /\ \A s \in Runs \ {r} : c \notin run[s].claim

ClaimInv ==
  /\ \A c \in Changes : change[c].status # "none" => change[c].phase \in Late
  /\ \A r \in Runs : \A c \in run[r].claim : change[c].phase \in Late
  /\ \A r \in Runs : \A c \in run[r].claim : c \in takenOver \/ HeldAlone(r, c)
  /\ \A r \in Runs : \A c, d \in run[r].claim : c = d

(* What every step but a claim and the release of a failed one does to a    *)
(* change.                                                                  *)
Steady(d) ==
  /\ change'[d].status # "none" => change'[d].phase \in Late
  /\ change[d].phase \in Late => /\ change'[d].phase \in Late
                                 /\ change'[d].status = "scheduled" => change[d].status = "scheduled"

LEMMA SteadyKeeps ==
  ASSUME PlanTypeOK, ClaimInv, UNCHANGED takenOver,
         \A r \in Runs : run'[r].claim \subseteq run[r].claim,
         \A d \in Changes : Steady(d)
  PROVE  ClaimInv'
<1>0. \A r \in Runs : run[r].claim \subseteq Changes
  BY DEF PlanTypeOK, RunRecords
<1>1. \A c \in Changes : change'[c].status # "none" => change'[c].phase \in Late
  BY DEF Steady
<1>2. ASSUME NEW r \in Runs, NEW c \in run'[r].claim PROVE change'[c].phase \in Late
  BY <1>0, <1>2 DEF Steady, ClaimInv
<1>3. ASSUME NEW r \in Runs, NEW c \in run'[r].claim PROVE c \in takenOver \/ HeldAlone(r, c)'
  <2>1. c \in Changes /\ change[c].phase \in Late /\ (c \in takenOver \/ HeldAlone(r, c))
    BY <1>0, <1>3 DEF ClaimInv
  <2> QED BY <2>1 DEF Steady, HeldAlone
<1>4. ASSUME NEW r \in Runs, NEW c \in run'[r].claim, NEW d \in run'[r].claim PROVE c = d
  BY <1>4 DEF ClaimInv
<1> QED BY <1>1, <1>2, <1>3, <1>4 DEF ClaimInv

LEMMA CancelSteady ==
  ASSUME PlanTypeOK, ClaimInv, NEW cs, change' = cancelled(cs),
         \A d \in Changes : d \in cs => change[d].phase \in Late
  PROVE  \A d \in Changes : Steady(d)
<1> SUFFICES ASSUME NEW d \in Changes PROVE Steady(d)
  OBVIOUS
<1>1. \/ change'[d] = change[d]
      \/ change'[d] = [change[d] EXCEPT !.status = "cancelled"] /\ d \in cs
  BY DEF cancelled
<1>2. change[d] \in ChangeRecords
  BY DEF PlanTypeOK
<1>3. change[d].status # "none" => change[d].phase \in Late
  BY DEF ClaimInv
<1>4. CASE change'[d] = change[d]
  BY <1>3, <1>4 DEF Steady
<1>5. CASE change'[d] = [change[d] EXCEPT !.status = "cancelled"] /\ d \in cs
  <2>1. change'[d].status = "cancelled" /\ change'[d].phase = change[d].phase
    BY <1>2, <1>5 DEF ChangeRecords
  <2> QED BY <1>5, <2>1 DEF Steady
<1> QED BY <1>1, <1>4, <1>5

LEMMA ScheduledLate ==
  ASSUME ClaimInv, NEW store
  PROVE  \A d \in Changes : d \in Scheduled(store) => change[d].phase \in Late
BY DEF ClaimInv, Scheduled

LEMMA ChangeStepSteady ==
  ASSUME PlanTypeOK, ClaimInv, NEW c \in Changes,
         \/ \E store \in Stores, by \in {"merchant", "operator"}, immediate \in BOOLEAN :
              SchedulePlanChange(c, store, by, immediate)
         \/ Supersede(c) \/ Create(c) \/ ApplyAtOnce(c) \/ SaveAtOnce(c) \/ GiveUp(c) \/ CancelOwn(c)
  PROVE  ClaimInv'
<1>0. change \in [Changes -> ChangeRecords] /\ change[c] \in ChangeRecords
  BY DEF PlanTypeOK
<1>a. change[c].status # "none" => change[c].phase \in Late
  BY DEF ClaimInv
<1>b. change' \in [Changes -> ChangeRecords] /\ change'[c] \in ChangeRecords
  BY ChangeSteps DEF PlanTypeOK
<1> SUFFICES \A d \in Changes : Steady(d)
  <2>1. UNCHANGED <<run, takenOver>>
    BY DEF SchedulePlanChange, Supersede, Create, ApplyAtOnce, SaveAtOnce, GiveUp, CancelOwn
  <2> QED BY <2>1, SteadyKeeps
<1>1. ASSUME \A d \in Changes \ {c} : change'[d] = change[d],
             change'[c].status # "none" => change'[c].phase \in Late,
             change[c].phase \in Late =>
               /\ change'[c].phase \in Late
               /\ change'[c].status = "scheduled" => change[c].status = "scheduled"
      PROVE  \A d \in Changes : Steady(d)
  BY <1>1 DEF Steady, ClaimInv
<1>2. ASSUME NEW store \in Stores, NEW by \in {"merchant", "operator"}, NEW immediate \in BOOLEAN,
             SchedulePlanChange(c, store, by, immediate)
      PROVE  \A d \in Changes : Steady(d)
  <2>1. change[c].phase = "idle" /\ \A d \in Changes \ {c} : change'[d] = change[d]
    BY <1>0, <1>2 DEF SchedulePlanChange
  <2>2. change'[c].status = "none"
    BY <1>0, <1>2 DEF SchedulePlanChange, NoChange
  <2> QED BY <1>1, <2>1, <2>2 DEF Late
<1>3. CASE Supersede(c)
  <2> DEFINE f == cancelled(Scheduled(change[c].store))
  <2>1. \A d \in Changes : f[d] = change[d] \/ (f[d] = [change[d] EXCEPT !.status = "cancelled"]
                                                /\ change[d].status = "scheduled")
    BY DEF cancelled, Scheduled
  <2>2. change[c].phase = "checked" /\ change[c].status = "none"
    BY <1>3, <1>a DEF Supersede, Late
  <2>3. f[c] = change[c]
    BY <2>1, <2>2
  <2>4. f \in [Changes -> ChangeRecords]
    BY CancelledTypes
  <2> HIDE DEF f
  <2>5. change' = [f EXCEPT ![c].phase = "superseded"]
    BY <1>3 DEF Supersede, f
  <2>6. change'[c].status = "none" /\ change[c].phase \notin Late
    BY <2>2, <2>3, <2>4, <2>5 DEF ChangeRecords, Late
  <2>7. ASSUME NEW d \in Changes \ {c} PROVE Steady(d)
    <3>1. change'[d] = f[d] /\ change[d] \in ChangeRecords
      BY <1>0, <2>4, <2>5, <2>7
    <3>2. change[d].status # "none" => change[d].phase \in Late
      BY DEF ClaimInv
    <3>3. CASE f[d] = change[d]
      BY <3>1, <3>2, <3>3 DEF Steady
    <3>4. CASE f[d] = [change[d] EXCEPT !.status = "cancelled"] /\ change[d].status = "scheduled"
      <4>1. change'[d].status = "cancelled" /\ change'[d].phase = change[d].phase
        BY <3>1, <3>4 DEF ChangeRecords
      <4> QED BY <3>2, <3>4, <4>1 DEF Steady
    <3> QED BY <2>1, <3>3, <3>4
  <2> QED BY <2>6, <2>7 DEF Steady
<1>4. CASE CancelOwn(c)
  <2>1. change' = cancelled({c}) /\ change[c].phase \in Late
    BY <1>4, ScheduledLate DEF CancelOwn
  <2> QED BY <2>1, CancelSteady
<1>5. CASE Create(c)
  <2>1. change[c].phase = "superseded" /\ \A d \in Changes \ {c} : change'[d] = change[d]
    BY <1>0, <1>5 DEF Create
  <2>2. PICK ph \in {"created", "done"} :
          change' = [change EXCEPT ![c].status = "scheduled", ![c].phase = ph]
    BY <1>5 DEF Create
  <2>3. change'[c].phase = ph
    BY <1>0, <2>2 DEF ChangeRecords
  <2> QED BY <1>1, <2>1, <2>3 DEF Late
<1>6. ASSUME NEW ph \in Late, change' = [change EXCEPT ![c].phase = ph]
      PROVE  \A d \in Changes : Steady(d)
  <2>1. \A d \in Changes \ {c} : change'[d] = change[d]
    BY <1>0, <1>6
  <2>2. change'[c].phase = ph /\ change'[c].status = change[c].status
    BY <1>0, <1>6 DEF ChangeRecords
  <2> QED BY <1>1, <2>1, <2>2
<1>7. CASE ApplyAtOnce(c)
  <2>1. PICK ph \in {"applied", "done"} : change' = [change EXCEPT ![c].phase = ph]
    BY <1>7 DEF ApplyAtOnce
  <2> QED BY <1>6, <2>1 DEF Late
<1>8. CASE GiveUp(c)
  BY <1>6, <1>8 DEF GiveUp, Late
<1>9. CASE SaveAtOnce(c)
  <2>1. \A d \in Changes \ {c} : change'[d] = change[d]
    BY <1>0, <1>9 DEF SaveAtOnce
  <2>2. change'[c].status = "applied" /\ change'[c].phase = "done"
    BY <1>0, <1>9 DEF SaveAtOnce, ChangeRecords
  <2> QED BY <1>1, <2>1, <2>2 DEF Late
<1> QED BY <1>2, <1>3, <1>4, <1>5, <1>7, <1>8, <1>9

LEMMA RunStepSteady ==
  ASSUME PlanTypeOK, ClaimInv, NEW r \in Runs,
         \/ StartRun(r) \/ EndRun(r) \/ Apply(r) \/ SaveApplied(r)
         \/ CancelMissing(r) \/ FailCall(r) \/ StopRun(r)
  PROVE  ClaimInv'
<1>0. /\ run \in [Runs -> RunRecords] /\ run[r] \in RunRecords
      /\ run' \in [Runs -> RunRecords] /\ change \in [Changes -> ChangeRecords]
  BY RunSteps DEF PlanTypeOK
<1>1. ASSUME UNCHANGED <<change, takenOver>>, \A s \in Runs : run'[s].claim \subseteq run[s].claim
      PROVE  ClaimInv'
  <2>1. \A d \in Changes : Steady(d)
    BY <1>1 DEF Steady, ClaimInv
  <2> QED BY <1>1, <2>1, SteadyKeeps
<1>2. ASSUME \A s \in Runs \ {r} : run'[s] = run[s], run'[r].claim \subseteq run[r].claim
      PROVE  \A s \in Runs : run'[s].claim \subseteq run[s].claim
  BY <1>2
<1>3. ASSUME NEW x, run' = [run EXCEPT ![r] = x]
      PROVE  \A s \in Runs \ {r} : run'[s] = run[s]
  BY <1>0, <1>3
<1>4. CASE StartRun(r)
  <2>1. \E n \in 0..Cardinality(Begun) : run' = [run EXCEPT ![r] =
          [NoRun EXCEPT !.phase = "looping", !.began = Cardinality(Begun),
             !.due = {c \in Changes : change[c].phase # "idle" /\ change[c].at <= now},
             !.older = {s \in Begun : run[s].began < n}]]
    BY <1>4 DEF StartRun
  <2>2. run'[r].claim = {} /\ \A s \in Runs \ {r} : run'[s] = run[s]
    BY <1>0, <2>1 DEF NoRun
  <2> QED BY <1>1, <1>2, <1>4, <2>2 DEF StartRun
<1>5. CASE EndRun(r)
  <2>1. run'[r].claim = {} /\ \A s \in Runs \ {r} : run'[s] = run[s]
    BY <1>0, <1>5 DEF EndRun, NoRun
  <2> QED BY <1>1, <1>2, <1>5, <2>1 DEF EndRun
<1>6. CASE StopRun(r)
  <2>1. run'[r].claim = {} /\ \A s \in Runs \ {r} : run'[s] = run[s]
    BY <1>0, <1>6 DEF StopRun, NoRun
  <2> QED BY <1>1, <1>2, <1>6, <2>1 DEF StopRun
<1>7. CASE Apply(r)
  <2>1. PICK ph \in {"applied", "failed"} : run' = [run EXCEPT ![r].phase = ph]
    BY <1>7 DEF Apply
  <2>2. run'[r].claim = run[r].claim /\ \A s \in Runs \ {r} : run'[s] = run[s]
    BY <1>0, <2>1 DEF RunRecords
  <2> QED BY <1>1, <1>2, <1>7, <2>2 DEF Apply
<1>8. CASE FailCall(r)
  <2>1. run'[r].claim = run[r].claim /\ \A s \in Runs \ {r} : run'[s] = run[s]
    BY <1>0, <1>8 DEF FailCall, RunRecords
  <2> QED BY <1>1, <1>2, <1>8, <2>1 DEF FailCall
<1>9. ASSUME Release(r) PROVE \A s \in Runs : run'[s].claim \subseteq run[s].claim
  <2>1. run'[r].claim = {} /\ \A s \in Runs \ {r} : run'[s] = run[s]
    BY <1>0, <1>9 DEF Release, RunRecords
  <2> QED BY <1>2, <2>1
<1>10. CASE SaveApplied(r)
  <2>1. PICK c \in run[r].claim : change' = [change EXCEPT ![c].status = "applied"]
    BY <1>10 DEF SaveApplied
  <2>2. c \in Changes /\ change[c].phase \in Late
    BY <1>0, <2>1 DEF RunRecords, ClaimInv
  <2>3. \A d \in Changes \ {c} : change'[d] = change[d]
    BY <1>0, <2>1
  <2>4. change'[c].status = "applied" /\ change'[c].phase = change[c].phase
    BY <1>0, <2>1, <2>2 DEF ChangeRecords
  <2>5. \A d \in Changes : Steady(d)
    BY <2>2, <2>3, <2>4 DEF Steady, ClaimInv
  <2>6. Release(r) /\ UNCHANGED takenOver
    BY <1>10 DEF SaveApplied
  <2> QED BY <1>9, <2>5, <2>6, SteadyKeeps
<1>11. CASE CancelMissing(r)
  <2>1. PICK c \in run[r].claim : change' = cancelled({c})
    BY <1>11 DEF CancelMissing
  <2>2. change[c].phase \in Late
    BY <2>1 DEF ClaimInv
  <2>3. \A d \in Changes : Steady(d)
    BY <2>1, <2>2, CancelSteady
  <2>4. Release(r) /\ UNCHANGED takenOver
    BY <1>11 DEF CancelMissing
  <2> QED BY <1>9, <2>3, <2>4, SteadyKeeps
<1> QED BY <1>4, <1>5, <1>6, <1>7, <1>8, <1>10, <1>11

(* The claim: it finds the change scheduled, and then nobody else holds it, *)
(* or takes it over.                                                        *)
LEMMA ClaimStep ==
  ASSUME PlanTypeOK, ClaimInv, NEW r \in Runs, Claim(r)
  PROVE  ClaimInv'
<1>0. run \in [Runs -> RunRecords] /\ change \in [Changes -> ChangeRecords]
  BY DEF PlanTypeOK
<1>1. PICK c \in Claimable(r) :
        /\ run' = [run EXCEPT ![r].phase = "claimed", ![r].claim = {c}, ![r].claims = @ + 1,
                              ![r].tried = @ \cup {c}]
        /\ change' = [change EXCEPT ![c].status = "applying", ![c].claimedAt = {r}]
        /\ takenOver' = IF change[c].status = "applying" /\ change[c].claimedAt \subseteq run[r].older
                        THEN takenOver \cup {c} ELSE takenOver
  BY DEF Claim
<1>2. c \in Changes /\ (change[c].status = "scheduled" \/ c \in takenOver')
      /\ change[c].status # "none"
  BY <1>1 DEF Claimable, claimable
<1>3. takenOver \subseteq takenOver'
  BY <1>1
<1>4. run'[r].claim = {c} /\ \A s \in Runs \ {r} : run'[s] = run[s]
  BY <1>0, <1>1 DEF RunRecords
<1>5. \A d \in Changes \ {c} : change'[d] = change[d]
  BY <1>0, <1>1
<1>6. change'[c].status = "applying" /\ change'[c].phase = change[c].phase
  BY <1>0, <1>1, <1>2 DEF ChangeRecords
<1>7. change[c].phase \in Late
  BY <1>2 DEF ClaimInv
<1>8. \A s \in Runs : run[s].claim \subseteq Changes
  BY <1>0 DEF RunRecords
<1>9. \A d \in Changes : change'[d].status # "none" => change'[d].phase \in Late
  BY <1>5, <1>6, <1>7 DEF ClaimInv
<1>10. ASSUME NEW s \in Runs, NEW d \in run'[s].claim PROVE change'[d].phase \in Late
  BY <1>4, <1>5, <1>6, <1>7, <1>8, <1>10 DEF ClaimInv
<1>11. ASSUME NEW s \in Runs, NEW d \in run'[s].claim, NEW e \in run'[s].claim PROVE d = e
  BY <1>4, <1>11 DEF ClaimInv
<1>12. ASSUME NEW s \in Runs, NEW d \in run'[s].claim, d \notin takenOver' PROVE HeldAlone(s, d)'
  <2>1. CASE s = r
    <3>1. d = c /\ change[c].status = "scheduled" /\ c \notin takenOver
      BY <1>2, <1>3, <1>4, <1>12, <2>1
    <3>2. \A t \in Runs \ {r} : c \notin run[t].claim
      BY <3>1 DEF ClaimInv, HeldAlone
    <3> QED BY <1>4, <1>6, <2>1, <3>1, <3>2 DEF HeldAlone
  <2>2. CASE s # r
    <3>1. d \in run[s].claim /\ d \in Changes /\ d \notin takenOver /\ HeldAlone(s, d)
      BY <1>3, <1>4, <1>8, <1>12, <2>2 DEF ClaimInv
    <3>2. d # c
      BY <1>2, <1>12, <3>1 DEF HeldAlone
    <3> QED BY <1>4, <1>5, <2>2, <3>1, <3>2 DEF HeldAlone
  <2> QED BY <2>1, <2>2
<1> QED BY <1>9, <1>10, <1>11, <1>12 DEF ClaimInv

LEMMA ReleaseStep ==
  ASSUME PlanTypeOK, ClaimInv, NEW r \in Runs, ReleaseFailed(r)
  PROVE  ClaimInv'
<1>0. run \in [Runs -> RunRecords] /\ change \in [Changes -> ChangeRecords]
  BY DEF PlanTypeOK
<1>1. PICK c \in run[r].claim :
        change' = IF change[c].status = "applying"
                  THEN [change EXCEPT ![c].status = "scheduled", ![c].claimedAt = {}] ELSE change
  BY DEF ReleaseFailed
<1>2. UNCHANGED takenOver /\ run'[r].claim = {} /\ \A s \in Runs \ {r} : run'[s] = run[s]
  BY <1>0 DEF ReleaseFailed, Release, RunRecords
<1>3. \A s \in Runs : run[s].claim \subseteq Changes
  BY <1>0 DEF RunRecords
<1>4. c \in Changes /\ change[c].phase \in Late
  BY <1>1, <1>3 DEF ClaimInv
<1>5. \A d \in Changes \ {c} : change'[d] = change[d]
  BY <1>0, <1>1
<1>6. change'[c].phase = change[c].phase
  BY <1>0, <1>1, <1>4 DEF ChangeRecords
<1>7. \A d \in Changes : change'[d].status # "none" => change'[d].phase \in Late
  BY <1>4, <1>5, <1>6 DEF ClaimInv
<1>8. ASSUME NEW s \in Runs, NEW d \in run'[s].claim
      PROVE  s # r /\ d \in run[s].claim /\ d \in Changes
  BY <1>2, <1>3, <1>8
<1>9. ASSUME NEW s \in Runs, NEW d \in run'[s].claim PROVE change'[d].phase \in Late
  BY <1>4, <1>5, <1>6, <1>8, <1>9 DEF ClaimInv
<1>10. ASSUME NEW s \in Runs, NEW d \in run'[s].claim, d \notin takenOver PROVE HeldAlone(s, d)'
  <2>1. d \in run[s].claim /\ s # r /\ d \in Changes /\ HeldAlone(s, d)
    BY <1>8, <1>10 DEF ClaimInv
  <2>2. d # c
    BY <1>1, <2>1 DEF HeldAlone
  <2> QED BY <1>2, <1>5, <2>1, <2>2 DEF HeldAlone
<1>11. ASSUME NEW s \in Runs, NEW d \in run'[s].claim, NEW e \in run'[s].claim PROVE d = e
  BY <1>8, <1>11 DEF ClaimInv
<1> QED BY <1>2, <1>7, <1>9, <1>10, <1>11 DEF ClaimInv

LEMMA ClaimInvStep == PlanTypeOK /\ ClaimInv /\ [Next]_vars => ClaimInv'
<1> SUFFICES ASSUME PlanTypeOK, ClaimInv, [Next]_vars PROVE ClaimInv'
  OBVIOUS
<1>1. CASE UNCHANGED <<change, run, takenOver>>
  BY <1>1 DEF ClaimInv, HeldAlone
<1>2. CASE UNCHANGED planVars \/ UNCHANGED vars \/ MonthEnds
  BY <1>1, <1>2 DEF planVars, vars, MonthEnds
<1>3. CASE PlanStarts
  BY <1>3, ChangeStepSteady, RunStepSteady DEF PlanStarts
<1>4. ASSUME NEW store \in Stores, CancelScheduled(store) PROVE ClaimInv'
  <2>1. \A d \in Changes : Steady(d)
    BY <1>4, ScheduledLate, CancelSteady DEF CancelScheduled
  <2>2. UNCHANGED <<run, takenOver>>
    BY <1>4 DEF CancelScheduled
  <2> QED BY <2>1, <2>2, SteadyKeeps
<1>5. CASE PlanContinues
  BY <1>2, <1>4, <1>5, ChangeStepSteady, RunStepSteady, ClaimStep, ReleaseStep DEF PlanContinues
<1>6. ASSUME NEW c \in Changes, GiveUp(c) PROVE ClaimInv'
  BY <1>6, ChangeStepSteady
<1>7. ASSUME NEW r \in Runs, FailCall(r) \/ StopRun(r) PROVE ClaimInv'
  BY <1>7, RunStepSteady
<1> QED BY <1>2, <1>3, <1>5, <1>6, <1>7 DEF Next, Start, Continue

(* planChanges.js claims each change with one atomic write, "so two         *)
(* concurrent runs cannot apply the same change twice": two runs hold one   *)
(* change only if the second took over a claim the code counts as leaked.   *)
THEOREM ClaimsExclusive == Spec => []HeldByOneRun
<1>1. Init => ClaimInv
  BY DEF Init, PlanInit, ClaimInv, NoChange, NoRun
<1>2. ClaimInv => HeldByOneRun
  <2> SUFFICES ASSUME ClaimInv, NEW r \in Runs, NEW s \in Runs, r # s,
                      NEW c \in run[r].claim, c \in run[s].claim
               PROVE  run[r].claim \subseteq takenOver
    BY DEF HeldByOneRun
  <2>1. c \in takenOver
    BY DEF ClaimInv, HeldAlone
  <2> QED BY <2>1 DEF ClaimInv
<1> QED BY <1>1, <1>2, ClaimInvStep, PlanTypes, PTL DEF Spec

===============================================================================
