---------------------------- MODULE CircuitBreaker ----------------------------
(***************************************************************************)
(* Routing to one upstream behind its two levels of circuits: one for the  *)
(* upstream and one for each of its models (routes).  Requests choose a    *)
(* route, are sent and answered, and what becomes of them is recorded in   *)
(* the cache, which all requests share.                                    *)
(*                                                                         *)
(* The cache compares its clock with openUntil and probeUntil; a circuit   *)
(* has the phase that comparison gives, and the passing of time is an      *)
(* action.  "over" is the memory cache's circuit after its half-open       *)
(* window, until the next check clears it.  An opening lasts a minute or   *)
(* more and a probe token half a minute, as long as the window in which    *)
(* it is granted, so a token never lapses inside its window and never      *)
(* outlives an opening.  The cache keeps no name in a token; the model     *)
(* keeps the holder's, to state properties with, and "late": a request     *)
(* that did not pass the check in this window is under way in it, since it *)
(* passed before the circuit opened or found the breaker off.              *)
(***************************************************************************)
EXTENDS Naturals, FiniteSets

CONSTANTS
  Models,             \* routes of the upstream, a circuit each
  Requests,
  ModelThreshold,     \* failures in the window that open a model
  UpstreamThreshold,  \* and the upstream; 0 is off
  OpenModelThreshold, \* open models that open the upstream; 0 is off
  AndLogic,           \* both thresholds are needed
  Caches,             \* "memory" of one process, "redis" of several servers
  MaxFaults           \* bound: recorded failures and manual openings

Upstream == "upstream"

Circuits == {Upstream} \cup Models

ASSUME BreakerAssumption ==
  /\ IsFiniteSet(Models) /\ IsFiniteSet(Requests)
  /\ ModelThreshold \in Nat \ {0}
  /\ UpstreamThreshold \in Nat /\ OpenModelThreshold \in Nat
  /\ AndLogic \in BOOLEAN
  /\ Caches \subseteq {"memory", "redis"}
  /\ MaxFaults \in Nat
  /\ Upstream \notin Models
  /\ {"none", "lost"} \cap Requests = {}

VARIABLES
  cache,     \* the one this deployment uses
  circuit,   \* what the cache keeps of each circuit
  request,   \* where each request is, its route and its probes
  enabled,   \* the setting in the database
  stale,     \* another server may still hold the setting before the last
  admin,     \* a change of the setting under way
  faults     \* failures and manual openings so far

vars == <<cache, circuit, request, enabled, stale, admin, faults>>

Remote == cache = "redis"

Closed == [phase |-> "closed", manual |-> FALSE, late |-> FALSE,
           probe |-> "none", fails |-> 0]

Idle == [pc |-> "idle", left |-> {}, route |-> "none", probes |-> {}]

MostFails == IF UpstreamThreshold > ModelThreshold
             THEN UpstreamThreshold ELSE ModelThreshold

TypeOK ==
  /\ cache \in Caches
  /\ circuit \in [Circuits ->
       [phase : {"closed", "open", "halfOpen", "over"}, manual : BOOLEAN,
        late : BOOLEAN, probe : Requests \cup {"none", "lost"}, fails : 0..MostFails]]
  /\ request \in [Requests ->
       [pc : {"idle", "upstream", "model", "giveBack", "sent", "clear",
              "release", "record"},
        left : SUBSET Models, route : Models \cup {"none"},
        probes : SUBSET Circuits]]
  /\ enabled \in BOOLEAN /\ stale \in BOOLEAN
  /\ admin \in {"none", "enabling", "disabling"}
  /\ faults \in 0..MaxFaults

Init ==
  /\ cache \in Caches
  /\ circuit = [c \in Circuits |-> Closed]
  /\ request = [r \in Requests |-> Idle]
  /\ enabled \in BOOLEAN
  /\ stale = FALSE
  /\ admin = "none"
  /\ faults = 0

(* What loadBreakerDefaults may tell a request.                            *)
Believes(b) == b = enabled \/ stale

Goto(r, pc) == request' = [request EXCEPT ![r].pc = pc]

(***************************************************************************)
(* The checks of ResolveRoute.                                             *)
(***************************************************************************)
(* Mutant: the check does not look for a token that is out.                *)
AllowedAlways(c) == circuit[c].phase # "open"

Allowed(c) ==
  \/ circuit[c].phase \in {"closed", "over"}
  \/ circuit[c].phase = "halfOpen" /\ circuit[c].probe = "none"

Granted(c) == Allowed(c) /\ circuit[c].phase = "halfOpen"

CheckCircuit(r, c) ==
  circuit' = [circuit EXCEPT ![c] =
                CASE Granted(c) -> [@ EXCEPT !.probe = r]
                  [] @.phase = "over" -> [@ EXCEPT !.phase = "closed",
                                                   !.probe = "none"]
                  [] OTHER -> @]

Drop(c) == [circuit EXCEPT ![c].probe = "none"]

(* The circuits when a request takes route m without being checked.        *)
PassedBy(m) ==
  [c \in Circuits |-> IF c \in {Upstream, m} /\ circuit[c].phase = "halfOpen"
                      THEN [circuit[c] EXCEPT !.late = TRUE] ELSE circuit[c]]

(* The routes offered exclude those a failover has tried already; with the *)
(* breaker off the first one chosen is used.                               *)
StartResolve(r) ==
  /\ request[r].pc = "idle"
  /\ \E routes \in SUBSET Models \ {{}} :
       \/ /\ Believes(TRUE)
          /\ request' = [request EXCEPT ![r] =
               [Idle EXCEPT !.pc = "upstream", !.left = routes]]
          /\ UNCHANGED circuit
       \/ /\ Believes(FALSE)
          /\ \E m \in routes :
               /\ request' = [request EXCEPT ![r] =
                    [Idle EXCEPT !.pc = "sent", !.route = m]]
               /\ circuit' = PassedBy(m)
  /\ UNCHANGED <<cache, enabled, stale, admin, faults>>

CheckUpstreamCircuitState(r) ==
  /\ request[r].pc = "upstream"
  /\ \E m \in request[r].left :
       IF Allowed(Upstream)
       THEN /\ CheckCircuit(r, Upstream)
            /\ request' = [request EXCEPT
                 ![r].pc = "model", ![r].route = m,
                 ![r].probes = {c \in {Upstream} : Granted(c)}]
       ELSE /\ request' = [request EXCEPT ![r].left = @ \ {m}]
            /\ UNCHANGED circuit
  /\ UNCHANGED <<cache, enabled, stale, admin, faults>>

(* A denied model, or a check that fails, gives the upstream's token back. *)
CheckModelCircuitState(r) ==
  LET m == request[r].route
      denied == IF Upstream \in request[r].probes THEN "giveBack"
                ELSE "upstream"
  IN /\ request[r].pc = "model"
     /\ \/ /\ Allowed(m)
           /\ CheckCircuit(r, m)
           /\ request' = [request EXCEPT ![r].pc = "sent", ![r].left = {},
                ![r].probes = @ \cup {c \in {m} : Granted(c)}]
        \/ /\ ~Allowed(m)
           /\ request' = [request EXCEPT ![r].pc = denied,
                                         ![r].left = @ \ {m}]
           /\ UNCHANGED circuit
        \/ /\ Remote
           /\ request' = [request EXCEPT ![r].pc = denied, ![r].left = {}]
           /\ UNCHANGED circuit
     /\ UNCHANGED <<cache, enabled, stale, admin, faults>>

(* Mutant: the upstream's token is kept when the model is denied.          *)
KeepUpstreamProbe(r) ==
  /\ request[r].pc = "giveBack"
  /\ request' = [request EXCEPT ![r].pc = "upstream", ![r].probes = {}]
  /\ UNCHANGED <<cache, circuit, enabled, stale, admin, faults>>

ReleaseUpstreamProbe(r) ==
  /\ request[r].pc = "giveBack"
  /\ circuit' = Drop(Upstream)
  /\ request' = [request EXCEPT ![r].pc = "upstream", ![r].probes = {}]
  /\ UNCHANGED <<cache, enabled, stale, admin, faults>>

(* No route is left: ErrAllRoutesUnavailable.                              *)
Refuse(r) ==
  /\ request[r].pc = "upstream" /\ request[r].left = {}
  /\ request' = [request EXCEPT ![r] = Idle]
  /\ UNCHANGED <<cache, circuit, enabled, stale, admin, faults>>

(***************************************************************************)
(* What becomes of a request that was sent.  A handler ends one token      *)
(* after the other, the upstream's first.  A successful answer may ask for *)
(* tools: their results are sent by the same route, which keeps its flags. *)
(***************************************************************************)
Answered(r) ==
  \/ request' = [request EXCEPT ![r] = Idle]
  \/ Goto(r, "sent")

(* Success forgets failures and opening of the circuits the request probed. *)
MarkRouteSuccess(r) ==
  /\ request[r].pc = "sent"
  /\ circuit' = IF Upstream \in request[r].probes
                THEN [circuit EXCEPT ![Upstream] = Closed] ELSE circuit
  /\ IF request[r].route \in request[r].probes
     THEN Goto(r, "clear") ELSE Answered(r)
  /\ UNCHANGED <<cache, enabled, stale, admin, faults>>

ClearModelCircuitKeys(r) ==
  /\ request[r].pc = "clear"
  /\ circuit' = [circuit EXCEPT ![request[r].route] = Closed]
  /\ Answered(r)
  /\ UNCHANGED <<cache, enabled, stale, admin, faults>>

(* A failure that says nothing of the upstream's health, a rate limit, or  *)
(* any failure with the breaker off, only gives the tokens back.           *)
ReleaseGrantedRouteProbes(r) ==
  /\ request[r].pc = "sent"
  /\ circuit' = IF Upstream \in request[r].probes THEN Drop(Upstream)
                ELSE circuit
  /\ request' = [request EXCEPT ![r] =
       IF @.probes \subseteq {Upstream} THEN Idle
       ELSE [request[r] EXCEPT !.pc = "release", !.probes = @ \ {Upstream}]]
  /\ UNCHANGED <<cache, enabled, stale, admin, faults>>

ReleaseModelProbe(r) ==
  /\ request[r].pc = "release"
  /\ circuit' = Drop(request[r].route)
  /\ request' = [request EXCEPT ![r] = Idle]
  /\ UNCHANGED <<cache, enabled, stale, admin, faults>>

(* Another failure: the setting is loaded, then the failure is recorded.   *)
MarkRouteFailure(r) ==
  /\ request[r].pc = "sent"
  /\ Believes(TRUE)
  /\ faults < MaxFaults
  /\ faults' = faults + 1
  /\ Goto(r, "record")
  /\ UNCHANGED <<cache, circuit, enabled, stale, admin>>

AtMost(n, bound) == IF n > bound THEN bound ELSE n

Failed(c, trips) ==
  [circuit[c] EXCEPT !.probe = "none",
                     !.fails = AtMost(@ + 1, MostFails),
                     !.phase = IF trips THEN "open" ELSE @,
                     !.late = @ /\ ~trips,
                     !.manual = @ /\ ~trips]

Reaches(c, threshold) == threshold > 0 /\ circuit[c].fails + 1 >= threshold

(* Whoever fails while a token is out counts as the probe.                 *)
RecordCircuitFailure(r) ==
  LET m == request[r].route
      opens == circuit[m].probe # "none" \/ Reaches(m, ModelThreshold)
      open == {n \in Models : circuit[n].phase = "open"}
              \cup {n \in {m} : opens}
      failMet == \/ circuit[Upstream].probe # "none"
                 \/ Reaches(Upstream, UpstreamThreshold)
      modelMet == /\ OpenModelThreshold > 0
                  /\ Cardinality(open) >= OpenModelThreshold
      both == AndLogic /\ UpstreamThreshold > 0 /\ OpenModelThreshold > 0
      either == CASE ~AndLogic -> failMet \/ modelMet
                  [] UpstreamThreshold > 0 -> failMet
                  [] OTHER -> modelMet
      trips == IF both THEN failMet /\ modelMet ELSE either
  IN /\ request[r].pc = "record"
     /\ circuit' = [circuit EXCEPT ![m] = Failed(m, opens),
                                   ![Upstream] = Failed(Upstream, trips)]
     /\ request' = [request EXCEPT ![r] = Idle]
     /\ UNCHANGED <<cache, enabled, stale, admin, faults>>

(* The caller cancels, or has no word for the router, or its server dies.  *)
Abandon(r) ==
  /\ request[r].pc # "idle"
  /\ Remote \/ request[r].pc = "sent"
  /\ request' = [request EXCEPT ![r] = Idle]
  /\ circuit' = [c \in Circuits |->
       IF circuit[c].probe = r THEN [circuit[c] EXCEPT !.probe = "lost"]
       ELSE circuit[c]]
  /\ UNCHANGED <<cache, enabled, stale, admin, faults>>

(***************************************************************************)
(* The administrator.                                                      *)
(***************************************************************************)
OpenCircuit(c) ==
  /\ Believes(TRUE)
  /\ faults < MaxFaults
  /\ faults' = faults + 1
  /\ circuit' = [circuit EXCEPT ![c].phase = "open", ![c].manual = TRUE,
                                ![c].late = FALSE]
  /\ UNCHANGED <<cache, request, enabled, stale, admin>>

ResetCircuit(c) ==
  /\ circuit' = [circuit EXCEPT ![c] = Closed]
  /\ UNCHANGED <<cache, request, enabled, stale, admin, faults>>

ResetAllCircuitStates == circuit' = [c \in Circuits |-> Closed]

(* UpdateLLMSetting: on, clean first; off, clean afterwards if possible.   *)
BeginEnable ==
  /\ admin = "none" /\ ~enabled
  /\ ResetAllCircuitStates
  /\ admin' = "enabling"
  /\ UNCHANGED <<cache, request, enabled, stale, faults>>

FinishEnable ==
  /\ admin = "enabling"
  /\ enabled' = TRUE
  /\ stale' = Remote
  /\ admin' = "none"
  /\ UNCHANGED <<cache, circuit, request, faults>>

BeginDisable ==
  /\ admin = "none" /\ enabled
  /\ enabled' = FALSE
  /\ stale' = Remote
  /\ admin' = "disabling"
  /\ UNCHANGED <<cache, circuit, request, faults>>

FinishDisable ==
  /\ admin = "disabling"
  /\ \/ ResetAllCircuitStates
     \/ Remote /\ UNCHANGED circuit
  /\ admin' = "none"
  /\ UNCHANGED <<cache, request, enabled, stale, faults>>

(***************************************************************************)
(* Time.                                                                   *)
(***************************************************************************)
PastCheck(r, c) ==
  IF c = Upstream THEN request[r].pc \notin {"idle", "upstream"}
  ELSE request[r].route = c /\
       request[r].pc \in {"sent", "record", "clear", "release"}

OpeningEnds(c) ==
  /\ circuit[c].phase = "open"
  /\ circuit' = [circuit EXCEPT ![c] =
       IF @.manual THEN [@ EXCEPT !.phase = "closed", !.manual = FALSE,
                                  !.probe = "none"]
       ELSE [@ EXCEPT !.phase = "halfOpen", !.probe = "none",
                      !.late = \E r \in Requests : PastCheck(r, c)]]
  /\ UNCHANGED <<cache, request, enabled, stale, admin, faults>>

(* Mutant: the window waits for the token that is out.                     *)
WindowEndsUnprobed(c) ==
  /\ circuit[c].phase = "halfOpen" /\ circuit[c].probe = "none"
  /\ circuit' = [circuit EXCEPT ![c].late = FALSE,
       ![c].phase = IF Remote THEN "closed" ELSE "over"]
  /\ UNCHANGED <<cache, request, enabled, stale, admin, faults>>

WindowEnds(c) ==
  /\ circuit[c].phase = "halfOpen"
  /\ circuit' = [circuit EXCEPT ![c].late = FALSE,
       ![c].phase = IF Remote THEN "closed" ELSE "over"]
  /\ UNCHANGED <<cache, request, enabled, stale, admin, faults>>

TokenLapses(c) ==
  /\ circuit[c].probe # "none" /\ circuit[c].phase # "halfOpen"
  /\ circuit' = Drop(c)
  /\ UNCHANGED <<cache, request, enabled, stale, admin, faults>>

(* Mutant: the window drops more failures than were recorded.              *)
FailureAgesTwice(c) ==
  /\ circuit' = [circuit EXCEPT ![c].fails = @ - 1]
  /\ UNCHANGED <<cache, request, enabled, stale, admin, faults>>

FailureAges(c) ==
  /\ circuit[c].fails > 0
  /\ circuit' = [circuit EXCEPT ![c].fails = @ - 1]
  /\ UNCHANGED <<cache, request, enabled, stale, admin, faults>>

(* The other servers read the setting again within seconds.                *)
DefaultsLapse ==
  /\ stale
  /\ stale' = FALSE
  /\ UNCHANGED <<cache, circuit, request, enabled, admin, faults>>

Passing(c) ==
  \/ OpeningEnds(c) \/ WindowEnds(c) \/ TokenLapses(c) \/ FailureAges(c)

Handling(r) ==
  \/ StartResolve(r) \/ CheckUpstreamCircuitState(r)
  \/ CheckModelCircuitState(r) \/ ReleaseUpstreamProbe(r) \/ Refuse(r)
  \/ MarkRouteSuccess(r) \/ ClearModelCircuitKeys(r)
  \/ ReleaseGrantedRouteProbes(r) \/ ReleaseModelProbe(r)
  \/ MarkRouteFailure(r) \/ RecordCircuitFailure(r) \/ Abandon(r)

Administering ==
  \/ \E c \in Circuits : OpenCircuit(c) \/ ResetCircuit(c)
  \/ BeginEnable \/ FinishEnable \/ BeginDisable \/ FinishDisable

Next ==
  \/ \E r \in Requests : Handling(r)
  \/ Administering
  \/ \E c \in Circuits : Passing(c)
  \/ DefaultsLapse

Spec == Init /\ [][Next]_vars

(* Clocks advance; nothing else needs to happen.                           *)
FairSpec ==
  Spec /\ \A c \in Circuits : WF_vars(OpeningEnds(c)) /\ WF_vars(WindowEnds(c))

(***************************************************************************)
(* Properties.                                                             *)
(***************************************************************************)

(* A token in the cache belongs to a request that still knows of it and    *)
(* will give it back or clear it: every way through ResolveRoute and the   *)
(* two Mark handlers ends the tokens it was granted, unless the caller     *)
(* never reports.                                                          *)
NoOrphanProbe ==
  \A c \in Circuits : circuit[c].probe \in Requests =>
    c \in request[circuit[c].probe].probes

(* The half-open window of a circuit is probed by one request at a time:   *)
(* however checks, answers and releases of both levels interleave, no two  *)
(* requests that were granted the same circuit are under way in it.  (A    *)
(* failure of a request the window did not check takes the token, whoever  *)
(* holds it.)                                                              *)
OneProbe ==
  \A c \in Circuits : circuit[c].phase = "halfOpen" /\ ~circuit[c].late =>
    Cardinality({r \in Requests : c \in request[r].probes}) <= 1

(* Once failures stop, every circuit admits requests for good, also when   *)
(* the request that took the token never reports.                          *)
Recovers == <>[](\A c \in Circuits : circuit[c].phase \in {"closed", "over"})
=============================================================================
