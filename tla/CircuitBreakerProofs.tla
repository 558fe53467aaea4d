------------------------ MODULE CircuitBreakerProofs ------------------------
(***************************************************************************)
(* The tokens of CircuitBreaker, for any number of models and requests and *)
(* any thresholds: none is forgotten, and a half-open window lets in one   *)
(* request at a time.                                                      *)
(***************************************************************************)
EXTENDS CircuitBreaker, FiniteSetTheorems, TLAPS

CircuitRecord ==
  [phase : {"closed", "open", "halfOpen", "over"}, manual : BOOLEAN,
   late : BOOLEAN, probe : Requests \cup {"none", "lost"}, fails : 0..MostFails]

RequestRecord ==
  [pc : {"idle", "upstream", "model", "giveBack", "sent", "clear", "release",
         "record"},
   left : SUBSET Models, route : Models \cup {"none"}, probes : SUBSET Circuits]

(* The tokens a request can know of at each of its steps. *)
Shape(q) ==
  /\ q.pc = "idle" => q = Idle
  /\ q.pc = "upstream" => q.probes = {}
  /\ q.pc \in {"model", "giveBack"} => q.probes \subseteq {Upstream}
  /\ q.pc \in {"sent", "record", "clear"} => q.probes \subseteq {Upstream, q.route}
  /\ q.pc = "clear" => q.route \in q.probes
  /\ q.pc = "release" => q.probes = {q.route}
  /\ q.pc \notin {"idle", "upstream"} => q.route \in Models

TypeInv == TypeOK /\ \A r \in Requests : Shape(request[r])

(* A request that passed the check of a circuit and has not ended its token. *)
Under(r, c) ==
  IF c = Upstream THEN request[r].pc \notin {"idle", "upstream", "release"}
  ELSE PastCheck(r, c)

(* A request that has ended its upstream token has none there. *)
TokensKnown ==
  /\ NoOrphanProbe
  /\ \A r \in Requests : request[r].pc = "clear" => circuit[Upstream].probe # r

(* In a window that knows every request under way in it, the one under way *)
(* holds the token.                                                        *)
WindowKnown ==
  \A c \in Circuits, r \in Requests :
    circuit[c].phase = "halfOpen" /\ ~circuit[c].late /\ Under(r, c) =>
      circuit[c].probe = r

Inv == TypeInv /\ TokensKnown /\ WindowKnown
-----------------------------------------------------------------------------
(* Types. *)

LEMMA TypeParts ==
  TypeOK <=> /\ cache \in Caches
             /\ circuit \in [Circuits -> CircuitRecord]
             /\ request \in [Requests -> RequestRecord]
             /\ enabled \in BOOLEAN /\ stale \in BOOLEAN
             /\ admin \in {"none", "enabling", "disabling"}
             /\ faults \in 0..MaxFaults
  BY DEF TypeOK, CircuitRecord, RequestRecord

LEMMA Constants ==
  /\ MostFails \in Nat /\ MaxFaults \in Nat
  /\ Upstream \notin Models /\ "none" \notin Requests /\ "lost" \notin Requests
  /\ Closed \in CircuitRecord
  /\ Idle \in RequestRecord /\ Shape(Idle)
<1>1. MostFails \in Nat
  BY BreakerAssumption DEF MostFails
<1>2. Closed \in CircuitRecord
  BY <1>1 DEF Closed, CircuitRecord
<1>3. Idle \in RequestRecord /\ Shape(Idle)
  BY DEF Idle, RequestRecord, Shape
<1>4. QED
  BY <1>1, <1>2, <1>3, BreakerAssumption

LEMMA InitTyped == Init => TypeInv
<1> SUFFICES ASSUME Init PROVE TypeInv
  OBVIOUS
<1>1. circuit \in [Circuits -> CircuitRecord] /\ faults \in 0..MaxFaults
  BY Constants DEF Init
<1>2. request \in [Requests -> RequestRecord] /\ \A r \in Requests : request[r] = Idle
  BY Constants DEF Init
<1>3. TypeOK
  BY <1>1, <1>2, TypeParts DEF Init
<1>4. \A r \in Requests : Shape(request[r])
  BY <1>2, Constants, Zenon
<1>5. QED
  BY <1>3, <1>4 DEF TypeInv

(* What a step makes of one request. *)
LEMMA OneRequest ==
  ASSUME request \in [Requests -> RequestRecord], NEW r \in Requests,
         \A s \in Requests : Shape(request[s]),
         NEW q \in RequestRecord, Shape(q), request' = [request EXCEPT ![r] = q]
  PROVE  request' \in [Requests -> RequestRecord] /\ \A s \in Requests : Shape(request[s])'
  BY DEF Shape

(* Every step leaves circuits of the right type. *)
LEMMA CircuitsTyped ==
  ASSUME TypeInv, [Next]_vars
  PROVE  circuit' \in [Circuits -> CircuitRecord]
<1> USE Constants
<1>1. circuit \in [Circuits -> CircuitRecord] /\ request \in [Requests -> RequestRecord]
  BY TypeParts DEF TypeInv
<1>2. ASSUME circuit' = circuit PROVE circuit' \in [Circuits -> CircuitRecord]
  BY <1>1, <1>2
<1>3. ASSUME NEW r \in Requests, StartResolve(r)
      PROVE  circuit' \in [Circuits -> CircuitRecord]
  <2>1. ASSUME NEW m PROVE PassedBy(m) \in [Circuits -> CircuitRecord]
    BY <1>1 DEF PassedBy, CircuitRecord
  <2>2. circuit' = circuit \/ \E m : circuit' = PassedBy(m)
    BY <1>3, Zenon DEF StartResolve
  <2>3. QED
    BY <1>1, <2>1, <2>2
<1>4. ASSUME NEW r \in Requests, NEW c, CheckCircuit(r, c)
      PROVE  circuit' \in [Circuits -> CircuitRecord]
  BY <1>1, <1>4 DEF CheckCircuit, CircuitRecord
<1>5. ASSUME NEW c, circuit' = Drop(c) PROVE circuit' \in [Circuits -> CircuitRecord]
  BY <1>1, <1>5 DEF Drop, CircuitRecord
<1>6. ASSUME NEW c, circuit' = [circuit EXCEPT ![c] = Closed]
      PROVE  circuit' \in [Circuits -> CircuitRecord]
  BY <1>1, <1>6
<1>7. ASSUME NEW r \in Requests, RecordCircuitFailure(r)
      PROVE  circuit' \in [Circuits -> CircuitRecord]
  <2>1. ASSUME NEW c \in Circuits, NEW trips PROVE Failed(c, trips) \in CircuitRecord
    <3>1. circuit[c] \in CircuitRecord
      BY <1>1
    <3>2. AtMost(circuit[c].fails + 1, MostFails) \in 0..MostFails
      BY <3>1 DEF AtMost, CircuitRecord
    <3>3. QED
      BY <3>1, <3>2 DEF Failed, CircuitRecord
  <2>2. PICK t, u : circuit' = [circuit EXCEPT ![request[r].route] = Failed(request[r].route, t),
                                               ![Upstream] = Failed(Upstream, u)]
    BY <1>7, Zenon DEF RecordCircuitFailure
  <2>3. QED
    BY <1>1, <2>1, <2>2
<1>8. ASSUME NEW r \in Requests, Abandon(r)
      PROVE  circuit' \in [Circuits -> CircuitRecord]
  BY <1>1, <1>8 DEF Abandon, CircuitRecord
<1>9. ASSUME ResetAllCircuitStates PROVE circuit' \in [Circuits -> CircuitRecord]
  BY <1>9 DEF ResetAllCircuitStates
<1>10. ASSUME NEW r \in Requests, Handling(r)
       PROVE  circuit' \in [Circuits -> CircuitRecord]
  BY <1>10, <1>2, <1>3, <1>4, <1>5, <1>6, <1>7, <1>8
     DEF Handling, CheckUpstreamCircuitState, CheckModelCircuitState, ReleaseUpstreamProbe, Refuse,
         MarkRouteSuccess, ClearModelCircuitKeys, ReleaseGrantedRouteProbes, ReleaseModelProbe,
         MarkRouteFailure
<1>11. ASSUME Administering PROVE circuit' \in [Circuits -> CircuitRecord]
  <2>1. ASSUME NEW c \in Circuits, OpenCircuit(c)
        PROVE  circuit' \in [Circuits -> CircuitRecord]
    BY <1>1, <2>1 DEF OpenCircuit, CircuitRecord
  <2>2. QED
    BY <1>11, <1>2, <1>6, <1>9, <2>1
       DEF Administering, ResetCircuit, BeginEnable, FinishEnable, BeginDisable, FinishDisable
<1>12. ASSUME NEW c \in Circuits, Passing(c) PROVE circuit' \in [Circuits -> CircuitRecord]
  <2>1. ASSUME OpeningEnds(c) PROVE circuit' \in [Circuits -> CircuitRecord]
    BY <1>1, <2>1 DEF OpeningEnds, CircuitRecord
  <2>2. ASSUME WindowEnds(c) PROVE circuit' \in [Circuits -> CircuitRecord]
    BY <1>1, <2>2 DEF WindowEnds, CircuitRecord
  <2>3. ASSUME FailureAges(c) PROVE circuit' \in [Circuits -> CircuitRecord]
    BY <1>1, <2>3 DEF FailureAges, CircuitRecord
  <2>4. QED
    BY <1>12, <1>5, <2>1, <2>2, <2>3 DEF Passing, TokenLapses
<1>13. QED
  BY <1>2, <1>10, <1>11, <1>12 DEF Next, vars, DefaultsLapse

(* Every step of a request leaves it knowing the tokens of its next step.  *)
LEMMA RequestStep ==
  ASSUME TypeInv, NEW r \in Requests, Handling(r)
  PROVE  \E q \in RequestRecord : Shape(q) /\ request' = [request EXCEPT ![r] = q]
<1> DEFINE Known == \E q \in RequestRecord : Shape(q) /\ request' = [request EXCEPT ![r] = q]
<1>1. /\ request \in [Requests -> RequestRecord]
      /\ request[r] \in RequestRecord /\ Shape(request[r])
      /\ Upstream \notin Models
  BY TypeParts, Constants DEF TypeInv
<1>2. ASSUME request' = [request EXCEPT ![r] = Idle] PROVE Known
  BY <1>2, Constants
<1>3. ASSUME StartResolve(r) PROVE Known
  BY <1>1, <1>2, <1>3 DEF StartResolve, RequestRecord, Shape, Idle, Circuits
<1>4. ASSUME CheckUpstreamCircuitState(r) PROVE Known
  BY <1>1, <1>2, <1>4 DEF CheckUpstreamCircuitState, RequestRecord, Shape, Idle, Circuits
<1>5. ASSUME CheckModelCircuitState(r) PROVE Known
  <2>1. /\ request[r].pc = "model" /\ request[r].route \in Models
        /\ request[r].probes \subseteq {Upstream}
    BY <1>1, <1>5 DEF CheckModelCircuitState, Shape
  <2> DEFINE m == request[r].route
             granted == {c \in {m} : Granted(c)}
             denied == IF Upstream \in request[r].probes THEN "giveBack" ELSE "upstream"
             Denied(left) == [request EXCEPT ![r].pc = denied, ![r].left = left]
  <2>2. \/ request' = [request EXCEPT ![r].pc = "sent", ![r].left = {},
                                      ![r].probes = @ \cup granted]
        \/ request' = Denied(request[r].left \ {m})
        \/ request' = Denied({})
    BY <1>5, Zenon DEF CheckModelCircuitState
  <2>3. ASSUME request' = [request EXCEPT ![r].pc = "sent", ![r].left = {},
                                          ![r].probes = @ \cup granted]
        PROVE  Known
    <3>1. granted \subseteq {m}
      OBVIOUS
    <3> HIDE DEF granted
    <3>2. QED
      BY <1>1, <2>1, <2>3, <3>1 DEF RequestRecord, Shape, Circuits
  <2>4. ASSUME NEW left \in SUBSET Models, request' = Denied(left) PROVE Known
    <3> DEFINE q == [request[r] EXCEPT !.pc = denied, !.left = left]
    <3>1. request' = [request EXCEPT ![r] = q]
      BY <1>1, <2>4
    <3>2. q \in RequestRecord
      BY <1>1, <2>4 DEF RequestRecord
    <3>3. Shape(q)
      BY <1>1, <2>1, <2>4 DEF RequestRecord, Shape
    <3> HIDE DEF q
    <3>4. QED
      BY <3>1, <3>2, <3>3
  <2>5. request[r].left \ {m} \in SUBSET Models /\ {} \in SUBSET Models
    BY <1>1 DEF RequestRecord
  <2>6. QED
    BY <2>2, <2>3, <2>4, <2>5
<1>6. ASSUME ReleaseUpstreamProbe(r) PROVE Known
  <2> DEFINE q == [request[r] EXCEPT !.pc = "upstream", !.probes = {}]
  <2>1. request' = [request EXCEPT ![r] = q] /\ request[r].pc = "giveBack"
    BY <1>1, <1>6 DEF ReleaseUpstreamProbe
  <2>2. q \in RequestRecord /\ Shape(q)
    BY <1>1 DEF RequestRecord, Shape
  <2>3. QED
    BY <2>1, <2>2
<1>7. ASSUME Refuse(r) PROVE Known
  BY <1>2, <1>7 DEF Refuse
<1>8. ASSUME MarkRouteSuccess(r) PROVE Known
  BY <1>1, <1>2, <1>8 DEF MarkRouteSuccess, Answered, Goto, RequestRecord, Shape, Idle, Circuits
<1>9. ASSUME ClearModelCircuitKeys(r) PROVE Known
  BY <1>1, <1>2, <1>9 DEF ClearModelCircuitKeys, Answered, Goto, RequestRecord, Shape, Idle, Circuits
<1>10. ASSUME ReleaseGrantedRouteProbes(r) PROVE Known
  <2>1. CASE request[r].probes \subseteq {Upstream}
    BY <1>2, <1>10, <2>1 DEF ReleaseGrantedRouteProbes
  <2>2. CASE ~(request[r].probes \subseteq {Upstream})
    <3> DEFINE q == [request[r] EXCEPT !.pc = "release", !.probes = @ \ {Upstream}]
    <3>1. request' = [request EXCEPT ![r] = q]
      BY <1>1, <1>10, <2>2 DEF ReleaseGrantedRouteProbes
    <3>2. /\ request[r].route \in Models /\ request[r].pc = "sent"
          /\ request[r].probes \ {Upstream} = {request[r].route}
      BY <1>1, <1>10, <2>2 DEF ReleaseGrantedRouteProbes, Shape
    <3>3. QED
      BY <1>1, <3>1, <3>2 DEF RequestRecord, Shape, Circuits
  <2>3. QED
    BY <2>1, <2>2
<1>11. ASSUME ReleaseModelProbe(r) PROVE Known
  BY <1>2, <1>11 DEF ReleaseModelProbe
<1>12. ASSUME MarkRouteFailure(r) PROVE Known
  BY <1>1, <1>2, <1>12 DEF MarkRouteFailure, Goto, RequestRecord, Shape, Idle, Circuits
<1>13. ASSUME RecordCircuitFailure(r) PROVE Known
  BY <1>2, <1>13 DEF RecordCircuitFailure
<1>14. ASSUME Abandon(r) PROVE Known
  BY <1>2, <1>14 DEF Abandon
<1>15. QED
  BY <1>3, <1>4, <1>5, <1>6, <1>7, <1>8, <1>9, <1>10, <1>11, <1>12, <1>13, <1>14 DEF Handling

LEMMA StepKeepsType == TypeInv /\ [Next]_vars => TypeInv'
<1> SUFFICES ASSUME TypeInv, [Next]_vars PROVE TypeInv'
  OBVIOUS
<1>1. circuit' \in [Circuits -> CircuitRecord]
  BY CircuitsTyped
<1>2. request' \in [Requests -> RequestRecord] /\ \A r \in Requests : Shape(request[r])'
  <2>1. request' = request \/ \E r \in Requests : Handling(r)
    BY DEF Next, vars, Administering, OpenCircuit, ResetCircuit, BeginEnable, FinishEnable,
           BeginDisable, FinishDisable, Passing, OpeningEnds, WindowEnds, TokenLapses, FailureAges,
           DefaultsLapse
  <2>2. request \in [Requests -> RequestRecord] /\ \A r \in Requests : Shape(request[r])
    BY TypeParts DEF TypeInv
  <2>3. CASE request' = request
    BY <2>2, <2>3 DEF Shape
  <2>4. CASE \E r \in Requests : Handling(r)
    BY <2>2, <2>4, RequestStep, OneRequest
  <2>5. QED
    BY <2>1, <2>3, <2>4
<1>3. /\ cache' = cache
      /\ enabled' \in BOOLEAN /\ stale' \in BOOLEAN
      /\ admin' \in {"none", "enabling", "disabling"}
      /\ faults' \in 0..MaxFaults
  <2>1. /\ cache \in Caches /\ enabled \in BOOLEAN /\ stale \in BOOLEAN
        /\ admin \in {"none", "enabling", "disabling"}
        /\ faults \in 0..MaxFaults
    BY TypeParts DEF TypeInv
  <2>2. ASSUME NEW r \in Requests, Handling(r)
        PROVE  /\ UNCHANGED <<cache, enabled, stale, admin>>
               /\ faults' \in {faults, faults + 1} /\ (faults' # faults => faults < MaxFaults)
    BY <2>2 DEF Handling, StartResolve, CheckUpstreamCircuitState, CheckModelCircuitState,
         ReleaseUpstreamProbe, Refuse, MarkRouteSuccess, ClearModelCircuitKeys,
         ReleaseGrantedRouteProbes, ReleaseModelProbe, MarkRouteFailure, RecordCircuitFailure, Abandon
  <2>3. ASSUME Administering
        PROVE  /\ cache' = cache /\ enabled' \in BOOLEAN /\ stale' \in BOOLEAN
               /\ admin' \in {"none", "enabling", "disabling"}
               /\ faults' \in {faults, faults + 1} /\ (faults' # faults => faults < MaxFaults)
    <3>1. Remote \in BOOLEAN
      BY DEF Remote
    <3>2. ASSUME NEW c \in Circuits, OpenCircuit(c) \/ ResetCircuit(c)
          PROVE  /\ UNCHANGED <<cache, enabled, stale, admin>>
                 /\ faults' \in {faults, faults + 1} /\ (faults' # faults => faults < MaxFaults)
      BY <3>2 DEF OpenCircuit, ResetCircuit
    <3>3. CASE BeginEnable \/ FinishEnable
      BY <2>1, <3>1, <3>3 DEF BeginEnable, FinishEnable
    <3>4. CASE BeginDisable \/ FinishDisable
      BY <2>1, <3>1, <3>4 DEF BeginDisable, FinishDisable
    <3>5. QED
      BY <2>1, <2>3, <3>2, <3>3, <3>4 DEF Administering
  <2>4. ASSUME NEW c \in Circuits, Passing(c)
        PROVE  UNCHANGED <<cache, enabled, stale, admin, faults>>
    BY <2>4 DEF Passing, OpeningEnds, WindowEnds, TokenLapses, FailureAges
  <2>5. MaxFaults \in Nat
    BY Constants
  <2>6. /\ cache' = cache /\ enabled' \in BOOLEAN /\ stale' \in BOOLEAN
        /\ admin' \in {"none", "enabling", "disabling"}
        /\ faults' \in {faults, faults + 1} /\ (faults' # faults => faults < MaxFaults)
    <3>1. CASE (\E r \in Requests : Handling(r)) \/ \E c \in Circuits : Passing(c)
      BY <2>1, <2>2, <2>4, <3>1
    <3>2. CASE DefaultsLapse \/ UNCHANGED vars
      BY <2>1, <3>2 DEF DefaultsLapse, vars
    <3>3. QED
      BY <2>3, <3>1, <3>2 DEF Next
  <2>7. QED
    BY <2>1, <2>5, <2>6
<1>4. TypeOK'
  BY <1>1, <1>2, <1>3, TypeParts DEF TypeOK, TypeInv, CircuitRecord, RequestRecord
<1>5. QED
  BY <1>2, <1>4 DEF TypeInv

(* Spec => []TypeOK: circuits, requests and the setting stay of their      *)
(* types, and the failures of a circuit in the range that is counted.      *)
THEOREM BreakerTypeCorrect == Spec => []TypeOK
<1>1. TypeInv => TypeOK
  BY DEF TypeInv
<1>2. QED
  BY <1>1, InitTyped, StepKeepsType, PTL DEF Spec
-----------------------------------------------------------------------------
(* Tokens. *)

LEMMA InitTokens == Init => TokensKnown
  BY Constants DEF Init, TokensKnown, NoOrphanProbe, Closed, Idle

(* A step is safe for the tokens if it touches those of one request only,  *)
(* and this one knows afterwards of the tokens it has in the cache.        *)
LEMMA TokensKept ==
  ASSUME TypeInv, TokensKnown, NEW r \in Requests,
         \A s \in Requests \ {r} : request'[s] = request[s],
         \A c \in Circuits :
           \/ circuit'[c].probe \notin Requests
           \/ circuit'[c].probe = circuit[c].probe /\ circuit[c].probe # r
           \/ circuit'[c].probe = r /\ c \in request'[r].probes,
         request'[r].pc = "clear" => circuit'[Upstream].probe # r
  PROVE  TokensKnown'
<1>1. NoOrphanProbe'
  BY DEF TokensKnown, NoOrphanProbe
<1>2. ASSUME NEW s \in Requests, request'[s].pc = "clear" PROVE circuit'[Upstream].probe # s
  BY <1>2 DEF TokensKnown, Circuits
<1>3. QED
  BY <1>1, <1>2 DEF TokensKnown

(* What a check does to a circuit: it takes the token of a half-open one.  *)
LEMMA CheckedCircuit ==
  ASSUME circuit \in [Circuits -> CircuitRecord], NEW r \in Requests,
         NEW d \in Circuits, CheckCircuit(r, d), NEW c \in Circuits
  PROVE  /\ c # d => circuit'[c] = circuit[c]
         /\ c = d /\ Granted(d) => circuit'[c] = [circuit[c] EXCEPT !.probe = r]
         /\ c = d /\ ~Granted(d) =>
              /\ circuit'[c].probe \in {"none", circuit[c].probe}
              /\ circuit'[c].phase = "halfOpen" => circuit'[c] = circuit[c]
<1>1. circuit[c] \in CircuitRecord /\ (Granted(d) => circuit[d].phase = "halfOpen")
  BY DEF Granted
<1>2. CASE c # d
  BY <1>2 DEF CheckCircuit
<1>3. CASE c = d /\ Granted(d)
  BY <1>1, <1>3 DEF CheckCircuit
<1>4. CASE c = d /\ ~Granted(d) /\ circuit[d].phase = "over"
  <2>1. circuit'[d] = [circuit[d] EXCEPT !.phase = "closed", !.probe = "none"]
    BY <1>4 DEF CheckCircuit
  <2>2. QED
    BY <1>1, <1>4, <2>1 DEF CircuitRecord
<1>5. CASE c = d /\ ~Granted(d) /\ circuit[d].phase # "over"
  BY <1>5 DEF CheckCircuit
<1>6. QED
  BY <1>2, <1>3, <1>4, <1>5

(* The circuits around a request that takes a route unchecked. *)
LEMMA PassedCircuit ==
  ASSUME circuit \in [Circuits -> CircuitRecord], NEW m \in Models, circuit' = PassedBy(m),
         NEW c \in Circuits
  PROVE  /\ circuit'[c].phase = circuit[c].phase /\ circuit'[c].probe = circuit[c].probe
         /\ c \notin {Upstream, m} => circuit'[c].late = circuit[c].late
         /\ c \in {Upstream, m} /\ circuit'[c].phase = "halfOpen" => circuit'[c].late
  BY DEF PassedBy, CircuitRecord

LEMMA HandlingKeepsTokens ==
  ASSUME TypeInv, TokensKnown, NEW r \in Requests, Handling(r)
  PROVE  TokensKnown'
<1> DEFINE Safe(c) ==
      \/ circuit'[c].probe \notin Requests
      \/ circuit'[c].probe = circuit[c].probe /\ circuit[c].probe # r
      \/ circuit'[c].probe = r /\ c \in request'[r].probes
<1>1. /\ circuit \in [Circuits -> CircuitRecord] /\ request \in [Requests -> RequestRecord]
      /\ request[r] \in RequestRecord /\ Shape(request[r])
      /\ Upstream \notin Models /\ "none" \notin Requests /\ "lost" \notin Requests
  BY TypeParts, Constants DEF TypeInv
<1>2. \A s \in Requests \ {r} : request'[s] = request[s]
  BY <1>1, RequestStep
<1>c. ASSUME request'[r].pc = "clear" PROVE circuit'[Upstream].probe # r
  <2>1. MarkRouteSuccess(r)
    <3>1. Idle.pc # "clear"
      BY DEF Idle
    <3>2. ASSUME CheckUpstreamCircuitState(r) PROVE FALSE
      <4>1. request'[r].pc \in {"upstream", "model"}
        BY <1>1, <3>2 DEF CheckUpstreamCircuitState, RequestRecord
      <4>2. QED
        BY <1>c, <4>1
    <3>3. ~CheckModelCircuitState(r)
      BY <1>1, <1>c DEF CheckModelCircuitState, RequestRecord
    <3>4. ~StartResolve(r)
      BY <1>1, <1>c DEF StartResolve, Idle
    <3>5. ASSUME ReleaseUpstreamProbe(r) \/ MarkRouteFailure(r) PROVE FALSE
      <4>1. \/ request'[r] = [request[r] EXCEPT !.pc = "upstream", !.probes = {}]
            \/ request'[r] = [request[r] EXCEPT !.pc = "record"]
        BY <1>1, <3>5 DEF ReleaseUpstreamProbe, MarkRouteFailure, Goto
      <4>2. QED
        BY <1>1, <1>c, <4>1 DEF RequestRecord
    <3>6. ASSUME ReleaseGrantedRouteProbes(r) PROVE FALSE
      <4>1. request'[r] = Idle \/ request'[r].pc = "release"
        BY <1>1, <3>6 DEF ReleaseGrantedRouteProbes, RequestRecord
      <4>2. QED
        BY <1>c, <3>1, <4>1
    <3>7. ~ClearModelCircuitKeys(r)
      BY <1>1, <1>c, <3>1 DEF ClearModelCircuitKeys, Answered, Goto, RequestRecord
    <3>8. ~Refuse(r) /\ ~ReleaseModelProbe(r) /\ ~RecordCircuitFailure(r) /\ ~Abandon(r)
      BY <1>1, <1>c, <3>1 DEF Refuse, ReleaseModelProbe, RecordCircuitFailure, Abandon
    <3>9. QED
      BY <3>2, <3>3, <3>4, <3>5, <3>6, <3>7, <3>8 DEF Handling
  <2>2. circuit[Upstream].probe = r => Upstream \in request[r].probes
    BY DEF TokensKnown, NoOrphanProbe, Circuits
  <2>3. QED
    BY <1>1, <2>1, <2>2 DEF MarkRouteSuccess, Closed, Circuits
<1> SUFFICES ASSUME NEW c \in Circuits PROVE Safe(c)
  BY <1>2, <1>c, TokensKept
<1>3. /\ circuit[c] \in CircuitRecord
      /\ circuit[c].probe = r => c \in request[r].probes
      /\ request[r].pc = "clear" /\ circuit[c].probe = r => c # Upstream
  BY <1>1 DEF TokensKnown, NoOrphanProbe
<1>4. ASSUME StartResolve(r) PROVE Safe(c)
  <2>1. circuit[c].probe # r
    <3>1. request[r].pc = "idle"
      BY <1>4, Zenon DEF StartResolve
    <3>2. QED
      BY <1>1, <1>3, <3>1 DEF Shape, Idle
  <2>2. circuit' = circuit \/ \E m \in Models : circuit' = PassedBy(m)
    BY <1>4 DEF StartResolve
  <2>3. QED
    BY <1>1, <2>1, <2>2, PassedCircuit
<1>5. ASSUME CheckUpstreamCircuitState(r) PROVE Safe(c)
  <2>1. circuit[c].probe # r
    BY <1>1, <1>3, <1>5 DEF CheckUpstreamCircuitState, Shape
  <2>2. CASE circuit' = circuit
    BY <2>1, <2>2
  <2>3. CASE /\ CheckCircuit(r, Upstream)
             /\ request'[r].probes = {d \in {Upstream} : Granted(d)}
    <3>1. CASE c = Upstream /\ Granted(c)
      <4>1. circuit'[c] = [circuit[c] EXCEPT !.probe = r]
        BY <1>1, <2>3, <3>1, CheckedCircuit
      <4>2. QED
        BY <1>3, <2>3, <3>1, <4>1 DEF CircuitRecord
    <3>2. CASE ~(c = Upstream /\ Granted(c))
      BY <1>1, <2>1, <2>3, <3>2, CheckedCircuit DEF Circuits
    <3>3. QED
      BY <3>1, <3>2
  <2>4. QED
    BY <1>1, <1>5, <2>2, <2>3 DEF CheckUpstreamCircuitState, RequestRecord
<1>6. ASSUME CheckModelCircuitState(r) PROVE Safe(c)
  <2> DEFINE m == request[r].route
  <2>1. m \in Models /\ m \in Circuits
    BY <1>1, <1>6 DEF CheckModelCircuitState, Shape, Circuits
  <2>2. ASSUME circuit' = circuit, request'[r].probes = request[r].probes PROVE Safe(c)
    BY <1>3, <2>2
  <2>3. ASSUME CheckCircuit(r, m),
               request'[r].probes = request[r].probes \cup {d \in {m} : Granted(d)}
        PROVE  Safe(c)
    <3>1. CASE c = m /\ Granted(c)
      <4>1. circuit'[c] = [circuit[c] EXCEPT !.probe = r]
        BY <1>1, <2>1, <2>3, <3>1, CheckedCircuit
      <4>2. QED
        BY <1>3, <2>3, <3>1, <4>1 DEF CircuitRecord
    <3>2. CASE ~(c = m /\ Granted(c))
      <4>1. circuit'[c].probe \in {"none", circuit[c].probe}
        BY <1>1, <2>1, <2>3, <3>2, CheckedCircuit
      <4>2. QED
        BY <1>1, <1>3, <2>3, <4>1
    <3>3. QED
      BY <3>1, <3>2
  <2>4. QED
    BY <1>1, <1>6, <2>2, <2>3 DEF CheckModelCircuitState, RequestRecord
<1>7. ASSUME ReleaseUpstreamProbe(r) PROVE Safe(c)
  BY <1>1, <1>3, <1>7 DEF ReleaseUpstreamProbe, Drop, CircuitRecord, RequestRecord, Shape, Idle, Circuits
<1>8. ASSUME Refuse(r) PROVE Safe(c)
  BY <1>1, <1>3, <1>8 DEF Refuse, CircuitRecord, RequestRecord, Shape, Idle, Circuits
<1>9. ASSUME MarkRouteSuccess(r) PROVE Safe(c)
  BY <1>1, <1>3, <1>9, SMTT(30) DEF MarkRouteSuccess, Answered, Goto, Closed, CircuitRecord, RequestRecord, Shape, Idle, Circuits
<1>10. ASSUME ClearModelCircuitKeys(r) PROVE Safe(c)
  <2>1. /\ request[r].route \in Circuits
        /\ circuit' = [circuit EXCEPT ![request[r].route] = Closed]
        /\ request'[r] = Idle \/ request'[r].probes = request[r].probes
    BY <1>1, <1>10 DEF ClearModelCircuitKeys, Answered, Goto, Shape, Circuits, RequestRecord
  <2>2. c # request[r].route => circuit[c].probe # r
    BY <1>1, <1>3, <1>10 DEF ClearModelCircuitKeys, Shape
  <2>3. QED
    BY <1>1, <2>1, <2>2 DEF Closed
<1>11. ASSUME ReleaseGrantedRouteProbes(r) PROVE Safe(c)
  BY <1>1, <1>3, <1>11 DEF ReleaseGrantedRouteProbes, Drop, CircuitRecord, RequestRecord, Shape, Idle, Circuits
<1>12. ASSUME ReleaseModelProbe(r) PROVE Safe(c)
  BY <1>1, <1>3, <1>12 DEF ReleaseModelProbe, Drop, CircuitRecord, RequestRecord, Shape, Idle, Circuits
<1>13. ASSUME MarkRouteFailure(r) PROVE Safe(c)
  BY <1>1, <1>3, <1>13 DEF MarkRouteFailure, Goto, CircuitRecord, RequestRecord, Shape, Idle, Circuits
<1>14. ASSUME RecordCircuitFailure(r) PROVE Safe(c)
  BY <1>1, <1>3, <1>14 DEF RecordCircuitFailure, Failed, CircuitRecord, RequestRecord, Shape, Idle, Circuits
<1>15. ASSUME Abandon(r) PROVE Safe(c)
  BY <1>1, <1>3, <1>15 DEF Abandon, CircuitRecord, RequestRecord, Shape, Idle, Circuits
<1>16. QED
  BY <1>4, <1>5, <1>6, <1>7, <1>8, <1>9, <1>10, <1>11, <1>12, <1>13, <1>14, <1>15 DEF Handling

(* What a step may do to a circuit that other requests are under way in. *)
SameWindow(c) ==
  /\ circuit'[c].phase = circuit[c].phase /\ circuit'[c].late = circuit[c].late
  /\ circuit'[c].probe = circuit[c].probe

NoWindow(c) == circuit'[c].phase # "halfOpen" \/ circuit'[c].late

TakesToken(r, c) ==
  /\ circuit[c].phase = "halfOpen" /\ circuit[c].probe = "none"
  /\ circuit'[c].probe = r /\ circuit'[c].late = circuit[c].late

EndsToken(r, c) ==
  /\ Under(r, c) \/ circuit[c].probe = r
  /\ ~Under(r, c)'
  /\ circuit'[c].phase = circuit[c].phase /\ circuit'[c].late = circuit[c].late

LEMMA WindowsKept ==
  ASSUME TypeInv, WindowKnown, NEW r \in Requests,
         \A s \in Requests \ {r} : request'[s] = request[s],
         \A c \in Circuits :
           \/ SameWindow(c) /\ (Under(r, c)' => Under(r, c))
           \/ NoWindow(c) \/ TakesToken(r, c) \/ EndsToken(r, c)
  PROVE  WindowKnown'
<1> SUFFICES ASSUME NEW c \in Circuits, NEW s \in Requests,
                    circuit'[c].phase = "halfOpen", ~circuit'[c].late, Under(s, c)'
             PROVE  circuit'[c].probe = s
  BY DEF WindowKnown
<1>1. "none" \notin Requests
  BY Constants
<1>2. \A t \in Requests : circuit[c].phase = "halfOpen" /\ ~circuit[c].late /\ Under(t, c) =>
        circuit[c].probe = t
  BY DEF WindowKnown
<1>3. s # r => Under(s, c)
  BY DEF Under, PastCheck
<1>4. CASE SameWindow(c) /\ (Under(r, c)' => Under(r, c))
  BY <1>2, <1>3, <1>4 DEF SameWindow
<1>5. CASE TakesToken(r, c)
  BY <1>1, <1>2, <1>3, <1>5 DEF TakesToken
<1>6. CASE EndsToken(r, c)
  BY <1>2, <1>3, <1>6 DEF EndsToken
<1>7. QED
  BY <1>4, <1>5, <1>6 DEF NoWindow

LEMMA HandlingKeepsWindows ==
  ASSUME TypeInv, WindowKnown, NEW r \in Requests, Handling(r)
  PROVE  WindowKnown'
<1> DEFINE Safe(c) ==
      \/ SameWindow(c) /\ (Under(r, c)' => Under(r, c))
      \/ NoWindow(c) \/ TakesToken(r, c) \/ EndsToken(r, c)
<1>1. /\ circuit \in [Circuits -> CircuitRecord] /\ request \in [Requests -> RequestRecord]
      /\ request[r] \in RequestRecord /\ Shape(request[r])
      /\ Upstream \notin Models
  BY TypeParts, Constants DEF TypeInv
<1>2. \A s \in Requests \ {r} : request'[s] = request[s]
  BY <1>1, RequestStep
<1> SUFFICES ASSUME NEW c \in Circuits PROVE Safe(c)
  BY <1>2, WindowsKept
<1>3. circuit[c] \in CircuitRecord
  BY <1>1
<1>4. request'[r] = Idle => ~Under(r, c)'
  BY DEF Under, PastCheck, Idle
<1>5. circuit' = circuit => SameWindow(c)
  BY DEF SameWindow
<1>6. ASSUME StartResolve(r) PROVE Safe(c)
  <2>1. \/ circuit' = circuit /\ request'[r].pc = "upstream"
        \/ \E m \in Models :
             /\ circuit' = PassedBy(m)
             /\ request'[r].pc = "sent" /\ request'[r].route = m
    BY <1>1, <1>6 DEF StartResolve, Idle
  <2>2. CASE circuit' = circuit /\ request'[r].pc = "upstream"
    BY <1>5, <2>2 DEF Under, PastCheck
  <2>3. ASSUME NEW m \in Models, circuit' = PassedBy(m), request'[r].route = m PROVE Safe(c)
    <3>1. CASE c \in {Upstream, m}
      BY <1>1, <2>3, <3>1, PassedCircuit DEF NoWindow
    <3>2. CASE c \notin {Upstream, m}
      BY <1>1, <2>3, <3>2, PassedCircuit DEF SameWindow, Under, PastCheck
    <3>3. QED
      BY <3>1, <3>2
  <2>4. QED
    BY <2>1, <2>2, <2>3
<1>7. ASSUME NEW d \in Circuits, Allowed(d), CheckCircuit(r, d),
             c = d \/ (Under(r, c)' => Under(r, c))
      PROVE  Safe(c)
  <2>1. CASE c # d
    <3>1. circuit'[c] = circuit[c]
      BY <1>1, <1>7, <2>1 DEF CheckCircuit
    <3>2. QED
      BY <1>7, <2>1, <3>1 DEF SameWindow
  <2>2. CASE c = d /\ Granted(d)
    <3>1. circuit'[c] = [circuit[c] EXCEPT !.probe = r]
      BY <1>1, <1>7, <2>2, CheckedCircuit
    <3>2. circuit[c].phase = "halfOpen" /\ circuit[c].probe = "none"
      BY <2>2 DEF Granted, Allowed
    <3>3. QED
      BY <1>3, <3>1, <3>2 DEF TakesToken, CircuitRecord
  <2>3. CASE c = d /\ ~Granted(d)
    <3>1. circuit'[c].phase = "halfOpen" => circuit'[c] = circuit[c]
      BY <1>1, <1>7, <2>3, CheckedCircuit
    <3>2. circuit[c].phase # "halfOpen"
      BY <1>7, <2>3 DEF Granted
    <3>3. QED
      BY <3>1, <3>2 DEF NoWindow
  <2>4. QED
    BY <2>1, <2>2, <2>3
<1>8. ASSUME CheckUpstreamCircuitState(r) PROVE Safe(c)
  <2>1. \/ circuit' = circuit /\ request'[r].pc = "upstream"
        \/ Allowed(Upstream) /\ CheckCircuit(r, Upstream)
    BY <1>1, <1>8 DEF CheckUpstreamCircuitState, RequestRecord
  <2>2. request'[r].pc \in {"upstream", "model"} /\ request[r].pc = "upstream"
    BY <1>1, <1>8 DEF CheckUpstreamCircuitState, RequestRecord
  <2>3. request'[r].pc = "upstream" => ~Under(r, c)'
    BY DEF Under, PastCheck
  <2>4. c = Upstream \/ ~Under(r, c)'
    BY <2>2 DEF Under, PastCheck
  <2>5. Upstream \in Circuits
    BY DEF Circuits
  <2>6. QED
    BY <1>5, <1>7, <2>1, <2>3, <2>4, <2>5
<1>9. ASSUME CheckModelCircuitState(r) PROVE Safe(c)
  <2> DEFINE m == request[r].route
  <2>1. m \in Models /\ m \in Circuits /\ request[r].pc = "model"
    BY <1>1, <1>9 DEF CheckModelCircuitState, Shape, Circuits
  <2>2. \/ circuit' = circuit /\ request'[r].pc \in {"giveBack", "upstream"}
        \/ Allowed(m) /\ CheckCircuit(r, m)
    BY <1>1, <1>9 DEF CheckModelCircuitState, RequestRecord
  <2>3. request'[r].route = m
    BY <1>1, <1>9 DEF CheckModelCircuitState, RequestRecord
  <2>4. c = m \/ (Under(r, c)' => Under(r, c))
    BY <2>1, <2>3 DEF Under, PastCheck
  <2>5. request'[r].pc \in {"giveBack", "upstream"} => (Under(r, c)' => Under(r, c))
    BY <2>1 DEF Under, PastCheck
  <2>6. QED
    BY <1>5, <1>7, <2>1, <2>2, <2>4, <2>5
<1>10. ASSUME ReleaseUpstreamProbe(r) PROVE Safe(c)
  <2>1. request'[r].pc = "upstream"
    <3>1. request'[r] = [request[r] EXCEPT !.pc = "upstream", !.probes = {}]
      BY <1>1, <1>10 DEF ReleaseUpstreamProbe
    <3>2. QED
      BY <1>1, <3>1 DEF RequestRecord
  <2>2. CASE c = Upstream
    BY <1>1, <1>10, <2>1, <2>2 DEF ReleaseUpstreamProbe, Drop, EndsToken, Under, CircuitRecord
  <2>3. CASE c # Upstream
    BY <1>1, <1>10, <2>1, <2>3 DEF ReleaseUpstreamProbe, Drop, SameWindow, Under, PastCheck
  <2>4. QED
    BY <2>2, <2>3
<1>11. ASSUME Refuse(r) PROVE Safe(c)
  BY <1>1, <1>4, <1>5, <1>11 DEF Refuse
<1>12. ASSUME circuit' = [circuit EXCEPT ![c] = Closed] PROVE NoWindow(c)
  BY <1>1, <1>12 DEF NoWindow, Closed
<1>13. ASSUME MarkRouteSuccess(r) PROVE Safe(c)
  <2>1. request'[r] = Idle \/ request'[r] = [request[r] EXCEPT !.pc = "clear"]
        \/ request'[r] = [request[r] EXCEPT !.pc = "sent"]
    BY <1>1, <1>13 DEF MarkRouteSuccess, Answered, Goto
  <2>2. Under(r, c)' => Under(r, c)
    BY <1>1, <1>4, <1>13, <2>1 DEF MarkRouteSuccess, Under, PastCheck, RequestRecord
  <2>3. circuit' = circuit \/ circuit' = [circuit EXCEPT ![Upstream] = Closed]
    BY <1>13 DEF MarkRouteSuccess
  <2>4. c # Upstream => SameWindow(c)
    BY <1>1, <2>3 DEF SameWindow
  <2>5. QED
    BY <1>5, <1>12, <2>2, <2>3, <2>4
<1>14. ASSUME ClearModelCircuitKeys(r) PROVE Safe(c)
  <2>1. request'[r] = Idle \/ request'[r] = [request[r] EXCEPT !.pc = "sent"]
    BY <1>1, <1>14 DEF ClearModelCircuitKeys, Answered, Goto
  <2>2. Under(r, c)' => Under(r, c)
    BY <1>1, <1>4, <1>14, <2>1 DEF ClearModelCircuitKeys, Under, PastCheck, RequestRecord
  <2>3. circuit' = [circuit EXCEPT ![request[r].route] = Closed]
    BY <1>14 DEF ClearModelCircuitKeys
  <2>4. c # request[r].route => SameWindow(c)
    BY <1>1, <2>3 DEF SameWindow
  <2>5. QED
    BY <1>12, <2>2, <2>3, <2>4
<1>15. ASSUME ReleaseGrantedRouteProbes(r) PROVE Safe(c)
  <2>1. request'[r] = Idle
        \/ request'[r] = [request[r] EXCEPT !.pc = "release", !.probes = @ \ {Upstream}]
    BY <1>1, <1>15 DEF ReleaseGrantedRouteProbes
  <2>2. request[r].pc = "sent" /\ (circuit' = circuit \/ circuit' = Drop(Upstream))
    BY <1>15 DEF ReleaseGrantedRouteProbes
  <2>3. CASE c = Upstream
    <3>1. ~Under(r, c)' /\ Under(r, c)
      BY <1>1, <1>4, <2>1, <2>2, <2>3 DEF Under, RequestRecord
    <3>2. circuit'[c].phase = circuit[c].phase /\ circuit'[c].late = circuit[c].late
      BY <1>1, <2>2, <2>3 DEF Drop, CircuitRecord
    <3>3. QED
      BY <3>1, <3>2 DEF EndsToken
  <2>4. CASE c # Upstream
    BY <1>1, <1>4, <2>1, <2>2, <2>4 DEF Drop, SameWindow, Under, PastCheck, RequestRecord
  <2>5. QED
    BY <2>3, <2>4
<1>16. ASSUME ReleaseModelProbe(r) PROVE Safe(c)
  <2>1. ~Under(r, c)' /\ request[r].pc = "release" /\ circuit' = Drop(request[r].route)
    BY <1>1, <1>4, <1>16 DEF ReleaseModelProbe
  <2>2. CASE c = request[r].route
    <3>1. Under(r, c)
      BY <1>1, <2>1, <2>2 DEF Under, PastCheck, Shape
    <3>2. circuit'[c].phase = circuit[c].phase /\ circuit'[c].late = circuit[c].late
      BY <1>1, <2>1, <2>2 DEF Drop, CircuitRecord
    <3>3. QED
      BY <2>1, <3>1, <3>2 DEF EndsToken
  <2>3. CASE c # request[r].route
    BY <1>1, <2>1, <2>3 DEF Drop, SameWindow
  <2>4. QED
    BY <2>2, <2>3
<1>17. ASSUME MarkRouteFailure(r) PROVE Safe(c)
  <2>1. request[r].pc = "sent" /\ request'[r] = [request[r] EXCEPT !.pc = "record"]
    BY <1>1, <1>17 DEF MarkRouteFailure, Goto
  <2>2. Under(r, c)' => Under(r, c)
    BY <1>1, <2>1 DEF Under, PastCheck, RequestRecord
  <2>3. QED
    BY <1>5, <1>17, <2>2 DEF MarkRouteFailure
<1>18. ASSUME RecordCircuitFailure(r) PROVE Safe(c)
  <2> DEFINE m == request[r].route
  <2>1. request[r].pc = "record" /\ m \in Models /\ request'[r] = Idle
    BY <1>1, <1>18 DEF RecordCircuitFailure, Shape
  <2>2. PICK t, u : circuit' = [circuit EXCEPT ![m] = Failed(m, t),
                                               ![Upstream] = Failed(Upstream, u)]
    BY <1>18, Zenon DEF RecordCircuitFailure
  <2>3. ASSUME c \in {Upstream, m}, NEW v, circuit'[c] = Failed(c, v)
        PROVE  NoWindow(c) \/ EndsToken(r, c)
    <3>1. Under(r, c) /\ ~Under(r, c)'
      BY <1>1, <1>4, <2>1, <2>3 DEF Under, PastCheck
    <3>2. CASE v
      BY <1>3, <2>3, <3>2 DEF Failed, NoWindow, CircuitRecord
    <3>3. CASE ~v
      BY <1>3, <2>3, <3>1, <3>3 DEF Failed, EndsToken, CircuitRecord
    <3>4. QED
      BY <3>2, <3>3
  <2>4. CASE c \in {Upstream, m}
    BY <1>1, <2>1, <2>2, <2>3, <2>4
  <2>5. CASE c \notin {Upstream, m}
    BY <1>1, <1>4, <2>1, <2>2, <2>5 DEF SameWindow
  <2>6. QED
    BY <2>4, <2>5
<1>19. ASSUME Abandon(r) PROVE Safe(c)
  <2>1. request'[r] = Idle
    BY <1>1, <1>19 DEF Abandon
  <2>2. circuit'[c] = IF circuit[c].probe = r THEN [circuit[c] EXCEPT !.probe = "lost"]
                      ELSE circuit[c]
    BY <1>19 DEF Abandon
  <2>3. QED
    BY <1>3, <1>4, <2>1, <2>2 DEF SameWindow, EndsToken, CircuitRecord
<1>20. QED
  BY <1>6, <1>8, <1>9, <1>10, <1>11, <1>13, <1>14, <1>15, <1>16, <1>17, <1>18, <1>19 DEF Handling

(* The administrator and the passing of time end windows and take tokens;  *)
(* a window that begins knows who is under way.                            *)
LEMMA OthersDisturb ==
  ASSUME TypeInv, Administering \/ (\E d \in Circuits : Passing(d)) \/ DefaultsLapse
                  \/ UNCHANGED vars,
         NEW c \in Circuits
  PROVE  /\ request' = request
         /\ circuit'[c].probe \in {"none", circuit[c].probe}
         /\ NoWindow(c) \/ SameWindow(c) \/ \A s \in Requests : ~Under(s, c)
<1> DEFINE Disturbed == /\ circuit'[c].probe \in {"none", circuit[c].probe}
                        /\ NoWindow(c) \/ SameWindow(c) \/ \A s \in Requests : ~Under(s, c)
<1>1. circuit \in [Circuits -> CircuitRecord] /\ circuit[c] \in CircuitRecord
  BY TypeParts DEF TypeInv
<1>2. request' = request
  BY DEF vars, Administering, OpenCircuit, ResetCircuit, BeginEnable, FinishEnable, BeginDisable,
         FinishDisable, Passing, OpeningEnds, WindowEnds, TokenLapses, FailureAges, DefaultsLapse
<1>3. ASSUME circuit'[c] = circuit[c] PROVE Disturbed
  BY <1>3 DEF SameWindow
<1>4. ASSUME circuit'[c] = Closed PROVE Disturbed
  BY <1>4 DEF Closed, NoWindow
<1>5. ASSUME Administering PROVE Disturbed
  <2>1. ASSUME NEW d \in Circuits, OpenCircuit(d) PROVE Disturbed
    BY <1>1, <1>3, <2>1 DEF OpenCircuit, NoWindow, CircuitRecord
  <2>2. ASSUME NEW d \in Circuits, ResetCircuit(d) PROVE Disturbed
    BY <1>1, <1>3, <1>4, <2>2 DEF ResetCircuit
  <2>3. ASSUME ResetAllCircuitStates \/ circuit' = circuit PROVE Disturbed
    BY <1>3, <1>4, <2>3 DEF ResetAllCircuitStates
  <2>4. QED
    BY <1>5, <2>1, <2>2, <2>3
       DEF Administering, BeginEnable, FinishEnable, BeginDisable, FinishDisable
<1>6. ASSUME NEW d \in Circuits, Passing(d) PROVE Disturbed
  <2>1. CASE c # d
    BY <1>1, <1>3, <1>6, <2>1 DEF Passing, OpeningEnds, WindowEnds, TokenLapses, FailureAges, Drop
  <2>2. CASE c = d /\ OpeningEnds(d)
    <3>1. CASE circuit[c].manual
      BY <1>1, <2>2, <3>1 DEF OpeningEnds, NoWindow, CircuitRecord
    <3>2. CASE ~circuit[c].manual
      <4>1. /\ circuit'[c].probe = "none"
            /\ circuit'[c].late <=> \E r \in Requests : PastCheck(r, c)
        BY <1>1, <2>2, <3>2 DEF OpeningEnds, CircuitRecord
      <4>2. QED
        BY <4>1 DEF NoWindow, Under, PastCheck
    <3>3. QED
      BY <3>1, <3>2
  <2>3. CASE c = d /\ WindowEnds(d)
    BY <1>1, <2>3 DEF WindowEnds, NoWindow, CircuitRecord
  <2>4. CASE c = d /\ TokenLapses(d)
    BY <1>1, <2>4 DEF TokenLapses, Drop, NoWindow, CircuitRecord
  <2>5. CASE c = d /\ FailureAges(d)
    BY <1>1, <2>5 DEF FailureAges, SameWindow, CircuitRecord
  <2>6. QED
    BY <1>6, <2>1, <2>2, <2>3, <2>4, <2>5 DEF Passing
<1>7. ASSUME DefaultsLapse \/ UNCHANGED vars PROVE Disturbed
  BY <1>3, <1>7 DEF DefaultsLapse, vars
<1>8. QED
  BY <1>2, <1>5, <1>6, <1>7

LEMMA StepKeepsTokens == TypeInv /\ TokensKnown /\ [Next]_vars => TokensKnown'
<1> SUFFICES ASSUME TypeInv, TokensKnown, [Next]_vars PROVE TokensKnown'
  OBVIOUS
<1>1. CASE \E r \in Requests : Handling(r)
  BY <1>1, HandlingKeepsTokens
<1>2. CASE ~\E r \in Requests : Handling(r)
  <2>1. request' = request /\ \A c \in Circuits : circuit'[c].probe \in {"none", circuit[c].probe}
    BY <1>2, OthersDisturb DEF Next, Circuits
  <2>2. "none" \notin Requests /\ Upstream \in Circuits
    BY Constants DEF Circuits
  <2>3. QED
    BY <2>1, <2>2 DEF TokensKnown, NoOrphanProbe
<1>3. QED
  BY <1>1, <1>2

LEMMA StepKeepsWindows == TypeInv /\ WindowKnown /\ [Next]_vars => WindowKnown'
<1> SUFFICES ASSUME TypeInv, WindowKnown, [Next]_vars PROVE WindowKnown'
  OBVIOUS
<1>1. CASE \E r \in Requests : Handling(r)
  BY <1>1, HandlingKeepsWindows
<1>2. CASE ~\E r \in Requests : Handling(r)
  <2> SUFFICES ASSUME NEW c \in Circuits, NEW r \in Requests,
                      circuit'[c].phase = "halfOpen", ~circuit'[c].late, Under(r, c)'
               PROVE  circuit'[c].probe = r
    BY DEF WindowKnown
  <2>1. request' = request /\ (SameWindow(c) \/ \A s \in Requests : ~Under(s, c))
    BY <1>2, OthersDisturb DEF Next, NoWindow
  <2>2. Under(r, c)
    BY <2>1 DEF Under, PastCheck
  <2>3. QED
    BY <2>1, <2>2 DEF SameWindow, WindowKnown
<1>3. QED
  BY <1>1, <1>2

LEMMA Invariance == Spec => []Inv
<1>1. Init => Inv
  BY InitTyped, InitTokens, Constants DEF Init, Inv, WindowKnown, Closed
<1>2. Inv /\ [Next]_vars => Inv'
  BY StepKeepsType, StepKeepsTokens, StepKeepsWindows DEF Inv
<1>3. QED
  BY <1>1, <1>2, PTL DEF Spec

(* A token in the cache belongs to a request that still knows of it and    *)
(* will end it, whatever way ResolveRoute and the Mark handlers go.        *)
THEOREM NoTokenForgotten == Spec => []NoOrphanProbe
<1>1. Inv => NoOrphanProbe
  BY DEF Inv, TokensKnown
<1>2. QED
  BY <1>1, Invariance, PTL

(* No two requests granted the same circuit are under way in a half-open   *)
(* window, except those the window has not checked.                        *)
THEOREM WindowProbedByOne == Spec => []OneProbe
<1>1. Inv => OneProbe
  <2> SUFFICES ASSUME Inv, NEW c \in Circuits, circuit[c].phase = "halfOpen", ~circuit[c].late
               PROVE  Cardinality({r \in Requests : c \in request[r].probes}) <= 1
    BY DEF OneProbe
  <2> DEFINE Probing == {r \in Requests : c \in request[r].probes}
  <2>1. ASSUME NEW r \in Requests, c \in request[r].probes PROVE Under(r, c)
    <3>1. request[r] \in RequestRecord /\ Shape(request[r]) /\ Upstream \notin Models
      BY TypeParts, Constants DEF Inv, TypeInv
    <3>2. QED
      BY <2>1, <3>1 DEF Under, PastCheck, Shape, Idle, RequestRecord
  <2>2. Probing \subseteq {circuit[c].probe}
    BY <2>1 DEF Inv, WindowKnown
  <2>3. IsFiniteSet({circuit[c].probe}) /\ Cardinality({circuit[c].probe}) = 1
    BY FS_Singleton
  <2>4. Cardinality(Probing) <= Cardinality({circuit[c].probe})
    BY <2>2, <2>3, FS_Subset
  <2>5. QED
    BY <2>3, <2>4
<1>2. QED
  BY <1>1, Invariance, PTL
=============================================================================
