---------------------------- MODULE RuntimeStatus ----------------------------
(***************************************************************************)
(* What the daemon believes about the call: refresh_runtime_status and its *)
(* two callers that act on the result, status and create_audio_session     *)
(* (crates/analogconnectd/src/lib.rs), the WirePlumber snapshot (hfp.rs),  *)
(* the PipeWire node snapshot and ScoTeardownWatchdog (audio.rs).          *)
(*                                                                         *)
(* A refresh asks three helpers one after the other (calls, each call's    *)
(* state, the gateway transport; then the PipeWire nodes) while the phone  *)
(* goes on, and only then takes the status lock and writes.  Refreshes of  *)
(* different requests overlap and may be applied in any order.             *)
(*                                                                         *)
(* Time is kept as the age of the watchdog's inconsistent_since, counted   *)
(* up to GracePeriod, so that no bound on the clock is needed.             *)
(***************************************************************************)
EXTENDS Integers

CONSTANTS
  Calls,        \* call objects the phone can have at once
  Requests,     \* requests that refresh the status
  PhoneStates,  \* bound: the states calls go through in an instance
  GracePeriod,  \* grace_period of the watchdog (10 s), in clock ticks
  None          \* inconsistent_since is None

LiveCallState == {"incoming", "dialing", "alerting", "active", "held", "disconnected"}

ASSUME RuntimeStatusAssumption ==
  /\ PhoneStates \subseteq LiveCallState
  /\ GracePeriod \in Nat
  /\ None \notin 0..GracePeriod

VARIABLES
  gateway, callState, transport, nodes,  \* the phone and PipeWire (external)
  hfp_control, call, audio, last_error,  \* SystemStatus
  inconsistent_since,                    \* its age, or None
  pc,            \* per request: where it is
  todo, seen,    \* per request: calls still to ask, states read so far
  hfp,           \* per request: call state of the HFP snapshot, or its error
  hfp_transport, \* per request: transport of the HFP snapshot
  node_state,    \* per request: the PipeWire snapshot
  quiet          \* history: age of the last refresh applied with call and audio
                 \* in agreement, counted up to GracePeriod

phoneVars   == <<gateway, callState, transport, nodes>>
statusVars  == <<hfp_control, call, audio, last_error, inconsistent_since, quiet>>
requestVars == <<pc, todo, seen, hfp, hfp_transport, node_state>>
runtimeVars == <<phoneVars, statusVars, requestVars>>

CallState     == {"idle", "incoming", "outgoing", "active", "held", "ended", "error"}
AudioState    == {"inactive", "sco_active", "sco_tearing_down", "error"}

-----------------------------------------------------------------------------
StatusInit ==
  /\ gateway = FALSE /\ transport = "inactive" /\ nodes = "absent"
  /\ callState = [k \in Calls |-> "gone"]
  /\ hfp_control = "disconnected" /\ call = "idle" /\ audio = "inactive" /\ last_error = "none"
  /\ inconsistent_since = None
  /\ quiet = 0
  /\ pc = [r \in Requests |-> "idle"]
  /\ todo = [r \in Requests |-> {}]
  /\ seen = [r \in Requests |-> {}]
  /\ hfp = [r \in Requests |-> "idle"]
  /\ hfp_transport = [r \in Requests |-> "inactive"]
  /\ node_state = [r \in Requests |-> "inactive"]

Older(age) == IF age < GracePeriod THEN age + 1 ELSE age

\* The monotonic clock advances.
ClockTick ==
  /\ inconsistent_since' =
       IF inconsistent_since = None THEN None ELSE Older(inconsistent_since)
  /\ quiet' = Older(quiet)
  /\ UNCHANGED <<phoneVars, hfp_control, call, audio, last_error, requestVars>>

-----------------------------------------------------------------------------
(* The phone and PipeWire (external): the states hfp.rs can be told.       *)

CallChanges(k) ==
  /\ gateway
  /\ callState' \in {[callState EXCEPT ![k] = s] : s \in (PhoneStates \cup {"gone"}) \ {callState[k]}}
  /\ UNCHANGED <<gateway, transport, nodes, statusVars, requestVars>>

\* The HFP link comes up, or goes down with all calls.
GatewayChanges ==
  /\ gateway' = ~gateway
  /\ callState' = [k \in Calls |-> "gone"]
  /\ transport' = "inactive"
  /\ UNCHANGED <<nodes, statusVars, requestVars>>

\* The SCO transport starts or stops, or the SCO nodes come and go.
ScoChanges ==
  /\ \/ /\ gateway
        /\ transport' = IF transport = "inactive" THEN "sco_active" ELSE "inactive"
        /\ UNCHANGED nodes
     \/ /\ nodes' = IF nodes = "absent" THEN "pair" ELSE "absent"
        /\ UNCHANGED transport
  /\ UNCHANGED <<gateway, callState, statusVars, requestVars>>

-----------------------------------------------------------------------------
(* refresh_runtime_status, for one request.                                *)

\* aggregate_call_state: fixed precedence among the states of all calls.
AggregateCallState(states) ==
  CASE "active" \in states                         -> "active"
    [] "incoming" \in states                       -> "incoming"
    [] states \cap {"dialing", "alerting"} # {}    -> "outgoing"
    [] "held" \in states                           -> "held"
    [] "disconnected" \in states                   -> "ended"
    [] OTHER                                       -> "idle"

\* The HFP snapshot ends with an error: Unavailable, or anything else.
HfpFails(r, outcome) ==
  /\ hfp' = [hfp EXCEPT ![r] = outcome]
  /\ hfp_transport' = [hfp_transport EXCEPT
                         ![r] = IF outcome = "unavailable" THEN "inactive" ELSE "error"]
  /\ pc' = [pc EXCEPT ![r] = "nodes"]

\* WirePlumberBackend::paths: GetManagedObjects and GetCalls.
ListCalls(r) ==
  /\ pc[r] = "idle"
  /\ seen' = [seen EXCEPT ![r] = {}]
  /\ \/ /\ gateway
        /\ todo' = [todo EXCEPT ![r] = {k \in Calls : callState[k] # "gone"}]
        /\ pc' = [pc EXCEPT ![r] = "calls"]
        /\ UNCHANGED <<hfp, hfp_transport>>
     \/ /\ ~gateway
        /\ todo' = [todo EXCEPT ![r] = {}]
        /\ HfpFails(r, "unavailable")
  /\ UNCHANGED <<phoneVars, statusVars, node_state>>

\* call_state of one listed call; an object that is gone is Unavailable.
ReadCall(r, k) ==
  /\ pc[r] = "calls" /\ k \in todo[r]
  /\ \/ /\ callState[k] # "gone"
        /\ todo' = [todo EXCEPT ![r] = @ \ {k}]
        /\ seen' = [seen EXCEPT ![r] = @ \cup {callState[k]}]
        /\ UNCHANGED <<pc, hfp, hfp_transport>>
     \/ /\ callState[k] = "gone"
        /\ todo' = [todo EXCEPT ![r] = {}]
        /\ seen' = [seen EXCEPT ![r] = {}]
        /\ HfpFails(r, "unavailable")
  /\ UNCHANGED <<phoneVars, statusVars, node_state>>

\* transport_state, the last question of the HFP snapshot.
ReadTransport(r) ==
  /\ pc[r] = "calls" /\ todo[r] = {}
  /\ seen' = [seen EXCEPT ![r] = {}]
  /\ \/ /\ gateway
        /\ hfp' = [hfp EXCEPT ![r] = AggregateCallState(seen[r])]
        /\ hfp_transport' = [hfp_transport EXCEPT ![r] = transport]
        /\ pc' = [pc EXCEPT ![r] = "nodes"]
     \/ /\ ~gateway
        /\ HfpFails(r, "unavailable")
  /\ UNCHANGED <<phoneVars, statusVars, todo, node_state>>

\* busctl times out or answers what cannot be parsed.
HelperFails(r) ==
  /\ pc[r] = "calls"
  /\ todo' = [todo EXCEPT ![r] = {}]
  /\ seen' = [seen EXCEPT ![r] = {}]
  /\ \E outcome \in {"unavailable", "error"} : HfpFails(r, outcome)
  /\ UNCHANGED <<phoneVars, statusVars, node_state>>

\* PipeWireAudioStateBackend::snapshot: exactly one pair, or no nodes.
ReadNodes(r) ==
  /\ pc[r] = "nodes"
  /\ node_state' = [node_state EXCEPT ![r] = IF nodes = "pair" THEN "sco_active" ELSE "inactive"]
  /\ pc' = [pc EXCEPT ![r] = "apply"]
  /\ UNCHANGED <<phoneVars, statusVars, todo, seen, hfp, hfp_transport>>

\* pw-dump times out, cannot be parsed, or shows neither one pair nor none.
DumpFails(r) ==
  /\ pc[r] = "nodes"
  /\ node_state' = [node_state EXCEPT ![r] = "error"]
  /\ pc' = [pc EXCEPT ![r] = "apply"]
  /\ UNCHANGED <<phoneVars, statusVars, todo, seen, hfp, hfp_transport>>

\* The match on (nodes, hfp_transport).
CombinedAudio(node, sco) ==
  CASE node = "error"                              -> "error"
    [] node = "inactive" \/ sco = "inactive"       -> "inactive"
    [] node = "sco_active" /\ sco = "sco_active"   -> "sco_active"
    [] OTHER                                       -> "error"

\* Seeded fault: a gateway that is gone leaves the last known call in place.
SnapshotCallKeepsLast(h) ==
  CASE h = "unavailable" -> call
    [] OTHER             -> h

\* The call state a snapshot stands for: no gateway, no call.
SnapshotCall(h) ==
  CASE h = "unavailable" -> "idle"
    [] OTHER             -> h

\* Seeded fault: only an idle call, not an ended one, is inconsistent with SCO.
InconsistentIdleOnly(c, a) == c = "idle" /\ a = "sco_active"

\* The watchdog's condition: SCO is up although the call is over.
Inconsistent(c, a) == c \in {"idle", "ended"} /\ a = "sco_active"

\* Seeded fault: a consistent observation does not reset the watchdog.
ObserveNeverResets(c, a) ==
  IF Inconsistent(c, a)
  THEN LET since == IF inconsistent_since = None THEN 0 ELSE inconsistent_since
           stalled == since >= GracePeriod
       IN  /\ inconsistent_since' = since
           /\ audio' = IF stalled THEN "error" ELSE "sco_tearing_down"
           /\ last_error' = IF stalled THEN "sco_teardown_stalled" ELSE "none"
           /\ UNCHANGED quiet
  ELSE /\ UNCHANGED inconsistent_since
       /\ audio' = a
       /\ last_error' = "none"
       /\ quiet' = 0

\* Seeded fault: the first inconsistent observation is not remembered.
ObserveForgets(c, a) ==
  /\ inconsistent_since' = None
  /\ audio' = IF Inconsistent(c, a) THEN "sco_tearing_down" ELSE a
  /\ last_error' = "none"
  /\ quiet' = IF Inconsistent(c, a) THEN quiet ELSE 0

\* ScoTeardownWatchdog::observe, and what refresh does with the observation.
Observe(c, a) ==
  IF Inconsistent(c, a)
  THEN LET since == IF inconsistent_since = None THEN 0 ELSE inconsistent_since
           stalled == since >= GracePeriod
       IN  /\ inconsistent_since' = since
           /\ audio' = IF stalled THEN "error" ELSE "sco_tearing_down"
           /\ last_error' = IF stalled THEN "sco_teardown_stalled" ELSE "none"
           /\ UNCHANGED quiet
  ELSE /\ inconsistent_since' = None
       /\ audio' = a
       /\ last_error' = "none"
       /\ quiet' = 0

\* The status lock is taken and the three snapshots are written at once.
Apply(r) ==
  LET c == SnapshotCall(hfp[r])
      a == CombinedAudio(node_state[r], hfp_transport[r])
  IN  /\ pc[r] = "apply"
      /\ call' = c
      /\ hfp_control' = CASE hfp[r] = "unavailable" -> "disconnected"
                          [] hfp[r] = "error"       -> "error"
                          [] OTHER                  -> "slc_ready"
      /\ Observe(c, a)
      /\ pc' = [pc EXCEPT ![r] = "applied"]
      /\ hfp' = [hfp EXCEPT ![r] = "idle"]
      /\ hfp_transport' = [hfp_transport EXCEPT ![r] = "inactive"]
      /\ node_state' = [node_state EXCEPT ![r] = "inactive"]
      /\ UNCHANGED <<phoneVars, todo, seen>>

-----------------------------------------------------------------------------
(* The callers.                                                            *)

\* status answers; create_audio_session answers 409.
Answer(r) ==
  /\ pc[r] = "applied"
  /\ pc' = [pc EXCEPT ![r] = "idle"]
  /\ UNCHANGED <<phoneVars, statusVars, todo, seen, hfp, hfp_transport, node_state>>

\* create_audio_session reads the status, finds call and SCO active, and lets
\* the lock go.
Approve(r) ==
  /\ pc[r] = "applied"
  /\ call = "active" /\ audio = "sco_active"
  /\ pc' = [pc EXCEPT ![r] = "issuing"]
  /\ UNCHANGED <<phoneVars, statusVars, todo, seen, hfp, hfp_transport, node_state>>

\* It issues the media grant and answers 201.
Issue(r) ==
  /\ pc[r] = "issuing"
  /\ pc' = [pc EXCEPT ![r] = "idle"]
  /\ UNCHANGED <<phoneVars, statusVars, todo, seen, hfp, hfp_transport, node_state>>

-----------------------------------------------------------------------------
RefreshStep(r) ==
  \/ ListCalls(r) \/ (\E k \in Calls : ReadCall(r, k)) \/ ReadTransport(r)
  \/ HelperFails(r) \/ ReadNodes(r) \/ DumpFails(r) \/ Apply(r)

RequestStep(r) == RefreshStep(r) \/ Answer(r) \/ Approve(r) \/ Issue(r)

PhoneStep == (\E k \in Calls : CallChanges(k)) \/ GatewayChanges \/ ScoChanges

StatusNext == ClockTick \/ PhoneStep \/ \E r \in Requests : RequestStep(r)

StatusSpec == StatusInit /\ [][StatusNext]_runtimeVars

(* Fairness: the clock runs, a client keeps polling (CallStateMonitorService *)
(* polls /status), and a helper answers or is killed at its time limit.      *)
Fairness == WF_runtimeVars(ClockTick) /\ \A r \in Requests : WF_runtimeVars(RequestStep(r))

PolledSpec == StatusSpec /\ Fairness

-----------------------------------------------------------------------------
(* Properties.                                                             *)

\* Audio is never reported active for a call that is over, in whatever order
\* overlapping refreshes are applied.
ActiveAudioHasCall == audio = "sco_active" => call \notin {"idle", "ended"}

\* A stalled teardown is reported only after a whole grace period in which no
\* refresh found call and audio in agreement.
StalledMeansPersistent == last_error = "sco_teardown_stalled" => quiet >= GracePeriod

\* SCO is up although no call is.
StuckSco ==
  /\ gateway /\ transport = "sco_active" /\ nodes = "pair"
  /\ \A k \in Calls : callState[k] \in {"gone", "disconnected"}

\* From some time on every helper answers.
HelpersAnswer == <>[][\A r \in Requests : ~(HelperFails(r) \/ DumpFails(r))]_runtimeVars

\* While clients poll and helpers answer, SCO that stays up after the call is
\* reported as stalled, and the report stays.
StuckScoIsReported ==
  <>[]StuckSco /\ HelpersAnswer => <>[](last_error = "sco_teardown_stalled")

\* What a refresh would find if the phone and PipeWire stood still.
TrueCall ==
  IF gateway THEN AggregateCallState({callState[k] : k \in Calls}) ELSE "idle"

\* Overlapping refreshes are applied in any order, but once the phone stands
\* still and helpers answer the reported call settles on the true one: no stale snapshot stays.
StatusConverges ==
  <>[][FALSE]_phoneVars /\ HelpersAnswer => <>[](call = TrueCall)
=============================================================================
