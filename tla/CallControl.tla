----------------------------- MODULE CallControl -----------------------------
(***************************************************************************)
(* Call commands: execute_call_command behind authorize and                *)
(* authorize_mutation (crates/analogconnectd/src/lib.rs, auth.rs), and     *)
(* WirePlumberBackend::execute with its helpers (hfp.rs, process.rs).      *)
(*                                                                         *)
(* A command asks busctl for the objects, the calls and the state of one   *)
(* call before it sends the D-Bus method; every question is a process of   *)
(* its own and the phone goes on in between.  Requests overlap: nothing    *)
(* serializes the backend.  A helper that is killed at its time limit may  *)
(* have delivered its method already.                                      *)
(*                                                                         *)
(* A request reads the monotonic clock before it takes the limiter's lock, *)
(* and nothing bounds the time in between: it may bring an instant that is *)
(* older than the window it is counted in, or than several of them.        *)
(***************************************************************************)
EXTENDS Integers, FiniteSets

CONSTANTS
  Requests,     \* requests in progress at once
  Calls,        \* object paths of calls
  PhoneStates,  \* bound: states the phone puts calls into in an instance
  Maximum,      \* maximum of MutationLimiter
  Window,       \* its window, in clock ticks
  MaxTime,      \* bound: the clock stops here
  None          \* no call chosen

LiveCallState == {"incoming", "dialing", "alerting", "active", "held", "disconnected"}

ASSUME CallControlAssumption ==
  /\ PhoneStates \subseteq LiveCallState
  /\ Maximum \in Nat \ {0} /\ Window \in Nat \ {0} /\ MaxTime \in Nat
  /\ IsFiniteSet(Calls) /\ None \notin Calls

VARIABLES
  gateways, live,   \* audio gateways, and each call's state (external)
  now,              \* the monotonic clock
  started_at,       \* MutationWindow: started_at
  accepted,         \* MutationWindow: accepted
  pc, command,      \* per request: where it is, what it asks
  instant,          \* per request: the instant it read, until it has the lock
  target,           \* per request: only_call of its TelephonyPaths
  response,         \* per request: the last answer
  effected,         \* history, per request: the phone took its command
  recent            \* history: of the instants of the last Window ticks, how many
                    \* requests that read each have been admitted, newest first

phoneVars   == <<gateways, live>>
limiterVars == <<now, started_at, accepted, recent>>
requestVars == <<pc, command, instant, target, response>>
vars == <<phoneVars, limiterVars, requestVars, effected>>

\* What a body can ask: a command, after CallCommandRequest::validate, or
\* nothing valid.  Reject and HangUp are one command to execute.  The gain and
\* mute commands of CallCommand are not part of the API.
Command == {"answer", "hang_up", "dial", "send_dtmf", "invalid"}

Response == {"none", "accepted", "unauthorized", "too_many_requests", "unprocessable", "bad_gateway"}

Existing == {k \in Calls : live[k] # "gone"}

-----------------------------------------------------------------------------
Init ==
  /\ gateways = 0 /\ live = [k \in Calls |-> "gone"]
  /\ now = 0 /\ started_at = 0 /\ accepted = 0
  /\ recent = [t \in 1..Window |-> 0]
  /\ pc = [r \in Requests |-> "idle"]
  /\ command = [r \in Requests |-> "invalid"]
  /\ instant = [r \in Requests |-> 0]
  /\ target = [r \in Requests |-> None]
  /\ response = [r \in Requests |-> "none"]
  /\ effected = [r \in Requests |-> FALSE]

\* The monotonic clock advances, whoever holds an instant.
Tick ==
  /\ now < MaxTime
  /\ now' = now + 1
  /\ recent' = [t \in 1..Window |-> IF t = 1 THEN 0 ELSE recent[t - 1]]
  /\ UNCHANGED <<phoneVars, started_at, accepted, requestVars, effected>>

-----------------------------------------------------------------------------
(* The phone (external).                                                   *)

\* A call begins, changes state or ends without a command of ours.
CallChanges(k) ==
  /\ gateways = 1
  /\ \E s \in (PhoneStates \cup {"gone"}) \ {live[k]} : live' = [live EXCEPT ![k] = s]
  /\ UNCHANGED <<gateways, limiterVars, requestVars, effected>>

\* A gateway object appears or goes; with the last one go the calls.
GatewayChanges ==
  /\ gateways' \in {gateways - 1, gateways + 1} \cap 0..2
  /\ live' = IF gateways' = 0 THEN [k \in Calls |-> "gone"] ELSE live
  /\ UNCHANGED <<limiterVars, requestVars, effected>>

-----------------------------------------------------------------------------
(* The HTTP handler.                                                       *)

\* The answer goes out; what the request held is dropped.
Respond(r, status) ==
  /\ pc' = [pc EXCEPT ![r] = "idle"]
  /\ command' = [command EXCEPT ![r] = "invalid"]
  /\ instant' = [instant EXCEPT ![r] = 0]
  /\ target' = [target EXCEPT ![r] = None]
  /\ response' = [response EXCEPT ![r] = status]

\* authorize: neither the current nor the previous token matches.
Refuse(r) ==
  /\ pc[r] = "idle"
  /\ Respond(r, "unauthorized")
  /\ effected' = [effected EXCEPT ![r] = FALSE]
  /\ UNCHANGED <<phoneVars, limiterVars>>

\* A token matches; MutationLimiter::allow reads the clock.
Authorize(r, c) ==
  /\ pc[r] = "idle"
  /\ pc' = [pc EXCEPT ![r] = "admit"]
  /\ command' = [command EXCEPT ![r] = c]
  /\ instant' = [instant EXCEPT ![r] = now]
  /\ response' = [response EXCEPT ![r] = "none"]
  /\ effected' = [effected EXCEPT ![r] = FALSE]
  /\ UNCHANGED <<phoneVars, limiterVars, target>>

\* now.saturating_duration_since(started_at) >= window
Expired(r) == instant[r] - started_at >= Window

\* Seeded fault: an expired window is not restarted.
WindowStartKept(r) == started_at

\* started_at once request r has the lock: a new window starts at its instant.
WindowStart(r) == IF Expired(r) THEN instant[r] ELSE started_at

Full(count) == count >= Maximum

\* The history of the admissions, with that of r.
Noted(r) ==
  LET age == now - instant[r]
  IN  [t \in 1..Window |-> IF t = age + 1 THEN recent[t] + 1 ELSE recent[t]]

\* allow_at under the limiter's lock, then the body is parsed and validated.
\* An invalid body, like any other mutation of the API, uses up its share.
Allow(r) ==
  LET count == IF Expired(r) THEN 0 ELSE accepted
  IN  /\ started_at' = WindowStart(r)
      /\ IF Full(count)
         THEN /\ accepted' = count /\ UNCHANGED recent
              /\ Respond(r, "too_many_requests")
         ELSE /\ accepted' = count + 1
              /\ recent' = Noted(r)
              /\ IF command[r] = "invalid"
                 THEN Respond(r, "unprocessable")
                 ELSE /\ pc' = [pc EXCEPT ![r] = "objects"]
                      /\ instant' = [instant EXCEPT ![r] = 0]
                      /\ UNCHANGED <<command, target, response>>

Admit(r) ==
  /\ pc[r] = "admit"
  /\ Allow(r) /\ UNCHANGED now
  /\ UNCHANGED <<phoneVars, effected>>

-----------------------------------------------------------------------------
(* WirePlumberBackend::execute.                                            *)

\* parse_managed_objects: exactly one gateway, or Unavailable or Ambiguous.
ListObjects(r) ==
  /\ pc[r] = "objects"
  /\ \/ /\ gateways = 1
        /\ pc' = [pc EXCEPT ![r] = "calls"]
        /\ UNCHANGED <<command, instant, target, response>>
     \/ /\ gateways # 1
        /\ Respond(r, "bad_gateway")
  /\ UNCHANGED <<phoneVars, limiterVars, effected>>

\* only_call
OnlyCall(calls) == Cardinality(calls) = 1

\* What execute demands of the listed calls before it goes on.
Admissible(c, calls) ==
  \/ c \in {"answer", "send_dtmf"} /\ OnlyCall(calls)
  \/ c = "hang_up" /\ calls # {}
  \/ c = "dial" /\ calls = {}

\* replace_calls: GetCalls of the gateway, then the check on its result.
ListCalls(r) ==
  /\ pc[r] = "calls"
  /\ \/ /\ gateways > 0 /\ Admissible(command[r], Existing)
        /\ IF command[r] \in {"answer", "send_dtmf"}
           THEN /\ \E k \in Existing : target' = [target EXCEPT ![r] = k]
                /\ pc' = [pc EXCEPT ![r] = "state"]
           ELSE pc' = [pc EXCEPT ![r] = "command"] /\ UNCHANGED target
        /\ UNCHANGED <<command, instant, response>>
     \/ /\ gateways = 0 \/ ~Admissible(command[r], Existing)
        /\ Respond(r, "bad_gateway")
  /\ UNCHANGED <<phoneVars, limiterVars, effected>>

Required(c) == IF c = "answer" THEN "incoming" ELSE "active"

\* call_state of the only call, for answer and send_dtmf.
ReadState(r) ==
  /\ pc[r] = "state"
  /\ \/ /\ live[target[r]] = Required(command[r])
        /\ pc' = [pc EXCEPT ![r] = "command"]
        /\ UNCHANGED <<command, instant, target, response>>
     \/ /\ live[target[r]] # Required(command[r])
        /\ Respond(r, "bad_gateway")
  /\ UNCHANGED <<phoneVars, limiterVars, effected>>

\* run_bounded fails before the method is delivered: busctl cannot be started,
\* is killed at its time limit, answers too much or what cannot be parsed, or
\* the phone refuses the method.
HelperFails(r) ==
  /\ pc[r] \in {"objects", "calls", "state", "command"}
  /\ Respond(r, "bad_gateway")
  /\ UNCHANGED <<phoneVars, limiterVars, effected>>

\* A call that is answered or dialled puts the active one on hold.
Held == [k \in Calls |-> IF live[k] = "active" THEN "held" ELSE live[k]]

\* The phone carries the method out (external), on the calls there are by now:
\* nothing tells it which ones the request has seen.
Deliver(r) ==
  /\ pc[r] = "command" /\ gateways > 0
  /\ \/ /\ command[r] = "answer" /\ live[target[r]] = "incoming"
        /\ live' = [Held EXCEPT ![target[r]] = "active"]
     \/ /\ command[r] = "hang_up"
        /\ live' = [k \in Calls |-> "gone"]
     \/ /\ command[r] = "dial"
        /\ \E k \in Calls \ Existing : live' = [Held EXCEPT ![k] = "dialing"]
     \/ /\ command[r] = "send_dtmf" /\ \E k \in Calls : live[k] = "active"
        /\ UNCHANGED live
  /\ pc' = [pc EXCEPT ![r] = "delivered"]
  /\ effected' = [effected EXCEPT ![r] = TRUE]
  /\ UNCHANGED <<gateways, limiterVars, command, instant, target, response>>

\* busctl exits with success, its output within the bound.
HelperReturns(r) ==
  /\ pc[r] = "delivered"
  /\ Respond(r, "accepted")
  /\ UNCHANGED <<phoneVars, limiterVars, effected>>

\* Seeded fault: a helper that ran into its time limit counts as a success.
TimeOutAccepts(r) ==
  /\ pc[r] \in {"command", "delivered"}
  /\ Respond(r, "accepted")
  /\ UNCHANGED <<phoneVars, limiterVars, effected>>

\* The method was delivered, but busctl is killed at its time limit.
TimeOut(r) ==
  /\ pc[r] = "delivered"
  /\ Respond(r, "bad_gateway")
  /\ UNCHANGED <<phoneVars, limiterVars, effected>>

-----------------------------------------------------------------------------
RequestStep(r) ==
  \/ Refuse(r) \/ (\E c \in Command : Authorize(r, c)) \/ Admit(r)
  \/ ListObjects(r) \/ ListCalls(r) \/ ReadState(r) \/ HelperFails(r)
  \/ Deliver(r) \/ HelperReturns(r) \/ TimeOut(r)

PhoneStep == (\E k \in Calls : CallChanges(k)) \/ GatewayChanges

Next == Tick \/ PhoneStep \/ \E r \in Requests : RequestStep(r)

Spec == Init /\ [][Next]_vars

-----------------------------------------------------------------------------
(* Properties.                                                             *)

\* Types, and that the limiter never counts past its maximum.
TypeOK ==
  /\ gateways \in 0..2 /\ live \in [Calls -> LiveCallState \cup {"gone"}]
  /\ now \in 0..MaxTime /\ started_at \in 0..MaxTime /\ accepted \in 0..Maximum
  /\ recent \in [1..Window -> Nat]
  /\ pc \in [Requests -> {"idle", "admit", "objects", "calls", "state", "command", "delivered"}]
  /\ command \in [Requests -> Command]
  /\ instant \in [Requests -> 0..MaxTime]
  /\ target \in [Requests -> Calls \cup {None}]
  /\ response \in [Requests -> Response]
  /\ effected \in [Requests -> BOOLEAN]

\* A client is told that its command was accepted only if the phone took it.
\* (The converse fails: see TimeOut.)
AcceptedTookEffect == \A r \in Requests : response[r] = "accepted" => effected[r]

\* The requests that read the clock in the last Window ticks and were admitted:
\* the n-th of each tick.
Admitted == UNION {{t} \X (1..recent[t]) : t \in 1..Window}

\* The limiter's fixed windows are restarted at an instant that was read before the
\* lock was taken.  However the requests get at the lock, and with whatever delay,
\* at most twice the maximum of those that read the clock and were let through
\* within the same Window ticks.  (Requests that waited for longer come on top.)
RateBounded == Cardinality(Admitted) <= 2 * Maximum
=============================================================================
