--------------------------- MODULE CallController ---------------------------
(***************************************************************************)
(* CallController over AtCommandBackend (crates/analogconnectd/src/hfp.rs) *)
(* with CallState and CallCommand of crates/analogconnect-core: the call   *)
(* control of docs/milestone5-hfp-control.md, which speaks AT commands to  *)
(* the phone itself.  The daemon's API goes through CallControl instead.   *)
(*                                                                         *)
(* The controller keeps a state of its own, which nothing but its commands *)
(* changes, and holds its lock from the check to the transition.  The      *)
(* transport may fail before or after the phone has taken a command, and   *)
(* may or may not report that the phone refused it.                        *)
(***************************************************************************)
EXTENDS Integers

CONSTANTS
  Requests,  \* calls of execute in progress at once
  Gains,     \* the gains that are set in an instance
  None       \* nobody has the lock

DefaultGain == 15

ASSUME CallControllerAssumption == Gains \subseteq 0..DefaultGain /\ None \notin Requests

VARIABLES
  state,         \* CallController: state
  microphone,    \* AtCommandBackend: gain and muted
  lock,          \* who holds the lock of state
  pc, command,   \* per request: where it is, what it asks
  next,          \* per request: what next_state gave
  response,      \* per request: the last result of execute
  call, gain,    \* the phone: its call, and its microphone gain (external)
  effected,      \* history, per request: the phone took its command
  apart,         \* history: the phone's call went its own way, or a result was wrong
  unsure         \* history: as apart, for the microphone

controllerVars == <<state, microphone, lock>>
requestVars    == <<pc, command, next, response>>
phoneVars      == <<call, gain>>
history        == <<effected, apart, unsure>>
vars == <<controllerVars, requestVars, phoneVars, history>>

-----------------------------------------------------------------------------
(* The tables.                                                             *)

CallState == {"idle", "incoming", "outgoing", "active", "held", "ended", "error"}

CallOp == {"answer", "reject", "hang_up", "dial"}
MicrophoneOp == {"mute", "unmute", "set_microphone_gain"}
OtherOp == {"send_dtmf", "set_speaker_gain"}

\* A gain is the argument of one command only; the others have 0 there.
CallCommand ==
  [op : CallOp \cup OtherOp \cup {"mute", "unmute"}, gain : {0}]
    \cup [op : {"set_microphone_gain"}, gain : Gains]

NoCommand == [op |-> "none", gain |-> 0]

\* CallState::transition_to, besides staying in a state.
Successors == [s \in CallState |->
  CASE s = "idle"                    -> {"incoming", "outgoing", "error"}
    [] s \in {"incoming", "outgoing"} -> {"active", "ended", "error"}
    [] s = "active"                  -> {"held", "ended", "error"}
    [] s = "held"                    -> {"active", "ended", "error"}
    [] s = "ended"                   -> {"idle"}
    [] OTHER                         -> {"idle", "ended"}]

TransitionAllowed(s, t) == t = s \/ t \in Successors[s]

\* next_state: the commands a state takes, and the state they lead to.
NextStates ==
  {<<"incoming", "answer", "active">>, <<"incoming", "reject", "ended">>,
   <<"idle", "dial", "outgoing">>, <<"active", "send_dtmf", "active">>}
  \cup ({"incoming", "outgoing", "active", "held"} \X {"hang_up"} \X {"ended"})
  \cup {<<s, op, s>> : s \in {"active", "held"}, op \in MicrophoneOp \cup {"set_speaker_gain"}}

NextState(s, c) == {t \in CallState : <<s, c.op, t>> \in NextStates}

-----------------------------------------------------------------------------
\* What the phone's call is when the controller is at s.
Shown(s) == IF s = "ended" THEN "idle" ELSE s

PhoneCall == {"idle", "incoming", "outgoing", "active", "held"}

\* The caller of new says what state the call is in.
Init ==
  /\ state \in CallState /\ call \in PhoneCall /\ apart = (Shown(state) # call)
  /\ microphone = [gain |-> DefaultGain, muted |-> FALSE]
  /\ gain \in Gains \cup {0} /\ unsure = TRUE
  /\ lock = None
  /\ pc = [r \in Requests |-> "idle"] /\ command = [r \in Requests |-> NoCommand]
  /\ next = [r \in Requests |-> "idle"]
  /\ response = [r \in Requests |-> "none"] /\ effected = [r \in Requests |-> FALSE]

\* The other party, or the phone's own keys, change the call (external).
CallChanges ==
  /\ call' \in CASE call = "idle"     -> {"incoming"}
                 [] call = "incoming" -> {"idle"}
                 [] call = "active"   -> {"held", "idle"}
                 [] OTHER             -> {"active", "idle"}
  /\ apart' = TRUE
  /\ UNCHANGED <<controllerVars, requestVars, gain, effected, unsure>>

\* The phone's volume keys change the gain (external).
GainChanges ==
  /\ gain' \in Gains \ {gain} /\ unsure' = TRUE
  /\ UNCHANGED <<controllerVars, requestVars, call, effected, apart>>

-----------------------------------------------------------------------------
(* execute                                                                 *)

Begin(r, c) ==
  /\ pc[r] = "idle"
  /\ pc' = [pc EXCEPT ![r] = "locking"]
  /\ command' = [command EXCEPT ![r] = c]
  /\ response' = [response EXCEPT ![r] = "none"]
  /\ effected' = [effected EXCEPT ![r] = FALSE]
  /\ UNCHANGED <<controllerVars, next, phoneVars, apart, unsure>>

\* execute returns, and its guard is dropped.
Return(r, result) ==
  /\ pc' = [pc EXCEPT ![r] = "idle"]
  /\ command' = [command EXCEPT ![r] = NoCommand]
  /\ next' = [next EXCEPT ![r] = "idle"]
  /\ response' = [response EXCEPT ![r] = result]
  /\ lock' = None

\* Seeded fault: the lock is not waited for.
Unserialized == TRUE

Serialized == lock = None

\* The lock of state, and next_state under it.
Check(r) ==
  /\ pc[r] = "locking" /\ Serialized
  /\ \/ /\ \E s \in NextState(state, command[r]) : next' = [next EXCEPT ![r] = s]
        /\ lock' = r /\ pc' = [pc EXCEPT ![r] = "sending"]
        /\ UNCHANGED <<command, response>>
     \/ /\ NextState(state, command[r]) = {}
        /\ Return(r, "invalid_state")
  /\ UNCHANGED <<state, microphone, phoneVars, history>>

\* Seeded fault: a gain that is set while the microphone is muted is sent.
SendsAlways(c) == TRUE

\* The gain that is set while the microphone is muted is only remembered.
Sends(c) == c.op = "set_microphone_gain" => ~microphone.muted

\* The gain of AT+VGM.
SentGain(c) ==
  CASE c.op = "mute"   -> 0
    [] c.op = "unmute" -> microphone.gain
    [] OTHER           -> c.gain

\* The microphone once a command has succeeded.
Adjusted(c) ==
  CASE c.op = "mute"                -> [microphone EXCEPT !.muted = TRUE]
    [] c.op = "unmute"              -> [microphone EXCEPT !.muted = FALSE]
    [] c.op = "set_microphone_gain" -> [microphone EXCEPT !.gain = c.gain]
    [] OTHER                        -> microphone

\* The backend has succeeded: the transition, which the table must allow.
Succeed(r) ==
  LET allowed == TransitionAllowed(state, next[r])
  IN  /\ microphone' = Adjusted(command[r])
      /\ state' = IF allowed THEN next[r] ELSE state
      /\ Return(r, IF allowed THEN "ok" ELSE "invalid_state")

\* Nothing is sent.
Remember(r) ==
  /\ pc[r] = "sending" /\ ~Sends(command[r])
  /\ Succeed(r)
  /\ UNCHANGED <<phoneVars, history>>

-----------------------------------------------------------------------------
(* The transport and the phone.                                            *)

\* What the phone makes of a command about its call (external).
Effect(op) ==
  CASE op = "answer" /\ call = "incoming"               -> {"active"}
    [] op \in {"reject", "hang_up"} /\ call # "idle"    -> {"idle"}
    [] op = "dial" /\ call = "idle"                     -> {"outgoing"}
    [] OTHER                                            -> {}

\* The command is sent and the phone carries it out.
Deliver(r) ==
  LET c == command[r]
  IN  /\ pc[r] = "sending" /\ Sends(c)
      /\ \/ /\ c.op \in CallOp /\ call' \in Effect(c.op) /\ apart' = FALSE
            /\ UNCHANGED <<gain, unsure>>
         \/ /\ c.op \in MicrophoneOp /\ gain' = SentGain(c) /\ unsure' = FALSE
            /\ UNCHANGED <<call, apart>>
         \/ /\ c.op = "send_dtmf" => call = "active"
            /\ c.op \in OtherOp
            /\ UNCHANGED <<phoneVars, apart, unsure>>
      /\ pc' = [pc EXCEPT ![r] = "sent"]
      /\ effected' = [effected EXCEPT ![r] = TRUE]
      /\ UNCHANGED <<controllerVars, command, next, response>>

\* The phone refuses it.
Refuse(r) ==
  /\ pc[r] = "sending"
  /\ \/ command[r].op \in CallOp /\ Effect(command[r].op) = {}
     \/ command[r].op = "send_dtmf" /\ call # "active"
  /\ pc' = [pc EXCEPT ![r] = "sent"]
  /\ apart' = TRUE
  /\ UNCHANGED <<controllerVars, command, next, response, phoneVars, effected, unsure>>

\* send returns, whatever became of the command.
SendReturns(r) ==
  /\ pc[r] = "sent"
  /\ Succeed(r)
  /\ UNCHANGED <<phoneVars, history>>

\* Seeded fault: the state is changed before the backend is asked.
SendFailsMoved(r) ==
  /\ pc[r] \in {"sending", "sent"} /\ Sends(command[r])
  /\ Return(r, "backend") /\ state' = next[r]
  /\ apart' = (apart \/ (effected[r] /\ command[r].op \in CallOp))
  /\ unsure' = (unsure \/ (effected[r] /\ command[r].op \in MicrophoneOp))
  /\ UNCHANGED <<microphone, phoneVars, effected>>

\* send fails, before the phone has the command or after that.
SendFails(r) ==
  /\ pc[r] \in {"sending", "sent"} /\ Sends(command[r])
  /\ Return(r, "backend")
  /\ apart' = (apart \/ (effected[r] /\ command[r].op \in CallOp))
  /\ unsure' = (unsure \/ (effected[r] /\ command[r].op \in MicrophoneOp))
  /\ UNCHANGED <<state, microphone, phoneVars, effected>>

-----------------------------------------------------------------------------
RequestStep(r) ==
  \/ \E c \in CallCommand : Begin(r, c)
  \/ Check(r) \/ Remember(r) \/ Deliver(r) \/ Refuse(r) \/ SendReturns(r) \/ SendFails(r)

Next == CallChanges \/ GainChanges \/ \E r \in Requests : RequestStep(r)

Spec == Init /\ [][Next]_vars

-----------------------------------------------------------------------------
(* Properties.                                                             *)

\* "Serializes HFP mutations and changes local state only after backend
\* success": between two commands the controller's state is the phone's, unless,
\* since the last command about the call that went through, the phone's call
\* changed by itself or a failure was reported for what the phone had done.
StateInStep == lock = None /\ ~apart => Shown(state) = call

\* Muting, setting the gain while muted or not, and unmuting, with failures in
\* between: the phone's gain is zero while the backend holds the microphone for
\* muted, and else the gain set last, also if it was set while muted.
MicrophoneInStep ==
  lock = None /\ ~unsure => gain = IF microphone.muted THEN 0 ELSE microphone.gain

\* A command the phone has carried out is never answered with InvalidState: what
\* next_state allows, the table of CallState allows too, still after the send.
NoRefusalAfterEffect == \A r \in Requests : effected[r] => response[r] # "invalid_state"
=============================================================================
