------------------------ MODULE CallControllerProofs ------------------------
(***************************************************************************)
(* Proofs about CallController, for any number of requests and any gains.  *)
(***************************************************************************)
EXTENDS CallController, TLAPS

\* The gain the phone is to have for a microphone.
Heard(m) == IF m.muted THEN 0 ELSE m.gain

Types ==
  /\ state \in CallState /\ lock \in Requests \cup {None}
  /\ microphone \in [gain : Nat, muted : BOOLEAN]
  /\ pc \in [Requests -> {"idle", "locking", "sending", "sent"}]
  /\ command \in [Requests -> CallCommand \cup {NoCommand}]
  /\ next \in [Requests -> CallState]
  /\ response \in [Requests -> {"none", "ok", "invalid_state", "backend"}]
  /\ effected \in [Requests -> BOOLEAN]
  /\ apart \in BOOLEAN /\ unsure \in BOOLEAN

\* Who is sending has the lock, so that next_state's answer is still valid.
Serial ==
  \A r \in Requests : /\ pc[r] \in {"sending", "sent"} <=> lock = r
                      /\ lock = r => next[r] \in NextState(state, command[r])

\* Only what was sent has taken effect, and nothing is refused after that; what
\* was sent and has not is about the call, which is then known to be apart.
Effects ==
  \A r \in Requests :
    /\ effected[r] => pc[r] \in {"idle", "sent"} /\ response[r] # "invalid_state"
    /\ pc[r] # "idle" => response[r] = "none"
    /\ pc[r] = "sent" /\ ~effected[r] => apart /\ command[r].op \notin MicrophoneOp

\* The phone's call is where the controller is, or will be after the transition.
CallInStep ==
  /\ StateInStep
  /\ \A r \in Requests : lock = r /\ ~apart =>
       Shown(IF pc[r] = "sent" THEN next[r] ELSE state) = call

GainInStep ==
  /\ MicrophoneInStep
  /\ \A r \in Requests : lock = r /\ ~unsure =>
       Heard(IF pc[r] = "sent" THEN Adjusted(command[r]) ELSE microphone) = gain

Inv == Types /\ Serial /\ Effects /\ CallInStep /\ GainInStep

\* What next_state gives, the table of CallState allows.
LEMMA NextStateAllowed ==
  ASSUME NEW s \in CallState, NEW c, NEW t \in NextState(s, c)
  PROVE  /\ t \in CallState /\ TransitionAllowed(s, t)
         /\ c.op = "answer" => t = "active"
         /\ c.op \in {"reject", "hang_up"} => t = "ended"
         /\ c.op = "dial" => t = "outgoing"
         /\ c.op \notin CallOp => t = s
<1>1. t \in CallState /\ <<s, c.op, t>> \in NextStates
  BY DEF NextState
<1>2. \/ s = "incoming" /\ c.op = "answer" /\ t = "active"
      \/ s = "incoming" /\ c.op = "reject" /\ t = "ended"
      \/ s = "idle" /\ c.op = "dial" /\ t = "outgoing"
      \/ s = "active" /\ c.op = "send_dtmf" /\ t = "active"
      \/ s \in {"incoming", "outgoing", "active", "held"} /\ c.op = "hang_up" /\ t = "ended"
      \/ s \in {"active", "held"} /\ c.op \in MicrophoneOp \cup {"set_speaker_gain"} /\ t = s
  BY <1>1 DEF NextStates
<1>3. TransitionAllowed(s, t)
  BY <1>2 DEF TransitionAllowed, Successors, CallState
<1> QED
  BY <1>1, <1>2, <1>3 DEF MicrophoneOp, CallOp

LEMMA InitHolds == Init => Inv
<1> SUFFICES ASSUME Init PROVE Inv
  OBVIOUS
<1>1. Types
  BY DEF Init, Types, CallState, DefaultGain
<1>2. Serial /\ Effects
  BY CallControllerAssumption DEF Init, Serial, Effects
<1>3. CallInStep
  BY CallControllerAssumption DEF Init, CallInStep, StateInStep
<1>4. GainInStep
  BY CallControllerAssumption DEF Init, GainInStep, MicrophoneInStep
<1> QED
  BY <1>1, <1>2, <1>3, <1>4 DEF Inv

\* The phone's call or gain changes by itself.
LEMMA PhoneHolds == ASSUME Inv, CallChanges \/ GainChanges PROVE Inv'
<1>1. UNCHANGED <<state, microphone, lock, pc, command, next, response, effected>>
  BY DEF CallChanges, GainChanges, controllerVars, requestVars
<1>2. \/ apart' = TRUE /\ UNCHANGED <<gain, unsure>>
      \/ unsure' = TRUE /\ UNCHANGED <<call, apart>>
  BY DEF CallChanges, GainChanges
<1>3. Types' /\ Serial'
  BY <1>1, <1>2 DEF Inv, Types, Serial, NextState
<1>4. Effects'
  BY <1>1, <1>2 DEF Inv, Effects
<1>5. CallInStep'
  BY <1>1, <1>2 DEF Inv, CallInStep, StateInStep
<1>6. GainInStep'
  <2>1. \A r \in Requests : Adjusted(command[r])' = Adjusted(command[r])
    BY <1>1 DEF Adjusted
  <2> QED
    BY <1>1, <1>2, <2>1 DEF Inv, GainInStep, MicrophoneInStep
<1> QED
  BY <1>3, <1>4, <1>5, <1>6 DEF Inv

LEMMA BeginHolds ==
  ASSUME Inv, NEW r \in Requests, NEW c \in CallCommand, Begin(r, c) PROVE Inv'
<1>1. /\ pc[r] = "idle" /\ pc' = [pc EXCEPT ![r] = "locking"] /\ command' = [command EXCEPT ![r] = c]
      /\ response' = [response EXCEPT ![r] = "none"] /\ effected' = [effected EXCEPT ![r] = FALSE]
      /\ UNCHANGED <<state, microphone, lock, next, call, gain, apart, unsure>>
  BY DEF Begin, controllerVars, phoneVars
<1>2. Types
  BY DEF Inv
<1>3. /\ pc'[r] = "locking" /\ ~effected'[r]
      /\ response'[r] = "none"
      /\ \A q \in Requests \ {r} : /\ pc'[q] = pc[q] /\ command'[q] = command[q]
                                   /\ response'[q] = response[q] /\ effected'[q] = effected[q]
  BY <1>1, <1>2 DEF Types
<1>4. lock # r
  BY <1>1 DEF Inv, Serial
<1>5. Types'
  BY <1>1, <1>2 DEF Types
<1>6. Serial'
  BY <1>1, <1>3, <1>4 DEF Inv, Serial, NextState
<1>7. Effects'
  BY <1>1, <1>3 DEF Inv, Effects
<1>8. CallInStep'
  BY <1>1, <1>3, <1>4 DEF Inv, CallInStep, StateInStep
<1>9. GainInStep'
  <2>1. \A q \in Requests \ {r} : Adjusted(command[q])' = Adjusted(command[q])
    BY <1>1, <1>3 DEF Adjusted
  <2> QED
    BY <1>1, <1>3, <1>4, <2>1 DEF Inv, GainInStep, MicrophoneInStep
<1> QED
  BY <1>5, <1>6, <1>7, <1>8, <1>9 DEF Inv

\* What execute must leave behind when it returns.
LEMMA ReturnHolds ==
  ASSUME Inv, NEW r \in Requests, lock \in {r, None},
         NEW result \in {"ok", "invalid_state", "backend"}, Return(r, result),
         UNCHANGED <<call, gain, effected>>, state' \in CallState,
         microphone' \in [gain : Nat, muted : BOOLEAN], apart' \in BOOLEAN, unsure' \in BOOLEAN,
         effected[r] => result # "invalid_state", apart => apart', pc[r] # "idle",
         ~apart' => Shown(state') = call, ~unsure' => Heard(microphone') = gain
  PROVE  Inv'
<1>1. /\ pc' = [pc EXCEPT ![r] = "idle"] /\ command' = [command EXCEPT ![r] = NoCommand]
      /\ next' = [next EXCEPT ![r] = "idle"] /\ response' = [response EXCEPT ![r] = result]
      /\ lock' = None
  BY DEF Return
<1>2. Types
  BY DEF Inv
<1>3. /\ pc'[r] = "idle" /\ response'[r] = result
      /\ \A q \in Requests \ {r} : /\ pc'[q] = pc[q] /\ command'[q] = command[q]
                                   /\ response'[q] = response[q]
  BY <1>1, <1>2 DEF Types
<1>4. None \notin Requests
  BY CallControllerAssumption
<1>5. \A q \in Requests \ {r} : pc[q] \notin {"sending", "sent"}
  BY <1>4 DEF Inv, Serial
<1>6. Types'
  BY <1>1, <1>2 DEF Types, CallState
<1>7. Serial'
  BY <1>1, <1>3, <1>4, <1>5 DEF Serial
<1>8. Effects'
  BY <1>3, <1>5 DEF Inv, Effects
<1>9. CallInStep'
  BY <1>1, <1>4 DEF CallInStep, StateInStep
<1>10. GainInStep'
  BY <1>1, <1>4 DEF GainInStep, MicrophoneInStep, Heard
<1> QED
  BY <1>6, <1>7, <1>8, <1>9, <1>10 DEF Inv

LEMMA CheckHolds ==
  ASSUME Inv, NEW r \in Requests, Check(r) PROVE Inv'
<1>1. /\ pc[r] = "locking" /\ lock = None
      /\ UNCHANGED <<state, microphone, call, gain, effected, apart, unsure>>
  BY DEF Check, Serialized, phoneVars, history
<1>2. Types /\ Serial /\ Effects /\ CallInStep /\ GainInStep /\ None \notin Requests
  BY CallControllerAssumption DEF Inv
<1>3. ~effected[r]
  BY <1>1, <1>2 DEF Effects
<1>4. /\ ~apart' => Shown(state') = call
      /\ ~unsure' => Heard(microphone') = gain
  BY <1>1, <1>2 DEF CallInStep, GainInStep, StateInStep, MicrophoneInStep, Heard
<1>5. CASE Return(r, "invalid_state")
  <2>1. state' \in CallState /\ microphone' \in [gain : Nat, muted : BOOLEAN]
        /\ apart' \in BOOLEAN /\ unsure' \in BOOLEAN /\ (apart => apart')
    BY <1>1, <1>2 DEF Types
  <2> QED
    BY <1>1, <1>3, <1>4, <1>5, <2>1, ReturnHolds
<1>6. ASSUME NEW s \in NextState(state, command[r]), next' = [next EXCEPT ![r] = s],
             lock' = r, pc' = [pc EXCEPT ![r] = "sending"], UNCHANGED <<command, response>>
      PROVE  Inv'
  <2>1. /\ pc'[r] = "sending" /\ next'[r] = s
        /\ \A q \in Requests \ {r} : pc'[q] = pc[q] /\ next'[q] = next[q]
    BY <1>2, <1>6 DEF Types
  <2>2. \A q \in Requests : pc[q] \notin {"sending", "sent"}
    BY <1>1, <1>2 DEF Serial
  <2>3. Types'
    <3>1. s \in CallState
      BY DEF NextState
    <3>2. next' \in [Requests -> CallState]
      BY <1>2, <1>6, <3>1 DEF Types
    <3>3. pc' \in [Requests -> {"idle", "locking", "sending", "sent"}]
      BY <1>2, <1>6 DEF Types
    <3> QED
      BY <1>1, <1>2, <1>6, <3>2, <3>3 DEF Types
  <2>4. Serial'
    BY <1>1, <1>6, <2>1, <2>2 DEF Serial, NextState
  <2>5. Effects'
    BY <1>1, <1>2, <1>3, <1>6, <2>1 DEF Effects
  <2>6. CallInStep'
    BY <1>1, <1>2, <1>4, <1>6, <2>1 DEF CallInStep, StateInStep
  <2>7. GainInStep'
    BY <1>1, <1>2, <1>4, <1>6, <2>1 DEF GainInStep, MicrophoneInStep
  <2> QED
    BY <2>3, <2>4, <2>5, <2>6, <2>7 DEF Inv
<1> QED
  BY <1>5, <1>6 DEF Check

\* The backend has succeeded: the transition is allowed.
LEMMA SucceedHolds ==
  ASSUME Inv, NEW r \in Requests, lock = r, Succeed(r),
         UNCHANGED <<call, gain, effected, apart, unsure>>,
         ~apart => Shown(next[r]) = call,
         ~unsure => Heard(Adjusted(command[r])) = gain
  PROVE  Inv'
<1>1. Types /\ Serial
  BY DEF Inv
<1>2. next[r] \in NextState(state, command[r])
  BY <1>1 DEF Serial
<1>3. TransitionAllowed(state, next[r]) /\ next[r] \in CallState
  BY <1>1, <1>2, NextStateAllowed DEF Types
<1>4. state' = next[r] /\ microphone' = Adjusted(command[r]) /\ Return(r, "ok")
  BY <1>3 DEF Succeed
<1>5. command[r] \in CallCommand \cup {NoCommand} /\ microphone \in [gain : Nat, muted : BOOLEAN]
  BY <1>1 DEF Types
<1>6. command[r].gain \in Nat
  <2>1. {0} \cup Gains \subseteq Nat
    BY CallControllerAssumption DEF DefaultGain
  <2>2. CASE command[r] \in CallCommand
    <3>1. command[r].gain \in {0} \cup Gains
      BY <2>2, Zenon DEF CallCommand
    <3> QED
      BY ONLY <2>1, <3>1, Zenon
  <2>3. CASE command[r] = NoCommand
    BY <2>3 DEF NoCommand
  <2> QED
    BY <1>5, <2>2, <2>3
<1>7. Adjusted(command[r]) \in [gain : Nat, muted : BOOLEAN]
  BY <1>5, <1>6 DEF Adjusted
<1>8. apart' \in BOOLEAN /\ unsure' \in BOOLEAN /\ (apart => apart')
  BY <1>1 DEF Types
<1>9. pc[r] # "idle"
  BY <1>1 DEF Serial
<1> QED
  BY <1>3, <1>4, <1>7, <1>8, <1>9, ReturnHolds

LEMMA ReturnsHold ==
  ASSUME Inv, NEW r \in Requests,
         Remember(r) \/ SendReturns(r)
  PROVE  Inv'
<1>1. Types /\ Serial /\ CallInStep /\ GainInStep
  BY DEF Inv
<1>2. Succeed(r) /\ UNCHANGED <<call, gain, effected, apart, unsure>>
  BY DEF Remember, SendReturns, phoneVars, history
<1>3. CASE SendReturns(r)
  <2>1. pc[r] = "sent" /\ lock = r
    BY <1>1, <1>3 DEF SendReturns, Serial
  <2>2. ~apart => Shown(next[r]) = call
    BY <1>1, <2>1 DEF CallInStep
  <2>3. ~unsure => Heard(Adjusted(command[r])) = gain
    BY <1>1, <2>1 DEF GainInStep
  <2> QED
    BY <1>2, <2>1, <2>2, <2>3, SucceedHolds
<1>4. CASE Remember(r)
  <2>1. /\ pc[r] = "sending" /\ lock = r
        /\ command[r].op = "set_microphone_gain" /\ microphone.muted
    BY <1>1, <1>4 DEF Remember, Sends, Serial
  <2>2. next[r] = state
    <3>1. next[r] \in NextState(state, command[r]) /\ state \in CallState
      BY <1>1, <2>1 DEF Serial, Types
    <3> QED
      BY <2>1, <3>1, NextStateAllowed DEF CallOp
  <2>3. ~apart => Shown(next[r]) = call
    BY <1>1, <2>1, <2>2 DEF CallInStep
  <2>4. Heard(Adjusted(command[r])) = Heard(microphone)
    BY <1>1, <2>1 DEF Types, Adjusted, Heard
  <2>5. ~unsure => Heard(microphone) = gain
    BY <1>1, <2>1 DEF GainInStep
  <2> QED
    BY <1>2, <2>1, <2>3, <2>4, <2>5, SucceedHolds
<1> QED
  BY <1>3, <1>4

\* The phone has the command: it carries it out, or refuses it.
LEMMA SentHolds ==
  ASSUME Inv, NEW r \in Requests, pc[r] = "sending", pc' = [pc EXCEPT ![r] = "sent"],
         UNCHANGED <<state, microphone, lock, command, next, response>>,
         apart' \in BOOLEAN, unsure' \in BOOLEAN, effected' \in [Requests -> BOOLEAN],
         \A q \in Requests \ {r} : effected'[q] = effected[q],
         effected'[r] \/ (apart' /\ command[r].op \notin MicrophoneOp),
         ~apart' => Shown(next[r]) = call',
         ~unsure' => Heard(Adjusted(command[r])) = gain'
  PROVE  Inv'
<1>1. Types /\ Serial /\ Effects
  BY DEF Inv
<1>2. lock = r
  BY <1>1 DEF Serial
<1>3. pc'[r] = "sent" /\ \A q \in Requests \ {r} : pc'[q] = pc[q] /\ pc[q] \notin {"sending", "sent"}
  BY <1>1, <1>2 DEF Types, Serial
<1>4. Types'
  BY <1>1 DEF Types
<1>5. Serial'
  BY <1>1, <1>2, <1>3 DEF Serial, NextState
<1>6. Effects'
  BY <1>1, <1>3 DEF Effects
<1>7. CallInStep'
  BY <1>2, <1>3, CallControllerAssumption DEF CallInStep, StateInStep
<1>8. GainInStep'
  <2>1. Adjusted(command[r])' = Adjusted(command[r])
    BY DEF Adjusted
  <2> QED
    BY <1>2, <1>3, <2>1, CallControllerAssumption DEF GainInStep, MicrophoneInStep
<1> QED
  BY <1>4, <1>5, <1>6, <1>7, <1>8 DEF Inv

LEMMA DeliverHolds ==
  ASSUME Inv, NEW r \in Requests, Deliver(r) PROVE Inv'
<1>1. Types /\ Serial /\ CallInStep /\ GainInStep
  BY DEF Inv
<1>2. /\ pc[r] = "sending" /\ Sends(command[r]) /\ pc' = [pc EXCEPT ![r] = "sent"]
      /\ effected' = [effected EXCEPT ![r] = TRUE]
      /\ UNCHANGED <<state, microphone, lock, command, next, response>>
  BY DEF Deliver, controllerVars
<1>3. /\ effected' \in [Requests -> BOOLEAN] /\ effected'[r]
      /\ \A q \in Requests \ {r} : effected'[q] = effected[q]
  BY <1>1, <1>2 DEF Types
<1>4. lock = r
  BY <1>1, <1>2 DEF Serial
<1>5. next[r] \in NextState(state, command[r]) /\ state \in CallState
  BY <1>1, <1>4 DEF Serial, Types
<1>6. /\ command[r].op = "answer" => next[r] = "active"
      /\ command[r].op \in {"reject", "hang_up"} => next[r] = "ended"
      /\ command[r].op = "dial" => next[r] = "outgoing"
      /\ command[r].op \notin CallOp => next[r] = state
  BY <1>5, NextStateAllowed
<1>7. /\ ~apart => Shown(state) = call
      /\ ~unsure => Heard(microphone) = gain
  BY <1>1, <1>2, <1>4 DEF CallInStep, GainInStep
<1>8. command[r].op \notin MicrophoneOp => Adjusted(command[r]) = microphone
  BY DEF Adjusted, MicrophoneOp
<1>9. CASE /\ command[r].op \in CallOp /\ call' \in Effect(command[r].op) /\ apart' = FALSE
           /\ UNCHANGED <<gain, unsure>>
  <2>1. Shown(next[r]) = call'
    BY <1>6, <1>9 DEF Effect, CallOp, Shown
  <2>2. command[r].op \notin MicrophoneOp
    BY <1>9 DEF CallOp, MicrophoneOp
  <2>3. apart' \in BOOLEAN /\ unsure' \in BOOLEAN /\ (~unsure' => Heard(Adjusted(command[r])) = gain')
    BY <1>1, <1>7, <1>8, <1>9, <2>2 DEF Types
  <2> QED
    BY <1>2, <1>3, <2>1, <2>3, SentHolds
<1>10. CASE /\ command[r].op \in MicrophoneOp /\ gain' = SentGain(command[r]) /\ unsure' = FALSE
            /\ UNCHANGED <<call, apart>>
  <2>1. Heard(Adjusted(command[r])) = gain'
    BY <1>1, <1>2, <1>10 DEF Types, MicrophoneOp, Adjusted, SentGain, Sends, Heard
  <2>2. command[r].op \notin CallOp
    BY <1>10 DEF CallOp, MicrophoneOp
  <2>3. apart' \in BOOLEAN /\ unsure' \in BOOLEAN /\ (~apart' => Shown(next[r]) = call')
    BY <1>1, <1>6, <1>7, <1>10, <2>2 DEF Types
  <2> QED
    BY <1>2, <1>3, <2>1, <2>3, SentHolds
<1>11. CASE command[r].op \in OtherOp /\ UNCHANGED <<call, gain, apart, unsure>>
  <2>1. command[r].op \notin CallOp /\ command[r].op \notin MicrophoneOp
    BY <1>11 DEF CallOp, MicrophoneOp, OtherOp
  <2>2. /\ apart' \in BOOLEAN /\ unsure' \in BOOLEAN
        /\ ~apart' => Shown(next[r]) = call'
        /\ ~unsure' => Heard(Adjusted(command[r])) = gain'
    BY <1>1, <1>6, <1>7, <1>8, <1>11, <2>1 DEF Types
  <2> QED
    BY <1>2, <1>3, <2>2, SentHolds
<1> QED
  BY <1>9, <1>10, <1>11 DEF Deliver, phoneVars

LEMMA RefuseHolds ==
  ASSUME Inv, NEW r \in Requests, Refuse(r) PROVE Inv'
<1>1. Types /\ Serial /\ GainInStep
  BY DEF Inv
<1>2. /\ pc[r] = "sending" /\ pc' = [pc EXCEPT ![r] = "sent"] /\ apart' = TRUE
      /\ UNCHANGED <<state, microphone, lock, command, next, response, call, gain, effected, unsure>>
      /\ command[r].op \in CallOp \cup {"send_dtmf"}
  BY DEF Refuse, controllerVars, phoneVars
<1>3. command[r].op \notin MicrophoneOp
  BY <1>2 DEF CallOp, MicrophoneOp
<1>4. Adjusted(command[r]) = microphone
  BY <1>3 DEF Adjusted, MicrophoneOp
<1>5. lock = r
  BY <1>1, <1>2 DEF Serial
<1>6. ~unsure' => Heard(Adjusted(command[r])) = gain'
  BY <1>1, <1>2, <1>4, <1>5 DEF GainInStep
<1>7. apart' \in BOOLEAN /\ unsure' \in BOOLEAN /\ effected' \in [Requests -> BOOLEAN]
      /\ \A q \in Requests \ {r} : effected'[q] = effected[q]
  BY <1>1, <1>2 DEF Types
<1> QED
  BY <1>2, <1>3, <1>6, <1>7, SentHolds

LEMMA FailHolds ==
  ASSUME Inv, NEW r \in Requests, SendFails(r) PROVE Inv'
<1>1. Types /\ Serial /\ Effects /\ CallInStep /\ GainInStep
  BY DEF Inv
<1>2. /\ pc[r] \in {"sending", "sent"} /\ Return(r, "backend")
      /\ apart' = (apart \/ (effected[r] /\ command[r].op \in CallOp))
      /\ unsure' = (unsure \/ (effected[r] /\ command[r].op \in MicrophoneOp))
      /\ UNCHANGED <<state, microphone, call, gain, effected>>
  BY DEF SendFails, phoneVars
<1>3. lock = r
  BY <1>1, <1>2 DEF Serial
<1>4. apart' \in BOOLEAN /\ unsure' \in BOOLEAN /\ (apart => apart') /\ (unsure => unsure')
  BY <1>2
<1>5. ~apart' => Shown(state') = call
  <2>1. CASE pc[r] = "sending"
    BY <1>1, <1>2, <1>3, <1>4, <2>1 DEF CallInStep
  <2>2. CASE pc[r] = "sent"
    <3> SUFFICES ASSUME ~apart' PROVE Shown(state') = call
      OBVIOUS
    <3>1. ~apart /\ effected[r] /\ command[r].op \notin CallOp
      BY <1>1, <1>2, <2>2 DEF Effects
    <3>2. next[r] \in NextState(state, command[r]) /\ state \in CallState
      BY <1>1, <1>3 DEF Serial, Types
    <3>3. next[r] = state
      BY <3>1, <3>2, NextStateAllowed
    <3> QED
      BY <1>1, <1>2, <1>3, <2>2, <3>1, <3>3 DEF CallInStep
  <2> QED
    BY <1>2, <2>1, <2>2
<1>6. ~unsure' => Heard(microphone') = gain
  <2>1. CASE pc[r] = "sending"
    BY <1>1, <1>2, <1>3, <1>4, <2>1 DEF GainInStep
  <2>2. CASE pc[r] = "sent"
    <3> SUFFICES ASSUME ~unsure' PROVE Heard(microphone') = gain
      OBVIOUS
    <3>1. ~unsure /\ command[r].op \notin MicrophoneOp
      BY <1>1, <1>2, <2>2 DEF Effects
    <3>2. Adjusted(command[r]) = microphone
      BY <3>1 DEF Adjusted, MicrophoneOp
    <3> QED
      BY <1>1, <1>2, <1>3, <2>2, <3>1, <3>2 DEF GainInStep
  <2> QED
    BY <1>2, <2>1, <2>2
<1>7. state' \in CallState /\ microphone' \in [gain : Nat, muted : BOOLEAN] /\ pc[r] # "idle"
  BY <1>1, <1>2 DEF Types
<1> QED
  BY <1>2, <1>3, <1>4, <1>5, <1>6, <1>7, ReturnHolds

LEMMA NextHolds ==
  ASSUME Inv, [Next]_vars PROVE Inv'
<1>1. CASE UNCHANGED vars
  <2>1. UNCHANGED <<state, microphone, lock, pc, command, next, response, call, gain, effected, apart, unsure>>
    BY <1>1 DEF vars, controllerVars, requestVars, phoneVars, history
  <2>2. \A r \in Requests : Adjusted(command[r])' = Adjusted(command[r])
    BY <2>1 DEF Adjusted
  <2> QED
    BY <2>1, <2>2 DEF Inv, Types, Serial, Effects, CallInStep, GainInStep, StateInStep,
                      MicrophoneInStep, NextState
<1>2. ASSUME NEW r \in Requests, RequestStep(r) PROVE Inv'
  BY <1>2, BeginHolds, CheckHolds, ReturnsHold, DeliverHolds, RefuseHolds, FailHolds
     DEF RequestStep
<1> QED
  BY <1>1, <1>2, PhoneHolds DEF Next

LEMMA Inductive == Spec => []Inv
<1>1. Init => Inv
  BY InitHolds
<1>2. Inv /\ [Next]_vars => Inv'
  BY NextHolds
<1> QED
  BY <1>1, <1>2, PTL DEF Spec

\* Between two AT commands the controller's state is the phone's, as long as the
\* phone's call does not change by itself and no failure is reported for what
\* the phone has done.
THEOREM ControllerInStep ==
  Spec => []StateInStep
<1>1. Inv => StateInStep
  BY DEF Inv, CallInStep
<1> QED
  BY Inductive, <1>1, PTL

\* The phone's gain is what the backend holds it for, through any sequence of
\* muting, setting the gain and failing.
THEOREM GainStaysInStep ==
  Spec => []MicrophoneInStep
<1>1. Inv => MicrophoneInStep
  BY DEF Inv, GainInStep
<1> QED
  BY Inductive, <1>1, PTL

\* No command the phone has carried out is answered with InvalidState.
THEOREM EffectIsNotRefused ==
  Spec => []NoRefusalAfterEffect
<1>1. Inv => NoRefusalAfterEffect
  BY DEF Inv, Effects, NoRefusalAfterEffect
<1> QED
  BY Inductive, <1>1, PTL
=============================================================================
