----------------------------- MODULE PolicyGate -----------------------------
(***************************************************************************)
(* What the gateway promises, whatever its pipeline looks like: frames of  *)
(* a source are taken in order, one at a time, and each is either handed   *)
(* to every attached peer the source may talk to, or to none of them.  It  *)
(* is handed to none exactly when it is damaged, or when the policies are  *)
(* on and it is forbidden.  The decision and the hand-over are one step,   *)
(* so no change of the policy switch can fall between them.                *)
(***************************************************************************)
EXTENDS Ports, Sequences

CONSTANTS Attached,    \* the sinks that have somewhere to write to
          Decoding,    \* the sources whose payload may have to be deciphered
          Accepted     \* the frames that may arrive

VARIABLES sent,        \* sent[s]: every frame that arrived at source s so far
          handled,     \* handled[s]: how many of them have been dealt with
          policy,      \* the policy switch
          decipher,    \* the transformer switch
          delivered    \* delivered[k]: the <<source, index>> handed to sink k

vars == <<sent, handled, policy, decipher, delivered>>

\* The vehicle talks to the ground side and the ground side to the vehicle.
Peers(s) == CASE s = SOURCE_TYPE_VMC -> {SINK_TYPE_LEGACY, SINK_TYPE_ENCLAVE}
              [] s \in {SOURCE_TYPE_LEGACY, SOURCE_TYPE_ENCLAVE} -> {SINK_TYPE_VMC}
              [] OTHER -> {}

Reading(s, f) == IF decipher /\ s \in Decoding THEN Xor(f) ELSE f

\* What nobody but the vehicle itself may say.
Forbidden(s, f) ==
    /\ s \in {SOURCE_TYPE_LEGACY, SOURCE_TYPE_ENCLAVE}
    /\ f.msgid = "MEMINFO" \/ DisablesFence(f)

Passes(s, f) == f.intact /\ ~(policy /\ Forbidden(s, Reading(s, f)))

Init ==
    /\ sent = [s \in Sources |-> <<>>]
    /\ handled = [s \in Sources |-> 0]
    /\ policy = TRUE
    /\ decipher = FALSE
    /\ delivered = [k \in Sinks |-> <<>>]

Arrive(s) ==
    /\ \E f \in Accepted : sent' = [sent EXCEPT ![s] = Append(@, f)]
    /\ UNCHANGED <<handled, policy, decipher, delivered>>

Handle(s) ==
    /\ handled[s] < Len(sent[s])
    /\ handled' = [handled EXCEPT ![s] = @ + 1]
    /\ delivered' =
         [k \in Sinks |->
            IF k \in Peers(s) \cap Attached /\ Passes(s, sent[s][handled'[s]])
            THEN Append(delivered[k], <<s, handled'[s]>>)
            ELSE delivered[k]]
    /\ UNCHANGED <<sent, policy, decipher>>

Switch ==
    /\ policy' \in BOOLEAN /\ decipher' \in BOOLEAN
    /\ UNCHANGED <<sent, handled, delivered>>

Next == Switch \/ \E s \in Sources : Arrive(s) \/ Handle(s)

Spec == Init /\ [][Next]_vars
=============================================================================
