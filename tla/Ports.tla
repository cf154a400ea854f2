------------------------------- MODULE Ports -------------------------------
(***************************************************************************)
(* The vocabulary every module of the gateway shares: the numbers of the   *)
(* source and sink slots (enum source_type_t and enum sink_type_t) and the *)
(* MAVLink frames, reduced to what the policies, the transformers and the  *)
(* framing distinguish.                                                    *)
(***************************************************************************)
EXTENDS Naturals

\* enum source_type_t
SOURCE_TYPE_NULL    == 0
SOURCE_TYPE_VMC     == 1
SOURCE_TYPE_LEGACY  == 2
SOURCE_TYPE_ENCLAVE == 3
MAX_SOURCES         == 4
Sources             == 0 .. MAX_SOURCES - 1

\* enum sink_type_t (note the order: it is not the order of the sources)
SINK_TYPE_DISCARD == 0
SINK_TYPE_VMC     == 1
SINK_TYPE_ENCLAVE == 2
SINK_TYPE_LEGACY  == 3
MAX_SINKS         == 4
Sinks             == 0 .. MAX_SINKS - 1

\* The message ids the policies tell apart; OTHER stands for every other id.
MsgIds == {"MEMINFO", "COMMAND_LONG", "PARAM_SET", "OTHER"}

(***************************************************************************)
(* A frame.  `fence' says that the payload names the geofence (the command *)
(* is DO_FENCE_ENABLE, or the parameter name starts with FENCE_ENABLE),    *)
(* `zero' that its argument is 0; both describe the payload in the clear.  *)
(* `xored' says that the payload's bytes are combined with the key, so     *)
(* that a field read from them is something else.  `intact' says that the  *)
(* frame passes the parser's checksum.                                     *)
(***************************************************************************)
Frame == [msgid : MsgIds, fence : BOOLEAN, zero : BOOLEAN,
          xored : BOOLEAN, intact : BOOLEAN]

\* What mavlink_msg_*_decode finds in the payload: a request to turn the
\* geofence off (security_policies.c, the body of reject_..._geofence).
DisablesFence(f) ==
    /\ f.msgid \in {"COMMAND_LONG", "PARAM_SET"}
    /\ f.fence /\ f.zero /\ ~f.xored

\* xor_encode and xor_decode are the same involution on the payload; the
\* header keeps its msgid and the checksum is computed anew.
Xor(f) == [f EXCEPT !.xored = ~f.xored]
=============================================================================
