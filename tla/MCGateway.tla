----------------------------- MODULE MCGateway -----------------------------
(***************************************************************************)
(* The programs of the repository that hook sources: main.c, test/main-sim *)
(* (as main-xor), test/main-dump; and a CertiKOS build.                    *)
(***************************************************************************)
EXTENDS Gateway

Hooked(vmc, legacy) ==
    [p \in Sources |-> CASE p = SOURCE_TYPE_VMC -> vmc
                        [] p = SOURCE_TYPE_LEGACY -> legacy
                        [] OTHER -> "none"]

Programs == {Hooked("ring", "chunk"), Hooked("chunk", "chunk"),
             Hooked("chunk", "none"), Hooked("polled", "polled")}
=============================================================================
