----------------------------- MODULE MCVirtioGpu -----------------------------
(* Instances of VirtioGpu for TLC. *)
EXTENDS VirtioGpu

\* The functions that issue commands all put their response at one address ...
SharedResp == [k \in Kinds |-> "a"]

\* ... or those of one depth of the call chain do: the display information is a
\* larger structure, and presenting starts from another depth than starting up.
SplitResp == [k \in Kinds |-> CASE k = "display_info" -> "a"
                                [] k \in {"transfer", "flush"} -> "b"
                                [] OTHER -> "c"]

BothLayouts == {SharedResp, SplitResp}
=============================================================================
