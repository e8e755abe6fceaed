-------------------------- MODULE MCSecuredLights ---------------------------
(***************************************************************************)
(* Instances of SecuredLights for TLC.                                     *)
(***************************************************************************)
EXTENDS SecuredLights

(* Every byte GetColorMode can produce, and one (9) it cannot. *)
LampBytes == {0, 1, 2, 3, 4, 8, 9, 10, 12}

(* An honest client: all pairs of lamp bytes, named as the proxy names them. *)
MCHonestMessages ==
    {SetCrossLightsRequest(d2 * 256 + d1) : d1, d2 \in LampBytes}

(* A client that names colours freely: permitted and forbidden modes, each *)
(* with every pair of names.                                               *)
MCForgedMessages ==
    [crossMode : {\h0A0A, \h0104, \h0401, \h0302, \h0101, \h0404, \h0A04, 0},
     dir1Mode : FlowStates \cup {"unknown"}, dir2Mode : FlowStates \cup {"unknown"}]
=============================================================================
