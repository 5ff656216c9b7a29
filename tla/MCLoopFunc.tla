---------------------------- MODULE MCLoopFunc ----------------------------
(* The loops of rl_real_uika.cpp and the order of its destructor. *)
EXTENDS LoopFunc

RealLoops == {"keyboard", "control", "rl"}
RealOrder == <<"keyboard", "control", "rl">>

TwoLoops == {"control", "rl"}
TwoOrder == <<"control", "rl">>
=============================================================================
