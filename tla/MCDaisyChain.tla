---------------------------- MODULE MCDaisyChain ----------------------------
(***************************************************************************)
(* An instance for TLC: the parallel port and one serial controller.       *)
(***************************************************************************)
EXTENDS DaisyChain

MCChain == <<"pio", "sio", "sio">>
MCWr1Values == {[ext |-> TRUE, tx |-> FALSE, affects |-> TRUE, rx |-> "first"]}
MCActive == {<<1, 0>>, <<2, 0>>, <<2, 1>>, <<3, 0>>}
=============================================================================
