---------------------------- MODULE MCTlmBridge ----------------------------
(***************************************************************************)
(* Values for TLC: a device of three registers of two bytes; packets with  *)
(* aligned and misaligned addresses up to the end of the device and with   *)
(* no, half, one and two words of data.                                    *)
(***************************************************************************)
EXTENDS TlmBridge

MCByte == {0, 1}
MCAddresses == {0, 1, 2, 4, 6}
MCPayloads == {<<>>, <<1>>, <<0, 1>>, <<0, 1, 1, 1>>}
=============================================================================
