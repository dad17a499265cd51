------------------------------ MODULE MCSystem ------------------------------
(***************************************************************************)
(* Values for TLC: bytes that are words, a header of two bytes, so that a  *)
(* packet has three and a read may end before, in or behind its header.    *)
(***************************************************************************)
EXTENDS System

MCByte == {0, 1}
MCAddresses == 0 .. 3
MCPayloads == {<<>>, <<0>>, <<1>>, <<0, 1>>}
=============================================================================
