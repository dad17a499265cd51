-------------------------------- MODULE Dev --------------------------------
(***************************************************************************)
(* dev_module (sysc/dev.h, sysc/dev.cpp): the TLM 2.0 target, an array of  *)
(* registers behind b_transport and transport_dbg.                         *)
(*                                                                         *)
(* Memory is modelled byte by byte.  ByteWidth is the width of the bus in  *)
(* bytes, which is also that of a register (the default bus of 32 bits and *)
(* int32_t), so that &m_register[address/m_byte_width] is byte number      *)
(* address.  A transaction is a tlm_generic_payload: its data is the       *)
(* sequence that data_ptr and data_length describe.                        *)
(***************************************************************************)
EXTENDS Integers, Sequences

CONSTANTS
  RegisterCount,  \* m_register_count
  ByteWidth,      \* m_byte_width
  Byte            \* the values of a byte

ASSUME DevAssumption ==
  RegisterCount \in Nat \ {0} /\ ByteWidth \in Nat \ {0}

VARIABLES
  register,     \* the bytes of m_register
  trans,        \* the payload of the last call, as the target returns it
  delay,        \* what b_transport adds to its delay, in units of m_latency
  transferred,  \* the value transport_dbg returns
  overrun       \* a memcpy has reached beyond m_register

devVars == <<register, trans, delay, transferred, overrun>>

TlmCommands == {"read", "write", "ignore"}
TlmStatuses == {"incomplete", "ok", "address_error", "byte_enable_error",
                "burst_error"}

Transactions == [command : TlmCommands, address : Nat, data : Seq(Byte),
                 byte_enables : BOOLEAN, streaming_width : Nat,
                 status : TlmStatuses]

Size == RegisterCount * ByteWidth

----------------------------------------------------------------------------
(* The checks of a transaction.                                            *)

AddressError(t) == t.address >= Size \/ t.address % ByteWidth # 0

\* Mutant: the end of the transfer is not checked.
BurstErrorNoEnd(t) ==
  \/ Len(t.data) % ByteWidth # 0
  \/ t.streaming_width < Len(t.data)
  \/ Len(t.data) = 0
  \/ t.address \div ByteWidth >= RegisterCount

BurstError(t) ==
  \/ Len(t.data) % ByteWidth # 0
  \/ t.streaming_width < Len(t.data)
  \/ Len(t.data) = 0
  \/ (t.address + Len(t.data)) \div ByteWidth >= RegisterCount

\* The response status that b_transport decides on, in the order of its tests.
BStatus(t) ==
  IF AddressError(t) THEN "address_error"
  ELSE IF t.byte_enables THEN "byte_enable_error"
  ELSE IF BurstError(t) THEN "burst_error"
  ELSE "ok"

DbgStatus(t) == IF AddressError(t) THEN "address_error" ELSE "ok"

----------------------------------------------------------------------------
(* The copies.  Bytes beyond m_register belong to other objects: reading   *)
(* them yields anything, writing them changes none of the registers.       *)

Touched(t) == t.address .. (t.address + Len(t.data) - 1)

InRange(t) == Touched(t) \subseteq 0 .. (Size - 1)

\* Mutant: the bytes of a write are stored from the last to the first.
StoredReversed(t) ==
  [a \in 0 .. (Size - 1) |->
     IF a \in Touched(t) THEN t.data[Len(t.data) - (a - t.address)]
                         ELSE register[a]]

Stored(t) ==
  [a \in 0 .. (Size - 1) |->
     IF a \in Touched(t) THEN t.data[a - t.address + 1] ELSE register[a]]

Loaded(t) ==
  {d \in [1 .. Len(t.data) -> Byte] :
     \A i \in 1 .. Len(t.data) :
       t.address + i - 1 < Size => d[i] = register[t.address + i - 1]}

\* The copy that t asks for, and the status s set after it.
Copy(t, s) ==
  /\ \/ /\ t.command = "read"
        /\ \E d \in Loaded(t) : trans' = [t EXCEPT !.data = d, !.status = s]
        /\ UNCHANGED register
     \/ /\ t.command = "write"
        /\ register' = Stored(t)
        /\ trans' = [t EXCEPT !.status = s]
     \/ /\ t.command = "ignore"
        /\ trans' = [t EXCEPT !.status = s]
        /\ UNCHANGED register
  /\ overrun' = (overrun \/ (t.command # "ignore" /\ ~InRange(t)))

Refuse(t, s) ==
  /\ trans' = [t EXCEPT !.status = s]
  /\ UNCHANGED <<register, overrun>>

----------------------------------------------------------------------------
(* The two transport calls.                                                *)

\* Mutant: a latency per word after the first.
LatencyNoFirst(t) == (Len(t.data) \div ByteWidth) - 1

Latency(t) == Len(t.data) \div ByteWidth

\* Mutant: the data is copied whatever the checks say.
BTransportUnchecked(t) ==
  /\ Copy(t, BStatus(t))
  /\ delay' = IF BStatus(t) = "ok" THEN Latency(t) ELSE 0
  /\ UNCHANGED transferred

BTransport(t) ==
  /\ IF BStatus(t) = "ok" THEN Copy(t, "ok") /\ delay' = Latency(t)
                          ELSE Refuse(t, BStatus(t)) /\ delay' = 0
  /\ UNCHANGED transferred

TransportDbg(t) ==
  /\ IF DbgStatus(t) = "ok"
     THEN /\ Copy(t, "ok")
          /\ transferred' = IF t.command = "ignore" THEN 0 ELSE Len(t.data)
     ELSE Refuse(t, DbgStatus(t)) /\ transferred' = 0
  /\ UNCHANGED delay
=============================================================================
