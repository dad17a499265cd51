----------------------------- MODULE TlmBridge -----------------------------
(***************************************************************************)
(* The middle of initiator_sysc_thread_process (sysc/async_adaptor.cpp,    *)
(* lines 354 to 397): how a TLMX packet becomes a TLM 2.0 transaction on   *)
(* the target of module Dev, and how the target's answer becomes the       *)
(* status of the packet.  Packets come one at a time, as AsyncAdaptor      *)
(* shows.  tlm2_trans is one object for all of them: it is the variable    *)
(* trans of Dev, and what a packet does not set keeps its last value.      *)
(***************************************************************************)
EXTENDS Dev

CONSTANTS
  Addresses,  \* the addresses that packets name
  Payloads    \* the data that packets carry

ASSUME BridgeAssumption ==
  Addresses \subseteq Nat /\ Payloads \subseteq Seq(Byte)

VARIABLE packet  \* the packet just served, with its response

vars == <<devVars, packet>>

TlmxCommands ==
  {"ignore", "write", "debug_write", "read", "debug_read", "unknown"}
TlmxStatuses == {"none", "ok", "address_error", "incomplete", "generic_error"}

Packets == [command : TlmxCommands, address : Addresses, data : Payloads,
            status : {"none"}]

IsDebug(p) == p.command \in {"debug_read", "debug_write"}

Init ==
  /\ register \in [0 .. (Size - 1) -> Byte]
  /\ trans = [command |-> "ignore", address |-> 0, data |-> <<>>,
              byte_enables |-> FALSE, streaming_width |-> 0,
              status |-> "incomplete"]
  /\ delay = 0 /\ transferred = 0 /\ overrun = FALSE
  /\ packet = [command |-> "ignore", address |-> 0, data |-> <<>>,
               status |-> "none"]

\* Mutant: a read is not listed in the switch.
Tlm2CommandNoRead(c) ==
  CASE c = "ignore"              -> "ignore"
    [] c = "debug_write"         -> "write"
    [] c \in {"write", "debug_read"} -> "read"
    [] OTHER                     -> trans.command

\* The first switch.  TLMX_WRITE becomes a read; a command it does not list
\* leaves the command of the previous transaction in place.
Tlm2Command(c) ==
  CASE c = "ignore"                      -> "ignore"
    [] c = "debug_write"                 -> "write"
    [] c \in {"write", "read", "debug_read"} -> "read"
    [] OTHER                             -> trans.command

Tlm2(p) ==
  [command |-> Tlm2Command(p.command), address |-> p.address,
   data |-> p.data, byte_enables |-> FALSE,
   streaming_width |-> Len(p.data), status |-> "incomplete"]

\* Mutant: the TLM status is passed on as it is.
TlmxStatusRaw(s) == s

\* The last switch.
TlmxStatus(s) ==
  CASE s = "ok"            -> "ok"
    [] s = "address_error" -> "address_error"
    [] s = "incomplete"    -> "incomplete"
    [] OTHER               -> "generic_error"

\* One packet, from the payload's setup to the packet's status.
Serve(p) ==
  /\ IF IsDebug(p) THEN TransportDbg(Tlm2(p)) ELSE BTransport(Tlm2(p))
  /\ packet' = [p EXCEPT !.data = trans'.data, !.status = TlmxStatus(trans'.status)]

Next == \E p \in Packets : Serve(p)

Spec == Init /\ [][Next]_vars

----------------------------------------------------------------------------
(* Properties.                                                             *)

\* Every variable has its type.
TypeOK ==
  /\ register \in [0 .. (Size - 1) -> Byte]
  /\ trans \in Transactions
  /\ delay \in Nat /\ transferred \in Nat /\ overrun \in BOOLEAN
  /\ packet \in [command : TlmxCommands, address : Nat, data : Seq(Byte),
                 status : TlmxStatuses]

\* b_transport never reaches beyond m_register, whatever the packet says.
BTransportStaysInRange ==
  [][~IsDebug(packet') => overrun' = overrun]_vars

\* A packet that is answered with an error leaves no trace in the device.
RefusedPacketChangesNothing ==
  [][packet'.status # "ok" => register' = register /\ overrun' = overrun]_vars

\* A packet that only reads does not write, whatever was served before it
\* (the command of the payload outlives the packet).
ReadsDoNotStore ==
  [][packet'.command \in {"read", "debug_read", "ignore"}
       => register' = register]_vars

\* After a packet that was answered with "ok" and has moved data, the bytes
\* it carries are those of the registers it names, for bursts too.
DataMovesExactly ==
  (packet.status = "ok" /\ trans.command # "ignore") =>
    \A i \in 1 .. Len(packet.data) :
      packet.address + i - 1 < Size
        => packet.data[i] = register[packet.address + i - 1]

\* What AsyncAdaptor takes for granted of wait(delay): a packet for
\* b_transport takes simulated time if and only if it is answered with "ok".
OkTakesTime ==
  (~IsDebug(packet) /\ packet.status # "none")
    => (delay > 0 <=> packet.status = "ok")

----------------------------------------------------------------------------
(* What the repository says of the program and the code does not do.       *)

\* software.c:70, "Write to all registers" with dev_put, which sends
\* TLMX_WRITE: after a write that was answered with "ok" the registers hold
\* what the request carried.
WritesStore ==
  [][\A p \in Packets :
       (Serve(p) /\ p.command = "write" /\ packet'.status = "ok")
         => register' = Stored(Tlm2(p))]_vars
=============================================================================
