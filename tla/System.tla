------------------------------- MODULE System -------------------------------
(***************************************************************************)
(* The two programs together: the tests of zedboard/software.c, which call *)
(* dev_transport of zedboard/driver.c, which talks to async_os_thread of   *)
(* sysc/async_adaptor.cpp, behind which are the bridge and the device of   *)
(* TlmBridge.                                                              *)
(*                                                                         *)
(* TCP delivers bytes: a read returns any of those that have arrived, from *)
(* the first on.  Both programs read once and take what they get for a     *)
(* packet.  The device is asked in one step here: what happens between the *)
(* thread and the SystemC processes, and that a request may be lost there, *)
(* is in AsyncAdaptor.                                                     *)
(***************************************************************************)
EXTENDS Integers, Sequences, FiniteSets

CONSTANTS
  RegisterCount, ByteWidth, Byte, Addresses, Payloads,  \* see TlmBridge
  HeaderBytes,  \* TLMX_DATA_PTR_INDEX
  REGCNT,       \* the registers that are tested
  TESTCNT,      \* the number of tests
  MaxMisreads   \* bound on the misreads

\* The header; 0, which a cleared buffer holds; the registers, of which the
\* tests use those from the second on and the device refuses the last
\* (dev.cpp:103); what the tests send.
ASSUME SystemAssumption ==
  /\ 0 \in Byte /\ HeaderBytes \in Nat \ {0}
  /\ RegisterCount \in Nat \ {0} /\ ByteWidth \in Nat \ {0}
  /\ Addresses \subseteq Nat /\ Payloads \subseteq Seq(Byte)
  /\ REGCNT \in Nat \ {0} /\ TESTCNT \in Nat /\ MaxMisreads \in Nat
  /\ REGCNT + 1 < RegisterCount
  /\ {t * ByteWidth : t \in 0 .. REGCNT} \subseteq Addresses
  /\ [1 .. ByteWidth -> Byte] \subseteq Payloads

VARIABLES
  register, trans, delay, transferred, overrun, packet,  \* see TlmBridge
  software,    \* where main is
  test,        \* the test it is at
  operation,   \* the call of the test it is at
  data,        \* its variable data
  count,       \* its array count
  error_count,
  server,      \* where async_os_thread is
  request,     \* what it has unpacked
  wire_in,     \* the bytes to the simulator that have not been read
  wire_out,    \* the bytes to the embedded program that have not been read
  split,       \* history: a read has returned part of a packet
  misreads     \* history: how often bytes that start no packet were unpacked

device   == <<register, trans, delay, transferred, overrun, packet>>
program  == <<test, operation, data, count, error_count>>
wire     == <<wire_in, wire_out>>
history  == <<split, misreads>>

vars == <<device, software, program, server, request, wire, history>>

Br == INSTANCE TlmBridge

Words == [1 .. ByteWidth -> Byte]

\* count is not initialised: the loop that should do it misses the array.
Unset == <<>>

NoRequest == [command |-> "ignore", address |-> 0, data |-> <<>>,
              status |-> "none"]

Init ==
  /\ Br!Init
  /\ software = "send" /\ test = 1 /\ operation = 0
  /\ data \in Words /\ count = [t \in 0 .. (REGCNT - 1) |-> Unset]
  /\ error_count = 0
  /\ server = "read" /\ request = NoRequest
  /\ wire_in = <<>> /\ wire_out = <<>>
  /\ split = FALSE /\ misreads = 0

----------------------------------------------------------------------------
(* Packets and bytes.                                                      *)

\* A packet that is packed: byte i of it, from the header on.
Bytes(p) == [i \in 1 .. (HeaderBytes + Len(p.data)) |-> [packet |-> p, byte |-> i]]

\* What is left behind the first n bytes.  Bytes of a packet whose start has
\* been read all count as the same: whatever they are, they start no packet.
Junk == [packet |-> NoRequest, byte |-> 0]

Rest(bytes, n) ==
  [i \in 1 .. (Len(bytes) - n) |-> IF bytes[n + i].byte > i THEN Junk
                                  ELSE bytes[n + i]]

StartsPacket(bytes) ==
  \A i \in 1 .. HeaderBytes :
    bytes[i] = [packet |-> bytes[1].packet, byte |-> i]

\* The packet at the start of a buffer that was cleared before it was read.
FirstPacket(bytes) ==
  LET p == bytes[1].packet
  IN  [p EXCEPT !.data = [i \in 1 .. Len(p.data) |->
                            IF HeaderBytes + i <= Len(bytes) THEN p.data[i] ELSE 0]]

\* unpack: anything, if it is not the start of a packet that has been read.
Unpacked(bytes, Anything) ==
  IF StartsPacket(bytes) THEN {FirstPacket(bytes)}
  ELSE IF misreads < MaxMisreads THEN Anything ELSE {}

Misreads(bytes) == IF StartsPacket(bytes) THEN misreads ELSE misreads + 1

IsSplit(bytes) ==
  \/ ~StartsPacket(bytes)
  \/ Len(bytes) # HeaderBytes + Len(bytes[1].packet.data)

----------------------------------------------------------------------------
(* main of software.c, and dev_transport.                                  *)

\* Mutant: a register is taken for two words.
RegisterAddressWide(t) == (t + 1) * 2 * ByteWidth

\* DEV_COUNT1_REG + 4 * t.
RegisterAddress(t) == (t + 1) * ByteWidth

\* The calls of a test: a dev_put for each register, a dev_get of the status,
\* a dev_get for each register.
Puts == 0 .. (REGCNT - 1)
Gets == (REGCNT + 1) .. (2 * REGCNT)
Tested == IF operation \in Puts THEN operation ELSE operation - REGCNT - 1

\* What a dev_put sends is random, a dev_get sends data as it is.
Requests ==
  IF operation = REGCNT
  THEN {[command |-> "read", address |-> 0, data |-> data, status |-> "none"]}
  ELSE {[command |-> IF operation \in Puts THEN "write" ELSE "read",
         address |-> RegisterAddress(Tested), data |-> d, status |-> "none"] :
          d \in IF operation \in Puts THEN Words ELSE {data}}

SendSize == HeaderBytes + ByteWidth

\* The write.  If the simulator has gone it may succeed all the same.
SendRequest ==
  /\ software = "send" /\ test <= TESTCNT
  /\ \/ /\ \E p \in Requests : wire_in' = wire_in \o Bytes(p) /\ data' = p.data
        /\ software' = "receive"
     \/ /\ server \in {"fatal", "exit"}
        /\ software' = "aborted"
        /\ UNCHANGED <<wire_in, data>>
  /\ UNCHANGED <<device, test, operation, count, error_count, server, request,
                 wire_out, history>>

\* The bytes d, copied to data_ptr: as far as the variable data is concerned,
\* which a response may also be too short or too long for.
Stored(d) == [i \in 1 .. ByteWidth |-> IF i <= Len(d) THEN d[i] ELSE data[i]]

\* Mutant: a test makes one call too many.
FinishOneMore(p) ==
  /\ data' = Stored(p.data)
  /\ UNCHANGED <<count, error_count>>
  /\ IF operation <= 2 * REGCNT
     THEN operation' = operation + 1 /\ test' = test
     ELSE operation' = 0 /\ test' = test + 1
  /\ software' = "send"

\* A response is an error, reported by dev_transport and by main, or data that
\* count takes over.
Finish(p) ==
  /\ data' = Stored(p.data)
  /\ IF p.status # "ok"
     THEN error_count' = error_count + 2 /\ UNCHANGED count
     ELSE /\ count' = IF operation = REGCNT THEN count
                      ELSE [count EXCEPT ![Tested] = Stored(p.data)]
          /\ UNCHANGED error_count
  /\ IF operation < 2 * REGCNT
     THEN operation' = operation + 1 /\ test' = test
     ELSE operation' = 0 /\ test' = test + 1
  /\ software' = "send"

Responses == [data : Words, status : Br!TlmxStatuses]

\* Mutant: a part of a response will do.
ReceivePart ==
  /\ software = "receive"
  /\ \/ \E n \in 1 .. Len(wire_out) :
          LET bytes == SubSeq(wire_out, 1, n)
          IN  /\ n \in HeaderBytes .. SendSize
              /\ \E p \in Unpacked(bytes, Responses) : Finish(p)
              /\ misreads' = Misreads(bytes)
              /\ split' = (split \/ n < SendSize)
              /\ wire_out' = Rest(wire_out, n)
     \/ /\ server \in {"fatal", "exit"}
        /\ software' = "aborted"
        /\ UNCHANGED <<program, wire_out, history>>
  /\ UNCHANGED <<device, server, request, wire_in>>

\* The read asks for as many bytes as the request had.  Fewer, or none, fail
\* the assertion.
ReceiveResponse ==
  /\ software = "receive"
  /\ \/ \E n \in 1 .. Len(wire_out) :
          LET bytes == SubSeq(wire_out, 1, n)
          IN  /\ n <= SendSize
              /\ IF n < SendSize
                 THEN software' = "aborted" /\ UNCHANGED <<program, misreads>>
                 ELSE /\ \E p \in Unpacked(bytes, Responses) : Finish(p)
                      /\ misreads' = Misreads(bytes)
              /\ split' = (split \/ n < SendSize)
              /\ wire_out' = Rest(wire_out, n)
     \/ /\ server \in {"fatal", "exit"}
        /\ software' = "aborted"
        /\ UNCHANGED <<program, wire_out, history>>
  /\ UNCHANGED <<device, server, request, wire_in>>

\* dev_close closes the connection; the rest of it is in Driver.
Close ==
  /\ software = "send" /\ test > TESTCNT
  /\ software' = "closed"
  /\ UNCHANGED <<device, program, server, request, wire, history>>

\* error_status.
ExitStatus == IF error_count > 0 THEN 1 ELSE 0

----------------------------------------------------------------------------
(* async_os_thread.                                                        *)

\* Mutant: an incomplete packet is dropped.
ReadRequestDrops ==
  /\ server = "read"
  /\ \E n \in 1 .. Len(wire_in) :
       LET bytes == SubSeq(wire_in, 1, n)
       IN  /\ IF n < HeaderBytes
              THEN UNCHANGED <<server, request, misreads>> /\ split' = TRUE
              ELSE /\ request' \in Unpacked(bytes, Br!Packets)
                   /\ server' = "serve"
                   /\ misreads' = Misreads(bytes)
                   /\ split' = (split \/ IsSplit(bytes))
           /\ wire_in' = Rest(wire_in, n)
  /\ UNCHANGED <<device, software, program, wire_out>>

\* The read, of everything that has arrived or of a part of it, the check of
\* its length, unpack, and TLMX_EXIT.
ReadRequest ==
  /\ server = "read"
  /\ \E n \in 1 .. Len(wire_in) :
       LET bytes == SubSeq(wire_in, 1, n)
       IN  /\ \/ /\ n < HeaderBytes
                 /\ server' = "fatal" /\ split' = TRUE
                 /\ UNCHANGED <<request, misreads>>
              \/ /\ n >= HeaderBytes
                 /\ request' \in Unpacked(bytes, Br!Packets)
                 /\ server' = "serve"
                 /\ misreads' = Misreads(bytes)
                 /\ split' = (split \/ IsSplit(bytes))
              \/ /\ n >= HeaderBytes
                 /\ ~StartsPacket(bytes) /\ misreads < MaxMisreads
                 /\ server' = "exit"
                 /\ misreads' = Misreads(bytes) /\ split' = TRUE
                 /\ UNCHANGED request
           /\ wire_in' = Rest(wire_in, n)
  /\ UNCHANGED <<device, software, program, wire_out>>

\* A connection that is closed or lost reads as no bytes or as an error.
ReadEnd ==
  /\ server = "read" /\ software \in {"closed", "aborted"}
  /\ server' = "fatal"
  /\ UNCHANGED <<device, software, program, request, wire, history>>

\* The request through the channel, the bridge and the device, and the
\* response of the same size.  Its write may fail when the client has gone, which
\* the assertion behind it makes the end of the process.
Serve ==
  /\ server = "serve"
  /\ Br!Serve(request)
  /\ \/ /\ wire_out' = wire_out \o Bytes(packet')
        /\ server' = "read"
     \/ /\ software \in {"closed", "aborted"}
        /\ server' = "fatal" /\ UNCHANGED wire_out
  /\ request' = NoRequest
  /\ UNCHANGED <<software, program, wire_in, history>>

SoftwareStep == SendRequest \/ ReceiveResponse \/ Close
ServerStep == ReadRequest \/ ReadEnd \/ Serve

\* Both ends of the connection are closed, or the bound is reached.
Ended ==
  \/ software \in {"closed", "aborted"} /\ server \in {"fatal", "exit"}
  \/ misreads = MaxMisreads

Next == SoftwareStep \/ ServerStep \/ (Ended /\ UNCHANGED vars)

Spec == Init /\ [][Next]_vars

----------------------------------------------------------------------------
(* Properties.                                                             *)

\* Every variable of the two programs has its type (those of the device are in
\* TlmBridge).
TypeOK ==
  /\ software \in {"send", "receive", "closed", "aborted"}
  /\ test \in 1 .. (TESTCNT + 1) /\ operation \in 0 .. (2 * REGCNT)
  /\ data \in Words
  /\ count \in [0 .. (REGCNT - 1) -> Words \cup {Unset}]
  /\ error_count \in Nat
  /\ server \in {"read", "serve", "fatal", "exit"}
  /\ request \in Br!Packets \cup {NoRequest}
  /\ split \in BOOLEAN /\ misreads \in 0 .. MaxMisreads

\* What the program believes is in the registers is there, however the bytes
\* travel, unless one of the two has unpacked bytes that do not start a packet.
CountsAreRegisters ==
  misreads = 0 =>
    \A t \in 0 .. (REGCNT - 1) :
      count[t] # Unset =>
        \A i \in 1 .. ByteWidth :
          count[t][i] = register[RegisterAddress(t) + i - 1]

\* Only a packet in pieces can make a test fail, abort the program, or end
\* the simulator before the connection is closed.
TestsPassUnlessSplit ==
  ~split =>
    /\ ExitStatus = 0 /\ software # "aborted"
    /\ server \in {"fatal", "exit"} => software = "closed"

\* The two programs never wait for each other: while dev_transport reads, an
\* answer is there or comes, or the connection ends.
AnswerUnderWay ==
  software = "receive" =>
    \/ wire_out # <<>> \/ server \in {"serve", "fatal", "exit"}
    \/ server = "read" /\ wire_in # <<>>
=============================================================================
