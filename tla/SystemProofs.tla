---------------------------- MODULE SystemProofs ----------------------------
(***************************************************************************)
(* Proofs about System for every size of the header, every device, every   *)
(* number of registers and tests and however TCP divides the bytes.        *)
(***************************************************************************)
EXTENDS System, TLAPS

----------------------------------------------------------------------------
(* The inductive invariant.                                                *)

\* What software.c sends and what it may get back.
SentPackets == [command : Br!TlmxCommands, address : Addresses, data : Words,
                status : {"none"}]
Answers == [command : Br!TlmxCommands, address : Nat, data : Seq(Byte),
            status : Br!TlmxStatuses]

\* The bytes on a wire on which the packets P are sent.
WireByte(P) == [packet : P, byte : Nat \ {0}] \cup {Junk}

\* The types, those of the bytes on their way included, and the two facts that
\* keep them.
TypeInv ==
  /\ TypeOK
  /\ wire_in \in Seq(WireByte(SentPackets))
  /\ wire_out \in Seq(WireByte(Answers))
  /\ server = "serve" => request \in Br!Packets
  /\ software = "receive" => test <= TESTCNT

\* What the call at hand asks for, and what a device that has not been misled
\* answers.
RequestAddress == IF operation = REGCNT THEN 0 ELSE RegisterAddress(Tested)

TestRequests == [command : {"read", "write"}, address : {RequestAddress},
                 data : Words, status : {"none"}]

TestAnswers ==
  {p \in [command : {"read", "write"}, address : {RequestAddress},
          data : Words, status : {"ok"}] :
     \A i \in 1 .. ByteWidth : p.data[i] = register[RequestAddress + i - 1]}

\* The simulator has read the start of all that has been sent to it.
Consumed == \A i \in 1 .. Len(wire_in) : wire_in[i] = Junk /\ split

\* The stages of a call.
Idle ==
  /\ software \in {"send", "closed"} /\ server \in {"read", "fatal"}
  /\ Consumed /\ wire_out = <<>>

Asked ==
  /\ software = "receive" /\ server = "read"
  /\ wire_out = <<>>
  /\ \E p \in TestRequests : wire_in = Bytes(p)

AskedBehindJunk ==
  /\ software = "receive" /\ server = "read"
  /\ wire_out = <<>>
  /\ wire_in # <<>> /\ wire_in[1] = Junk /\ split

Serving ==
  /\ software = "receive" /\ server = "serve"
  /\ Consumed /\ wire_out = <<>>
  /\ request \in TestRequests

Answered ==
  /\ software = "receive" /\ server \in {"read", "fatal"}
  /\ Consumed
  /\ \E p \in TestAnswers : wire_out = Bytes(p)

Deserted ==
  /\ software = "receive" /\ server = "fatal"
  /\ wire_out = <<>>

Aborted ==
  /\ software = "aborted" /\ split
  /\ server \in {"read", "fatal"}
  /\ server = "read" => Consumed

Stage ==
  Idle \/ Asked \/ AskedBehindJunk \/ Serving \/ Answered \/ Deserted \/ Aborted

\* As long as nothing has been misread.
Conversation ==
  misreads = 0 =>
    /\ Stage
    /\ error_count = 0
    /\ server = "fatal" => split \/ software = "closed"

MisreadIsSplit == split \/ misreads = 0

Inv == TypeInv /\ CountsAreRegisters /\ MisreadIsSplit /\ Conversation

----------------------------------------------------------------------------
(* Bytes on a wire.                                                        *)

\* A word is a sequence of bytes that packets carry (software.c:68).
LEMMA WordsFacts ==
  /\ ByteWidth \in Nat \ {0} /\ HeaderBytes \in Nat \ {0}
  /\ SendSize \in Nat /\ SendSize > HeaderBytes
  /\ \A w \in Words : /\ w \in Seq(Byte) /\ w \in Payloads
                       /\ DOMAIN w = 1 .. ByteWidth /\ Len(w) = ByteWidth
<1>1. ByteWidth \in Nat \ {0} /\ HeaderBytes \in Nat \ {0}
  BY SystemAssumption
<1>2. ASSUME NEW w \in Words
      PROVE  /\ w \in Seq(Byte) /\ w \in Payloads
             /\ DOMAIN w = 1 .. ByteWidth /\ Len(w) = ByteWidth
  BY <1>1, SystemAssumption DEF Words
<1> QED
  BY <1>1, <1>2 DEF SendSize

\* Packing: as many bytes as the header and the data have, in order
\* (pack_tlmx, driver.c:378).
LEMMA BytesFacts ==
  ASSUME NEW P, NEW p \in P, p.data \in Seq(Byte)
  PROVE  /\ Len(p.data) \in Nat
         /\ Len(Bytes(p)) = HeaderBytes + Len(p.data)
         /\ Len(Bytes(p)) \in Nat \ {0}
         /\ Bytes(p) \in Seq(WireByte(P))
         /\ \A i \in 1 .. Len(Bytes(p)) : Bytes(p)[i] = [packet |-> p, byte |-> i]
<1> DEFINE n == HeaderBytes + Len(p.data)
<1>1. Len(p.data) \in Nat /\ n \in Nat /\ n # 0
  BY SystemAssumption
<1> HIDE DEF n
<1>2. Bytes(p) = [i \in 1 .. n |-> [packet |-> p, byte |-> i]]
  BY DEF Bytes, n
<1>3. \A i \in 1 .. n : [packet |-> p, byte |-> i] \in WireByte(P)
  BY <1>1 DEF WireByte
<1>4. Bytes(p) \in [1 .. n -> WireByte(P)]
  BY <1>2, <1>3
<1>5. Len(Bytes(p)) = n /\ Bytes(p) \in Seq(WireByte(P))
  BY <1>1, <1>4
<1>6. \A i \in 1 .. n : Bytes(p)[i] = [packet |-> p, byte |-> i]
  BY <1>2
<1> QED
  BY <1>1, <1>5, <1>6 DEF n

\* Appending a packet to a wire.
LEMMA AppendTypes ==
  ASSUME NEW P, NEW s \in Seq(WireByte(P)), NEW p \in P, p.data \in Seq(Byte)
  PROVE  /\ s \o Bytes(p) \in Seq(WireByte(P))
         /\ s \o Bytes(p) # <<>>
         /\ s = <<>> => s \o Bytes(p) = Bytes(p)
         /\ s # <<>> => (s \o Bytes(p))[1] = s[1]
<1>1. Bytes(p) \in Seq(WireByte(P)) /\ Len(Bytes(p)) \in Nat \ {0}
  BY BytesFacts
<1>2. Len(s \o Bytes(p)) = Len(s) + Len(Bytes(p)) /\ Len(s) \in Nat
  BY <1>1
<1>3. s \o Bytes(p) # <<>>
  BY <1>1, <1>2
<1>4. s = <<>> => s \o Bytes(p) = Bytes(p)
  BY <1>1
<1>5. s # <<>> => (s \o Bytes(p))[1] = s[1]
  BY <1>1
<1> QED
  BY <1>1, <1>3, <1>4, <1>5

\* What is left on a wire that has been read.
LEMMA RestTypes ==
  ASSUME NEW P, NEW s \in Seq(WireByte(P)), NEW n \in 1 .. Len(s)
  PROVE  /\ Rest(s, n) \in Seq(WireByte(P))
         /\ Len(Rest(s, n)) = Len(s) - n
         /\ n = Len(s) => Rest(s, n) = <<>>
<1>1. Len(s) \in Nat /\ n \in Nat /\ Len(s) - n \in Nat
  OBVIOUS
<1>2. Junk \in WireByte(P)
  BY DEF WireByte
<1>3. \A i \in 1 .. (Len(s) - n) : s[n + i] \in WireByte(P)
  <2> TAKE i \in 1 .. (Len(s) - n)
  <2>1. n + i \in 1 .. Len(s)
    BY <1>1
  <2> QED
    BY <2>1
<1>4. Rest(s, n) \in [1 .. (Len(s) - n) -> WireByte(P)]
  BY <1>2, <1>3 DEF Rest
<1> QED
  BY <1>1, <1>4

\* What is left of one packet starts none.
LEMMA RestOfPacket ==
  ASSUME NEW P, NEW p \in P, p.data \in Seq(Byte),
         NEW n \in 1 .. Len(Bytes(p)),
         NEW i \in 1 .. Len(Rest(Bytes(p), n))
  PROVE  Rest(Bytes(p), n)[i] = Junk
<1>1. Len(Bytes(p)) \in Nat /\ Bytes(p) \in Seq(WireByte(P))
  BY BytesFacts
<1>2. Len(Rest(Bytes(p), n)) = Len(Bytes(p)) - n
  BY <1>1, RestTypes
<1>3. n + i \in 1 .. Len(Bytes(p)) /\ i \in 1 .. (Len(Bytes(p)) - n)
  BY <1>1, <1>2
<1>4. Bytes(p)[n + i] = [packet |-> p, byte |-> n + i]
  BY <1>3, BytesFacts
<1> QED
  BY <1>1, <1>3, <1>4 DEF Rest

\* What is left of such a rest starts none either.
LEMMA RestOfJunk ==
  ASSUME NEW P, NEW s \in Seq(WireByte(P)), NEW n \in 1 .. Len(s),
         \A i \in 1 .. Len(s) : s[i] = Junk,
         NEW i \in 1 .. Len(Rest(s, n))
  PROVE  Rest(s, n)[i] = Junk
<1>1. Len(Rest(s, n)) = Len(s) - n /\ Len(s) \in Nat
  BY RestTypes
<1>2. n + i \in 1 .. Len(s) /\ i \in 1 .. (Len(s) - n)
  BY <1>1
<1> QED
  BY <1>1, <1>2 DEF Rest

----------------------------------------------------------------------------
(* Unpacking.                                                              *)

\* A packet as a lemma needs it: its fields, and that its data are bytes.
IsPacket(p) ==
  /\ p = [command |-> p.command, address |-> p.address, data |-> p.data,
          status |-> p.status]
  /\ p.data \in Seq(Byte)

\* What starts a packet has the packet as it was sent, but for data that has
\* not arrived (async_adaptor.cpp:250-266, driver.c:390-400).
LEMMA FirstPacketFacts ==
  ASSUME NEW P, NEW s \in Seq(WireByte(P)), NEW n \in 1 .. Len(s),
         StartsPacket(SubSeq(s, 1, n)),
         \A p \in P : IsPacket(p)
  PROVE  LET p == FirstPacket(SubSeq(s, 1, n))
         IN  /\ s[1].packet \in P /\ IsPacket(p)
             /\ p.command = s[1].packet.command
             /\ p.address = s[1].packet.address
             /\ p.status = s[1].packet.status
             /\ DOMAIN p.data = 1 .. Len(s[1].packet.data)
<1> DEFINE bytes == SubSeq(s, 1, n)
           first == s[1].packet
<1>1. bytes[1] = s[1] /\ s[1] \in WireByte(P)
  OBVIOUS
<1>2. s[1] = [packet |-> first, byte |-> 1]
  BY <1>1, SystemAssumption DEF StartsPacket
<1>3. first \in P
  <2>1. s[1].byte = 1 /\ Junk.byte = 0
    BY <1>2 DEF Junk
  <2> QED
    BY <1>1, <2>1 DEF WireByte
<1>4. /\ first = [command |-> first.command, address |-> first.address,
                  data |-> first.data, status |-> first.status]
      /\ first.data \in Seq(Byte) /\ Len(first.data) \in Nat
  BY <1>3 DEF IsPacket
<1> DEFINE d == [i \in 1 .. Len(first.data) |->
                   IF HeaderBytes + i <= Len(bytes) THEN first.data[i] ELSE 0]
<1>5. d \in [1 .. Len(first.data) -> Byte]
  <2>1. \A i \in 1 .. Len(first.data) : first.data[i] \in Byte
    BY <1>4
  <2> QED
    BY <2>1, SystemAssumption
<1>6. d \in Seq(Byte) /\ DOMAIN d = 1 .. Len(first.data)
  BY <1>4, <1>5
<1>7. FirstPacket(bytes) = [first EXCEPT !.data = d]
  BY <1>1 DEF FirstPacket
<1> HIDE DEF d, first, bytes
<1>8. FirstPacket(bytes) = [command |-> first.command, address |-> first.address,
                            data |-> d, status |-> first.status]
  BY <1>4, <1>7
<1>9. /\ IsPacket(FirstPacket(bytes))
      /\ FirstPacket(bytes).command = first.command
      /\ FirstPacket(bytes).address = first.address
      /\ FirstPacket(bytes).status = first.status
      /\ DOMAIN FirstPacket(bytes).data = 1 .. Len(first.data)
  BY <1>6, <1>8 DEF IsPacket
<1> QED
  BY <1>3, <1>9 DEF first, bytes

\* A packet of which at least the header has arrived starts one, and all of it
\* if all of it has arrived.
LEMMA SentStartsPacket ==
  ASSUME NEW p, IsPacket(p), NEW n \in 1 .. Len(Bytes(p)), n >= HeaderBytes
  PROVE  /\ StartsPacket(SubSeq(Bytes(p), 1, n))
         /\ Bytes(p)[1].packet = p
         /\ n = Len(Bytes(p)) => FirstPacket(SubSeq(Bytes(p), 1, n)) = p
<1> DEFINE P == {p}
           s == Bytes(p)
           bytes == SubSeq(s, 1, n)
<1>1. /\ Len(p.data) \in Nat /\ Len(s) = HeaderBytes + Len(p.data)
      /\ s \in Seq(WireByte(P))
      /\ \A i \in 1 .. Len(s) : s[i] = [packet |-> p, byte |-> i]
  BY BytesFacts DEF IsPacket
<1>0. n \in 1 .. Len(s)
  OBVIOUS
<1> HIDE DEF s, P
<1>2. /\ n \in Nat /\ 1 <= HeaderBytes /\ HeaderBytes \in Nat
      /\ n <= Len(s) /\ Len(bytes) = n
  BY <1>0, <1>1, SystemAssumption
<1>3. \A i \in 1 .. n : bytes[i] = [packet |-> p, byte |-> i]
  BY <1>1, <1>2
<1> HIDE DEF bytes
<1>4. s[1].packet = p /\ bytes[1].packet = p
  BY <1>1, <1>2, <1>3
<1>5. StartsPacket(bytes)
  BY <1>2, <1>3, <1>4 DEF StartsPacket
<1>6. ASSUME n = Len(s)
      PROVE  FirstPacket(bytes) = p
  <2> DEFINE d == [i \in 1 .. Len(p.data) |->
                     IF HeaderBytes + i <= Len(bytes) THEN p.data[i] ELSE 0]
  <2>1. d = p.data
    BY <1>1, <1>2, <1>6 DEF IsPacket
  <2>2. FirstPacket(bytes) = [p EXCEPT !.data = d]
    BY <1>4 DEF FirstPacket
  <2> HIDE DEF d
  <2> QED
    BY <2>1, <2>2 DEF IsPacket
<1> QED
  BY <1>4, <1>5, <1>6 DEF s, bytes

\* Behind a start that has been read there is none (the reason for misreads).
LEMMA JunkStartsNothing ==
  ASSUME NEW P, NEW s \in Seq(WireByte(P)), NEW n \in 1 .. Len(s), s[1] = Junk
  PROVE  ~StartsPacket(SubSeq(s, 1, n))
<1>1. SubSeq(s, 1, n)[1] = s[1]
  OBVIOUS
<1>2. Junk.byte # 1
  BY DEF Junk
<1>3. 1 \in 1 .. HeaderBytes
  BY SystemAssumption
<1>4. ASSUME StartsPacket(SubSeq(s, 1, n))
      PROVE  FALSE
  <2>1. SubSeq(s, 1, n)[1]
          = [packet |-> SubSeq(s, 1, n)[1].packet, byte |-> 1]
    BY <1>3, <1>4 DEF StartsPacket
  <2> QED
    BY <1>1, <1>2, <2>1
<1> QED
  BY <1>4

----------------------------------------------------------------------------
(* The device, as one packet sees it (see TlmBridgeProofs for the rest).   *)

\* Division undoes multiplication.
LEMMA Multiples ==
  ASSUME NEW k \in Nat, NEW w \in Nat \ {0}
  PROVE  (k * w) % w = 0 /\ (k * w) \div w = k
<1> DEFINE x == k * w
           q == x \div w
           r == x % w
<1>1. x \in Nat /\ q \in Int /\ r \in Nat /\ r < w /\ x = w * q + r
  OBVIOUS
<1>2. x = w * k
  OBVIOUS
<1> HIDE DEF x, q, r
<1>3. w * (k - q) = r
  BY <1>1, <1>2
<1>4. ~(k - q >= 1)
  <2> SUFFICES ASSUME k - q >= 1
               PROVE  FALSE
    OBVIOUS
  <2>1. w * (k - q) >= w * 1
    BY <1>1
  <2> QED
    BY <1>1, <1>3, <2>1
<1>5. ~(k - q <= -1)
  <2> SUFFICES ASSUME k - q <= -1
               PROVE  FALSE
    OBVIOUS
  <2>1. w * (k - q) <= w * (-1)
    BY <1>1
  <2> QED
    BY <1>1, <1>3, <2>1
<1>6. k = q
  BY <1>1, <1>4, <1>5
<1> QED
  BY <1>1, <1>3, <1>6 DEF x, q, r

\* The types of what the two programs send each other.
LEMMA PacketTypes ==
  /\ \A x \in Payloads : x \in Seq(Byte)
  /\ \A p \in Br!Packets : /\ p.command \in Br!TlmxCommands
                           /\ p.address \in Nat /\ p.data \in Seq(Byte)
<1>1. \A x \in Payloads : x \in Seq(Byte)
  BY SystemAssumption
<1>2. \A x \in Addresses : x \in Nat
  BY SystemAssumption
<1> QED
  BY <1>1, <1>2 DEF Br!Packets

\* Whatever a packet asks for, the one that comes back is an answer: a status
\* of TLMX and bytes (async_adaptor.cpp:354-397).
LEMMA ServedTypes ==
  ASSUME NEW p \in Br!Packets, Br!Serve(p)
  PROVE  packet' \in Answers
<1>1. /\ p.command \in Br!TlmxCommands /\ p.address \in Nat
      /\ p.data \in Seq(Byte) /\ Len(p.data) \in Nat
  BY PacketTypes
<1> DEFINE t == Br!Tlm2(p)
<1>2. /\ t.data = p.data
      /\ t = [command |-> t.command, address |-> p.address, data |-> p.data,
              byte_enables |-> FALSE, streaming_width |-> Len(p.data),
              status |-> "incomplete"]
  BY DEF Br!Tlm2
<1> HIDE DEF t
<1>3. ASSUME NEW s, Br!Refuse(t, s)
      PROVE  trans'.data \in Seq(Byte)
  BY <1>1, <1>2, <1>3 DEF Br!Refuse
<1>4. ASSUME NEW s, Br!Copy(t, s)
      PROVE  trans'.data \in Seq(Byte)
  <2>1. CASE t.command = "read"
    <3>1. PICK d \in Br!Loaded(t) : trans' = [t EXCEPT !.data = d, !.status = s]
      BY <1>4, <2>1 DEF Br!Copy
    <3>2. d \in Seq(Byte)
      BY <1>1, <1>2 DEF Br!Loaded
    <3> QED
      BY <1>2, <3>1, <3>2
  <2>2. CASE t.command # "read"
    BY <1>1, <1>2, <1>4, <2>2 DEF Br!Copy
  <2> QED
    BY <2>1, <2>2
<1>5. trans'.data \in Seq(Byte)
  BY <1>3, <1>4 DEF Br!Serve, Br!BTransport, Br!TransportDbg, t
<1>6. Br!TlmxStatus(trans'.status) \in Br!TlmxStatuses
  BY DEF Br!TlmxStatus, Br!TlmxStatuses
<1>7. packet' = [p EXCEPT !.data = trans'.data,
                          !.status = Br!TlmxStatus(trans'.status)]
  BY DEF Br!Serve
<1> QED
  BY <1>1, <1>5, <1>6, <1>7 DEF Answers, Br!Packets

\* The address of a call is one of the packets' addresses and that of a word of
\* the device other than the last (software.c:70-95).
LEMMA RequestAddressFacts ==
  ASSUME operation \in 0 .. (2 * REGCNT)
  PROVE  /\ operation # REGCNT => Tested \in 0 .. (REGCNT - 1)
         /\ \E k \in 0 .. REGCNT : RequestAddress = k * ByteWidth
         /\ RequestAddress \in Addresses /\ RequestAddress \in Nat
<1>1. REGCNT \in Nat \ {0} /\ ByteWidth \in Nat \ {0}
  BY SystemAssumption
<1>2. operation # REGCNT => Tested \in 0 .. (REGCNT - 1)
  BY <1>1 DEF Tested, Puts
<1>3. \E k \in 0 .. REGCNT : RequestAddress = k * ByteWidth
  <2>1. CASE operation = REGCNT
    <3>1. RequestAddress = 0 * ByteWidth /\ 0 \in 0 .. REGCNT
      BY <1>1, <2>1 DEF RequestAddress
    <3> QED
      BY <3>1
  <2>2. CASE operation # REGCNT
    <3>1. Tested + 1 \in 0 .. REGCNT
      BY <1>1, <1>2, <2>2
    <3>2. RequestAddress = (Tested + 1) * ByteWidth
      BY <2>2 DEF RequestAddress, RegisterAddress
    <3> QED
      BY <3>1, <3>2
  <2> QED
    BY <2>1, <2>2
<1>4. RequestAddress \in Addresses
  BY <1>3, SystemAssumption
<1> QED
  BY <1>2, <1>3, <1>4, SystemAssumption

\* What the tests ask for passes the checks of b_transport (dev.cpp:90-107).
LEMMA TestRequestAccepted ==
  ASSUME operation \in 0 .. (2 * REGCNT), NEW p \in TestRequests
  PROVE  Br!BStatus(Br!Tlm2(p)) = "ok"
<1> DEFINE t == Br!Tlm2(p)
<1>1. PICK k \in 0 .. REGCNT : RequestAddress = k * ByteWidth
  BY RequestAddressFacts
<1>2. /\ t.address = k * ByteWidth /\ Len(t.data) = ByteWidth
      /\ t.streaming_width = ByteWidth /\ t.byte_enables = FALSE
  BY <1>1, WordsFacts DEF Br!Tlm2, TestRequests
<1> HIDE DEF t
<1>3. /\ k \in Nat /\ k + 1 \in Nat /\ k + 1 < RegisterCount
      /\ RegisterCount \in Nat /\ ByteWidth \in Nat \ {0} /\ 1 \in Nat
  BY SystemAssumption
<1>4. (k * ByteWidth) % ByteWidth = 0
  BY <1>3, Multiples
<1>5. ByteWidth % ByteWidth = 0
  BY <1>3
<1>6. k * ByteWidth + ByteWidth = (k + 1) * ByteWidth
  BY <1>3
<1>7. ((k + 1) * ByteWidth) \div ByteWidth = k + 1
  BY <1>3, Multiples
<1>8. k * ByteWidth < RegisterCount * ByteWidth /\ k * ByteWidth \in Nat
      /\ RegisterCount * ByteWidth \in Nat
  BY <1>3
<1>9. ~Br!AddressError(t)
  BY <1>2, <1>4, <1>8 DEF Br!AddressError, Br!Size
<1>10. ~Br!BurstError(t)
  BY <1>2, <1>3, <1>5, <1>6, <1>7 DEF Br!BurstError
<1> QED
  BY <1>2, <1>9, <1>10 DEF Br!BStatus, t

\* So the device answers it with "ok", with what is in the registers, and
\* leaves those as they are: a write has become a read
\* (async_adaptor.cpp:362-369, dev.cpp:109-120).
LEMMA TestRequestServed ==
  ASSUME operation \in 0 .. (2 * REGCNT), NEW p \in TestRequests,
         Br!Serve(p), UNCHANGED operation
  PROVE  register' = register /\ packet' \in TestAnswers'
<1> DEFINE t == Br!Tlm2(p)
<1>1. /\ p.command \in {"read", "write"} /\ p.address = RequestAddress
      /\ p.data \in Words
  BY DEF TestRequests
<1>2. /\ t.command = "read" /\ t.address = RequestAddress
      /\ Len(t.data) = ByteWidth
      /\ t = [command |-> t.command, address |-> p.address, data |-> p.data,
              byte_enables |-> FALSE, streaming_width |-> Len(p.data),
              status |-> "incomplete"]
  BY <1>1, WordsFacts DEF Br!Tlm2, Br!Tlm2Command
<1>3. Br!BTransport(t) /\ Br!BStatus(t) = "ok"
  BY <1>1, TestRequestAccepted DEF Br!Serve, Br!IsDebug
<1> HIDE DEF t
<1>4. Br!Copy(t, "ok")
  BY <1>3 DEF Br!BTransport
<1>5. PICK d \in Br!Loaded(t) : trans' = [t EXCEPT !.data = d, !.status = "ok"]
  BY <1>2, <1>4 DEF Br!Copy
<1>6. register' = register
  BY <1>2, <1>4 DEF Br!Copy
<1>7. d \in Words
  BY <1>2 DEF Br!Loaded, Words
<1>8. \A i \in 1 .. ByteWidth : d[i] = register[RequestAddress + i - 1]
  <2> TAKE i \in 1 .. ByteWidth
  <2>1. PICK k \in 0 .. REGCNT : RequestAddress = k * ByteWidth
    BY RequestAddressFacts
  <2>2. /\ k \in Nat /\ k + 1 \in Nat /\ k + 1 < RegisterCount
        /\ RegisterCount \in Nat /\ ByteWidth \in Nat \ {0}
    BY SystemAssumption
  <2> DEFINE a    == k * ByteWidth
             size == RegisterCount * ByteWidth
  <2>3. a \in Nat /\ size \in Nat /\ a + ByteWidth <= size
    <3>1. (k + 1) * ByteWidth <= size /\ (k + 1) * ByteWidth = a + ByteWidth
      BY <2>2
    <3> QED
      BY <2>2, <3>1
  <2>4. t.address + i - 1 < size
    <3>1. t.address = a
      BY <1>2, <2>1
    <3> HIDE DEF a, size
    <3> QED
      BY <2>2, <2>3, <3>1
  <2> QED
    BY <1>2, <2>4 DEF Br!Loaded, Br!Size
<1>9. packet' = [p EXCEPT !.data = d, !.status = "ok"]
  <2>1. trans'.data = d /\ trans'.status = "ok"
    BY <1>2, <1>5
  <2> QED
    BY <2>1 DEF Br!Serve, Br!TlmxStatus
<1>10. RequestAddress' = RequestAddress
  BY DEF RequestAddress, Tested
<1>11. packet' \in [command : {"read", "write"}, address : {RequestAddress},
                    data : Words, status : {"ok"}]
  BY <1>1, <1>7, <1>9 DEF TestRequests
<1>12. packet'.data = d
  BY <1>9 DEF TestRequests
<1> QED
  BY <1>6, <1>8, <1>10, <1>11, <1>12 DEF TestAnswers

----------------------------------------------------------------------------
(* The types.                                                              *)

\* What a response leaves in the variables of main (driver.c:399-414,
\* software.c:70-95).
LEMMA FinishTypes ==
  ASSUME TypeInv, software = "receive", NEW p, p.data \in Seq(Byte), Finish(p)
  PROVE  /\ data' \in Words /\ count' \in [0 .. (REGCNT - 1) -> Words \cup {Unset}]
         /\ error_count' \in Nat
         /\ test' \in 1 .. (TESTCNT + 1) /\ operation' \in 0 .. (2 * REGCNT)
         /\ software' = "send"
<1>1. /\ test \in 1 .. (TESTCNT + 1) /\ test <= TESTCNT
      /\ operation \in 0 .. (2 * REGCNT)
      /\ data \in Words /\ error_count \in Nat
      /\ count \in [0 .. (REGCNT - 1) -> Words \cup {Unset}]
      /\ REGCNT \in Nat /\ TESTCNT \in Nat
  BY SystemAssumption DEF TypeInv, TypeOK
<1>2. Stored(p.data) \in Words
  <2>1. \A i \in 1 .. ByteWidth :
          (IF i <= Len(p.data) THEN p.data[i] ELSE data[i]) \in Byte
    <3> TAKE i \in 1 .. ByteWidth
    <3>1. data[i] \in Byte
      BY <1>1 DEF Words
    <3>2. i <= Len(p.data) => p.data[i] \in Byte
      BY WordsFacts
    <3> QED
      BY <3>1, <3>2
  <2> QED
    BY <2>1 DEF Stored, Words
<1>3. operation # REGCNT => Tested \in 0 .. (REGCNT - 1)
  BY <1>1, RequestAddressFacts
<1>4. data' \in Words /\ software' = "send"
  BY <1>2 DEF Finish
<1>5. count' \in [0 .. (REGCNT - 1) -> Words \cup {Unset}]
  BY <1>1, <1>2, <1>3 DEF Finish
<1>6. error_count' \in Nat
  BY <1>1 DEF Finish
<1>7. test' \in 1 .. (TESTCNT + 1) /\ operation' \in 0 .. (2 * REGCNT)
  BY <1>1 DEF Finish
<1> QED
  BY <1>4, <1>5, <1>6, <1>7

\* Every request is a packet that may be sent, with the data of one word.
LEMMA RequestsAreSent ==
  ASSUME operation \in 0 .. (2 * REGCNT), data \in Words, NEW p \in Requests
  PROVE  p \in SentPackets /\ p \in TestRequests
<1>1. RequestAddress \in Addresses
  BY RequestAddressFacts
<1>2. p \in TestRequests
  BY DEF Requests, TestRequests, RequestAddress
<1>3. TestRequests \subseteq SentPackets
  BY <1>1 DEF TestRequests, SentPackets, Br!TlmxCommands
<1> QED
  BY <1>2, <1>3

\* What the simulator unpacks is a packet (async_adaptor.cpp:264-266).
LEMMA UnpackedRequest ==
  ASSUME TypeInv, NEW n \in 1 .. Len(wire_in),
         NEW p \in Unpacked(SubSeq(wire_in, 1, n), Br!Packets)
  PROVE  p \in Br!Packets
<1>1. CASE StartsPacket(SubSeq(wire_in, 1, n))
  <2>1. p = FirstPacket(SubSeq(wire_in, 1, n))
    BY <1>1 DEF Unpacked
  <2>2. wire_in \in Seq(WireByte(SentPackets))
    BY DEF TypeInv
  <2>3. \A x \in SentPackets : IsPacket(x) /\ Len(x.data) = ByteWidth
    BY WordsFacts DEF SentPackets, IsPacket
  <2> DEFINE first == wire_in[1].packet
  <2>4. /\ first \in SentPackets /\ IsPacket(p)
        /\ p.command = first.command /\ p.address = first.address
        /\ p.status = first.status /\ DOMAIN p.data = 1 .. Len(first.data)
    BY <1>1, <2>1, <2>2, <2>3, FirstPacketFacts
  <2> HIDE DEF first
  <2>5. p.data \in Words
    <3>1. DOMAIN p.data = 1 .. ByteWidth /\ p.data \in Seq(Byte)
      BY <2>3, <2>4 DEF IsPacket
    <3> QED
      BY <3>1, WordsFacts DEF Words
  <2>6. p \in SentPackets
    BY <2>4, <2>5 DEF SentPackets, IsPacket
  <2> QED
    BY <2>6, WordsFacts DEF SentPackets, Br!Packets
<1>2. CASE ~StartsPacket(SubSeq(wire_in, 1, n))
  BY <1>2 DEF Unpacked
<1> QED
  BY <1>1, <1>2

\* What the embedded program unpacks carries bytes (driver.c:399-400).
LEMMA UnpackedResponse ==
  ASSUME TypeInv, NEW n \in 1 .. Len(wire_out),
         NEW p \in Unpacked(SubSeq(wire_out, 1, n), Responses)
  PROVE  p.data \in Seq(Byte)
<1>1. CASE StartsPacket(SubSeq(wire_out, 1, n))
  <2>1. p = FirstPacket(SubSeq(wire_out, 1, n))
    BY <1>1 DEF Unpacked
  <2>2. wire_out \in Seq(WireByte(Answers))
    BY DEF TypeInv
  <2>3. \A x \in Answers : IsPacket(x)
    BY DEF Answers, IsPacket
  <2>4. IsPacket(p)
    BY <1>1, <2>1, <2>2, <2>3, FirstPacketFacts
  <2> QED
    BY <2>4 DEF IsPacket
<1>2. CASE ~StartsPacket(SubSeq(wire_out, 1, n))
  BY <1>2, WordsFacts DEF Unpacked, Responses
<1> QED
  BY <1>1, <1>2

\* The types of main are kept by the steps of software.c and driver.c.
LEMMA SoftwareTypes ==
  ASSUME TypeInv, SoftwareStep
  PROVE  TypeInv'
<1>1. CASE SendRequest
  <2>1. /\ software' \in {"receive", "aborted"} /\ test <= TESTCNT
        /\ UNCHANGED <<test, operation, count, error_count, server, request,
                       wire_out, split, misreads>>
    BY <1>1 DEF SendRequest, history
  <2>2. data' \in Words /\ wire_in' \in Seq(WireByte(SentPackets))
    <3>1. /\ operation \in 0 .. (2 * REGCNT) /\ data \in Words
          /\ wire_in \in Seq(WireByte(SentPackets))
      BY DEF TypeInv, TypeOK
    <3>2. ASSUME NEW p \in Requests
          PROVE  /\ wire_in \o Bytes(p) \in Seq(WireByte(SentPackets))
                 /\ p.data \in Words
      <4>1. p \in SentPackets /\ p.data \in Words
        BY <3>1, RequestsAreSent DEF SentPackets
      <4>2. p.data \in Seq(Byte)
        BY <4>1, WordsFacts
      <4> QED
        BY <3>1, <4>1, <4>2, AppendTypes
    <3> QED
      BY <1>1, <3>1, <3>2 DEF SendRequest
  <2> QED
    BY <2>1, <2>2 DEF TypeInv, TypeOK
<1>2. CASE ReceiveResponse
  <2>1. UNCHANGED <<server, request, wire_in>> /\ software = "receive"
    BY <1>2 DEF ReceiveResponse
  <2>2. CASE UNCHANGED <<program, wire_out, history>> /\ software' = "aborted"
    BY <2>1, <2>2 DEF TypeInv, TypeOK, program, history
  <2>3. ASSUME NEW n \in 1 .. Len(wire_out), n <= SendSize,
               IF n < SendSize
               THEN software' = "aborted" /\ UNCHANGED <<program, misreads>>
               ELSE /\ \E p \in Unpacked(SubSeq(wire_out, 1, n), Responses) :
                         Finish(p)
                    /\ misreads' = Misreads(SubSeq(wire_out, 1, n)),
               split' = (split \/ n < SendSize),
               wire_out' = Rest(wire_out, n)
        PROVE  TypeInv'
    <3>1. wire_out' \in Seq(WireByte(Answers))
      BY <2>3, RestTypes DEF TypeInv
    <3>2. CASE n < SendSize
      BY <2>1, <2>3, <3>1, <3>2 DEF TypeInv, TypeOK, program
    <3>3. CASE ~(n < SendSize)
      <4> DEFINE bytes == SubSeq(wire_out, 1, n)
      <4>1. PICK p \in Unpacked(bytes, Responses) : Finish(p)
        BY <2>3, <3>3
      <4>2. p.data \in Seq(Byte)
        BY <4>1, UnpackedResponse
      <4>3. misreads' \in 0 .. MaxMisreads
        <5>1. misreads \in 0 .. MaxMisreads /\ MaxMisreads \in Nat
          BY SystemAssumption DEF TypeInv, TypeOK
        <5>2. StartsPacket(bytes) \/ misreads < MaxMisreads
          BY <4>1 DEF Unpacked
        <5> QED
          BY <2>3, <3>3, <5>1, <5>2 DEF Misreads
      <4>4. /\ data' \in Words
            /\ count' \in [0 .. (REGCNT - 1) -> Words \cup {Unset}]
            /\ error_count' \in Nat
            /\ test' \in 1 .. (TESTCNT + 1) /\ operation' \in 0 .. (2 * REGCNT)
            /\ software' = "send"
        BY <2>1, <4>1, <4>2, FinishTypes
      <4>5. split' \in BOOLEAN
        BY <2>3
      <4> QED
        BY <2>1, <3>1, <4>3, <4>4, <4>5 DEF TypeInv, TypeOK
    <3> QED
      BY <3>2, <3>3
  <2> QED
    BY <1>2, <2>2, <2>3 DEF ReceiveResponse
<1>3. CASE Close
  BY <1>3 DEF Close, TypeInv, TypeOK, program, wire, history
<1> QED
  BY <1>1, <1>2, <1>3 DEF SoftwareStep

\* The types of the simulator are kept by the steps of async_os_thread.
LEMMA ServerTypes ==
  ASSUME TypeInv, ServerStep
  PROVE  TypeInv'
<1>1. CASE ReadRequest
  <2>1. UNCHANGED <<software, program, wire_out>> /\ server = "read"
    BY <1>1 DEF ReadRequest
  <2>2. PICK n \in 1 .. Len(wire_in) :
          LET bytes == SubSeq(wire_in, 1, n)
          IN  /\ \/ /\ n < HeaderBytes
                    /\ server' = "fatal" /\ split' = TRUE
                    /\ UNCHANGED <<request, misreads>>
                 \/ /\ n >= HeaderBytes
                    /\ request' \in Unpacked(bytes, Br!Packets)
                    /\ server' = "serve"
                    /\ misreads' = Misreads(bytes)
                    /\ split' = (split \/ IsSplit(bytes))
                 \/ /\ n >= HeaderBytes
                    /\ ~StartsPacket(bytes) /\ misreads < MaxMisreads
                    /\ server' = "exit"
                    /\ misreads' = Misreads(bytes) /\ split' = TRUE
                    /\ UNCHANGED request
              /\ wire_in' = Rest(wire_in, n)
    BY <1>1 DEF ReadRequest
  <2> DEFINE bytes == SubSeq(wire_in, 1, n)
  <2>3. wire_in' \in Seq(WireByte(SentPackets))
    BY <2>2, RestTypes DEF TypeInv
  <2>4. misreads \in 0 .. MaxMisreads /\ MaxMisreads \in Nat
    BY SystemAssumption DEF TypeInv, TypeOK
  <2>5. CASE server' = "fatal" /\ split' = TRUE /\ UNCHANGED <<request, misreads>>
    BY <2>1, <2>3, <2>5 DEF TypeInv, TypeOK, program
  <2>6. CASE /\ request' \in Unpacked(bytes, Br!Packets) /\ server' = "serve"
             /\ misreads' = Misreads(bytes)
             /\ split' = (split \/ IsSplit(bytes))
    <3>1. request' \in Br!Packets
      BY <2>6, UnpackedRequest
    <3>2. misreads' \in 0 .. MaxMisreads
      BY <2>4, <2>6 DEF Misreads, Unpacked
    <3>3. split' \in BOOLEAN
      BY <2>6
    <3> QED
      BY <2>1, <2>3, <2>6, <3>1, <3>2, <3>3 DEF TypeInv, TypeOK, program
  <2>7. CASE /\ ~StartsPacket(bytes) /\ misreads < MaxMisreads
             /\ server' = "exit"
             /\ misreads' = Misreads(bytes) /\ split' = TRUE
             /\ UNCHANGED request
    <3>1. misreads' \in 0 .. MaxMisreads
      BY <2>4, <2>7 DEF Misreads
    <3> QED
      BY <2>1, <2>3, <2>7, <3>1 DEF TypeInv, TypeOK, program
  <2> QED
    BY <2>2, <2>5, <2>6, <2>7
<1>2. CASE ReadEnd
  BY <1>2 DEF ReadEnd, TypeInv, TypeOK, program, wire, history
<1>3. CASE Serve
  <2>1. /\ UNCHANGED <<software, program, wire_in, history>>
        /\ server' \in {"read", "fatal"} /\ request' = NoRequest
        /\ wire_out' = wire_out \o Bytes(packet') \/ UNCHANGED wire_out
    BY <1>3 DEF Serve
  <2>2. packet' \in Answers
    BY <1>3, ServedTypes DEF Serve, TypeInv
  <2>3. packet'.data \in Seq(Byte)
    BY <2>2 DEF Answers
  <2>4. wire_out' \in Seq(WireByte(Answers))
    BY <2>1, <2>2, <2>3, AppendTypes DEF TypeInv
  <2> QED
    BY <2>1, <2>4 DEF TypeInv, TypeOK, program, history
<1> QED
  BY <1>1, <1>2, <1>3 DEF ServerStep

\* What the programs start with has these types.
LEMMA InitTypes ==
  ASSUME Init
  PROVE  TypeInv
<1>1. count \in [0 .. (REGCNT - 1) -> Words \cup {Unset}]
  BY DEF Init
<1>2. /\ test \in 1 .. (TESTCNT + 1) /\ operation \in 0 .. (2 * REGCNT)
      /\ misreads \in 0 .. MaxMisreads
  BY SystemAssumption DEF Init
<1>3. wire_in \in Seq(WireByte(SentPackets)) /\ wire_out \in Seq(WireByte(Answers))
  BY DEF Init
<1> QED
  BY <1>1, <1>2, <1>3 DEF Init, TypeInv, TypeOK

\* Both programs keep their types, and what is on the wires is bytes of packets.
LEMMA TypesAreKept == Spec => []TypeInv
<1>1. Init => TypeInv
  BY InitTypes
<1>2. TypeInv /\ [Next]_vars => TypeInv'
  <2> SUFFICES ASSUME TypeInv, [Next]_vars
               PROVE  TypeInv'
    OBVIOUS
  <2>1. CASE UNCHANGED vars
    BY <2>1 DEF vars, TypeInv, TypeOK, program, wire, history
  <2> QED
    BY <2>1, SoftwareTypes, ServerTypes DEF Next
<1> QED
  BY <1>1, <1>2, PTL DEF Spec

\* Every variable of the two programs has its type, however the bytes travel
\* and whatever a program makes of bytes that start no packet.
THEOREM Typing == Spec => []TypeOK
<1>1. TypeInv => TypeOK
  BY DEF TypeInv
<1> QED
  BY <1>1, TypesAreKept, PTL

----------------------------------------------------------------------------
(* Nobody waits in vain.                                                   *)

\* While dev_transport waits for a response, there is one, or the simulator has
\* the request before it, or is gone (driver.c:383-394,
\* async_adaptor.cpp:252-319).
THEOREM AnswerIsUnderWay == Spec => []AnswerUnderWay
<1>1. Init => AnswerUnderWay
  BY DEF Init, AnswerUnderWay
<1>2. TypeInv /\ AnswerUnderWay /\ [Next]_vars => AnswerUnderWay'
  <2> SUFFICES ASSUME TypeInv, AnswerUnderWay, [Next]_vars
               PROVE  AnswerUnderWay'
    OBVIOUS
  <2>1. CASE SendRequest
    <3>1. /\ UNCHANGED <<server, wire_out>>
          /\ server \in {"read", "serve", "fatal", "exit"}
      BY <2>1 DEF SendRequest, TypeInv, TypeOK
    <3>2. CASE software' = "receive"
      <4>1. PICK p \in Requests : wire_in' = wire_in \o Bytes(p)
        BY <2>1, <3>2 DEF SendRequest
      <4>2. p \in SentPackets
        BY <4>1, RequestsAreSent DEF TypeInv, TypeOK
      <4>3. p.data \in Seq(Byte)
        BY <4>2, WordsFacts DEF SentPackets
      <4>4. wire_in' # <<>>
        BY <4>1, <4>2, <4>3, AppendTypes DEF TypeInv
      <4> QED
        BY <3>1, <4>4 DEF AnswerUnderWay
    <3>3. CASE software' # "receive"
      BY <3>3 DEF AnswerUnderWay
    <3> QED
      BY <3>2, <3>3
  <2>2. CASE ReceiveResponse
    <3>1. software' # "receive"
      BY <2>2 DEF ReceiveResponse, Finish
    <3> QED
      BY <3>1 DEF AnswerUnderWay
  <2>3. CASE Close
    BY <2>3 DEF Close, AnswerUnderWay
  <2>4. CASE ReadRequest
    BY <2>4 DEF ReadRequest, AnswerUnderWay
  <2>5. CASE ReadEnd
    BY <2>5 DEF ReadEnd, AnswerUnderWay
  <2>6. CASE Serve
    <3>1. CASE wire_out' = wire_out \o Bytes(packet')
      <4>1. packet' \in Answers
        BY <2>6, ServedTypes DEF Serve, TypeInv
      <4>2. packet'.data \in Seq(Byte)
        BY <4>1 DEF Answers
      <4>3. wire_out' # <<>>
        BY <3>1, <4>1, <4>2, AppendTypes DEF TypeInv
      <4> QED
        BY <4>3 DEF AnswerUnderWay
    <3>2. CASE server' = "fatal"
      BY <3>2 DEF AnswerUnderWay
    <3> QED
      BY <2>6, <3>1, <3>2 DEF Serve
  <2>7. CASE UNCHANGED vars
    BY <2>7 DEF vars, wire, AnswerUnderWay
  <2> QED
    BY <2>1, <2>2, <2>3, <2>4, <2>5, <2>6, <2>7
       DEF Next, SoftwareStep, ServerStep
<1> QED
  BY <1>1, <1>2, TypesAreKept, PTL DEF Spec

----------------------------------------------------------------------------
(* The conversation, one lemma per step.                                   *)

\* Which stages a program may be in.
LEMMA StageFacts ==
  ASSUME Stage
  PROVE  /\ software \in {"send", "closed"} => Idle
         /\ software = "aborted" => Aborted
         /\ (wire_out # <<>> /\ software = "receive") => Answered
         /\ server = "serve" => Serving
         /\ server \in {"read", "serve", "fatal"}
         /\ server = "fatal" => Idle \/ Answered \/ Deserted \/ Aborted
         /\ server = "read" =>
              Idle \/ Asked \/ AskedBehindJunk \/ Answered \/ Aborted
BY DEF Stage, Idle, Asked, AskedBehindJunk, Serving, Answered, Deserted,
       Aborted

\* The write of a request (driver.c:383-387).
LEMMA SendKeeps ==
  ASSUME Inv, SendRequest
  PROVE  CountsAreRegisters' /\ MisreadIsSplit' /\ Conversation'
<1>1. /\ software = "send"
      /\ UNCHANGED <<register, count, operation, error_count, server, wire_out,
                     split, misreads>>
  BY DEF SendRequest, device, history
<1>2. CountsAreRegisters' /\ MisreadIsSplit'
  BY <1>1 DEF Inv, CountsAreRegisters, MisreadIsSplit
<1>3. ASSUME misreads = 0
      PROVE  Stage' /\ error_count' = 0 /\ (server' = "fatal" => split')
  <2>1. /\ Idle /\ error_count = 0
        /\ server = "fatal" => split
    BY <1>1, <1>3, StageFacts DEF Inv, Conversation
  <2>2. CASE software' = "receive"
    <3>1. PICK p \in Requests : wire_in' = wire_in \o Bytes(p)
      BY <1>1, <2>2 DEF SendRequest
    <3>2. p \in SentPackets /\ p \in TestRequests
      BY <3>1, RequestsAreSent DEF Inv, TypeInv, TypeOK
    <3>3. p \in TestRequests'
      BY <1>1, <3>2 DEF TestRequests, RequestAddress, Tested
    <3>4. p.data \in Seq(Byte)
      BY <3>2, WordsFacts DEF SentPackets
    <3>5. wire_in \in Seq(WireByte(SentPackets))
      BY DEF Inv, TypeInv
    <3>6. CASE server = "fatal"
      BY <1>1, <2>1, <2>2, <3>6 DEF Stage, Deserted, Idle
    <3>7. CASE server = "read" /\ wire_in = <<>>
      <4>1. wire_in' = Bytes(p)
        BY <3>1, <3>2, <3>4, <3>5, <3>7, AppendTypes
      <4> QED
        BY <1>1, <2>1, <2>2, <3>3, <3>7, <4>1 DEF Stage, Asked, Idle
    <3>8. CASE server = "read" /\ wire_in # <<>>
      <4>1. wire_in' # <<>> /\ wire_in'[1] = wire_in[1]
        BY <3>1, <3>2, <3>4, <3>5, <3>8, AppendTypes
      <4>2. wire_in[1] = Junk /\ split
        BY <2>1, <3>5, <3>8 DEF Idle, Consumed
      <4> QED
        BY <1>1, <2>1, <2>2, <3>8, <4>1, <4>2 DEF Stage, AskedBehindJunk, Idle
    <3> QED
      BY <1>1, <2>1, <3>6, <3>7, <3>8 DEF Idle
  <2>3. CASE software' # "receive"
    <3>1. software' = "aborted" /\ server \in {"fatal", "exit"}
      BY <2>3 DEF SendRequest
    <3>2. server = "fatal"
      BY <2>1, <3>1 DEF Idle
    <3> QED
      BY <1>1, <2>1, <3>1, <3>2 DEF Stage, Aborted
  <2> QED
    BY <2>2, <2>3
<1> QED
  BY <1>1, <1>2, <1>3 DEF Conversation

\* dev_close.
LEMMA CloseKeeps ==
  ASSUME Inv, Close
  PROVE  CountsAreRegisters' /\ MisreadIsSplit' /\ Conversation'
<1>1. /\ software = "send" /\ software' = "closed"
      /\ UNCHANGED <<register, count, error_count, server, wire_in, wire_out,
                     split, misreads>>
  BY DEF Close, device, program, wire, history
<1>2. CountsAreRegisters' /\ MisreadIsSplit'
  BY <1>1 DEF Inv, CountsAreRegisters, MisreadIsSplit
<1>3. misreads = 0 => Idle /\ error_count = 0
  BY <1>1, StageFacts DEF Inv, Conversation
<1> QED
  BY <1>1, <1>2, <1>3 DEF Conversation, Stage, Idle, Consumed

\* The end of the connection, as the simulator reads it
\* (async_adaptor.cpp:252-258).
LEMMA ReadEndKeeps ==
  ASSUME Inv, ReadEnd
  PROVE  CountsAreRegisters' /\ MisreadIsSplit' /\ Conversation'
<1>1. /\ server = "read" /\ software \in {"closed", "aborted"}
      /\ server' = "fatal"
      /\ UNCHANGED <<register, software, count, error_count, wire_in, wire_out,
                     split, misreads>>
  BY DEF ReadEnd, device, program, wire, history
<1>2. CountsAreRegisters' /\ MisreadIsSplit'
  BY <1>1 DEF Inv, CountsAreRegisters, MisreadIsSplit
<1>3. misreads = 0 => /\ error_count = 0
                      /\ software = "closed" => Idle
                      /\ software = "aborted" => Aborted
  BY <1>1, StageFacts DEF Inv, Conversation
<1> QED
  BY <1>1, <1>2, <1>3 DEF Conversation, Stage, Idle, Aborted, Consumed

\* The request through the device: nothing that main counts on changes
\* (async_adaptor.cpp:275-319, 354-397).
LEMMA ServeKeeps ==
  ASSUME Inv, Serve
  PROVE  CountsAreRegisters' /\ MisreadIsSplit' /\ Conversation'
<1>1. /\ server = "serve" /\ Br!Serve(request)
      /\ UNCHANGED <<software, count, operation, error_count, wire_in, split,
                     misreads>>
  BY DEF Serve, program, history
<1>2. MisreadIsSplit'
  BY <1>1 DEF Inv, MisreadIsSplit
<1>3. ASSUME misreads = 0
      PROVE  register' = register /\ Answered' /\ server' = "read"
  <2>1. Serving
    BY <1>1, <1>3, StageFacts DEF Inv, Conversation
  <2>2. register' = register /\ packet' \in TestAnswers'
    BY <1>1, <2>1, TestRequestServed DEF Serving, Inv, TypeInv, TypeOK
  <2>3. server' = "read" /\ wire_out' = wire_out \o Bytes(packet')
    BY <2>1 DEF Serve, Serving
  <2>4. wire_out' = Bytes(packet')
    <3>1. packet' \in Answers
      BY <1>1, ServedTypes DEF Inv, TypeInv
    <3>2. packet'.data \in Seq(Byte)
      BY <3>1 DEF Answers
    <3>3. wire_out \in Seq(WireByte(Answers)) /\ wire_out = <<>>
      BY <2>1 DEF Serving, Inv, TypeInv
    <3> QED
      BY <2>3, <3>1, <3>2, <3>3, AppendTypes
  <2> QED
    BY <1>1, <2>1, <2>2, <2>3, <2>4 DEF Answered, Serving, Consumed
<1>4. CountsAreRegisters'
  BY <1>1, <1>3 DEF Inv, CountsAreRegisters
<1>5. Conversation'
  BY <1>1, <1>3 DEF Inv, Conversation, Stage
<1> QED
  BY <1>2, <1>4, <1>5

\* What a response that has not been misread does to main: no error, and the
\* word that is in the register (driver.c:390-414, software.c:70-95).
LEMMA FinishKeeps ==
  ASSUME Inv, misreads = 0, NEW p \in TestAnswers, Finish(p),
         UNCHANGED <<register, misreads>>
  PROVE  /\ error_count' = error_count /\ software' = "send"
         /\ CountsAreRegisters'
<1>1. /\ operation \in 0 .. (2 * REGCNT)
      /\ count \in [0 .. (REGCNT - 1) -> Words \cup {Unset}]
  BY DEF Inv, TypeInv, TypeOK
<1>2. /\ p.status = "ok" /\ p.data \in Words
      /\ \A i \in 1 .. ByteWidth : p.data[i] = register[RequestAddress + i - 1]
  BY DEF TestAnswers
<1>3. error_count' = error_count /\ software' = "send"
  BY <1>2 DEF Finish
<1>4. \A i \in 1 .. ByteWidth : Stored(p.data)[i] = p.data[i]
  BY <1>2, WordsFacts DEF Stored
<1>5. ASSUME NEW k \in 0 .. (REGCNT - 1), count'[k] # Unset,
             NEW i \in 1 .. ByteWidth
      PROVE  count'[k][i] = register[RegisterAddress(k) + i - 1]
  <2>1. CASE operation # REGCNT /\ k = Tested
    <3>1. count'[k] = Stored(p.data)
      BY <1>1, <1>2, <2>1 DEF Finish
    <3>2. RequestAddress = RegisterAddress(k)
      BY <2>1 DEF RequestAddress
    <3> QED
      BY <1>2, <1>4, <3>1, <3>2
  <2>2. CASE operation = REGCNT \/ k # Tested
    <3>1. count'[k] = count[k]
      BY <1>1, <1>2, <2>2 DEF Finish
    <3> QED
      BY <1>5, <3>1 DEF Inv, CountsAreRegisters
  <2> QED
    BY <2>1, <2>2
<1>6. CountsAreRegisters'
  BY <1>5 DEF CountsAreRegisters, RegisterAddress
<1> QED
  BY <1>3, <1>6

\* The read of a response (driver.c:389-414).
LEMMA ReceiveKeeps ==
  ASSUME Inv, ReceiveResponse
  PROVE  CountsAreRegisters' /\ MisreadIsSplit' /\ Conversation'
<1>1. /\ software = "receive"
      /\ UNCHANGED <<register, server, wire_in>>
  BY DEF ReceiveResponse, device
<1>2. /\ misreads = 0 => Stage /\ error_count = 0 /\ (server = "fatal" => split)
      /\ split \/ misreads = 0
      /\ misreads \in Nat /\ split \in BOOLEAN
  BY <1>1, SystemAssumption
     DEF Inv, Conversation, MisreadIsSplit, TypeInv, TypeOK
<1>3. CASE /\ server \in {"fatal", "exit"} /\ software' = "aborted"
           /\ UNCHANGED <<program, wire_out, history>>
  <2>1. UNCHANGED <<count, error_count, split, misreads>>
    BY <1>3 DEF program, history
  <2>2. CountsAreRegisters' /\ MisreadIsSplit'
    BY <1>1, <2>1 DEF Inv, CountsAreRegisters, MisreadIsSplit
  <2>3. misreads = 0 => server = "fatal" /\ split
    BY <1>2, <1>3, StageFacts
  <2>4. misreads = 0 => Aborted'
    BY <1>1, <1>3, <2>1, <2>3 DEF Aborted
  <2> QED
    BY <1>1, <1>2, <2>1, <2>2, <2>3, <2>4 DEF Conversation, Stage
<1>4. ASSUME NEW n \in 1 .. Len(wire_out), n <= SendSize,
             IF n < SendSize
             THEN software' = "aborted" /\ UNCHANGED <<program, misreads>>
             ELSE /\ \E p \in Unpacked(SubSeq(wire_out, 1, n), Responses) :
                       Finish(p)
                  /\ misreads' = Misreads(SubSeq(wire_out, 1, n)),
             split' = (split \/ n < SendSize),
             wire_out' = Rest(wire_out, n)
      PROVE  CountsAreRegisters' /\ MisreadIsSplit' /\ Conversation'
  <2> DEFINE bytes == SubSeq(wire_out, 1, n)
  <2>1. wire_out \in Seq(WireByte(Answers)) /\ wire_out # <<>>
    BY <1>4 DEF Inv, TypeInv
  <2>2. misreads' = 0 => misreads = 0
    BY <1>2, <1>4 DEF Misreads
  <2>3. split => split'
    BY <1>4
  <2>4. CASE misreads # 0
    <3>1. misreads' # 0 /\ split'
      BY <1>2, <2>2, <2>3, <2>4
    <3> QED
      BY <3>1 DEF CountsAreRegisters, MisreadIsSplit, Conversation
  <2>5. CASE misreads = 0
    <3>1. Answered /\ error_count = 0
      BY <1>1, <1>2, <2>1, <2>5, StageFacts
    <3>2. PICK p \in TestAnswers : wire_out = Bytes(p)
      BY <3>1 DEF Answered
    <3>3. IsPacket(p) /\ p.data \in Seq(Byte) /\ Len(p.data) = ByteWidth
      BY WordsFacts DEF TestAnswers, IsPacket
    <3>4. Len(wire_out) = SendSize /\ SendSize \in Nat /\ SendSize >= HeaderBytes
      <4>1. Len(wire_out) = HeaderBytes + ByteWidth
        BY <3>2, <3>3, BytesFacts
      <4> QED
        BY <4>1, WordsFacts DEF SendSize
    <3>5. Consumed' /\ server \in {"read", "fatal"} /\ (server = "fatal" => split)
      BY <1>1, <1>2, <2>3, <2>5, <3>1 DEF Answered, Consumed
    <3>6. CASE n < SendSize
      <4>1. /\ software' = "aborted" /\ split'
            /\ UNCHANGED <<count, error_count, misreads>>
        BY <1>4, <3>6 DEF program
      <4> QED
        BY <1>1, <2>5, <3>1, <3>5, <4>1
           DEF Inv, CountsAreRegisters, MisreadIsSplit, Conversation, Stage,
               Aborted
    <3>7. CASE n = SendSize
      <4>1. StartsPacket(bytes) /\ FirstPacket(bytes) = p
        BY <3>2, <3>3, <3>4, <3>7, SentStartsPacket
      <4>2. Finish(p) /\ misreads' = misreads
        BY <1>4, <3>4, <3>7, <4>1 DEF Unpacked, Misreads
      <4>3. wire_out' = <<>>
        BY <1>4, <2>1, <3>4, <3>7, RestTypes
      <4>4. /\ error_count' = error_count /\ software' = "send"
            /\ CountsAreRegisters'
        BY <1>1, <2>5, <4>2, FinishKeeps
      <4> QED
        BY <1>1, <2>3, <2>5, <3>1, <3>5, <4>2, <4>3, <4>4
           DEF MisreadIsSplit, Conversation, Stage, Idle
    <3> QED
      BY <1>4, <3>4, <3>6, <3>7
  <2> QED
    BY <2>4, <2>5
<1> QED
  BY <1>3, <1>4 DEF ReceiveResponse

\* The read of a request, whole or in part (async_adaptor.cpp:247-273).
LEMMA ReadRequestKeeps ==
  ASSUME Inv, ReadRequest
  PROVE  CountsAreRegisters' /\ MisreadIsSplit' /\ Conversation'
<1>1. /\ server = "read"
      /\ UNCHANGED <<register, software, operation, count, error_count, wire_out>>
  BY DEF ReadRequest, device, program
<1>2. /\ misreads = 0 => Stage /\ error_count = 0
      /\ split \/ misreads = 0
      /\ misreads \in Nat /\ split \in BOOLEAN
      /\ wire_in \in Seq(WireByte(SentPackets))
  BY SystemAssumption
     DEF Inv, Conversation, MisreadIsSplit, TypeInv, TypeOK
<1>3. PICK n \in 1 .. Len(wire_in) :
        LET bytes == SubSeq(wire_in, 1, n)
        IN  /\ \/ /\ n < HeaderBytes
                  /\ server' = "fatal" /\ split' = TRUE
                  /\ UNCHANGED <<request, misreads>>
               \/ /\ n >= HeaderBytes
                  /\ request' \in Unpacked(bytes, Br!Packets)
                  /\ server' = "serve"
                  /\ misreads' = Misreads(bytes)
                  /\ split' = (split \/ IsSplit(bytes))
               \/ /\ n >= HeaderBytes
                  /\ ~StartsPacket(bytes) /\ misreads < MaxMisreads
                  /\ server' = "exit"
                  /\ misreads' = Misreads(bytes) /\ split' = TRUE
                  /\ UNCHANGED request
            /\ wire_in' = Rest(wire_in, n)
  BY DEF ReadRequest
<1> DEFINE bytes == SubSeq(wire_in, 1, n)
<1>4. misreads' = 0 => misreads = 0
  BY <1>2, <1>3 DEF Misreads
<1>5. misreads' = 0 => CountsAreRegisters'
  BY <1>1, <1>4 DEF Inv, CountsAreRegisters
<1>6. split' \/ misreads' = 0
  BY <1>2, <1>3 DEF Misreads, IsSplit
<1>7. ASSUME misreads' = 0
      PROVE  Stage' /\ (server' = "fatal" => split')
  <2>1. misreads = 0 /\ Stage
    BY <1>2, <1>4, <1>7
  <2>2. n >= HeaderBytes => StartsPacket(bytes)
    <3> SUFFICES ASSUME n >= HeaderBytes, ~StartsPacket(bytes)
                 PROVE  FALSE
      OBVIOUS
    <3>1. ~(n < HeaderBytes)
      BY WordsFacts
    <3>2. misreads' = Misreads(bytes)
      BY <1>3, <3>1
    <3> QED
      BY <1>2, <1>7, <3>2 DEF Misreads
  <2>3. server' = "exit" => FALSE
    BY <1>3, <2>2
  <2>4. ASSUME wire_in[1] = Junk
        PROVE  server' = "fatal" /\ split'
    <3>1. ~StartsPacket(bytes)
      BY <1>2, <2>4, JunkStartsNothing
    <3> QED
      BY <1>3, <2>2, <3>1
  <2>5. Consumed => wire_in[1] = Junk /\ Consumed'
    <3> SUFFICES ASSUME Consumed
                 PROVE  wire_in[1] = Junk /\ Consumed'
      OBVIOUS
    <3>1. \A i \in 1 .. Len(wire_in) : wire_in[i] = Junk
      BY DEF Consumed
    <3>2. wire_in[1] = Junk
      BY <1>2, <3>1
    <3>3. \A i \in 1 .. Len(wire_in') : wire_in'[i] = Junk
      BY <1>2, <1>3, <3>1, RestOfJunk
    <3> QED
      BY <2>4, <3>2, <3>3 DEF Consumed
  <2>6. CASE Idle
    BY <1>1, <2>4, <2>5, <2>6 DEF Stage, Idle
  <2>7. CASE Answered
    <3>1. TestAnswers' = TestAnswers
      BY <1>1 DEF TestAnswers, RequestAddress, Tested
    <3> QED
      BY <1>1, <2>4, <2>5, <2>7, <3>1 DEF Stage, Answered
  <2>8. CASE Aborted
    BY <1>1, <2>4, <2>5, <2>8 DEF Stage, Aborted
  <2>9. CASE AskedBehindJunk
    BY <1>1, <2>4, <2>9 DEF Stage, AskedBehindJunk, Deserted
  <2>10. CASE Asked
    <3>1. software = "receive" /\ wire_out = <<>>
      BY <2>10 DEF Asked
    <3>2. PICK p \in TestRequests : wire_in = Bytes(p)
      BY <2>10 DEF Asked
    <3>3. IsPacket(p) /\ p.data \in Seq(Byte) /\ Len(p.data) = ByteWidth
      BY WordsFacts DEF TestRequests, IsPacket
    <3>4. CASE n < HeaderBytes
      BY <1>1, <1>3, <3>1, <3>4, WordsFacts DEF Stage, Deserted
    <3>5. CASE n >= HeaderBytes
      <4>1. request' = FirstPacket(bytes) /\ server' = "serve"
            /\ split' = (split \/ IsSplit(bytes))
        BY <1>3, <2>2, <3>5, WordsFacts DEF Unpacked
      <4>2. request' \in TestRequests
        <5>1. wire_in[1].packet = p
          BY <3>2, <3>3, <3>5, SentStartsPacket
        <5>2. wire_in \in Seq(WireByte({p}))
          BY <3>2, <3>3, BytesFacts
        <5>3. /\ IsPacket(request')
              /\ request'.command = p.command /\ request'.address = p.address
              /\ request'.status = p.status
              /\ DOMAIN request'.data = 1 .. Len(p.data)
          BY <2>2, <3>3, <3>5, <4>1, <5>1, <5>2, FirstPacketFacts
        <5>4. request'.data \in Words
          <6>1. DOMAIN request'.data = 1 .. ByteWidth /\ request'.data \in Seq(Byte)
            BY <3>3, <5>3 DEF IsPacket
          <6> QED
            BY <6>1, WordsFacts DEF Words
        <5> QED
          BY <5>3, <5>4 DEF TestRequests, IsPacket
      <4>3. TestRequests' = TestRequests
        BY <1>1 DEF TestRequests, RequestAddress, Tested
      <4>4. Consumed'
        <5>1. \A i \in 1 .. Len(wire_in') : wire_in'[i] = Junk
          BY <1>3, <3>2, <3>3, RestOfPacket
        <5>2. Len(wire_in') = Len(wire_in) - n /\ n \in Nat
              /\ Len(wire_in) = HeaderBytes + ByteWidth /\ Len(bytes) = n
          <6>1. Len(wire_in) = HeaderBytes + ByteWidth
            BY <3>2, <3>3, BytesFacts
          <6>2. Len(wire_in') = Len(wire_in) - n
            BY <1>2, <1>3, RestTypes
          <6> QED
            BY <1>2, <6>1, <6>2
        <5>3. bytes[1].packet = p
          BY <1>2, <3>2, <3>3, <3>5, SentStartsPacket
        <5>4. Len(wire_in') # 0 => split'
          <6>1. Len(wire_in') # 0 => Len(bytes) # HeaderBytes + ByteWidth
            BY <5>2, WordsFacts
          <6>2. Len(bytes[1].packet.data) = ByteWidth
            BY <3>3, <5>3
          <6> QED
            BY <4>1, <6>1, <6>2 DEF IsSplit
        <5> QED
          BY <5>1, <5>2, <5>4, WordsFacts DEF Consumed
      <4> QED
        BY <1>1, <3>1, <4>1, <4>2, <4>3, <4>4 DEF Stage, Serving
    <3> QED
      BY <3>4, <3>5, WordsFacts
  <2> QED
    BY <1>1, <2>1, <2>6, <2>7, <2>8, <2>9, <2>10, StageFacts
<1>8. misreads' = 0 => error_count' = 0
  BY <1>1, <1>2, <1>4
<1> QED
  BY <1>5, <1>6, <1>7, <1>8 DEF Conversation, CountsAreRegisters, MisreadIsSplit

----------------------------------------------------------------------------
(* The theorems.                                                           *)

\* What the programs start with.
LEMMA InitKeeps ==
  ASSUME Init
  PROVE  Inv
<1>1. TypeInv
  BY InitTypes
<1>2. CountsAreRegisters
  BY DEF Init, CountsAreRegisters
<1>3. MisreadIsSplit
  BY DEF Init, MisreadIsSplit
<1>4. Conversation
  BY DEF Init, Conversation, Stage, Idle, Consumed
<1> QED
  BY <1>1, <1>2, <1>3, <1>4 DEF Inv

\* The conversation goes on in its stages until bytes are misread.
LEMMA Invariance == Spec => []Inv
<1>1. Init => Inv
  BY InitKeeps
<1>2. Inv /\ [Next]_vars => Inv'
  <2> SUFFICES ASSUME Inv, [Next]_vars
               PROVE  Inv'
    OBVIOUS
  <2>1. CASE SoftwareStep
    <3>1. TypeInv'
      BY <2>1, SoftwareTypes DEF Inv
    <3> QED
      BY <2>1, <3>1, SendKeeps, ReceiveKeeps, CloseKeeps DEF SoftwareStep, Inv
  <2>2. CASE ServerStep
    <3>1. TypeInv'
      BY <2>2, ServerTypes DEF Inv
    <3> QED
      BY <2>2, <3>1, ReadRequestKeeps, ReadEndKeeps, ServeKeeps
         DEF ServerStep, Inv
  <2>3. CASE UNCHANGED vars
    <3>1. /\ UNCHANGED <<register, software, operation, count, error_count, test,
                         data, server, request, wire_in, wire_out, split, misreads>>
      BY <2>3 DEF vars, device, program, wire, history
    <3>2. TypeInv'
      BY <3>1 DEF Inv, TypeInv, TypeOK
    <3>3. CountsAreRegisters' /\ MisreadIsSplit'
      BY <3>1 DEF Inv, CountsAreRegisters, MisreadIsSplit
    <3>4. TestAnswers' = TestAnswers /\ TestRequests' = TestRequests
      BY <3>1 DEF TestAnswers, TestRequests, RequestAddress, Tested
    <3>5. Stage' <=> Stage
      BY <3>1, <3>4 DEF Stage, Idle, Asked, AskedBehindJunk, Serving, Answered,
                        Deserted, Aborted, Consumed
    <3>6. Conversation'
      BY <3>1, <3>5 DEF Inv, Conversation
    <3> QED
      BY <3>2, <3>3, <3>6 DEF Inv
  <2> QED
    BY <2>1, <2>2, <2>3 DEF Next
<1> QED
  BY <1>1, <1>2, PTL DEF Spec

\* As long as nothing has been misread, what main takes to be in the registers
\* is there, for any number of registers and tests (software.c:71-95).
THEOREM CountsMatch == Spec => []CountsAreRegisters
<1>1. Inv => CountsAreRegisters
  BY DEF Inv
<1> QED
  BY <1>1, Invariance, PTL

\* The tests pass, the program ends in order and the simulator stays until the
\* connection is closed, unless TCP has divided a packet (software.c:98-104,
\* driver.c:390-394, async_adaptor.cpp:252-258).
THEOREM TestsPass == Spec => []TestsPassUnlessSplit
<1>1. Inv => TestsPassUnlessSplit
  <2> SUFFICES ASSUME Inv, ~split
               PROVE  /\ ExitStatus = 0 /\ software # "aborted"
                      /\ server \in {"fatal", "exit"} => software = "closed"
    BY DEF TestsPassUnlessSplit
  <2>1. /\ Stage /\ error_count = 0
        /\ server = "fatal" => software = "closed"
    BY DEF Inv, MisreadIsSplit, Conversation
  <2>2. software # "aborted" /\ server # "exit"
    BY <2>1, StageFacts DEF Aborted
  <2>3. ExitStatus = 0
    BY <2>1 DEF ExitStatus
  <2> QED
    BY <2>1, <2>2, <2>3
<1> QED
  BY <1>1, Invariance, PTL

\* Whatever arrives, the device behind the socket sees packets of TlmBridge one
\* after the other: what is proved of that module holds in the whole system.
THEOREM BridgeIsImplemented == Spec => Br!Spec
<1>1. Init => Br!Init
  BY DEF Init
<1>2. TypeInv /\ [Next]_vars => [Br!Next]_(Br!vars)
  <2> SUFFICES ASSUME TypeInv, [Next]_vars
               PROVE  [Br!Next]_(Br!vars)
    OBVIOUS
  <2>1. CASE Serve
    BY <2>1 DEF Serve, Br!Next, TypeInv
  <2>2. ASSUME UNCHANGED device
        PROVE  UNCHANGED Br!vars
    BY <2>2 DEF device, Br!vars, Br!devVars
  <2>3. CASE SendRequest \/ ReceiveResponse \/ Close \/ ReadRequest \/ ReadEnd
    BY <2>2, <2>3 DEF SendRequest, ReceiveResponse, Close, ReadRequest, ReadEnd
  <2>4. CASE UNCHANGED vars
    BY <2>2, <2>4 DEF vars
  <2> QED
    BY <2>1, <2>3, <2>4 DEF Next, SoftwareStep, ServerStep
<1> QED
  BY <1>1, <1>2, TypesAreKept, PTL DEF Spec, Br!Spec
=============================================================================
