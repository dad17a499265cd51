-------------------------- MODULE RequestResponse --------------------------
(***************************************************************************)
(* What the adaptor promises to its client, stated over three events of    *)
(* the code: dev_transport writes a request and waits for its response     *)
(* (zedboard/driver.c), the initiator process transports it to the target, *)
(* and async_os_thread writes the response (sysc/async_adaptor.cpp).       *)
(* Every request is carried out on the target at most once, in the order   *)
(* of the requests, and it is answered at most once, after it has been     *)
(* carried out and before the next request is made.                        *)
(***************************************************************************)
EXTENDS Naturals, Sequences

VARIABLES
  requested,  \* number of requests made so far; the n-th has the id n
  executed,   \* ids of the requests carried out on the target, in order
  answered    \* ids of the requests answered, in order

vars == <<requested, executed, answered>>

Init == requested = 0 /\ executed = <<>> /\ answered = <<>>

Ask ==
  /\ Len(answered) = requested
  /\ requested' = requested + 1
  /\ UNCHANGED <<executed, answered>>

Execute ==
  /\ Len(executed) < requested
  /\ executed' = Append(executed, Len(executed) + 1)
  /\ UNCHANGED <<requested, answered>>

Answer ==
  /\ Len(answered) < Len(executed)
  /\ answered' = Append(answered, executed[Len(answered) + 1])
  /\ UNCHANGED <<requested, executed>>

Next == Ask \/ Execute \/ Answer

Spec == Init /\ [][Next]_vars
=============================================================================
