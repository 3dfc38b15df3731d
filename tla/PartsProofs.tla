---------------------------- MODULE PartsProofs ----------------------------
(***************************************************************************)
(* Proofs about the parts that stand on their own: the buffer a connector  *)
(* reads into, for every size of the buffer and every number of bytes,     *)
(* when reserve() calls avail_mem() before it reads wr; the factory that   *)
(* creates a client's connector, for any number of endpoints; the          *)
(* calendar, for every day whose year is a short; and the head of a        *)
(* message, for any names, values and sequence of calls.                   *)
(***************************************************************************)
EXTENDS ReusableBuffer, DnsConnectorFactory, Calendar, Messages, SequenceTheorems, TLAPS

-----------------------------------------------------------------------------
(* reusable_buffer. *)

\* What the definitions say in the three shapes of the buffer: contiguous,
\* wrapped around (or full), empty.
LEMMA Shapes ==
  ASSUME BufTypeOK, Shape
  PROVE  /\ Used \in 0 .. N /\ AvailMem \in 0 .. N /\ Used + AvailMem <= N
         /\ Aligned(wr) \in Cells /\ Aligned(rd) \in Cells
         /\ Aligned(wr) + AvailMem <= N
         /\ \A k \in 0 .. Used - 1 : Place(k) \in Cells
         /\ \A k \in 0 .. Used - 1 : ~(Place(k) >= wr /\ Place(k) < wr + AvailMem)
         /\ Realigns => Used = 0
  BY NAssumption
  DEF BufTypeOK, Shape, Cells, Used, AvailMem, Aligned, Realigns, Place

\* reserve() preserves the invariant.
LEMMA ReserveStep ==
  ASSUME EvalOrders = {"size_first"}, BufInv, Reserve
  PROVE  BufInv'
<1>1. /\ wr' = Aligned(wr) /\ rd' = Aligned(rd) /\ bound' = bound /\ mem' = mem
      /\ res' = [ptr |-> wr', size |-> AvailMem]
      /\ UNCHANGED <<given, received, freed>>
  BY DEF Reserve
<1>2. BufTypeOK /\ Shape
  BY DEF BufInv
<1>3. BufTypeOK'
  BY <1>1, <1>2, Shapes DEF BufTypeOK
<1>4. CASE Realigns
  <2>1. wr = rd /\ ~bound /\ wr' = 0 /\ rd' = 0 /\ ~bound' /\ Used = 0 /\ AvailMem = N
    BY <1>1, <1>2, <1>4, Shapes DEF Realigns, Aligned, AvailMem, BufTypeOK, Cells
  <2>2. Shape' /\ Used' = 0 /\ AvailMem' = N
    BY <2>1 DEF Shape, Used, AvailMem
  <2>3. BytesKept'
    BY <1>1, <2>1, <2>2 DEF BufInv, BytesKept
  <2>4. Outstanding' /\ ReservedIsFree'
    BY <1>1, <2>1, <2>2, NAssumption DEF Outstanding, ReservedIsFree
  <2>5. ProducedIsReserved'
    BY <1>1 DEF BufInv, ProducedIsReserved
  <2> QED
    BY <1>3, <2>2, <2>3, <2>4, <2>5 DEF BufInv
<1>5. CASE ~Realigns
  <2>1. wr' = wr /\ rd' = rd /\ bound' = bound
    BY <1>1, <1>5 DEF Aligned
  <2>2. /\ Shape' /\ Used' = Used /\ AvailMem' = AvailMem /\ ~Realigns'
        /\ \A k : Place(k)' = Place(k)
    BY <1>2, <1>5, <2>1 DEF Shape, Used, AvailMem, Realigns, Place
  <2>3. BytesKept'
    BY <1>1, <2>1, <2>2 DEF BufInv, BytesKept
  <2>4. Outstanding'
    BY <1>1, <2>1, <2>2 DEF Outstanding
  <2>5. ReservedIsFree'
    <3>1. /\ Aligned(wr) = wr /\ wr + AvailMem <= N
          /\ \A k \in 0 .. Used - 1 : ~(Place(k) >= wr /\ Place(k) < wr + AvailMem)
      BY <1>2, <1>5, Shapes DEF Aligned
    <3>2. res'.ptr = wr /\ res'.size = AvailMem
      BY <1>1, <2>1
    <3> QED
      BY <2>2, <3>1, <3>2 DEF ReservedIsFree
  <2>6. ProducedIsReserved'
    BY <1>1 DEF BufInv, ProducedIsReserved
  <2> QED
    BY <1>3, <2>2, <2>3, <2>4, <2>5, <2>6 DEF BufInv
<1> QED
  BY <1>4, <1>5

\* A completed read preserves the invariant: the bytes go where the last byte
\* in use ends.
LEMMA ProduceStep ==
  ASSUME BufInv, NEW len, Produce(len)
  PROVE  BufInv'
<1>1. /\ BufTypeOK /\ Shape /\ res.size > 0
      /\ res.ptr = wr /\ res.size = AvailMem /\ (Realigns => wr = 0)
      /\ len \in 1 .. AvailMem
  BY DEF BufInv, Produce, Outstanding, BufTypeOK
<1>2. /\ wr \in 0 .. N - 1 /\ rd \in 0 .. N - 1 /\ bound \in BOOLEAN /\ N \in Nat \ {0}
      /\ received \in Nat /\ freed \in Nat /\ len \in Nat \ {0}
      /\ AvailMem \in 0 .. N /\ Used \in 0 .. N /\ wr + AvailMem <= N
      /\ Used = received - freed
  <2>1. Aligned(wr) = wr
    BY <1>1 DEF Aligned
  <2> QED
    BY <1>1, <2>1, Shapes, NAssumption DEF BufInv, BytesKept, BufTypeOK, Cells
<1>3. /\ rd' = rd /\ wr' = (IF wr + len = N THEN 0 ELSE wr + len)
      /\ bound' = (bound \/ wr + len = N)
      /\ mem' = [i \in Cells |-> IF i >= wr /\ i < wr + len
                                 THEN received + (i - wr) + 1 ELSE mem[i]]
      /\ received' = received + len /\ freed' = freed
      /\ res' = [res EXCEPT !.size = 0]
      /\ given' = [ptr |-> wr, filled |-> wr]
  <2>1. Aligned(wr) = wr /\ Aligned(rd) = rd
    BY <1>1 DEF Aligned, Realigns
  <2> QED
    BY <1>1, <2>1 DEF Produce
<1>4. /\ wr + len <= N
      /\ \/ wr + len = N /\ wr' = 0 /\ bound' = TRUE
         \/ wr + len < N /\ wr' = wr + len /\ bound' = bound
  <2>1. wr + len <= N
    BY <1>1, <1>2
  <2>2. CASE wr + len = N
    BY <1>3, <2>1, <2>2
  <2>3. CASE wr + len # N
    <3>1. bound' = bound
      BY <1>2, <1>3, <2>3
    <3> QED
      BY <1>2, <1>3, <2>1, <2>3, <3>1
  <2> QED
    BY <2>2, <2>3
<1>5. BufTypeOK'
  <2>1. wr' \in Cells /\ bound' \in BOOLEAN
    <3>1. wr' \in Cells
      BY <1>2, <1>4 DEF Cells
    <3>2. bound' \in BOOLEAN
      BY <1>3, Zenon
    <3> QED
      BY <3>1, <3>2
  <2>2. \A i \in Cells : i >= wr => received + (i - wr) + 1 \in Nat
    BY <1>2 DEF Cells
  <2>3. mem' \in [Cells -> Nat]
    <3>1. mem \in [Cells -> Nat]
      BY <1>1 DEF BufTypeOK
    <3> QED
      BY <1>3, <2>2, <3>1
  <2>4. res' \in [ptr : Cells, size : 0 .. N]
    <3>1. res \in [ptr : Cells, size : 0 .. N] /\ 0 \in 0 .. N
      BY <1>1, <1>2 DEF BufTypeOK
    <3> QED
      BY <1>3, <3>1
  <2>5. wr \in Cells /\ rd' \in Cells /\ given' \in [ptr : Cells, filled : Cells]
    BY <1>1, <1>3 DEF BufTypeOK
  <2>6. received' \in Nat /\ freed' \in Nat
    BY <1>2, <1>3
  <2> QED
    BY <2>1, <2>3, <2>4, <2>5, <2>6 DEF BufTypeOK
<1>6. Shape' /\ Used' = Used + len
  <2>1. rd' = rd
    BY <1>3
  <2>2. CASE wr < rd
    <3>1. bound /\ wr + len <= rd
      BY <1>1, <1>2, <2>2 DEF Shape, AvailMem
    <3>2. wr' = wr + len /\ bound' = bound
      <4>1. wr + len # N
        BY <1>2, <3>1
      <4> QED
        BY <1>4, <4>1
    <3>3. bound'
      BY <3>1, <3>2, Zenon
    <3> QED
      BY <1>2, <2>1, <2>2, <3>1, <3>2, <3>3 DEF Shape, Used
  <2>3. CASE wr >= rd
    <3>1. ~bound
      BY <1>1, <1>2, <2>3 DEF Shape, AvailMem
    <3>2. wr = rd => wr = 0 /\ rd = 0
      BY <1>1, <3>1 DEF Realigns
    <3>3. CASE wr + len = N
      <4>1. wr' = 0 /\ bound'
        BY <1>2, <1>4, <3>3
      <4> QED
        BY <1>2, <2>1, <2>3, <3>1, <3>2, <3>3, <4>1 DEF Shape, Used
    <3>4. CASE wr + len # N
      <4>1. wr + len < N /\ wr' = wr + len /\ bound' = bound
        BY <1>2, <1>4, <3>4
      <4>2. ~bound'
        BY <3>1, <4>1, Zenon
      <4> QED
        BY <1>2, <2>1, <2>3, <3>1, <3>2, <4>1, <4>2 DEF Shape, Used
    <3> QED
      BY <3>3, <3>4
  <2> QED
    BY <1>2, <2>2, <2>3
<1>7. Outstanding' /\ ReservedIsFree' /\ ProducedIsReserved'
  <2>1. res'.size = 0 /\ res'.ptr = wr /\ given'.ptr = given'.filled
    BY <1>1, <1>3 DEF BufTypeOK
  <2>2. Outstanding' /\ ProducedIsReserved'
    BY <2>1 DEF Outstanding, ProducedIsReserved
  <2>3. \A k \in 0 .. Used' - 1 : Place(k)' \in Int
    BY <1>2, <1>3, <1>6 DEF Place
  <2>4. ReservedIsFree'
    BY <1>2, <2>1, <2>3 DEF ReservedIsFree
  <2> QED
    BY <2>2, <2>4
<1>8. BytesKept'
  <2>1. Used' = received' - freed'
    BY <1>2, <1>3, <1>6
  <2>2. ASSUME NEW k \in 0 .. Used' - 1
        PROVE  mem'[Place(k)'] = freed' + k + 1
    <3>1. Place(k)' = Place(k)
      BY <1>3 DEF Place
    <3>2. CASE k < Used
      <4>1. k \in 0 .. Used - 1
        BY <1>2, <3>2, <1>6
      <4>2. /\ Place(k) \in Cells /\ mem[Place(k)] = freed + k + 1
            /\ ~(Place(k) >= wr /\ Place(k) < wr + AvailMem)
        BY <1>1, <4>1, Shapes DEF BufInv, BytesKept
      <4>3. ~(Place(k) >= wr /\ Place(k) < wr + len)
        BY <1>1, <1>2, <4>2 DEF Cells
      <4> QED
        BY <1>3, <3>1, <4>2, <4>3
    <3>3. CASE ~(k < Used)
      <4>1. k \in Nat /\ k >= Used /\ k < Used + len
        BY <1>2, <1>6, <3>3
      <4>2. Place(k) = wr + (k - Used)
        BY <1>1, <1>2, <4>1 DEF Place, Used, AvailMem, Shape, Realigns
      <4>3. Place(k) \in Cells /\ Place(k) >= wr /\ Place(k) < wr + len
        BY <1>1, <1>2, <4>1, <4>2 DEF Cells
      <4>4. mem'[Place(k)] = received + (Place(k) - wr) + 1
        BY <1>3, <4>3
      <4>5. received + (Place(k) - wr) + 1 = freed + k + 1
        BY <1>2, <4>1, <4>2
      <4> QED
        BY <1>3, <3>1, <4>4, <4>5
    <3> QED
      BY <3>2, <3>3
  <2> QED
    BY <2>1, <2>2 DEF BytesKept
<1> QED
  BY <1>5, <1>6, <1>7, <1>8 DEF BufInv

\* consume() preserves the invariant: the remaining bytes move closer to rd.
LEMMA ConsumeStep ==
  ASSUME BufInv, NEW ptr \in 1 .. N, Consume(ptr)
  PROVE  BufInv'
<1>1. BufTypeOK /\ Shape /\ res.size = 0
  BY DEF BufInv, Consume
<1>2. /\ wr \in 0 .. N - 1 /\ rd \in 0 .. N - 1 /\ bound \in BOOLEAN /\ N \in Nat \ {0}
      /\ received \in Nat /\ freed \in Nat /\ ptr \in Nat /\ Used \in 0 .. N
      /\ res.ptr \in 0 .. N - 1
  BY <1>1, Shapes, NAssumption DEF BufTypeOK, Cells
<1>3. /\ ptr > rd /\ ptr <= (IF bound THEN N ELSE wr)
      /\ freed' = freed + (ptr - rd)
      /\ rd' = (IF ptr = N THEN 0 ELSE ptr)
      /\ bound' = (bound /\ ptr # N)
      /\ UNCHANGED <<wr, mem, res, given, received>>
  BY DEF Consume
<1>4. BufTypeOK'
  <2>1. wr' \in Cells /\ rd' \in Cells /\ bound' \in BOOLEAN /\ freed' \in Nat
    BY <1>2, <1>3 DEF Cells
  <2> QED
    BY <1>1, <1>3, <2>1 DEF BufTypeOK
<1>5. Shape' /\ Used' = Used - (ptr - rd)
  <2>1. CASE ptr = N
    <3>1. ptr > wr
      BY <1>2, <2>1
    <3>2. bound
      BY <1>2, <1>3, <3>1
    <3>3. ~bound'
      BY <1>3, <2>1, Zenon
    <3>4. rd' = 0 /\ wr' = wr /\ ~(wr > rd)
      BY <1>1, <1>3, <2>1, <3>2 DEF Shape
    <3> QED
      BY <1>2, <2>1, <3>2, <3>3, <3>4 DEF Shape, Used
  <2>2. CASE ptr # N
    <3>1. bound' = bound /\ rd' = ptr /\ wr' = wr
      BY <1>2, <1>3, <2>2
    <3>2. CASE bound
      <4>1. bound'
        BY <3>1, <3>2, Zenon
      <4>2. ~(wr > rd) /\ ptr > rd /\ ptr < N
        BY <1>1, <1>2, <1>3, <2>2, <3>2 DEF Shape
      <4> QED
        BY <1>2, <3>1, <3>2, <4>1, <4>2 DEF Shape, Used
    <3>3. CASE ~bound
      BY <1>1, <1>2, <1>3, <2>2, <3>1, <3>3 DEF Shape, Used
    <3> QED
      BY <3>2, <3>3
  <2> QED
    BY <2>1, <2>2
<1>6. Outstanding' /\ ProducedIsReserved'
  BY <1>1, <1>3 DEF BufInv, Outstanding, ProducedIsReserved
<1>7. ReservedIsFree'
  <2>1. \A k \in 0 .. Used' - 1 : Place(k)' \in Int
    BY <1>2, <1>3, <1>5 DEF Place
  <2>2. res' = res /\ res'.size = 0
    BY <1>1, <1>3
  <2> QED
    BY <1>2, <2>1, <2>2 DEF ReservedIsFree
<1>8. BytesKept'
  <2>1. Used = received - freed
    BY DEF BufInv, BytesKept
  <2>2. Used' = received' - freed'
    BY <1>2, <1>3, <1>5, <2>1
  <2>3. ASSUME NEW k \in 0 .. Used' - 1
        PROVE  mem'[Place(k)'] = freed' + k + 1
    <3> DEFINE j == k + (ptr - rd)
    <3>1. j \in 0 .. Used - 1 /\ k \in Nat
      BY <1>2, <1>3, <1>5
    <3>2. Place(k)' = Place(j)
      BY <1>2, <1>3, <3>1 DEF Place, Used
    <3>3. mem[Place(j)] = freed + j + 1
      BY <3>1 DEF BufInv, BytesKept
    <3>4. freed + j + 1 = freed' + k + 1
      BY <1>2, <1>3, <3>1
    <3> QED
      BY <1>3, <3>2, <3>3, <3>4
  <2> QED
    BY <2>2, <2>3 DEF BytesKept
<1> QED
  BY <1>4, <1>5, <1>6, <1>7, <1>8 DEF BufInv

-----------------------------------------------------------------------------

\* The invariant of the buffer holds for every size: what was received and not
\* freed is in the buffer, in order; reserved memory is inside the buffer and free;
\* produce() returns the memory that was reserved.
THEOREM BufInvariance ==
  ASSUME EvalOrders = {"size_first"}
  PROVE  BufSpec => []BufInv
<1>1. BufInit => BufInv
  <2> SUFFICES ASSUME BufInit PROVE BufInv
    OBVIOUS
  <2>1. 0 \in Cells /\ 0 \in 0 .. N
    BY NAssumption DEF Cells
  <2>2. BufTypeOK
    BY <2>1 DEF BufInit, BufTypeOK
  <2>3. Used = 0 /\ Shape /\ Outstanding /\ ProducedIsReserved
    BY DEF BufInit, Used, Shape, Outstanding, ProducedIsReserved
  <2>4. BytesKept /\ ReservedIsFree
    BY <2>3, NAssumption DEF BufInit, BytesKept, ReservedIsFree
  <2> QED
    BY <2>2, <2>3, <2>4 DEF BufInv
<1>2. BufInv /\ [BufNext]_bufVars => BufInv'
  <2> SUFFICES ASSUME BufInv, [BufNext]_bufVars PROVE BufInv'
    OBVIOUS
  <2>1. CASE Reserve
    BY <2>1, ReserveStep
  <2>2. CASE \E len \in 1 .. N : Produce(len)
    BY <2>2, ProduceStep
  <2>3. CASE \E ptr \in 1 .. N : Consume(ptr)
    BY <2>3, ConsumeStep
  <2>4. CASE UNCHANGED bufVars
    BY <2>4
    DEF bufVars, BufInv, BufTypeOK, Shape, Outstanding, BytesKept, ReservedIsFree,
        ProducedIsReserved, Used, Place, AvailMem, Realigns
  <2> QED
    BY <2>1, <2>2, <2>3, <2>4 DEF BufNext
<1> QED
  BY <1>1, <1>2, PTL DEF BufSpec

\* The stream survives wrap-around and re-alignment.
THEOREM BufBytesKept ==
  ASSUME EvalOrders = {"size_first"}
  PROVE  BufSpec => []BytesKept
<1>1. BufInv => BytesKept
  BY DEF BufInv
<1> QED
  BY <1>1, BufInvariance, PTL

\* The memory reserve() hands out lies inside the buffer and holds no byte that
\* was received and not freed.
THEOREM BufReservedIsFree ==
  ASSUME EvalOrders = {"size_first"}
  PROVE  BufSpec => []ReservedIsFree
<1>1. BufInv => ReservedIsFree
  BY DEF BufInv
<1> QED
  BY <1>1, BufInvariance, PTL

\* produce() returns the address the read was given.
THEOREM BufProducedIsReserved ==
  ASSUME EvalOrders = {"size_first"}
  PROVE  BufSpec => []ProducedIsReserved
<1>1. BufInv => ProducedIsReserved
  BY DEF BufInv
<1> QED
  BY <1>1, BufInvariance, PTL

-----------------------------------------------------------------------------
(* dns_connector_factory: AnsweredOnce, EndIsReported and DeadIsSilent. *)

\* What one call of endpoint_connect does to the invariant: either it fails the
\* call, or it starts an attempt whose timer is within bounds.
LEMMA EndpointConnectStep ==
  ASSUME DnsInv, NEW n \in 0 .. MaxEndpoints,
         NEW timer \in [Attempts -> {"off", "armed", "queued"}],
         EndpointConnect(n, timer), phase # "done",
         n > 0 => attempt + n <= MaxEndpoints,
         UNCHANGED <<tls, stopping, dead, used_dead>>,
         rtimer' \in {"off", "armed", "queued"}
  PROVE  DnsInv'
<1> USE MaxEndpointsAssumption
<1> USE DEF Attempts
<1>1. CASE n = 0 \/ stopping
  <2>1. ErrorCb /\ Finish /\ ctimer' = timer
    BY <1>1 DEF EndpointConnect
  <2>2. /\ calls' \in [connector : Nat, error : Nat, timeout : Nat]
        /\ calls'.connector = 0 /\ calls'.error = 1 /\ calls'.timeout \in Nat
    BY <2>1 DEF ErrorCb, DnsInv, TypeOK, BeforeEnd
  <2>3. TypeOK'
    <3>1. /\ phase' \in {"idle", "resolving", "connecting", "handshaking", "done"}
          /\ op' \in {"none", "pending", "ok", "error", "canceled"}
          /\ left' = left /\ attempt' = attempt
      BY <2>1 DEF Finish
    <3> QED BY <2>1, <2>2, <3>1 DEF DnsInv, TypeOK
  <2>4. (BeforeEnd /\ CanceledIsReported /\ AttemptsLeft)'
    BY <2>1 DEF Finish, BeforeEnd, CanceledIsReported, AttemptsLeft
  <2>5. (AnsweredOnce /\ EndIsReported)'
    BY <2>2 DEF AnsweredOnce, EndIsReported
  <2> QED BY <2>3, <2>4, <2>5 DEF DnsInv
<1>2. CASE n > 0 /\ ~stopping
  <2>1. /\ phase' = "connecting" /\ op' = "pending"
        /\ left' = n - 1 /\ attempt' = attempt + 1
        /\ ctimer' = [timer EXCEPT ![attempt + 1] = "armed"]
        /\ UNCHANGED calls
    BY <1>2 DEF EndpointConnect
  <2>2. ctimer' \in [Attempts -> {"off", "armed", "queued"}]
    BY <2>1
  <2>3. attempt' \in 0 .. MaxEndpoints /\ attempt' > 0 /\ left' \in 0 .. MaxEndpoints
        /\ attempt' + left' <= MaxEndpoints
    BY <1>2, <2>1 DEF DnsInv, TypeOK
  <2> QED
    BY <2>1, <2>2, <2>3 DEF DnsInv, TypeOK, BeforeEnd,
       CanceledIsReported, AttemptsLeft, AnsweredOnce, EndIsReported
<1> QED BY <1>1, <1>2

\* Every step keeps the invariant.
LEMMA DnsStep == DnsInv /\ [Next]_vars => DnsInv'
<1> SUFFICES ASSUME DnsInv, [Next]_vars PROVE DnsInv'
  OBVIOUS
<1> USE MaxEndpointsAssumption
<1>1. ASSUME NEW t \in BOOLEAN, GetConnector(t) PROVE DnsInv'
  BY <1>1 DEF GetConnector, ErrorCb, Finish, DnsInv, TypeOK, BeforeEnd,
     CanceledIsReported, AttemptsLeft, AnsweredOnce, EndIsReported
<1>2. ASSUME NEW result \in {"ok", "error"}, Completes(result) PROVE DnsInv'
  BY <1>2 DEF Completes, timers, DnsInv, TypeOK, BeforeEnd,
     CanceledIsReported, AttemptsLeft, AnsweredOnce, EndIsReported
<1>3. CASE Resolved
  <2>1. CASE ReturnIfDead
    BY <1>3, <2>1 DEF Resolved, ReturnIfDead, Finish, timers, DnsInv, TypeOK, BeforeEnd,
       CanceledIsReported, AttemptsLeft, AnsweredOnce, EndIsReported
  <2>2. CASE ~dead /\ op = "ok"
    <3>1. rtimer' \in {"off", "armed", "queued"}
      BY <1>3, <2>2 DEF Resolved, ReturnIfDead, Cancelled, DnsInv, TypeOK
    <3>2. PICK n \in Attempts : EndpointConnect(n, ctimer)
      BY <1>3, <2>2 DEF Resolved, ReturnIfDead
    <3>3. n \in 0 .. MaxEndpoints /\ attempt + n <= MaxEndpoints /\ phase # "done"
      BY <1>3 DEF Resolved, DnsInv, AttemptsLeft, Attempts
    <3> QED
      BY <1>3, <3>1, <3>2, <3>3, EndpointConnectStep DEF Resolved, DnsInv, TypeOK
  <2>3. CASE ~dead /\ op # "ok"
    BY <1>3, <2>3 DEF Resolved, ReturnIfDead, Cancelled, ErrorCb, Finish, DnsInv, TypeOK,
       BeforeEnd, CanceledIsReported, AttemptsLeft, AnsweredOnce, EndIsReported
  <2> QED BY <1>3, <2>1, <2>2, <2>3 DEF Resolved
<1>4. CASE Connected
  <2>1. CASE ReturnIfDead
    BY <1>4, <2>1 DEF Connected, ReturnIfDead, Finish, timers, DnsInv, TypeOK, BeforeEnd,
       CanceledIsReported, AttemptsLeft, AnsweredOnce, EndIsReported
  <2> DEFINE timer == CancelConnectTimer
  <2>2. timer \in [Attempts -> {"off", "armed", "queued"}]
    BY <1>4 DEF Connected, CancelConnectTimer, Cancelled, DnsInv, TypeOK
  <2>3. CASE ~dead /\ op = "error"
    <3>1. EndpointConnect(left, timer) /\ UNCHANGED rtimer
      BY <1>4, <2>3 DEF Connected, ReturnIfDead
    <3>2. left \in 0 .. MaxEndpoints /\ attempt + left <= MaxEndpoints /\ phase # "done"
      BY <1>4 DEF Connected, DnsInv, TypeOK, AttemptsLeft
    <3> HIDE DEF timer
    <3> QED
      BY <1>4, <2>2, <3>1, <3>2, EndpointConnectStep DEF Connected, DnsInv, TypeOK
  <2>4. CASE ~dead /\ op # "error"
    <3>1. ctimer' = timer /\ Finish /\ UNCHANGED <<rtimer, tls, stopping, dead, used_dead>>
      BY <1>4, <2>4 DEF Connected, ReturnIfDead
    <3>2. \/ ConnectorCb
          \/ op = "canceled" /\ UNCHANGED calls
      BY <1>4, <2>4 DEF Connected, ReturnIfDead
    <3> HIDE DEF timer
    <3> QED
      BY <1>4, <2>2, <2>4, <3>1, <3>2 DEF Connected, ConnectorCb, Finish, DnsInv, TypeOK,
         BeforeEnd, CanceledIsReported, AttemptsLeft, AnsweredOnce, EndIsReported
  <2> QED BY <1>4, <2>1, <2>3, <2>4 DEF Connected
<1>5. CASE TlsConnected
  <2>1. CASE ReturnIfDead
    BY <1>5, <2>1 DEF TlsConnected, ReturnIfDead, Finish, timers, DnsInv, TypeOK, BeforeEnd,
       CanceledIsReported, AttemptsLeft, AnsweredOnce, EndIsReported
  <2>2. CASE ~dead /\ op = "error"
    <3>1. EndpointConnect(0, ctimer) /\ UNCHANGED rtimer /\ phase # "done"
      BY <1>5, <2>2 DEF TlsConnected, ReturnIfDead
    <3> QED
      BY <1>5, <3>1, EndpointConnectStep DEF TlsConnected, DnsInv, TypeOK
  <2>3. CASE ~dead /\ op # "error"
    BY <1>5, <2>3 DEF TlsConnected, ReturnIfDead, Finish, DnsInv, TypeOK, BeforeEnd,
       CanceledIsReported, AttemptsLeft, AnsweredOnce, EndIsReported
  <2> QED BY <1>5, <2>1, <2>2, <2>3 DEF TlsConnected
<1>6. CASE HandshakeDone
  <2>1. CancelConnectTimer \in [Attempts -> {"off", "armed", "queued"}]
    BY <1>6 DEF CancelConnectTimer, Cancelled, DnsInv, TypeOK
  <2> QED
    BY <1>6, <2>1 DEF HandshakeDone, ConnectorCb, ErrorCb, Finish, DnsInv, TypeOK,
       BeforeEnd, CanceledIsReported, AttemptsLeft, AnsweredOnce, EndIsReported
<1>7. CASE ResolveTimeout
  BY <1>7 DEF ResolveTimeout, DnsInv, TypeOK, BeforeEnd,
     CanceledIsReported, AttemptsLeft, AnsweredOnce, EndIsReported
<1>8. ASSUME NEW k \in Attempts, ConnectTimeout(k) PROVE DnsInv'
  BY <1>8 DEF ConnectTimeout, DnsInv, TypeOK, BeforeEnd,
     CanceledIsReported, AttemptsLeft, AnsweredOnce, EndIsReported
<1>9. CASE Expires
  BY <1>9 DEF Expires, ResolveTimerExpires, ConnectTimerExpires, DnsInv, TypeOK, BeforeEnd,
     CanceledIsReported, AttemptsLeft, AnsweredOnce, EndIsReported
<1>10. CASE StopFactory
  BY <1>10 DEF StopFactory, timers, DnsInv, TypeOK, BeforeEnd,
     CanceledIsReported, AttemptsLeft, AnsweredOnce, EndIsReported
<1>11. CASE DestroyFactory
  BY <1>11 DEF DestroyFactory, timers, DnsInv, TypeOK, BeforeEnd,
     CanceledIsReported, AttemptsLeft, AnsweredOnce, EndIsReported
<1>12. CASE UNCHANGED vars
  BY <1>12 DEF vars, timers, DnsInv, TypeOK, BeforeEnd,
     CanceledIsReported, AttemptsLeft, AnsweredOnce, EndIsReported
<1> QED
  BY <1>1, <1>2, <1>3, <1>4, <1>5, <1>6, <1>7, <1>8, <1>9, <1>10, <1>11, <1>12
  DEF Next, Handlers

\* DnsInv holds in every reachable state, for any number of endpoints.
THEOREM DnsInvariance == Spec => []DnsInv
<1>1. Init => DnsInv
  <2>1. Init => TypeOK
    <3> SUFFICES ASSUME Init PROVE TypeOK
      OBVIOUS
    <3>1. left \in 0 .. MaxEndpoints /\ attempt \in 0 .. MaxEndpoints
      BY MaxEndpointsAssumption DEF Init
    <3>2. ctimer \in [Attempts -> {"off", "armed", "queued"}]
      BY DEF Init
    <3>3. calls \in [connector : Nat, error : Nat, timeout : Nat]
      BY DEF Init
    <3>4. tls \in BOOLEAN /\ stopping \in BOOLEAN /\ dead \in BOOLEAN /\ used_dead \in BOOLEAN
      BY Zenon DEF Init
    <3>5. /\ phase \in {"idle", "resolving", "connecting", "handshaking", "done"}
          /\ op \in {"none", "pending", "ok", "error", "canceled"}
          /\ rtimer \in {"off", "armed", "queued"}
      BY DEF Init
    <3> QED BY <3>1, <3>2, <3>3, <3>4, <3>5, Zenon DEF TypeOK
  <2>2. Init => BeforeEnd /\ AnsweredOnce /\ EndIsReported
    BY DEF Init, BeforeEnd, AnsweredOnce, EndIsReported
  <2>3. Init => CanceledIsReported /\ AttemptsLeft
    BY DEF Init, CanceledIsReported, AttemptsLeft
  <2> QED BY <2>1, <2>2, <2>3 DEF DnsInv
<1> QED BY <1>1, DnsStep, PTL DEF Spec

\* get_connector is answered at most once, timeouts aside, whatever the order in
\* which completions and timers run.
THEOREM DnsAnsweredOnce == Spec => []AnsweredOnce
<1>1. DnsInv => AnsweredOnce
  BY DEF DnsInv
<1> QED BY <1>1, DnsInvariance, PTL

\* A call that is over has been reported, unless the factory was destroyed.
THEOREM DnsEndIsReported == Spec => []EndIsReported
<1>1. DnsInv => EndIsReported
  BY DEF DnsInv
<1> QED BY <1>1, DnsInvariance, PTL

\* A destroyed factory neither hands out a plain connection nor starts another
\* attempt.
THEOREM DnsDeadIsSilent == Spec => DeadIsSilent
<1>1. ASSUME DnsInv, [Next]_vars, dead, ~tls
      PROVE  calls'.connector = calls.connector /\ attempt' = attempt
  <2>1. phase # "handshaking"
    BY <1>1 DEF DnsInv, AttemptsLeft
  <2>2. ASSUME NEW k \in Attempts, ConnectTimeout(k)
        PROVE  calls'.connector = calls.connector /\ attempt' = attempt
    BY <1>1, <2>2 DEF ConnectTimeout, DnsInv, TypeOK
  <2>3. CASE Resolved \/ Connected \/ TlsConnected \/ HandshakeDone
    BY <1>1, <2>1, <2>3 DEF Resolved, Connected, TlsConnected, HandshakeDone, ReturnIfDead,
       Finish
  <2>4. CASE ResolveTimeout \/ Expires
    BY <2>4 DEF ResolveTimeout, Expires, ResolveTimerExpires, ConnectTimerExpires
  <2>5. ASSUME NEW result \in {"ok", "error"}, Completes(result)
        PROVE  calls'.connector = calls.connector /\ attempt' = attempt
    BY <2>5 DEF Completes
  <2>6. CASE StopFactory \/ DestroyFactory \/ UNCHANGED vars
    BY <2>6 DEF StopFactory, DestroyFactory, vars
  <2>7. ASSUME NEW t \in BOOLEAN, GetConnector(t) PROVE FALSE
    BY <1>1, <2>7 DEF GetConnector
  <2> QED
    BY <1>1, <2>2, <2>3, <2>4, <2>5, <2>6, <2>7 DEF Next, Handlers
<1>2. DnsInv /\ [Next]_vars =>
        [dead /\ ~tls => calls'.connector = calls.connector /\ attempt' = attempt]_vars
  BY <1>1
<1> QED BY <1>2, DnsInvariance, PTL DEF Spec, DeadIsSilent

-----------------------------------------------------------------------------
(* date.h: the calendar. *)

\* The days of the years before a year counted from March.
YearStart(y) == 365 * y + y \div 4 - y \div 100 + y \div 400

\* Where date.h corrects the division of C++ for a negative dividend, it rounds downwards.
LEMMA DivIs ==
  ASSUME NEW a \in Int
  PROVE  /\ Div(a, 400) = a \div 400 /\ Div(a, EraDays) = a \div EraDays
         /\ Div(a, 12) = a \div 12 /\ Div(a, 7) = a \div 7
  BY SMT DEF Div, Quot, EraDays

\* weekday_from_days: the epoch was a Thursday, and days before it count backwards.
LEMMA WeekdayIsRem == ASSUME NEW n \in Int PROVE WeekdayFromDays(n) = (n + 4) % 7
  BY DEF WeekdayFromDays, Rem, Quot

\* is_leap, with the remainder of C++ that may be negative, is the rule of the calendar.
LEMMA LeapIs ==
  ASSUME NEW y \in Int
  PROVE  IsLeap(y) <=> y % 4 = 0 /\ (y % 100 # 0 \/ y % 400 = 0)
  BY DEF IsLeap, Rem, Quot

\* The lengths of the months that the table of date.h holds.
LEMMA LastDayIs ==
  ASSUME NEW y \in Int, NEW m \in 1 .. 12
  PROVE  LastDay(y, m) = IF m \in {4, 6, 9, 11} THEN 30
                         ELSE IF m # 2 THEN 31 ELSE IF IsLeap(y) THEN 29 ELSE 28
<1>1. \/ m = 1 \/ m = 2 \/ m = 3 \/ m = 4 \/ m = 5 \/ m = 6
      \/ m = 7 \/ m = 8 \/ m = 9 \/ m = 10 \/ m = 11 \/ m = 12
  OBVIOUS
<1> QED
  BY <1>1 DEF LastDay

\* last_day_of_month agrees with the lengths the reference has.
LEMMA MonthLengthIs ==
  ASSUME NEW y \in Int, NEW m \in 1 .. 12
  PROVE  MonthLength(y, m) = LastDay(y, m)
<1>1. (y % 4 = 0 <=> 4 * (y \div 4) = y) /\ (y % 100 = 0 <=> 100 * (y \div 100) = y)
      /\ (y % 400 = 0 <=> 400 * (y \div 400) = y)
  OBVIOUS
<1>2. MonthLength(y, m) = IF m \in {4, 6, 9, 11} THEN 30
                         ELSE IF m # 2 THEN 31 ELSE IF IsLeap(y) THEN 29 ELSE 28
  <2>1. IsLeap(y) <=> \/ \E k \in {4 * (y \div 4)} : k = y /\ 100 * (y \div 100) # y
                      \/ 400 * (y \div 400) = y
    BY <1>1, LeapIs
  <2> QED BY <2>1 DEF MonthLength
<1> QED BY <1>2, LastDayIs

\* The members of a date.
LEMMA YmdFields ==
  ASSUME NEW y, NEW m, NEW d
  PROVE  Ymd(y, m, d).y = y /\ Ymd(y, m, d).m = m /\ Ymd(y, m, d).d = d
  BY DEF Ymd

\* to_days is the first day of the year counted from March, and the day of that year: its
\* eras of 400 years cancel out.
LEMMA ToDaysIs ==
  ASSUME NEW y \in Int, NEW m \in 1 .. 12, NEW d \in Int
  PROVE  /\ MarchYear(y, m) \in Int /\ DayOfYear(m, d) \in Int
         /\ ToDays(Ymd(y, m, d)) = YearStart(MarchYear(y, m)) + DayOfYear(m, d) - Epoch
<1> DEFINE Y == MarchYear(y, m)
<1> DEFINE e == Y \div 400
<1> DEFINE yoe == Y - e * 400
<1>1. Y \in Int
  BY DEF MarchYear
<1>2. DayOfYear(m, d) \in Int
  BY DEF DayOfYear
<1> HIDE DEF Y
<1>3. ToDays(Ymd(y, m, d)) = e * EraDays + DayOfEra(yoe, DayOfYear(m, d)) - Epoch
  <2>1. Div(Y, 400) = e
    BY <1>1, DivIs
  <2> HIDE DEF e
  <2> QED BY <2>1, YmdFields DEF ToDays, Y
<1>4. yoe \div 4 = Y \div 4 - 100 * e /\ yoe \div 100 = Y \div 100 - 4 * e
  BY <1>1
<1>5. ToDays(Ymd(y, m, d)) = YearStart(Y) + DayOfYear(m, d) - Epoch
  BY <1>1, <1>2, <1>3, <1>4, SMT DEF YearStart, DayOfEra, EraDays, Epoch
<1> QED
  BY <1>1, <1>2, <1>5 DEF Y

\* The years of an era.
YearsOfEra == 0 .. 399

\* A day of a year counted from March: its last day is the one of a leap year's February.
IsDayOf(y, doy) == doy \in 0 .. 365 /\ (doy = 365 => IsLeap(y + 1))

\* A valid date falls on a day of its year counted from March.
LEMMA DayOfYearIs ==
  ASSUME NEW y \in Int, NEW m \in 1 .. 12, NEW d \in Int, d >= 1, d <= LastDay(y, m)
  PROVE  IsDayOf(MarchYear(y, m), DayOfYear(m, d))
<1>1. /\ DayOfYear(m, d) >= 0 /\ DayOfYear(m, d) <= 365
      /\ DayOfYear(m, d) = 365 => m = 2 /\ IsLeap(y)
  BY LastDayIs, SMT DEF DayOfYear
<1>2. MarchYear(y, 2) + 1 = y /\ DayOfYear(m, d) \in Int
  BY DEF MarchYear, DayOfYear
<1> QED BY <1>1, <1>2, SMT DEF IsDayOf

\* to_days counts on: the day after a date is the next number, within a month, at the
\* end of a month (of February too, where the year counted from March ends) and of a year.
LEMMA TomorrowIs ==
  ASSUME NEW y \in Int, NEW m \in 1 .. 12, NEW d \in Int, d >= 1, d <= LastDay(y, m)
  PROVE  /\ d < LastDay(y, m) => ToDays(Ymd(y, m, d + 1)) = ToDays(Ymd(y, m, d)) + 1
         /\ d = LastDay(y, m) /\ m < 12 =>
              ToDays(Ymd(y, m + 1, 1)) = ToDays(Ymd(y, m, d)) + 1
         /\ d = LastDay(y, m) /\ m = 12 =>
              ToDays(Ymd(y + 1, 1, 1)) = ToDays(Ymd(y, m, d)) + 1
<1>1. ToDays(Ymd(y, m, d)) = YearStart(MarchYear(y, m)) + DayOfYear(m, d) - Epoch
  BY ToDaysIs, Zenon
<1>2. YearStart(MarchYear(y, m)) \in Int /\ Epoch \in Int
  BY DEF YearStart, MarchYear, Epoch
<1>3. d < LastDay(y, m) => ToDays(Ymd(y, m, d + 1)) = ToDays(Ymd(y, m, d)) + 1
  <2>1. ToDays(Ymd(y, m, d + 1)) = YearStart(MarchYear(y, m)) + DayOfYear(m, d + 1) - Epoch
    <3>1. d + 1 \in Int
      OBVIOUS
    <3> QED BY <3>1, ToDaysIs, Zenon
  <2>2. DayOfYear(m, d + 1) = DayOfYear(m, d) + 1 /\ DayOfYear(m, d) \in Int
    BY DEF DayOfYear
  <2> QED BY <1>1, <1>2, <2>1, <2>2
<1>4. ASSUME d = LastDay(y, m), m < 12
      PROVE  ToDays(Ymd(y, m + 1, 1)) = ToDays(Ymd(y, m, d)) + 1
  <2>1. ToDays(Ymd(y, m + 1, 1)) = YearStart(MarchYear(y, m + 1)) + DayOfYear(m + 1, 1) - Epoch
    <3>1. m + 1 \in 1 .. 12 /\ 1 \in Int
      BY <1>4
    <3> QED BY <3>1, ToDaysIs, Zenon
  <2>2. CASE m # 2
    <3>1. MarchYear(y, m + 1) = MarchYear(y, m)
      BY <2>2 DEF MarchYear
    <3>2. DayOfYear(m + 1, 1) = DayOfYear(m, d) + 1 /\ DayOfYear(m, d) \in Int
      BY <1>4, <2>2, LastDayIs DEF DayOfYear
    <3> QED BY <1>1, <1>2, <2>1, <3>1, <3>2
  <2>3. CASE m = 2
    <3>1. YearStart(y) - YearStart(y - 1) = IF IsLeap(y) THEN 366 ELSE 365
      BY LeapIs DEF YearStart
    <3>2. d = IF IsLeap(y) THEN 29 ELSE 28
      BY <1>4, <2>3, LastDayIs
    <3>3. DayOfYear(2, d) = 336 + d /\ DayOfYear(3, 1) = 0 /\ 2 + 1 = 3
      BY DEF DayOfYear
    <3>4. MarchYear(y, 2) = y - 1 /\ MarchYear(y, 3) = y
      BY DEF MarchYear
    <3>5. YearStart(y) \in Int /\ YearStart(y - 1) \in Int
      BY DEF YearStart
    <3> QED BY <1>1, <1>2, <2>1, <2>3, <3>1, <3>2, <3>3, <3>4, <3>5
  <2> QED BY <2>2, <2>3
<1>5. ASSUME d = LastDay(y, m), m = 12
      PROVE  ToDays(Ymd(y + 1, 1, 1)) = ToDays(Ymd(y, m, d)) + 1
  <2>1. ToDays(Ymd(y + 1, 1, 1)) = YearStart(MarchYear(y + 1, 1)) + DayOfYear(1, 1) - Epoch
    <3>1. y + 1 \in Int /\ 1 \in 1 .. 12 /\ 1 \in Int
      OBVIOUS
    <3> QED BY <3>1, ToDaysIs, ZenonT(60)
  <2>2. MarchYear(y + 1, 1) = y /\ MarchYear(y, 12) = y
    BY DEF MarchYear
  <2>3. d = 31
    BY <1>5, LastDayIs
  <2>4. DayOfYear(1, 1) = 306 /\ DayOfYear(12, 31) = 305
    BY DEF DayOfYear
  <2> QED BY <1>1, <1>2, <1>5, <2>1, <2>2, <2>3, <2>4
<1> QED BY <1>3, <1>4, <1>5

\* The correction terms of from_days find the year of an era from the day of the era,
\* the last days of 4, 100 and 400 years included.
LEMMA YearOfEraIs ==
  ASSUME NEW yoe \in YearsOfEra, NEW doy, IsDayOf(yoe, doy)
  PROVE  /\ DayOfEra(yoe, doy) \in Int /\ YearOfEra(DayOfEra(yoe, doy)) = yoe
         /\ DayOfEra(yoe, doy) >= 0 /\ DayOfEra(yoe, doy) < EraDays
         /\ DayOfEra(yoe, doy) - DayOfEra(yoe, 0) = doy
<1>1. yoe \in 0 .. 399 /\ doy \in 0 .. 365
  BY DEF YearsOfEra, IsDayOf
<1>2. doy = 365 => yoe % 4 = 3 /\ (yoe % 100 # 99 \/ yoe = 399)
  BY <1>1, LeapIs, SMT DEF IsDayOf
<1> DEFINE c == yoe \div 100
<1> DEFINE k == (yoe % 100) \div 4
<1> DEFINE j == yoe % 4
<1> DEFINE doe == DayOfEra(yoe, doy)
<1>3. c \in 0 .. 3 /\ k \in 0 .. 24 /\ j \in 0 .. 3 /\ yoe = 100 * c + 4 * k + j
  BY <1>1, SMT
<1>4. doy = 365 => j = 3 /\ (k # 24 \/ c = 3)
  BY <1>1, <1>2, SMT
<1>5. doe = 36524 * c + 1461 * k + 365 * j + doy /\ doe \in Int
  BY <1>1, SMT DEF DayOfEra
<1>6. DayOfEra(yoe, doy) - DayOfEra(yoe, 0) = doy
  BY <1>1, SMT DEF DayOfEra
<1> HIDE DEF c, k, j, doe
<1>7. doe >= 0 /\ doe < EraDays
  BY <1>1, <1>3, <1>4, <1>5, SMT DEF EraDays
<1>8. YearOfEra(doe) = 100 * c + 4 * k + j
  BY <1>1, <1>3, <1>4, <1>5, SMT DEF YearOfEra
<1>9. YearOfEra(doe) = yoe
  BY <1>3, <1>8, SMT
<1> QED BY <1>5, <1>6, <1>7, <1>9 DEF doe

\* from_days finds month and day of the month again from the day of the year.
LEMMA MarchMonthIs ==
  ASSUME NEW y \in Int, NEW m \in 1 .. 12, NEW d \in Int, d >= 1, d <= LastDay(y, m)
  PROVE  LET mp == (5 * DayOfYear(m, d) + 2) \div 153
         IN  CivilMonth(mp) = m /\ DayOfYear(m, d) - (153 * mp + 2) \div 5 + 1 = d
<1> DEFINE n == IF m > 2 THEN m - 3 ELSE m + 9
<1>1. n \in 0 .. 11 /\ CivilMonth(n) = m
  BY SMT DEF CivilMonth
<1>2. d <= IF n \in {1, 3, 6, 8} THEN 30 ELSE IF n = 11 THEN 29 ELSE 31
  BY LastDayIs, SMT
<1>3. DayOfYear(m, d) = (153 * n + 2) \div 5 + d - 1
  BY DEF DayOfYear
<1> HIDE DEF n
<1>4. (5 * DayOfYear(m, d) + 2) \div 153 = n
  BY <1>1, <1>2, <1>3, SMT
<1>5. DayOfYear(m, d) - (153 * n + 2) \div 5 + 1 = d
  BY <1>1, <1>3, SMT
<1> QED BY <1>1, <1>4, <1>5

\* The date of a day of a year counted from March; the short and the unsigned char hold
\* its year and its day.
LEMMA DateOfIs ==
  ASSUME NEW y \in Int, y >= MinYear, y <= MaxYear,
         NEW m \in 1 .. 12, NEW d \in Int, d >= 1, d <= LastDay(y, m)
  PROVE  DateOf(MarchYear(y, m), DayOfYear(m, d)) = Ymd(y, m, d)
<1>1. PICK doy : doy = DayOfYear(m, d)
  OBVIOUS
<1>2. PICK mp : mp = (5 * doy + 2) \div 153
  OBVIOUS
<1>3. CivilMonth(mp) = m /\ doy - (153 * mp + 2) \div 5 + 1 = d
  BY <1>1, <1>2, MarchMonthIs
<1>4. Byte(d) = d
  BY LastDayIs, SMT DEF Byte
<1>5. Short(CivilYear(MarchYear(y, m), m)) = y
  BY SMT DEF Short, MarchYear, CivilYear, MinYear, MaxYear
<1>6. DateOf(MarchYear(y, m), doy)
        = Ymd(Short(CivilYear(MarchYear(y, m), CivilMonth(mp))), CivilMonth(mp),
              Byte(doy - (153 * mp + 2) \div 5 + 1))
  BY <1>2, SMT DEF DateOf
<1>7. DateOf(MarchYear(y, m), doy) = Ymd(y, m, d)
  BY <1>3, <1>4, <1>5, <1>6, SMT
<1> QED BY <1>1, <1>7, SMT

\* from_days undoes to_days, for every valid date whose year is a short.
LEMMA FromDaysIs ==
  ASSUME NEW y \in Int, y >= MinYear, y <= MaxYear,
         NEW m \in 1 .. 12, NEW d \in Int, d >= 1, d <= LastDay(y, m)
  PROVE  FromDays(ToDays(Ymd(y, m, d))) = Ymd(y, m, d)
<1>1. PICK doy : doy = DayOfYear(m, d)
  OBVIOUS
<1>2. PICK Y \in Int : Y = MarchYear(y, m)
  BY ToDaysIs, Zenon
<1>3. IsDayOf(Y, doy)
  BY <1>1, <1>2, DayOfYearIs, Zenon
<1>4. PICK e \in Int : e = Y \div 400
  BY SMT
<1>5. PICK yoe \in YearsOfEra : yoe = Y - e * 400
  BY <1>4, SMT DEF YearsOfEra
<1>6. IsDayOf(yoe, doy) /\ yoe \in 0 .. 399 /\ doy \in 0 .. 365
  BY <1>3, <1>4, <1>5, LeapIs, SMT DEF IsDayOf, YearsOfEra
<1>7. PICK doe \in Int : doe = DayOfEra(yoe, doy)
  BY <1>6, YearOfEraIs, Zenon
<1>8. doe >= 0 /\ doe < EraDays /\ YearOfEra(doe) = yoe /\ doe - DayOfEra(yoe, 0) = doy
  <2>1. IsDayOf(yoe, doy)
    BY <1>6
  <2> QED BY <1>7, <2>1, YearOfEraIs, Zenon
<1>9. PICK s : s = ToDays(Ymd(y, m, d)) + Epoch
  OBVIOUS
<1>10. ToDays(Ymd(y, m, d)) \in Int /\ s = e * EraDays + doe
  <2>1. ToDays(Ymd(y, m, d)) = YearStart(Y) + doy - Epoch
    BY <1>1, <1>2, ToDaysIs, ZenonT(60)
  <2>2. YearStart(Y) \in Int /\ YearStart(Y) = 365 * Y + Y \div 4 - Y \div 100 + e
    BY <1>4, SMT DEF YearStart
  <2>3. yoe \div 4 = Y \div 4 - 100 * e /\ yoe \div 100 = Y \div 100 - 4 * e
    BY <1>4, <1>5, SMT
  <2>4. doe = yoe * 365 + yoe \div 4 - yoe \div 100 + doy
    BY <1>7 DEF DayOfEra
  <2> QED BY <1>5, <1>6, <1>9, <2>1, <2>2, <2>3, <2>4, SMT DEF Epoch, EraDays
<1>11. s \in Int /\ Div(s, EraDays) = e
  <2>1. s \in Int /\ s \div EraDays = e
    BY <1>8, <1>10, SMT DEF EraDays
  <2> QED BY <2>1, DivIs, ZenonT(60)
<1>12. s - e * EraDays = doe /\ yoe + e * 400 = Y
  BY <1>5, <1>10, SMT DEF EraDays
<1>13. FromDays(ToDays(Ymd(y, m, d))) = DateOf(Y, doy)
  <2>1. PICK n \in Int : n = ToDays(Ymd(y, m, d))
    BY <1>10
  <2>2. n + Epoch = s /\ Div(n + Epoch, EraDays) = e
    BY <1>9, <1>11, <2>1, Zenon
  <2>3. (n + Epoch) - e * EraDays = doe
    BY <1>12, <2>2, SMT DEF Epoch, EraDays
  <2>4. FromDays(n) = DateOf(YearOfEra(doe) + e * 400, doe - DayOfEra(YearOfEra(doe), 0))
    BY <2>2, <2>3, ZenonT(60) DEF FromDays
  <2>5. FromDays(n) = DateOf(Y, doy)
    BY <1>8, <1>12, <2>4, Zenon
  <2> QED BY <2>1, <2>5, Zenon
<1> QED BY <1>1, <1>2, <1>13, DateOfIs, Zenon

\* A later year counted from March starts at least 365 days later.
LEMMA YearStartGrows ==
  ASSUME NEW a \in Int, NEW b \in Int, a < b
  PROVE  YearStart(a) \in Int /\ YearStart(b) \in Int /\ YearStart(a) + 365 <= YearStart(b)
<1>1. \A c \in Int : c \div 100 = (c \div 4) \div 25 /\ c \div 4 \in Int
  BY SMT
<1>2. a \div 4 <= b \div 4 /\ a \div 400 <= b \div 400
  BY SMT
<1>3. \A p, q \in Int : p <= q => p - p \div 25 <= q - q \div 25
  BY SMT
<1>4. a \div 4 - a \div 100 <= b \div 4 - b \div 100
  BY <1>1, <1>2, <1>3, SMT
<1> QED BY <1>2, <1>4, SMT DEF YearStart

\* The days of a civil year lie between the first of January and the next one: 306 days
\* after the first of March of the year before, and of the year.
LEMMA DaysOfYear ==
  ASSUME NEW y \in Int, NEW m \in 1 .. 12, NEW d \in Int, d >= 1, d <= LastDay(y, m)
  PROVE  /\ ToDays(Ymd(y, m, d)) \in Int
         /\ YearStart(y - 1) + 306 <= ToDays(Ymd(y, m, d)) + Epoch
         /\ ToDays(Ymd(y, m, d)) + Epoch < YearStart(y) + 306
<1>1. /\ MarchYear(y, m) \in Int /\ DayOfYear(m, d) \in Int
      /\ ToDays(Ymd(y, m, d)) = YearStart(MarchYear(y, m)) + DayOfYear(m, d) - Epoch
  BY ToDaysIs, Zenon
<1>2. /\ m <= 2 => MarchYear(y, m) = y - 1 /\ DayOfYear(m, d) >= 306 /\ DayOfYear(m, d) <= 365
      /\ m > 2 => MarchYear(y, m) = y /\ DayOfYear(m, d) >= 0 /\ DayOfYear(m, d) < 306
  BY LastDayIs, SMT DEF MarchYear, DayOfYear
<1>3. YearStart(y - 1) \in Int /\ YearStart(y) \in Int /\ YearStart(y - 1) + 365 <= YearStart(y)
  BY YearStartGrows
<1> QED BY <1>1, <1>2, <1>3, SMT DEF Epoch

\* A date between the first and the last day whose year is a short has such a year.
LEMMA YearIsShort ==
  ASSUME NEW y \in Int, NEW m \in 1 .. 12, NEW d \in Int, d >= 1, d <= LastDay(y, m),
         ToDays(Ymd(MinYear, 1, 1)) <= ToDays(Ymd(y, m, d)),
         ToDays(Ymd(y, m, d)) <= ToDays(Ymd(MaxYear, 12, 31))
  PROVE  y >= MinYear /\ y <= MaxYear
<1>1. MinYear \in Int /\ MaxYear \in Int
  BY DEF MinYear, MaxYear
<1>2. LastDay(MinYear, 1) = 31 /\ LastDay(MaxYear, 12) = 31
  BY <1>1, LastDayIs
<1>3. /\ ToDays(Ymd(y, m, d)) \in Int
      /\ YearStart(y - 1) + 306 <= ToDays(Ymd(y, m, d)) + Epoch
      /\ ToDays(Ymd(y, m, d)) + Epoch < YearStart(y) + 306
  BY DaysOfYear, Zenon
<1>4. /\ ToDays(Ymd(MinYear, 1, 1)) \in Int
      /\ YearStart(MinYear - 1) + 306 <= ToDays(Ymd(MinYear, 1, 1)) + Epoch
  BY <1>1, <1>2, DaysOfYear, SMT
<1>5. /\ ToDays(Ymd(MaxYear, 12, 31)) \in Int
      /\ ToDays(Ymd(MaxYear, 12, 31)) + Epoch < YearStart(MaxYear) + 306
  BY <1>1, <1>2, DaysOfYear, SMT
<1>6. ASSUME y < MinYear PROVE FALSE
  <2>1. /\ YearStart(y) \in Int /\ YearStart(MinYear - 1) \in Int
        /\ YearStart(y) <= YearStart(MinYear - 1)
    <3>1. CASE y = MinYear - 1
      BY <3>1, <1>1 DEF YearStart
    <3>2. CASE y < MinYear - 1
      BY <3>2, <1>1, YearStartGrows, SMT
    <3> QED BY <1>1, <1>6, <3>1, <3>2, SMT
  <2> QED BY <1>3, <1>4, <2>1, SMT DEF Epoch
<1>7. ASSUME y > MaxYear PROVE FALSE
  <2>1. /\ YearStart(y - 1) \in Int /\ YearStart(MaxYear) \in Int
        /\ YearStart(MaxYear) <= YearStart(y - 1)
    <3>1. CASE y - 1 = MaxYear
      BY <3>1, <1>1 DEF YearStart
    <3>2. CASE MaxYear < y - 1
      BY <3>2, <1>1, YearStartGrows, SMT
    <3> QED BY <1>1, <1>7, <3>1, <3>2, SMT
  <2> QED BY <1>3, <1>5, <2>1, SMT DEF Epoch
<1> QED BY <1>1, <1>6, <1>7, SMT

\* A valid date, as year_month_day::ok checks it.
IsDate(x) == x = Ymd(x.y, x.m, x.d) /\ x.y \in Int /\ x.d \in Int /\ YmdOk(x)

\* The inductive invariant of a walk: the date is valid, day number and weekday are those
\* that date.h computes, and the walk ends before the years stop being shorts.
CalInv ==
  /\ IsDate(date) /\ z \in Int /\ z = ToDays(date) /\ wd = WeekdayFromDays(z)
  /\ days_left \in 0 .. Window
  /\ z > ToDays(Ymd(MinYear, 1, 1)) /\ z + days_left <= ToDays(Ymd(MaxYear, 12, 31))

\* The first and the last day whose year is a short have a number.
LEMMA EndsAreInt == ToDays(Ymd(MinYear, 1, 1)) \in Int /\ ToDays(Ymd(MaxYear, 12, 31)) \in Int
<1>1. MinYear \in Int /\ MaxYear \in Int
  BY DEF MinYear, MaxYear
<1>2. LastDay(MinYear, 1) = 31 /\ LastDay(MaxYear, 12) = 31
  BY <1>1, LastDayIs
<1> QED BY <1>1, <1>2, DaysOfYear, SMT

\* What it means that a record is a valid date.
LEMMA DateParts ==
  ASSUME NEW x, IsDate(x)
  PROVE  /\ x = Ymd(x.y, x.m, x.d) /\ x.y \in Int /\ x.m \in 1 .. 12 /\ x.d \in Int
         /\ x.d >= 1 /\ x.d <= LastDay(x.y, x.m)
  BY Zenon DEF IsDate, YmdOk

\* A year, a month and a day of that month make a valid date.
LEMMA IsDateOf ==
  ASSUME NEW y \in Int, NEW m \in 1 .. 12, NEW d \in Int, d >= 1, d <= LastDay(y, m)
  PROVE  IsDate(Ymd(y, m, d))
<1>1. Ymd(y, m, d).y = y /\ Ymd(y, m, d).m = m /\ Ymd(y, m, d).d = d
  BY YmdFields, SMT
<1> QED BY <1>1, Zenon DEF IsDate, YmdOk

\* The step of the reference keeps the date valid and its number that of to_days.
LEMMA TomorrowStep ==
  ASSUME IsDate(date), z \in Int, z = ToDays(date), Tomorrow
  PROVE  IsDate(date') /\ z' = ToDays(date')
<1> DEFINE y == date.y
<1> DEFINE m == date.m
<1> DEFINE d == date.d
<1>1. /\ date = Ymd(y, m, d) /\ y \in Int /\ m \in 1 .. 12 /\ d \in Int
      /\ d >= 1 /\ d <= LastDay(y, m)
  BY DateParts, Zenon
<1>2. MonthLength(y, m) = LastDay(y, m) /\ LastDay(y, m) \in 28 .. 31
  BY <1>1, MonthLengthIs, LastDayIs, SMT
<1>3. z' = z + 1
  BY DEF Tomorrow
<1>4. CASE d < LastDay(y, m)
  <2>1. date' = Ymd(y, m, d + 1)
    BY <1>1, <1>2, <1>4 DEF Tomorrow, Ymd
  <2>2. ToDays(Ymd(y, m, d + 1)) = ToDays(Ymd(y, m, d)) + 1
    BY <1>1, <1>4, TomorrowIs, Zenon
  <2>3. d + 1 \in Int /\ d + 1 >= 1 /\ d + 1 <= LastDay(y, m)
    BY <1>1, <1>2, <1>4, SMT
  <2>4. IsDate(Ymd(y, m, d + 1))
    BY <1>1, <2>3, IsDateOf, Zenon
  <2> QED BY <1>1, <1>3, <2>1, <2>2, <2>4, Zenon
<1>5. CASE d = LastDay(y, m) /\ m < 12
  <2>1. date' = Ymd(y, m + 1, 1)
    BY <1>1, <1>2, <1>5, SMT DEF Tomorrow
  <2>2. ToDays(Ymd(y, m + 1, 1)) = ToDays(Ymd(y, m, d)) + 1
    BY <1>1, <1>5, TomorrowIs, Zenon
  <2>3. m + 1 \in 1 .. 12 /\ 1 \in Int /\ 1 >= 1 /\ 1 <= LastDay(y, m + 1)
    BY <1>1, <1>5, LastDayIs, SMT
  <2>4. IsDate(Ymd(y, m + 1, 1))
    BY <1>1, <2>3, IsDateOf, Zenon
  <2> QED BY <1>1, <1>3, <2>1, <2>2, <2>4, Zenon
<1>6. CASE d = LastDay(y, m) /\ m = 12
  <2>1. date' = Ymd(y + 1, 1, 1)
    BY <1>1, <1>2, <1>6, SMT DEF Tomorrow
  <2>2. ToDays(Ymd(y + 1, 1, 1)) = ToDays(Ymd(y, m, d)) + 1
    BY <1>1, <1>6, TomorrowIs, Zenon
  <2>3. y + 1 \in Int /\ 1 \in 1 .. 12 /\ 1 \in Int /\ 1 >= 1 /\ 1 <= LastDay(y + 1, 1)
    BY <1>1, LastDayIs, SMT
  <2>4. IsDate(Ymd(y + 1, 1, 1))
    BY <2>3, IsDateOf, Zenon
  <2> QED BY <1>1, <1>3, <2>1, <2>2, <2>4, Zenon
<1> QED BY <1>1, <1>2, <1>4, <1>5, <1>6, SMT

\* On every walk through the calendar to_days and weekday_from_days give the number and
\* the weekday of the day, and the date is valid.
THEOREM CalInvariance == CalSpec => []CalInv
<1>1. CalInit => CalInv
  <2> SUFFICES ASSUME CalInit PROVE CalInv
    OBVIOUS
  <2>1. PICK f \in FirstDays : z = f.z /\ date = f.date /\ wd = f.wd /\ days_left = Window
    BY DEF CalInit
  <2>2. /\ f.date = Ymd(f.date.y, f.date.m, f.date.d) /\ f.date.y \in Int /\ f.date.d \in Int
        /\ YmdOk(f.date) /\ f.z = ToDays(f.date) /\ f.wd = WeekdayFromDays(f.z)
        /\ f.z > ToDays(Ymd(MinYear, 1, 1)) /\ f.z + Window <= ToDays(Ymd(MaxYear, 12, 31))
    BY CalendarAssumption, Zenon
  <2>3. IsDate(date)
    BY <2>1, <2>2, Zenon DEF IsDate
  <2>4. ToDays(date) \in Int
    <3>1. /\ date = Ymd(date.y, date.m, date.d) /\ date.y \in Int /\ date.m \in 1 .. 12
          /\ date.d \in Int /\ date.d >= 1 /\ date.d <= LastDay(date.y, date.m)
      BY <2>3, DateParts, Zenon
    <3>2. ToDays(Ymd(date.y, date.m, date.d)) \in Int
      BY <3>1, DaysOfYear, Zenon
    <3> QED BY <3>1, <3>2, Zenon
  <2>5. Window \in Nat
    BY CalendarAssumption
  <2> QED BY <2>1, <2>2, <2>3, <2>4, <2>5 DEF CalInv
<1>2. CalInv /\ [CalNext]_calVars => CalInv'
  <2> SUFFICES ASSUME CalInv, [CalNext]_calVars PROVE CalInv'
    OBVIOUS
  <2>1. CASE Tomorrow
    <3>1. IsDate(date') /\ z' = ToDays(date')
      BY <2>1, TomorrowStep DEF CalInv
    <3>2. z' = z + 1 /\ days_left' = days_left - 1 /\ days_left > 0 /\ wd' = (wd + 1) % 7
      BY <2>1 DEF Tomorrow
    <3>3. wd' = WeekdayFromDays(z')
      BY <3>2, WeekdayIsRem, SMT DEF CalInv
    <3>4. /\ z' \in Int /\ days_left' \in 0 .. Window
          /\ z' > ToDays(Ymd(MinYear, 1, 1)) /\ z' + days_left' <= ToDays(Ymd(MaxYear, 12, 31))
      BY <3>2, EndsAreInt, CalendarAssumption, SMT DEF CalInv
    <3> QED BY <3>1, <3>3, <3>4 DEF CalInv
  <2>2. CASE UNCHANGED calVars
    BY <2>2 DEF calVars, CalInv
  <2> QED BY <2>1, <2>2 DEF CalNext
<1> QED BY <1>1, <1>2, PTL DEF CalSpec

\* Steps between weekdays are steps modulo 7, forwards and backwards.
LEMMA WeekdaySteps ==
  ASSUME NEW w \in 0 .. 6, NEW n \in Int
  PROVE  /\ WeekdayPlus(w, n) = (w + n) % 7
         /\ \A v \in 0 .. 6 : WeekdayMinus(v, w) = (v - w) % 7
         /\ NextWeekday(w) = (w + 1) % 7 /\ PreviousWeekday(w) = (w - 1) % 7
<1>1. WeekdayPlus(w, n) = (w + n) % 7
  <2>1. w + n \in Int
    BY SMT
  <2>2. Div(w + n, 7) = (w + n) \div 7
    BY <2>1, DivIs, ZenonT(60)
  <2> QED BY <2>1, <2>2, SMT DEF WeekdayPlus
<1>2. \A v \in 0 .. 6 : WeekdayMinus(v, w) = (v - w) % 7
  BY SMT DEF WeekdayMinus
<1>3. NextWeekday(w) = (w + 1) % 7 /\ PreviousWeekday(w) = (w - 1) % 7
  BY SMT DEF NextWeekday, PreviousWeekday
<1> QED BY <1>1, <1>2, <1>3

\* from_days undoes to_days for every valid date in the range of the years.
LEMMA DateIsFromDays ==
  ASSUME NEW x, IsDate(x), ToDays(Ymd(MinYear, 1, 1)) <= ToDays(x),
         ToDays(x) <= ToDays(Ymd(MaxYear, 12, 31))
  PROVE  FromDays(ToDays(x)) = x /\ x.y >= MinYear /\ x.y <= MaxYear
<1>1. PICK y \in Int, m \in 1 .. 12, d \in Int :
        x = Ymd(y, m, d) /\ d >= 1 /\ d <= LastDay(y, m) /\ y = x.y
  BY DateParts, Zenon
<1>2. y >= MinYear /\ y <= MaxYear
  BY <1>1, YearIsShort, Zenon
<1>3. FromDays(ToDays(Ymd(y, m, d))) = Ymd(y, m, d)
  BY <1>1, <1>2, FromDaysIs, Zenon
<1> QED BY <1>1, <1>2, <1>3, Zenon

\* A date comes before another by the comparison of date.h, and by its month and day
\* when the years are the same.
DateLess(w, x) ==
  YmdLess(w, x) /\ ~YmdLess(x, w) /\ (x.y = w.y => MonthDayLess(Md(w.m, w.d), Md(x.m, x.d)))

\* Every valid date has a day before it: to_days numbers it one less and the comparison
\* puts it before.
LEMMA YesterdayIs ==
  ASSUME NEW x, IsDate(x)
  PROVE  \E w : IsDate(w) /\ ToDays(w) \in Int /\ ToDays(x) = ToDays(w) + 1 /\ DateLess(w, x)
<1>1. PICK y \in Int, m \in 1 .. 12, d \in Int :
        x = Ymd(y, m, d) /\ d >= 1 /\ d <= LastDay(y, m)
  BY DateParts, Zenon
<1>2. ASSUME NEW v \in Int, NEW n \in 1 .. 12, NEW e \in Int, e >= 1, e <= LastDay(v, n),
             ToDays(x) = ToDays(Ymd(v, n, e)) + 1, DateLess(Ymd(v, n, e), x)
      PROVE  \E w : IsDate(w) /\ ToDays(w) \in Int /\ ToDays(x) = ToDays(w) + 1 /\ DateLess(w, x)
  <2>1. IsDate(Ymd(v, n, e))
    BY <1>2, IsDateOf, Zenon
  <2>2. ToDays(Ymd(v, n, e)) \in Int
    BY <1>2, DaysOfYear, Zenon
  <2> QED BY <1>2, <2>1, <2>2, Zenon
<1>3. CASE d > 1
  <2>1. /\ d - 1 \in Int /\ d - 1 >= 1 /\ d - 1 <= LastDay(y, m) /\ d - 1 < LastDay(y, m)
        /\ d - 1 + 1 = d
    BY <1>1, <1>3, LastDayIs, SMT
  <2>2. ToDays(Ymd(y, m, d - 1 + 1)) = ToDays(Ymd(y, m, d - 1)) + 1
    BY <2>1, TomorrowIs, Zenon
  <2>3. DateLess(Ymd(y, m, d - 1), x)
    BY <1>1, SMT DEF DateLess, YmdLess, MonthDayLess, YearLess, MonthLess, DayLess, Md, Ymd
  <2>4. ToDays(x) = ToDays(Ymd(y, m, d - 1)) + 1
    BY <1>1, <2>1, <2>2, Zenon
  <2> QED BY <1>2, <2>1, <2>3, <2>4, Zenon
<1>4. CASE d = 1 /\ m > 1
  <2>1. m - 1 \in 1 .. 12 /\ m - 1 < 12 /\ m - 1 + 1 = m
    BY <1>4, SMT
  <2>2. PICK e \in Int : e = LastDay(y, m - 1) /\ e >= 1 /\ e <= LastDay(y, m - 1)
    BY <2>1, LastDayIs, SMT
  <2>3. ToDays(Ymd(y, m - 1 + 1, 1)) = ToDays(Ymd(y, m - 1, e)) + 1
    BY <2>1, <2>2, TomorrowIs, Zenon
  <2>4. DateLess(Ymd(y, m - 1, e), x)
    BY <1>1, SMT DEF DateLess, YmdLess, MonthDayLess, YearLess, MonthLess, DayLess, Md, Ymd
  <2>5. ToDays(x) = ToDays(Ymd(y, m - 1, e)) + 1
    BY <1>1, <1>4, <2>1, <2>3, Zenon
  <2> QED BY <1>2, <2>1, <2>2, <2>4, <2>5, Zenon
<1>5. CASE d = 1 /\ m = 1
  <2>1. y - 1 \in Int /\ 12 \in 1 .. 12 /\ y - 1 + 1 = y
    BY SMT
  <2>2. PICK e \in Int : e = LastDay(y - 1, 12) /\ e >= 1 /\ e <= LastDay(y - 1, 12)
    BY <2>1, LastDayIs, SMT
  <2>3. ToDays(Ymd(y - 1 + 1, 1, 1)) = ToDays(Ymd(y - 1, 12, e)) + 1
    BY <2>1, <2>2, TomorrowIs, Zenon
  <2>4. DateLess(Ymd(y - 1, 12, e), x)
    BY <1>1, SMT DEF DateLess, YmdLess, MonthDayLess, YearLess, MonthLess, DayLess, Md, Ymd
  <2>5. ToDays(x) = ToDays(Ymd(y - 1, 12, e)) + 1
    BY <1>1, <1>5, <2>1, <2>3, Zenon
  <2> QED BY <1>2, <2>1, <2>2, <2>4, <2>5, Zenon
<1> QED BY <1>1, <1>3, <1>4, <1>5, SMT

\* year_month_weekday names a day as well: its conversions undo each other.
LEMMA YmwIs ==
  ASSUME NEW n \in Int, NEW y \in Int, NEW m \in 1 .. 12, NEW d \in Int, d >= 1,
         d <= LastDay(y, m), ToDays(Ymd(y, m, d)) = n, FromDays(n) = Ymd(y, m, d)
  PROVE  YmwOk(YmwFromDays(n)) /\ YmwToDays(YmwFromDays(n)) = n
<1>1. PICK w \in 0 .. 6 : w = WeekdayFromDays(n) /\ w = (n + 4) % 7
  BY WeekdayIsRem, SMT
<1>2. PICK i \in Int : i = (d - 1) \div 7 + 1
  BY SMT
<1>3. YmwFromDays(n) = Ymw(y, m, w, i)
  BY <1>1, <1>2, YmdFields, SMT DEF YmwFromDays
<1>4. /\ Ymw(y, m, w, i).y = y /\ Ymw(y, m, w, i).m = m
      /\ Ymw(y, m, w, i).wd = w /\ Ymw(y, m, w, i).index = i
  BY SMT DEF Ymw
<1>5. PICK first \in Int : first = ToDays(Ymd(y, m, 1)) /\ first = n - d + 1
  <2>1. ToDays(Ymd(y, m, d)) = YearStart(MarchYear(y, m)) + DayOfYear(m, d) - Epoch
    BY ToDaysIs, Zenon
  <2>2. ToDays(Ymd(y, m, 1)) = YearStart(MarchYear(y, m)) + DayOfYear(m, 1) - Epoch
    <3>1. 1 \in Int
      OBVIOUS
    <3> QED BY <3>1, ToDaysIs, ZenonT(60)
  <2>3. YearStart(MarchYear(y, m)) \in Int /\ Epoch \in Int
    BY DEF YearStart, MarchYear, Epoch
  <2>4. DayOfYear(m, 1) = DayOfYear(m, d) - d + 1 /\ DayOfYear(m, d) \in Int
    BY SMT DEF DayOfYear
  <2> QED BY <2>1, <2>2, <2>3, <2>4, SMT
<1>6. PICK v \in 0 .. 6 : v = WeekdayFromDays(first) /\ v = (first + 4) % 7
  BY WeekdayIsRem, SMT
<1>7. WeekdayMinus(w, v) = (d - 1) % 7
  <2>1. WeekdayMinus(w, v) = (w - v) % 7
    BY WeekdaySteps, Zenon
  <2>2. PICK a \in Int, b \in Int : n + 4 = 7 * a + w /\ first + 4 = 7 * b + v
    <3>1. n + 4 = 7 * ((n + 4) \div 7) + w /\ first + 4 = 7 * ((first + 4) \div 7) + v
      BY <1>1, <1>6, SMT
    <3> QED BY <3>1, SMT
  <2>3. w - v = d - 1 - 7 * (a - b)
    BY <1>5, <2>2, SMT
  <2>4. (d - 1 - 7 * (a - b)) % 7 = (d - 1) % 7
    BY SMT
  <2> QED BY <2>1, <2>3, <2>4, Zenon
<1>8. first + WeekdayMinus(w, v) + (i - 1) * 7 = n /\ WeekdayMinus(w, v) + (i - 1) * 7 + 1 = d
  BY <1>2, <1>5, <1>7, SMT
<1>9. YmwToDays(Ymw(y, m, w, i)) = n
  BY <1>4, <1>5, <1>6, <1>8, Zenon DEF YmwToDays
<1>10. i >= 1
  BY <1>2, SMT
<1>11. YmwOk(Ymw(y, m, w, i))
  BY <1>4, <1>5, <1>6, <1>8, <1>10, Zenon DEF YmwOk
<1> QED BY <1>3, <1>9, <1>11, Zenon

\* A valid date has a valid month and day, and the day before it is no negative number.
LEMMA MonthDayIs ==
  ASSUME NEW y \in Int, NEW m \in 1 .. 12, NEW d \in Int, d >= 1, d <= LastDay(y, m)
  PROVE  MonthDayOk(Md(m, d)) /\ DayPlus(d, -1) = d - 1
<1>1. d <= 31 /\ (m \in {4, 6, 9, 11} => d <= 30) /\ (m = 2 => d <= 29)
  BY LastDayIs, SMT
<1>2. <<31, 29, 31, 30, 31, 30, 31, 31, 30, 31, 30, 31>>[m]
        = IF m \in {4, 6, 9, 11} THEN 30 ELSE IF m = 2 THEN 29 ELSE 31
  <2>1. \/ m = 1 \/ m = 2 \/ m = 3 \/ m = 4 \/ m = 5 \/ m = 6
        \/ m = 7 \/ m = 8 \/ m = 9 \/ m = 10 \/ m = 11 \/ m = 12
    OBVIOUS
  <2> QED BY <2>1
<1>3. MonthDayOk(Md(m, d))
  BY <1>1, <1>2, SMT DEF MonthDayOk, Md
<1>4. DayPlus(d, -1) = d - 1
  BY <1>1, SMT DEF DayPlus, Byte
<1> QED BY <1>3, <1>4

\* The closed formulas of date.h for dates and weekdays agree with the calendar that is
\* read one day after the other, on every day whose year is a short.
THEOREM CalendarDates == CalSpec => []DatesAgree
<1>1. ASSUME CalInv PROVE DatesAgree
  <2>1. PICK y \in Int, m \in 1 .. 12, d \in Int :
          /\ date = Ymd(y, m, d) /\ d >= 1 /\ d <= LastDay(y, m)
          /\ date.y = y /\ date.m = m /\ date.d = d
    BY <1>1, DateParts, Zenon DEF CalInv
  <2>2. z \in Int /\ z = ToDays(date) /\ IsDate(date)
    BY <1>1 DEF CalInv
  <2>3. wd \in 0 .. 6 /\ wd = (z + 4) % 7 /\ WeekdayFromDays(z) = wd
    BY <1>1, WeekdayIsRem, SMTT(60) DEF CalInv
  <2>4. /\ ToDays(Ymd(MinYear, 1, 1)) <= z - 1 /\ ToDays(Ymd(MinYear, 1, 1)) <= z
        /\ z <= ToDays(Ymd(MaxYear, 12, 31)) /\ z - 1 <= ToDays(Ymd(MaxYear, 12, 31))
    BY <1>1, EndsAreInt, CalendarAssumption, SMT DEF CalInv
  <2>5. FromDays(z) = date
    BY <2>2, <2>4, DateIsFromDays, Zenon
  <2>6. CalTypeOK
    BY <1>1, <2>2, <2>3, CalendarAssumption DEF CalInv, CalTypeOK, IsDate
  <2>7. MonthDayOk(Md(date.m, date.d)) /\ DayPlus(date.d, -1) = date.d - 1
    BY <2>1, MonthDayIs, Zenon
  <2>8. ASSUME NEW n \in Months
        PROVE  /\ WeekdayPlus(wd, n) = WeekdayFromDays(z + n)
               /\ WeekdayMinus(WeekdayFromDays(z + n), wd) = n % 7
    <3>1. n \in Int
      BY CalendarAssumption
    <3>2. WeekdayPlus(wd, n) = (wd + n) % 7
      BY <2>3, <3>1, WeekdaySteps, Zenon
    <3>3. WeekdayFromDays(z + n) = (z + n + 4) % 7
      BY <2>2, <3>1, WeekdayIsRem, SMT
    <3>4. WeekdayFromDays(z + n) \in 0 .. 6
      BY <2>2, <3>1, <3>3, SMT
    <3>5. WeekdayMinus(WeekdayFromDays(z + n), wd) = (WeekdayFromDays(z + n) - wd) % 7
      BY <2>3, <3>1, <3>4, WeekdaySteps, Zenon
    <3> QED BY <2>2, <2>3, <3>1, <3>2, <3>3, <3>4, <3>5, SMT
  <2>9. NextWeekday(wd) = WeekdayPlus(wd, 1) /\ PreviousWeekday(wd) = WeekdayPlus(wd, -1)
    <3>1. 1 \in Int /\ -1 \in Int
      OBVIOUS
    <3>2. WeekdayPlus(wd, 1) = (wd + 1) % 7 /\ WeekdayPlus(wd, -1) = (wd + (-1)) % 7
      BY <2>3, <3>1, WeekdaySteps, Zenon
    <3>3. NextWeekday(wd) = (wd + 1) % 7 /\ PreviousWeekday(wd) = (wd - 1) % 7
      BY <2>3, <3>1, WeekdaySteps, Zenon
    <3> QED BY <2>3, <3>2, <3>3, SMT
  <2>10. YmwOk(YmwFromDays(z)) /\ YmwToDays(YmwFromDays(z)) = z
    BY <2>1, <2>2, <2>5, YmwIs, Zenon
  <2>11. PICK w :
           IsDate(w) /\ ToDays(w) \in Int /\ ToDays(date) = ToDays(w) + 1 /\ DateLess(w, date)
    BY <2>2, YesterdayIs, Zenon
  <2>12. ToDays(w) = z - 1
    BY <2>2, <2>11, SMT
  <2>13. FromDays(z - 1) = w
    BY <2>4, <2>11, <2>12, DateIsFromDays, Zenon
  <2>14. YmdLess(FromDays(z - 1), date) /\ ~YmdLess(date, FromDays(z - 1))
    BY <2>11, <2>13, Zenon DEF DateLess
  <2>15. LET x == FromDays(z - 1)
         IN  date.y = x.y => MonthDayLess(Md(x.m, x.d), Md(date.m, date.d))
    BY <2>11, <2>13, Zenon DEF DateLess
  <2> QED
    BY <2>2, <2>3, <2>5, <2>6, <2>7, <2>8, <2>9, <2>10, <2>14, <2>15, Zenon DEF DatesAgree
<1> QED BY <1>1, CalInvariance, PTL

\* What round has to return: the nearest day, the even one of two.
Nearest(n, t) == CASE 2 * t < Day -> n
                   [] 2 * t > Day -> n + 1
                   [] OTHER -> IF n % 2 = 0 THEN n ELSE n + 1

\* Division by the seconds of a day.
LEMMA DayDivides ==
  ASSUME NEW n \in Int, NEW t \in Int, t >= 0, t < Day
  PROVE  n * Day \in Int /\ (n + 1) * Day = n * Day + Day /\ (n * Day + t) \div Day = n
<1>1. Day = 86400
  BY SMT DEF Day
<1>2. n * 86400 \in Int /\ (n + 1) * 86400 = n * 86400 + 86400
  BY SMT
<1>3. (n * 86400 + t) \div 86400 = n
  BY <1>1, SMT
<1> QED BY <1>1, <1>2, <1>3

\* A negative count of seconds, by days.
LEMMA DayNegated ==
  ASSUME NEW n \in Int, NEW t \in Int
  PROVE  /\ -(n * Day + t) = (-n - 1) * Day + (Day - t)
         /\ t = 0 => -(n * Day + t) = (-n) * Day + 0
<1>1. Day = 86400
  BY SMT DEF Day
<1>2. -(n * 86400 + t) = (-n - 1) * 86400 + (86400 - t)
  BY SMTT(60)
<1>3. t = 0 => -(n * 86400 + t) = (-n) * 86400 + 0
  BY SMTT(60)
<1>4. -(n * Day + t) = (-n - 1) * Day + (Day - t)
  BY <1>1, <1>2, SMT
<1>5. t = 0 => -(n * Day + t) = (-n) * Day + 0
  BY <1>1, <1>3, SMT
<1> QED BY <1>4, <1>5, Zenon

\* floor, ceil and round of a time point, where the truncation of C++ goes towards zero.
LEMMA DayIs ==
  ASSUME NEW n \in Int, NEW t \in 0 .. Day - 1
  PROVE  /\ n * Day + t \in Int /\ t \in Int /\ t >= 0
         /\ Floor(n * Day + t, Day) = n /\ (n * Day + t) - n * Day = t
         /\ Ceil(n * Day + t, Day) = IF t = 0 THEN n ELSE n + 1
         /\ Round(n * Day + t, Day) = Nearest(n, t)
<1>1. Day \in Int /\ Day > 0
  BY SMT DEF Day
<1>2. t \in Int /\ t >= 0 /\ t < Day
  BY <1>1, SMT
<1>3. PICK a \in Int, b \in Int : a = n * Day /\ b = (n + 1) * Day /\ b = a + Day
  <2>1. n * Day \in Int /\ (n + 1) * Day = n * Day + Day
    BY <1>2, DayDivides, Zenon
  <2>2. n * Day + Day \in Int
    BY <1>1, <2>1, SMT
  <2> QED BY <2>1, <2>2, Zenon
<1>4. PICK p \in Int : p = n * Day + t /\ p = a + t
  BY <1>2, <1>3, SMT
<1>5. PICK q \in Int : q = Trunc(p, Day) /\ (q = n \/ (q = n + 1 /\ p < 0 /\ t > 0))
  <2>1. p \div Day = n
    BY <1>2, <1>4, DayDivides, Zenon
  <2>2. t = 0 => (-p) \div Day = -n
    <3>1. -n \in Int /\ 0 \in Int /\ 0 >= 0 /\ 0 < Day
      BY <1>1, SMT
    <3>2. ((-n) * Day + 0) \div Day = -n
      BY <3>1, DayDivides, Zenon
    <3>3. t = 0 => -p = (-n) * Day + 0
      BY <1>2, <1>4, DayNegated, ZenonT(60)
    <3> QED BY <3>2, <3>3
  <2>3. t > 0 => (-p) \div Day = -n - 1
    <3>1. ASSUME t > 0
          PROVE  -n - 1 \in Int /\ Day - t \in Int /\ Day - t >= 0 /\ Day - t < Day
      BY <1>1, <1>2, <3>1, SMT
    <3>2. t > 0 => ((-n - 1) * Day + (Day - t)) \div Day = -n - 1
      BY <3>1, DayDivides, Zenon
    <3>3. -p = (-n - 1) * Day + (Day - t)
      BY <1>2, <1>4, DayNegated, ZenonT(60)
    <3> QED BY <3>2, <3>3
  <2>4. \/ Trunc(p, Day) = n
        \/ Trunc(p, Day) = n + 1 /\ p < 0 /\ t > 0
    BY <1>1, <1>2, <2>1, <2>2, <2>3, SMT DEF Trunc, Quot
  <2> QED BY <2>4, SMT
<1>6. q * Day = IF q = n THEN a ELSE b
  BY <1>3, <1>5
<1>7. Floor(p, Day) = n
  <2>1. q * Day > p <=> q = n + 1
    BY <1>1, <1>2, <1>3, <1>4, <1>5, <1>6, SMT
  <2> QED BY <1>5, <2>1, SMT DEF Floor
<1>8. Ceil(p, Day) = IF t = 0 THEN n ELSE n + 1
  <2>1. q * Day < p <=> q = n /\ t > 0
    BY <1>1, <1>2, <1>3, <1>4, <1>5, <1>6, SMT
  <2> QED BY <1>2, <1>5, <2>1, SMT DEF Ceil
<1>9. p - n * Day = t /\ (n + 1) * Day - p = Day - t
  BY <1>1, <1>2, <1>3, <1>4, SMT
<1>10. (n - Quot(n, 2) * 2 = 0) <=> (n % 2 = 0)
  BY SMT DEF Quot
<1>11. Round(p, Day) = IF t = Day - t THEN (IF n % 2 = 0 THEN n ELSE n + 1)
                      ELSE IF t < Day - t THEN n ELSE n + 1
  BY <1>7, <1>9, <1>10, Zenon DEF Round
<1>12. Round(p, Day) = Nearest(n, t)
  BY <1>1, <1>2, <1>11, SMT DEF Nearest
<1> QED BY <1>2, <1>4, <1>7, <1>8, <1>9, <1>12, SMTT(60)

\* A clock of 12 hours loses nothing of an hour between 0 and 23, nor of what is less
\* than an hour.
LEMMA ClockIs ==
  ASSUME NEW h \in 0 .. 23, NEW m, NEW s, NEW ms
  PROVE  LET c == Clock(h, m, s, ms)
         IN  /\ Make12(c).h \in 1 .. 12 /\ Make24(Make12(c)) = c
             /\ To24hr(Make12(c)) = h /\ To24hr(c) = h
             /\ Make12(c).m = m /\ Make12(c).s = s /\ Make12(c).ms = ms
             /\ c.h = h /\ c.m = m /\ c.s = s /\ c.ms = ms
<1> DEFINE R(k, mode) == [h |-> k, m |-> m, s |-> s, ms |-> ms, mode |-> mode]
<1> DEFINE c == Clock(h, m, s, ms)
<1>1. c = R(h, "24") /\ \A k, mode : /\ R(k, mode).h = k /\ R(k, mode).m = m /\ R(k, mode).s = s
                                    /\ R(k, mode).ms = ms /\ R(k, mode).mode = mode
  BY DEF Clock
<1>2. \A k, l, mode, mode2 : SetHour(R(k, mode), l, mode2) = R(l, mode2)
  BY DEF SetHour
<1>3. CASE h = 0
  <2>1. Make12(c) = R(12, "am")
    BY <1>3, <1>1, <1>2, SMT DEF Make12
  <2>2. Make24(R(12, "am")) = R(0, "24") /\ To24hr(R(12, "am")) = 0
    BY <1>1, <1>2, SMT DEF Make24, To24hr
  <2> QED BY <1>1, <1>3, <2>1, <2>2, SMT DEF To24hr
<1>4. CASE h > 0 /\ h < 12
  <2>1. Make12(c) = R(h, "am")
    BY <1>4, <1>1, <1>2, SMT DEF Make12
  <2>2. Make24(R(h, "am")) = R(h, "24") /\ To24hr(R(h, "am")) = h
    BY <1>4, <1>1, <1>2, SMT DEF Make24, To24hr
  <2> QED BY <1>1, <1>4, <2>1, <2>2, SMT DEF To24hr
<1>5. CASE h = 12
  <2>1. Make12(c) = R(12, "pm")
    BY <1>5, <1>1, <1>2, SMT DEF Make12
  <2>2. Make24(R(12, "pm")) = R(12, "24") /\ To24hr(R(12, "pm")) = 12
    BY <1>1, <1>2, SMT DEF Make24, To24hr
  <2> QED BY <1>1, <1>5, <2>1, <2>2, SMT DEF To24hr
<1>6. CASE h > 12
  <2>1. Make12(c) = R(h - 12, "pm")
    BY <1>6, <1>1, <1>2, SMT DEF Make12
  <2>2. Make24(R(h - 12, "pm")) = R(h, "24") /\ To24hr(R(h - 12, "pm")) = h
    BY <1>6, <1>1, <1>2, SMT DEF Make24, To24hr
  <2> QED BY <1>1, <1>6, <2>1, <2>2, SMT DEF To24hr
<1> QED BY <1>3, <1>4, <1>5, <1>6, SMT

\* The four storages of time_of_day hold hours, minutes and seconds of a time of day.
ClocksAre(t, h, m, s) ==
  /\ h = t \div 3600 /\ h * 60 + m = t \div 60 /\ (h * 60 + m) * 60 + s = t
  /\ MakeHour(t \div 3600) = Clock(h, 0, 0, 0) /\ MakeMinute(t \div 60) = Clock(h, m, 0, 0)
  /\ MakeSecond(t) = Clock(h, m, s, 0)
  /\ MakeSubsecond(t * 1000 + (t % 1000)) = Clock(h, m, s, t % 1000)

\* Every time of a day has such hours, minutes and seconds.
LEMMA ClocksOf ==
  ASSUME NEW t \in 0 .. Day - 1
  PROVE  \E h \in 0 .. 23, m \in 0 .. 59, s \in 0 .. 59 : ClocksAre(t, h, m, s)
<1>1. t \in Int /\ t >= 0 /\ t < 86400
  BY SMTT(60) DEF Day
<1>2. t \div 3600 \in 0 .. 23 /\ MakeHour(t \div 3600) = Clock(t \div 3600, 0, 0, 0)
  BY <1>1, SMT DEF MakeHour
<1>3. PICK h \in 0 .. 23 : h = t \div 3600
  BY <1>1, SMT
<1>4. PICK m \in 0 .. 59 : m = (t - h * 3600) \div 60
  BY <1>1, <1>3, SMT
<1>5. PICK s \in 0 .. 59 : s = t - h * 3600 - m * 60
  BY <1>1, <1>3, <1>4, SMT
<1>6. Quot(t, 3600) = h /\ Quot(t - h * 3600, 60) = m
  BY <1>1, <1>3, <1>4, SMT DEF Quot
<1>7. Quot(t \div 60, 60) = h /\ t \div 60 - h * 60 = m
  BY <1>1, <1>3, <1>4, SMT DEF Quot
<1>8. (h * 60 + m) * 60 + s = t /\ h * 60 + m = t \div 60
  BY <1>1, <1>3, <1>4, <1>5, SMT
<1>9. MakeSecond(t) = Clock(h, m, s, 0)
  BY <1>5, <1>6, SMT DEF MakeSecond
<1>10. MakeMinute(t \div 60) = Clock(h, m, 0, 0)
  BY <1>7, Zenon DEF MakeMinute
<1>11. Quot(t * 1000 + (t % 1000), 1000) = t /\ Rem(t * 1000 + (t % 1000), 1000) = t % 1000
  BY <1>1, SMT DEF Quot, Rem
<1>12. MakeSubsecond(t * 1000 + (t % 1000)) = Clock(h, m, s, t % 1000)
  BY <1>9, <1>11, SMT DEF MakeSubsecond, Clock
<1>13. ClocksAre(t, h, m, s)
  BY <1>2, <1>3, <1>8, <1>9, <1>10, <1>12, SMT DEF ClocksAre
<1> QED BY <1>13, ZenonT(60)

\* Time points split into day and time of day and make up the time point again, before
\* the epoch too; clocks of 12 hours lose nothing; floor, ceil and round go where they say.
THEOREM CalendarTimes == CalSpec => []TimesAgree
<1>1. ASSUME CalInv, NEW t \in Times
      PROVE LET p == z * Day + t
                x == MakeSecond(p - Floor(p, Day) * Day)
                h == MakeHour(t \div 3600)
                m == MakeMinute(t \div 60)
                ms == MakeSubsecond(t * 1000 + (t % 1000))
            IN  /\ Floor(p, Day) = z /\ SecondToDuration(x) = t
                /\ x.h \in 0 .. 23 /\ x.m \in 0 .. 59 /\ x.s \in 0 .. 59
                /\ \A c \in {h, m, x, ms} : Make12(c).h \in 1 .. 12 /\ Make24(Make12(c)) = c
                /\ SecondToDuration(Make12(x)) = t
                /\ HourToDuration(Make12(h)) = t \div 3600
                /\ MinuteToDuration(Make12(m)) = t \div 60
                /\ SubsecondToDuration(Make12(ms)) = t * 1000 + (t % 1000)
                /\ Ceil(p, Day) = (IF t = 0 THEN z ELSE z + 1)
                /\ Round(p, Day) = CASE 2 * t < Day -> z
                                     [] 2 * t > Day -> z + 1
                                     [] OTHER -> IF z % 2 = 0 THEN z ELSE z + 1
  <2> DEFINE p == z * Day + t
  <2>1. z \in Int /\ t \in 0 .. Day - 1
    BY <1>1, CalendarAssumption DEF CalInv
  <2>2. /\ Floor(p, Day) = z /\ p - z * Day = t
        /\ Ceil(p, Day) = (IF t = 0 THEN z ELSE z + 1)
        /\ Round(p, Day) = Nearest(z, t)
    BY <2>1, DayIs, Zenon
  <2>3. MakeSecond(p - Floor(p, Day) * Day) = MakeSecond(t)
    BY <2>2, Zenon
  <2>4. PICK h \in 0 .. 23, m \in 0 .. 59, s \in 0 .. 59 : ClocksAre(t, h, m, s)
    BY <2>1, ClocksOf, Zenon
  <2>5. ASSUME NEW k, NEW l, NEW n
        PROVE  LET c == Clock(h, k, l, n)
               IN  /\ Make12(c).h \in 1 .. 12 /\ Make24(Make12(c)) = c
                   /\ HourToDuration(Make12(c)) = h /\ MinuteToDuration(Make12(c)) = h * 60 + k
                   /\ SecondToDuration(c) = (h * 60 + k) * 60 + l
                   /\ SecondToDuration(Make12(c)) = (h * 60 + k) * 60 + l
                   /\ SubsecondToDuration(Make12(c)) = ((h * 60 + k) * 60 + l) * 1000 + n
                   /\ c.h = h /\ c.m = k /\ c.s = l
    BY ClockIs DEF HourToDuration, MinuteToDuration, SecondToDuration, SubsecondToDuration
  <2>6. \A c \in {Clock(h, 0, 0, 0), Clock(h, m, 0, 0), Clock(h, m, s, 0),
                  Clock(h, m, s, t % 1000)} :
          Make12(c).h \in 1 .. 12 /\ Make24(Make12(c)) = c
    BY <2>5
  <2> QED BY <2>2, <2>3, <2>4, <2>5, <2>6 DEF ClocksAre, Nearest
<1>2. CalInv => TimesAgree
  BY <1>1 DEF TimesAgree
<1> QED BY <1>2, CalInvariance, PTL

\* A short keeps the years it can hold, and wraps so that sums of years can be taken
\* before or after.
LEMMA ShortIs ==
  ASSUME NEW a \in Int
  PROVE  /\ Short(a) \in Int /\ Short(a) >= MinYear /\ Short(a) <= MaxYear
         /\ a >= MinYear /\ a <= MaxYear => Short(a) = a
         /\ \A b \in Int : Short(Short(a) + b) = Short(a + b) /\ Short(Short(a) - b) = Short(a - b)
  BY SMT DEF Short, MinYear, MaxYear

\* n months after month m: the years carried and the month.
Carry(m, n) == (m - 1 + n) \div 12
MonthAfter(m, n) == ((m - 1 + n) % 12) + 1

\* The month and the year that date.h reaches when it adds months.
LEMMA YearMonthPlusIs ==
  ASSUME NEW y \in Int, NEW m \in 1 .. 12, NEW n \in Int
  PROVE  /\ MonthAfter(m, n) \in 1 .. 12 /\ Carry(m, n) \in Int
         /\ YearMonthPlus(Ym(y, m), n) = Ym(Short(y + Carry(m, n)), MonthAfter(m, n))
         /\ MonthPlus(m, n) = MonthAfter(m, n)
<1>1. PICK k \in Int : k = m - 1 + n
  BY SMT
<1>2. Div(k, 12) = k \div 12
  BY DivIs, ZenonT(60)
<1>3. MonthAfter(m, n) \in 1 .. 12 /\ Carry(m, n) \in Int
  BY SMT DEF MonthAfter, Carry
<1>4. k - Div(k, 12) * 12 + 1 = MonthAfter(m, n) /\ Div(k, 12) = Carry(m, n)
  BY <1>1, <1>2, SMT DEF MonthAfter, Carry
<1>5. Ym(y, m).y = y /\ Ym(y, m).m = m
  BY DEF Ym
<1>6. YearMonthPlus(Ym(y, m), n) = Ym(Short(y + Carry(m, n)), MonthAfter(m, n))
  BY <1>1, <1>4, <1>5, Zenon DEF YearMonthPlus, YearPlus
<1>7. MonthPlus(m, n) = MonthAfter(m, n)
  BY <1>1, <1>4, Zenon DEF MonthPlus
<1> QED BY <1>3, <1>6, <1>7

\* Quotient and remainder of the months counted from January of the year.
LEMMA CarryIs ==
  ASSUME NEW m \in 1 .. 12, NEW n \in Int
  PROVE  \E q \in Int, r \in 0 .. 11 :
           m - 1 + n = 12 * q + r /\ Carry(m, n) = q /\ MonthAfter(m, n) = r + 1
<1>1. PICK k \in Int : k = m - 1 + n
  BY SMT
<1>2. k = 12 * (k \div 12) + (k % 12) /\ (k % 12) \in 0 .. 11 /\ k \div 12 \in Int
  BY SMT
<1> QED BY <1>1, <1>2 DEF Carry, MonthAfter

\* Steps between months are steps modulo 12, and the years carried are undone with them.
LEMMA MonthSteps ==
  ASSUME NEW m \in 1 .. 12, NEW n \in Int
  PROVE  /\ NextMonth(m) \in 1 .. 12 /\ PreviousMonth(NextMonth(m)) = m
         /\ MonthAfter(NextMonth(m), n) = NextMonth(MonthAfter(m, n))
         /\ MonthMinus(MonthAfter(m, n), m) = n % 12
         /\ Carry(MonthAfter(m, n), -n) = -Carry(m, n) /\ MonthAfter(MonthAfter(m, n), -n) = m
         /\ Carry(m, 12 * n) = n /\ MonthAfter(m, 12 * n) = m
         /\ 12 * Carry(m, n) + MonthAfter(m, n) - m = n
<1>1. NextMonth(m) \in 1 .. 12 /\ PreviousMonth(NextMonth(m)) = m
  BY SMT DEF NextMonth, PreviousMonth
<1>2. PICK q \in Int, r \in 0 .. 11 :
        m - 1 + n = 12 * q + r /\ Carry(m, n) = q /\ MonthAfter(m, n) = r + 1
  BY CarryIs, Zenon
<1>3. MonthAfter(NextMonth(m), n) = NextMonth(MonthAfter(m, n))
  BY SMT DEF NextMonth, MonthAfter
<1>4. MonthMinus(MonthAfter(m, n), m) = n % 12
  BY SMT DEF MonthMinus, MonthAfter
<1>5. Carry(MonthAfter(m, n), -n) = -Carry(m, n) /\ MonthAfter(MonthAfter(m, n), -n) = m
  BY <1>2, SMT DEF Carry, MonthAfter
<1>6. Carry(m, 12 * n) = n /\ MonthAfter(m, 12 * n) = m
  BY SMT DEF Carry, MonthAfter
<1>7. 12 * Carry(m, n) + MonthAfter(m, n) - m = n
  BY <1>2, SMT
<1> QED BY <1>1, <1>3, <1>4, <1>5, <1>6, <1>7

\* One month more is the next month, or January of the next year.
LEMMA NextMonthIs ==
  ASSUME NEW m \in 1 .. 12, NEW n \in Int
  PROVE  \/ /\ MonthAfter(m, n) < 12
            /\ MonthAfter(m, n + 1) = MonthAfter(m, n) + 1 /\ Carry(m, n + 1) = Carry(m, n)
         \/ /\ MonthAfter(m, n) = 12
            /\ MonthAfter(m, n + 1) = 1 /\ Carry(m, n + 1) = Carry(m, n) + 1
<1>1. PICK q \in Int, r \in 0 .. 11 :
        m - 1 + n = 12 * q + r /\ Carry(m, n) = q /\ MonthAfter(m, n) = r + 1
  BY CarryIs, Zenon
<1>2. CASE r < 11
  BY <1>1, <1>2, SMT DEF Carry, MonthAfter
<1>3. CASE r = 11
  BY <1>1, <1>3, SMT DEF Carry, MonthAfter
<1> QED BY <1>2, <1>3, SMT

\* n months after month m of year y, all kinds of dates have month k of year v.
MonthsLater(y, m, n, v, k) ==
  /\ YearMonthPlus(Ym(y, m), n) = Ym(v, k)
  /\ \A d : YmdPlusMonths(Ymd(y, m, d), n) = Ymd(v, k, d)
  /\ \A w, i : YmwPlusMonths(Ymw(y, m, w, i), n) = Ymw(v, k, w, i)
  /\ YmdlPlusMonths(Ymdl(Ym(y, m)), n) = Ym(v, k)
  /\ \A w : YmwlPlusMonths(Ymwl(y, m, w), n) = Ymwl(v, k, w)

\* The kinds of dates all reach the month and the year that Carry and MonthAfter give.
LEMMA PlusMonthsIs ==
  ASSUME NEW y \in Int, NEW m \in 1 .. 12, NEW n \in Int
  PROVE  /\ Short(y + Carry(m, n)) \in Int /\ MonthAfter(m, n) \in 1 .. 12
         /\ MonthsLater(y, m, n, Short(y + Carry(m, n)), MonthAfter(m, n))
<1>1. PICK v, k : v = Short(y + Carry(m, n)) /\ k = MonthAfter(m, n)
  OBVIOUS
<1>2. k \in 1 .. 12 /\ Carry(m, n) \in Int /\ YearMonthPlus(Ym(y, m), n) = Ym(v, k)
  BY <1>1, YearMonthPlusIs, Zenon
<1>3. v \in Int
  <2>1. y + Carry(m, n) \in Int
    BY <1>2, SMT
  <2> QED BY <1>1, <2>1, ShortIs, Zenon
<1>4. Ym(v, k).y = v /\ Ym(v, k).m = k
  BY DEF Ym
<1>5. ASSUME NEW d PROVE YmdPlusMonths(Ymd(y, m, d), n) = Ymd(v, k, d)
  <2>1. Ymd(y, m, d).y = y /\ Ymd(y, m, d).m = m /\ Ymd(y, m, d).d = d
    BY YmdFields, SMT
  <2> QED BY <1>2, <1>4, <2>1, SMT DEF YmdPlusMonths
<1>6. ASSUME NEW w, NEW i PROVE YmwPlusMonths(Ymw(y, m, w, i), n) = Ymw(v, k, w, i)
  <2>1. /\ Ymw(y, m, w, i).y = y /\ Ymw(y, m, w, i).m = m
        /\ Ymw(y, m, w, i).wd = w /\ Ymw(y, m, w, i).index = i
    BY DEF Ymw
  <2> QED BY <1>2, <1>4, <2>1, SMT DEF YmwPlusMonths
<1>7. YmdlPlusMonths(Ymdl(Ym(y, m)), n) = Ym(v, k)
  <2>1. \A a, b : Ym(a, b).y = a /\ Ym(a, b).m = b /\ Ymdl(Ym(a, b)) = Ym(a, b)
    BY DEF Ym, Ymdl
  <2> QED BY <1>2, <2>1, SMT DEF YmdlPlusMonths
<1>8. ASSUME NEW w PROVE YmwlPlusMonths(Ymwl(y, m, w), n) = Ymwl(v, k, w)
  <2>1. Ymwl(y, m, w).y = y /\ Ymwl(y, m, w).m = m /\ Ymwl(y, m, w).wd = w
    BY DEF Ymwl
  <2> QED BY <1>2, <1>4, <2>1, SMT DEF YmwlPlusMonths
<1>9. MonthsLater(y, m, n, v, k)
  BY <1>2, <1>5, <1>6, <1>7, <1>8, Zenon DEF MonthsLater
<1> QED BY <1>1, <1>2, <1>3, <1>9, Zenon

\* Adding months, then subtracting them; the month reached is where counting by single
\* months leads.
Undone(y, m, n, d, w, i) ==
  LET to == YearMonthPlus(Ym(y, m), n)
  IN  /\ to.m \in 1 .. 12 /\ to.m = MonthPlus(m, n)
      /\ MonthPlus(NextMonth(m), n) = NextMonth(to.m)
      /\ PreviousMonth(NextMonth(to.m)) = to.m
      /\ MonthMinus(to.m, m) = n % 12
      /\ YearMonthPlus(to, -n) = Ym(y, m)
      /\ YmdPlusMonths(YmdPlusMonths(Ymd(y, m, d), n), -n) = Ymd(y, m, d)
      /\ YmwPlusMonths(YmwPlusMonths(Ymw(y, m, w, i), n), -n) = Ymw(y, m, w, i)

\* Adding months is undone by subtracting them, wherever the year wraps.
LEMMA MonthsUndone ==
  ASSUME NEW y \in Int, y >= MinYear, y <= MaxYear, NEW m \in 1 .. 12, NEW n \in Int,
         NEW d, NEW w, NEW i
  PROVE  Undone(y, m, n, d, w, i)
<1>1. PICK v, k : v = Short(y + Carry(m, n)) /\ k = MonthAfter(m, n)
  OBVIOUS
<1>2. /\ YearMonthPlus(Ym(y, m), n) = Ym(v, k) /\ v \in Int /\ k \in 1 .. 12
      /\ YmdPlusMonths(Ymd(y, m, d), n) = Ymd(v, k, d)
      /\ YmwPlusMonths(Ymw(y, m, w, i), n) = Ymw(v, k, w, i)
  <2>1. v \in Int /\ k \in 1 .. 12 /\ MonthsLater(y, m, n, v, k)
    BY <1>1, PlusMonthsIs, Zenon
  <2> QED BY <2>1, Zenon DEF MonthsLater
<1>3. Ym(v, k).m = k
  BY DEF Ym
<1>4. /\ NextMonth(m) \in 1 .. 12 /\ PreviousMonth(NextMonth(k)) = k
      /\ MonthAfter(NextMonth(m), n) = NextMonth(k) /\ MonthMinus(k, m) = n % 12
      /\ Carry(k, -n) = -Carry(m, n) /\ MonthAfter(k, -n) = m
  BY <1>1, <1>2, MonthSteps, Zenon
<1>5. MonthPlus(m, n) = k /\ MonthPlus(NextMonth(m), n) = NextMonth(k)
  BY <1>1, <1>4, YearMonthPlusIs, Zenon
<1>6. y = Short(v + Carry(k, -n)) /\ -n \in Int
  <2>1. PICK c \in Int : c = Carry(m, n)
    BY YearMonthPlusIs, Zenon
  <2>2. y + c \in Int /\ -c \in Int /\ (y + c) + (-c) = y /\ -n \in Int
    BY SMT
  <2>3. Short(Short(y + c) + (-c)) = Short((y + c) + (-c))
    BY <2>2, ShortIs, ZenonT(60)
  <2>4. Short(y) = y
    BY ShortIs, Zenon
  <2> QED BY <1>1, <1>4, <2>1, <2>2, <2>3, <2>4, Zenon
<1>7. /\ YearMonthPlus(Ym(v, k), -n) = Ym(y, m) /\ YmdPlusMonths(Ymd(v, k, d), -n) = Ymd(y, m, d)
      /\ YmwPlusMonths(Ymw(v, k, w, i), -n) = Ymw(y, m, w, i)
  <2>1. m = MonthAfter(k, -n)
    BY <1>4
  <2>2. MonthsLater(v, k, -n, y, m)
    BY <1>2, <1>6, <2>1, PlusMonthsIs, Zenon
  <2> QED BY <2>2, Zenon DEF MonthsLater
<1> QED BY <1>2, <1>3, <1>4, <1>5, <1>7, Zenon DEF Undone

\* Adding years is adding twelve times as many months.
YearsOf(y, m, n, d, w, i, u) ==
  /\ YearMinus(YearPlus(y, n), n) = y
  /\ YmdPlusYears(Ymd(y, m, d), n) = YmdPlusMonths(Ymd(y, m, d), 12 * n)
  /\ YmwPlusYears(Ymw(y, m, w, i), n) = YmwPlusMonths(Ymw(y, m, w, i), 12 * n)
  /\ YmdlPlusYears(Ymdl(Ym(y, m)), n) = Ymdl(YearMonthPlusYears(Ym(y, m), n))
  /\ YmwlPlusYears(Ymwl(y, m, u), n) = YmwlPlusMonths(Ymwl(y, m, u), 12 * n)
  /\ YearMonthPlusYears(Ym(y, m), n) = YearMonthPlus(Ym(y, m), 12 * n)

\* Adding years agrees with adding months, for all kinds of dates.
LEMMA YearsAreMonths ==
  ASSUME NEW y \in Int, y >= MinYear, y <= MaxYear, NEW m \in 1 .. 12, NEW n \in Int,
         NEW d, NEW w, NEW i, NEW u
  PROVE  YearsOf(y, m, n, d, w, i, u)
<1>1. 12 * n \in Int /\ y + n \in Int /\ (y + n) - n = y
  BY SMT
<1>2. Carry(m, 12 * n) = n /\ MonthAfter(m, 12 * n) = m
  BY MonthSteps, Zenon
<1>3. PICK v : v = Short(y + n)
  OBVIOUS
<1>4. v = Short(y + Carry(m, 12 * n)) /\ m = MonthAfter(m, 12 * n)
  BY <1>2, <1>3
<1>5. /\ YearMonthPlus(Ym(y, m), 12 * n) = Ym(v, m)
      /\ YmdPlusMonths(Ymd(y, m, d), 12 * n) = Ymd(v, m, d)
      /\ YmwPlusMonths(Ymw(y, m, w, i), 12 * n) = Ymw(v, m, w, i)
      /\ YmwlPlusMonths(Ymwl(y, m, u), 12 * n) = Ymwl(v, m, u)
  <2>1. MonthsLater(y, m, 12 * n, v, m)
    BY <1>1, <1>4, PlusMonthsIs, Zenon
  <2> QED BY <2>1, Zenon DEF MonthsLater
<1>6. YearMinus(YearPlus(y, n), n) = y
  <2>1. Short(Short(y + n) - n) = Short((y + n) - n)
    BY <1>1, ShortIs, ZenonT(60)
  <2>2. Short(y) = y
    BY ShortIs, Zenon
  <2> QED BY <1>1, <2>1, <2>2, Zenon DEF YearMinus, YearPlus
<1>7. /\ YmdPlusYears(Ymd(y, m, d), n) = Ymd(v, m, d)
      /\ YmwPlusYears(Ymw(y, m, w, i), n) = Ymw(v, m, w, i)
      /\ YmdlPlusYears(Ymdl(Ym(y, m)), n) = Ymdl(Ym(v, m))
      /\ YmwlPlusYears(Ymwl(y, m, u), n) = Ymwl(v, m, u)
      /\ YearMonthPlusYears(Ym(y, m), n) = Ym(v, m)
  BY <1>3 DEF YmdPlusYears, YmwPlusYears, YmdlPlusYears, YmwlPlusYears, YearMonthPlusYears,
              Ymd, Ymw, Ymdl, Ymwl, Ym, YearPlus
<1> QED BY <1>5, <1>6, <1>7, Zenon DEF YearsOf

\* year_month_day_last is the last day of its month.
LEMMA LastIs ==
  ASSUME NEW y \in Int, NEW m \in 1 .. 12, NEW d \in Int
  PROVE  /\ YmdlToDays(Ym(y, m)) = ToDays(Ymd(y, m, LastDay(y, m)))
         /\ YmdlToDays(Ym(y, m)) \in Int /\ LastDay(y, m) \in Int /\ LastDay(y, m) >= 1
         /\ ToDays(Ymd(y, m, d)) \in Int
         /\ YmdlToDays(Ym(y, m)) = ToDays(Ymd(y, m, d)) + LastDay(y, m) - d
<1>1. LastDay(y, m) \in Int /\ LastDay(y, m) >= 1
  BY LastDayIs, SMT
<1>2. Ym(y, m).y = y /\ Ym(y, m).m = m
  BY DEF Ym
<1>3. YmdlToDays(Ym(y, m)) = ToDays(Ymd(y, m, LastDay(y, m)))
  BY <1>2, Zenon DEF YmdlToDays
<1>4. /\ ToDays(Ymd(y, m, d)) = YearStart(MarchYear(y, m)) + DayOfYear(m, d) - Epoch
      /\ ToDays(Ymd(y, m, LastDay(y, m)))
           = YearStart(MarchYear(y, m)) + DayOfYear(m, LastDay(y, m)) - Epoch
  BY <1>1, ToDaysIs, Zenon
<1>5. YearStart(MarchYear(y, m)) \in Int /\ Epoch \in Int
  BY DEF YearStart, MarchYear, Epoch
<1>6. /\ DayOfYear(m, d) \in Int
      /\ DayOfYear(m, LastDay(y, m)) = DayOfYear(m, d) + LastDay(y, m) - d
  BY <1>1, SMT DEF DayOfYear
<1> QED BY <1>1, <1>3, <1>4, <1>5, <1>6, SMT

\* year_month_weekday_last: from the last day of the month back to the weekday.
LEMMA LastWeekdayIs ==
  ASSUME NEW y \in Int, NEW m \in 1 .. 12, NEW w \in 0 .. 6
  PROVE  /\ YmwlOk(Ymwl(y, m, w))
         /\ LET last == YmdlToDays(Ym(y, m))
            IN  YmwlToDays(Ymwl(y, m, w)) = last - ((((last + 4) % 7) - w) % 7)
<1>1. Ymwl(y, m, w).y = y /\ Ymwl(y, m, w).m = m /\ Ymwl(y, m, w).wd = w
  BY DEF Ymwl
<1>2. Ymdl(Ymwl(y, m, w)) = Ym(y, m)
  BY <1>1, SMT DEF Ymdl
<1>3. PICK last \in Int : last = YmdlToDays(Ym(y, m))
  <2>1. 1 \in Int
    OBVIOUS
  <2> QED BY <2>1, LastIs, Zenon
<1>4. WeekdayFromDays(last) = (last + 4) % 7
  BY WeekdayIsRem, Zenon
<1>5. (last + 4) % 7 \in 0 .. 6
  BY SMT
<1>6. WeekdayMinus((last + 4) % 7, w) = (((last + 4) % 7) - w) % 7
  <2>1. 1 \in Int
    OBVIOUS
  <2> QED BY <2>1, <1>5, WeekdaySteps, Zenon
<1>7. YmwlToDays(Ymwl(y, m, w)) = last - ((((last + 4) % 7) - w) % 7)
  BY <1>1, <1>2, <1>3, <1>4, <1>6, Zenon DEF YmwlToDays
<1>8. YmwlOk(Ymwl(y, m, w))
  BY <1>1, Zenon DEF YmwlOk
<1> QED BY <1>3, <1>7, <1>8, Zenon

\* The last day of the month with the weekday of day n is the latest that is a number of
\* weeks after n.
LEMMA LastOfWeekday ==
  ASSUME NEW n \in Int, NEW last \in Int, n <= last, NEW w, w = (n + 4) % 7
  PROVE  last - ((((last + 4) % 7) - w) % 7) = Max({k \in n .. last : (k - n) % 7 = 0})
<1> DEFINE S == {k \in n .. last : (k - n) % 7 = 0}
<1>1. PICK r \in 0 .. 6, q \in Int : last - n = 7 * q + r
  <2>1. last - n = 7 * ((last - n) \div 7) + ((last - n) % 7) /\ (last - n) % 7 \in 0 .. 6
    BY SMT
  <2>2. (last - n) \div 7 \in Int
    BY SMT
  <2> QED BY <2>1, <2>2
<1>2. (((last + 4) % 7) - w) % 7 = r
  <2>1. PICK a \in Int : n + 4 = 7 * a + w /\ w \in 0 .. 6
    <3>1. n + 4 = 7 * ((n + 4) \div 7) + w /\ w \in 0 .. 6 /\ (n + 4) \div 7 \in Int
      BY SMT
    <3> QED BY <3>1
  <2>2. PICK b \in Int, v \in 0 .. 6 : last + 4 = 7 * b + v /\ v = (last + 4) % 7
    <3>1. last + 4 = 7 * ((last + 4) \div 7) + ((last + 4) % 7) /\ (last + 4) \div 7 \in Int
          /\ (last + 4) % 7 \in 0 .. 6
      BY SMT
    <3> QED BY <3>1
  <2>3. v - w = r + 7 * (q + a - b)
    BY <1>1, <2>1, <2>2, SMT
  <2>4. (v - w) % 7 = r
    BY <2>1, <2>2, <2>3, SMT
  <2> QED BY <2>2, <2>4
<1>3. last - r \in S
  <2>1. last - r \in n .. last /\ (last - r - n) % 7 = 0
    BY <1>1, SMT
  <2> QED BY <2>1
<1>4. \A k \in S : last - r >= k
  <2> SUFFICES ASSUME NEW k \in n .. last, (k - n) % 7 = 0 PROVE last - r >= k
    OBVIOUS
  <2>1. PICK c \in Int : k - n = 7 * c
    <3>1. k - n = 7 * ((k - n) \div 7) /\ (k - n) \div 7 \in Int
      BY SMT
    <3> QED BY <3>1
  <2> QED BY <1>1, <2>1, SMT
<1>5. ASSUME NEW x \in S, \A k \in S : x >= k PROVE x = last - r
  <2>1. x \in Int
    BY SMT
  <2>2. x >= last - r /\ last - r >= x
    <3> HIDE DEF S
    <3> QED BY <1>3, <1>4, <1>5, Zenon
  <2> QED BY <2>1, <2>2, SMT
<1>6. Max(S) = last - r
  <2> HIDE DEF S
  <2> QED BY <1>3, <1>4, <1>5, Zenon DEF Max
<1> QED BY <1>2, <1>6, Zenon

\* Where the year reached is a short, the difference of two months is what was added, the
\* comparisons agree with it, and the last weekday lies in the last week of the month.
Fits(y, m, n, w) ==
  LET ym == Ym(y, m)
      to == YearMonthPlus(ym, n)
      x == YmwlPlusMonths(Ymwl(y, m, w), n)
  IN  /\ YearMonthMinus(to, ym) = n
      /\ (n > 0) = YearMonthLess(ym, to) /\ (n > 0) = YmdlLess(Ymdl(ym), Ymdl(to))
      /\ YmwlOk(x) /\ YmdlToDays(Ymdl(to)) - YmwlToDays(x) \in 0 .. 6

\* Months added within the years a short holds are the months between.
LEMMA MonthsFit ==
  ASSUME NEW y \in Int, NEW m \in 1 .. 12, NEW n \in Int, NEW w \in 0 .. 6, YearFits(Ym(y, m), n)
  PROVE  Fits(y, m, n, w)
<1>1. PICK v, k, c : c = Carry(m, n) /\ v = y + c /\ k = MonthAfter(m, n)
  OBVIOUS
<1>2. k \in 1 .. 12 /\ c \in Int
  BY <1>1, YearMonthPlusIs, Zenon
<1>3. v \in Int
  BY <1>1, <1>2, SMT
<1>4. Short(v) = v
  <2>1. Ym(y, m).y = y /\ Ym(y, m).m = m
    BY DEF Ym
  <2>2. v \in MinYear .. MaxYear
    BY <1>1, <2>1, Zenon DEF YearFits, Carry
  <2>3. v >= MinYear /\ v <= MaxYear
    <3>1. MinYear \in Int /\ MaxYear \in Int
      BY SMT DEF MinYear, MaxYear
    <3> QED BY <1>3, <2>2, <3>1, SMT
  <2> QED BY <1>3, <2>3, ShortIs, Zenon
<1>5. MonthsLater(y, m, n, v, k)
  BY <1>1, <1>4, PlusMonthsIs, Zenon
<1>6. YearMonthPlus(Ym(y, m), n) = Ym(v, k) /\ YmwlPlusMonths(Ymwl(y, m, w), n) = Ymwl(v, k, w)
  BY <1>5, Zenon DEF MonthsLater
<1>7. \A a, b : Ym(a, b).y = a /\ Ym(a, b).m = b /\ Ymdl(Ym(a, b)) = Ym(a, b)
  BY DEF Ym, Ymdl
<1>8. 12 * c + k - m = n
  BY <1>1, MonthSteps, Zenon
<1>9. YearMonthMinus(Ym(v, k), Ym(y, m)) = n
  <2>1. YearMonthMinus(Ym(v, k), Ym(y, m)) = 12 * (v - y) + (k - m)
    BY <1>7, SMT DEF YearMonthMinus
  <2> QED BY <1>1, <1>2, <1>8, <2>1, SMT
<1>10. n > 0 <=> (y < v \/ (y = v /\ m < k))
  BY <1>1, <1>2, <1>8, SMT
<1>11. YearMonthLess(Ym(y, m), Ym(v, k)) = (n > 0) /\ YmdlLess(Ym(y, m), Ym(v, k)) = (n > 0)
  BY <1>7, <1>10, SMT DEF YearMonthLess, YmdlLess, YearLess, MonthLess
<1>12. YmwlOk(Ymwl(v, k, w)) /\ YmdlToDays(Ym(v, k)) - YmwlToDays(Ymwl(v, k, w)) \in 0 .. 6
  <2>1. PICK last \in Int : last = YmdlToDays(Ym(v, k))
    <3>1. 1 \in Int
      OBVIOUS
    <3> QED BY <3>1, <1>2, <1>3, LastIs, Zenon
  <2>2. YmwlOk(Ymwl(v, k, w)) /\ YmwlToDays(Ymwl(v, k, w)) = last - ((((last + 4) % 7) - w) % 7)
    BY <1>2, <1>3, <2>1, LastWeekdayIs, Zenon
  <2>3. last - (last - ((((last + 4) % 7) - w) % 7)) \in 0 .. 6
    BY SMT
  <2> QED BY <2>1, <2>2, <2>3, Zenon
<1> QED BY <1>6, <1>7, <1>9, <1>11, <1>12, SMT DEF Fits

\* The last day of a month is the day before the first of the next month.
LEMMA LastThenFirst ==
  ASSUME NEW y \in Int, NEW m \in 1 .. 12, NEW n \in Int,
         YearFits(Ym(y, m), n), YearFits(Ym(y, m), n + 1)
  PROVE  YmdlToDays(YmdlPlusMonths(Ymdl(Ym(y, m)), n))
           = ToDays(YmdPlusMonths(Ymd(y, m, 1), n + 1)) - 1
<1>1. n + 1 \in Int
  BY SMT
<1>2. ASSUME NEW j \in Int, YearFits(Ym(y, m), j)
      PROVE  /\ Carry(m, j) \in Int /\ MonthAfter(m, j) \in 1 .. 12
             /\ MonthsLater(y, m, j, y + Carry(m, j), MonthAfter(m, j))
  <2>1. Ym(y, m).y = y /\ Ym(y, m).m = m
    BY DEF Ym
  <2>2. Carry(m, j) \in Int /\ MonthAfter(m, j) \in 1 .. 12
    BY YearMonthPlusIs, Zenon
  <2>3. y + Carry(m, j) \in MinYear .. MaxYear
    BY <1>2, <2>1, Zenon DEF YearFits, Carry
  <2>4. y + Carry(m, j) \in Int /\ y + Carry(m, j) >= MinYear /\ y + Carry(m, j) <= MaxYear
    <3>1. MinYear \in Int /\ MaxYear \in Int
      BY SMT DEF MinYear, MaxYear
    <3> QED BY <2>2, <2>3, <3>1, SMT
  <2>5. Short(y + Carry(m, j)) = y + Carry(m, j)
    BY <2>4, ShortIs, Zenon
  <2> QED BY <2>2, <2>5, PlusMonthsIs, Zenon
<1>3. PICK v \in Int, k \in 1 .. 12 :
        v = y + Carry(m, n) /\ k = MonthAfter(m, n) /\ MonthsLater(y, m, n, v, k)
  <2>1. Carry(m, n) \in Int
    BY <1>2, Zenon
  <2>2. y + Carry(m, n) \in Int
    BY <2>1, SMT
  <2> QED BY <1>2, <2>2, Zenon
<1>4. PICK e \in Int : e = LastDay(v, k) /\ e >= 1 /\ e <= LastDay(v, k)
  BY LastDayIs, SMT
<1>5. YmdlToDays(YmdlPlusMonths(Ymdl(Ym(y, m)), n)) = ToDays(Ymd(v, k, e))
  <2>1. YmdlPlusMonths(Ymdl(Ym(y, m)), n) = Ym(v, k)
    BY <1>3, Zenon DEF MonthsLater
  <2> QED BY <1>4, <2>1, LastIs, ZenonT(60)
<1>6. YmdPlusMonths(Ymd(y, m, 1), n + 1) = Ymd(y + Carry(m, n + 1), MonthAfter(m, n + 1), 1)
  <2>1. MonthsLater(y, m, n + 1, y + Carry(m, n + 1), MonthAfter(m, n + 1))
    BY <1>1, <1>2, Zenon
  <2> QED BY <2>1, Zenon DEF MonthsLater
<1>7. ToDays(Ymd(v, k, e)) \in Int
  BY <1>4, DaysOfYear, Zenon
<1>8. CASE k < 12
  <2>1. MonthAfter(m, n + 1) = k + 1 /\ Carry(m, n + 1) = Carry(m, n)
    BY <1>3, <1>8, NextMonthIs, SMT
  <2>2. ToDays(Ymd(v, k + 1, 1)) = ToDays(Ymd(v, k, e)) + 1
    BY <1>4, <1>8, TomorrowIs, Zenon
  <2>3. YmdPlusMonths(Ymd(y, m, 1), n + 1) = Ymd(v, k + 1, 1)
    BY <1>3, <1>6, <2>1, Zenon
  <2> QED BY <1>5, <1>7, <2>2, <2>3, SMT
<1>9. CASE k = 12
  <2>1. MonthAfter(m, n + 1) = 1 /\ Carry(m, n + 1) = Carry(m, n) + 1
    <3>1. ~(MonthAfter(m, n) < 12)
      BY <1>3, <1>9, SMT
    <3> QED BY <3>1, NextMonthIs, Zenon
  <2>2. ToDays(Ymd(v + 1, 1, 1)) = ToDays(Ymd(v, k, e)) + 1
    BY <1>4, <1>9, TomorrowIs, Zenon
  <2>3. y + Carry(m, n + 1) = v + 1
    <3>1. Carry(m, n) \in Int
      BY <1>2, Zenon
    <3> QED BY <1>3, <2>1, <3>1, SMT
  <2>4. YmdPlusMonths(Ymd(y, m, 1), n + 1) = Ymd(v + 1, 1, 1)
    BY <1>6, <2>1, <2>3, Zenon
  <2> QED BY <1>5, <1>7, <2>2, <2>4, SMT
<1> QED BY <1>8, <1>9, SMT

\* The arithmetic of months and years in date.h can be undone, agrees with differences and
\* comparisons, and finds last day and last weekday where the calendar has them.
THEOREM CalendarMonths == CalSpec => []MonthsAgree
<1>1. ASSUME CalInv PROVE MonthsAgree
  <2>1. PICK y \in Int, m \in 1 .. 12, d \in Int :
          /\ date = Ymd(y, m, d) /\ d >= 1 /\ d <= LastDay(y, m)
          /\ date.y = y /\ date.m = m /\ date.d = d
    BY <1>1, DateParts, Zenon DEF CalInv
  <2>2. z \in Int /\ z = ToDays(date) /\ IsDate(date)
    BY <1>1 DEF CalInv
  <2>3. wd \in 0 .. 6 /\ wd = (z + 4) % 7
    BY <1>1, WeekdayIsRem, SMTT(60) DEF CalInv
  <2>4. ToDays(Ymd(MinYear, 1, 1)) <= z /\ z <= ToDays(Ymd(MaxYear, 12, 31))
    BY <1>1, EndsAreInt, CalendarAssumption, SMT DEF CalInv
  <2>5. FromDays(z) = date /\ y >= MinYear /\ y <= MaxYear
    BY <2>1, <2>2, <2>4, DateIsFromDays, Zenon
  <2>6. PICK w, i : YmwFromDays(z) = Ymw(y, m, w, i)
    BY <2>1, <2>5, Zenon DEF YmwFromDays
  <2>7. ASSUME NEW n \in Months
        PROVE  LET ym == Ym(date.y, date.m)
                   to == YearMonthPlus(ym, n)
               IN  /\ to.m \in 1 .. 12 /\ to.m = MonthPlus(date.m, n)
                   /\ MonthPlus(NextMonth(date.m), n) = NextMonth(to.m)
                   /\ PreviousMonth(NextMonth(to.m)) = to.m
                   /\ MonthMinus(to.m, date.m) = n % 12
                   /\ YearMonthPlus(to, -n) = ym
                   /\ YmdPlusMonths(YmdPlusMonths(date, n), -n) = date
                   /\ YmwPlusMonths(YmwPlusMonths(YmwFromDays(z), n), -n) = YmwFromDays(z)
    <3>1. n \in Int
      BY CalendarAssumption
    <3>2. Undone(y, m, n, d, w, i)
      BY <2>5, <3>1, MonthsUndone, Zenon
    <3> QED BY <2>1, <2>6, <3>2, Zenon DEF Undone
  <2>8. ASSUME NEW n \in Months
        PROVE  LET ym == Ym(date.y, date.m)
               IN  /\ YearMinus(YearPlus(date.y, n), n) = date.y
                   /\ YmdPlusYears(date, n) = YmdPlusMonths(date, 12 * n)
                   /\ YmwPlusYears(YmwFromDays(z), n) = YmwPlusMonths(YmwFromDays(z), 12 * n)
                   /\ YmdlPlusYears(Ymdl(ym), n) = Ymdl(YearMonthPlusYears(ym, n))
                   /\ YmwlPlusYears(Ymwl(date.y, date.m, wd), n)
                        = YmwlPlusMonths(Ymwl(date.y, date.m, wd), 12 * n)
                   /\ YearMonthPlusYears(ym, n) = YearMonthPlus(ym, 12 * n)
    <3>1. n \in Int
      BY CalendarAssumption
    <3>2. YearsOf(y, m, n, d, w, i, wd)
      BY <2>5, <3>1, YearsAreMonths, Zenon
    <3> QED BY <2>1, <2>6, <3>2, Zenon DEF YearsOf
  <2>9. ASSUME NEW n \in Months, YearFits(Ym(date.y, date.m), n)
        PROVE  LET ym == Ym(date.y, date.m)
                   to == YearMonthPlus(ym, n)
                   x == YmwlPlusMonths(Ymwl(date.y, date.m, wd), n)
               IN  /\ YearMonthMinus(to, ym) = n
                   /\ (n > 0) = YearMonthLess(ym, to) /\ (n > 0) = YmdlLess(Ymdl(ym), Ymdl(to))
                   /\ YmwlOk(x) /\ YmdlToDays(Ymdl(to)) - YmwlToDays(x) \in 0 .. 6
    <3>1. n \in Int
      BY CalendarAssumption
    <3>2. Fits(y, m, n, wd)
      BY <2>1, <2>3, <2>9, <3>1, MonthsFit, Zenon
    <3> QED BY <2>1, <3>2, Zenon DEF Fits
  <2>10. ASSUME NEW n \in Months,
                YearFits(Ym(date.y, date.m), n), YearFits(Ym(date.y, date.m), n + 1)
         PROVE  YmdlToDays(YmdlPlusMonths(Ymdl(Ym(date.y, date.m)), n))
                  = ToDays(YmdPlusMonths([date EXCEPT !.d = 1], n + 1)) - 1
    <3>1. n \in Int
      BY CalendarAssumption
    <3>2. [date EXCEPT !.d = 1] = Ymd(y, m, 1)
      BY <2>1 DEF Ymd
    <3>3. YmdlToDays(YmdlPlusMonths(Ymdl(Ym(y, m)), n))
            = ToDays(YmdPlusMonths(Ymd(y, m, 1), n + 1)) - 1
      BY <2>1, <2>10, <3>1, LastThenFirst, Zenon
    <3> QED BY <2>1, <3>2, <3>3, Zenon
  <2>11. PICK last \in Int :
           last = YmdlToDays(Ym(y, m)) /\ last = z + LastDay(y, m) - d /\ z <= last
    <3>1. /\ YmdlToDays(Ym(y, m)) \in Int /\ LastDay(y, m) \in Int
          /\ YmdlToDays(Ym(y, m)) = ToDays(Ymd(y, m, d)) + LastDay(y, m) - d
      BY <2>1, LastIs, Zenon
    <3>2. YmdlToDays(Ym(y, m)) = z + LastDay(y, m) - d
      BY <2>1, <2>2, <3>1, Zenon
    <3>3. z <= YmdlToDays(Ym(y, m))
      BY <2>1, <2>2, <3>1, <3>2, SMT
    <3> QED BY <3>1, <3>2, <3>3, Zenon
  <2>12. Ymdl(Ym(y, m)) = Ym(y, m)
    BY DEF Ymdl, Ym
  <2>13. YmdlToDays(Ymdl(Ym(date.y, date.m))) = z + LastDay(date.y, date.m) - date.d
    BY <2>1, <2>11, <2>12, Zenon
  <2>14. YmwlToDays(Ymwl(date.y, date.m, wd))
           = Max({k \in z .. YmdlToDays(Ymdl(Ym(date.y, date.m))) : (k - z) % 7 = 0})
    <3>1. YmwlToDays(Ymwl(y, m, wd)) = last - ((((last + 4) % 7) - wd) % 7)
      BY <2>3, <2>11, LastWeekdayIs, ZenonT(60)
    <3>2. last - ((((last + 4) % 7) - wd) % 7) = Max({k \in z .. last : (k - z) % 7 = 0})
      BY <2>2, <2>3, <2>11, LastOfWeekday, Zenon
    <3> QED BY <2>1, <2>11, <2>12, <3>1, <3>2, Zenon
  <2>15. Ym(date.y, date.m).y = date.y /\ Ym(date.y, date.m).m = date.m
    BY DEF Ym
  <2> QED
    BY <2>7, <2>8, <2>9, <2>10, <2>13, <2>14, <2>15, Zenon DEF MonthsAgree
<1> QED BY <1>1, CalInvariance, PTL

\* On every day whose year is a short, the arithmetic of date.h is that of the calendar.
THEOREM CalendarHolds == CalSpec => []CalendarAgrees
<1>1. DatesAgree /\ MonthsAgree /\ TimesAgree => CalendarAgrees
  BY DEF CalendarAgrees
<1> QED BY <1>1, CalendarDates, CalendarMonths, CalendarTimes, PTL

-----------------------------------------------------------------------------
(* http_structured_data: the head of a message. *)

\* The values of a name: none, one, one more.
Texts == Seq(STRING)
NoValue == <<>>
One(v) == <<v>>
OneMore(s, v) == Append(s, v)
HeaderSets == [Names -> Texts]

\* Sequences of none, one and one more.
LEMMA ValuesAre ==
  ASSUME NEW S, NEW v \in S
  PROVE  /\ <<>> \in Seq(S) /\ <<v>> \in Seq(S) /\ Append(<<>>, v) = <<v>> /\ <<v>> # <<>>
         /\ \A s \in Seq(S) : Append(s, v) \in Seq(S) /\ Append(s, v) # <<>>
<1>1. <<>> \in Seq(S) /\ Append(<<>>, v) = <<v>>
  OBVIOUS
<1>2. \A s \in Seq(S) : Append(s, v) \in Seq(S) /\ Append(s, v) # <<>>
  BY AppendProperties, Zenon
<1> QED BY <1>1, <1>2, Zenon

\* The same of the values of a name.
LEMMA TextsAre ==
  ASSUME NEW v \in STRING
  PROVE  /\ NoValue \in Texts /\ One(v) \in Texts /\ OneMore(NoValue, v) = One(v)
         /\ One(v) # NoValue
         /\ \A s \in Texts : OneMore(s, v) \in Texts /\ OneMore(s, v) # NoValue
  BY ValuesAre, Zenon DEF Texts, NoValue, One, OneMore

\* Headers in which one name has other values.
But(h, n, s) == [h EXCEPT ![n] = s]

\* What the headers hold then.
LEMMA ButIs ==
  ASSUME NEW h \in HeaderSets, NEW n \in Names, NEW s \in Texts
  PROVE  /\ But(h, n, s) \in HeaderSets
         /\ \A k \in Names : But(h, n, s)[k] = IF k = n THEN s ELSE h[k]
  BY DEF HeaderSets, But

\* A message with other headers, another length and another way to delimit the body.
With(m, h, l, c) == [m EXCEPT !.headers = h, !.len = l, !.chunked = c]
Sized(m, l) == [m EXCEPT !.len = l]
InChunks(m, c) == [m EXCEPT !.chunked = c]

\* The fields of such a message.
LEMMA WithIs ==
  ASSUME NEW m \in MessageType, NEW h \in HeaderSets, NEW l \in Nat, NEW c \in BOOLEAN
  PROVE  /\ With(m, h, l, c) \in MessageType
         /\ With(m, h, l, c).headers = h /\ With(m, h, l, c).len = l /\ With(m, h, l, c).chunked = c
         /\ With(m, h, l, c).protocol = m.protocol /\ With(m, h, l, c).keepalive = m.keepalive
         /\ With(m, h, l, c).default_keepalive = m.default_keepalive
         /\ With(m, h, l, c).kind = m.kind
         /\ With(m, h, l, c).code = m.code /\ With(m, h, l, c).reason = m.reason
  BY DEF With, MessageType, HeaderSets, Texts

\* A change of such a message is such a message.
LEMMA WithChanged ==
  ASSUME NEW m \in MessageType, NEW h \in HeaderSets, NEW l \in Nat, NEW c \in BOOLEAN
  PROVE  /\ \A n, s : Put(With(m, h, l, c), n, s) = With(m, But(h, n, s), l, c)
         /\ \A i \in Nat : Sized(With(m, h, l, c), i) = With(m, h, i, c)
         /\ \A d \in BOOLEAN : InChunks(With(m, h, l, c), d) = With(m, h, l, d)
<1> USE DEF With, MessageType, HeaderSets
<1>1. ASSUME NEW n, NEW s PROVE Put(With(m, h, l, c), n, s) = With(m, But(h, n, s), l, c)
  BY DEF But, Put
<1>2. ASSUME NEW i \in Nat PROVE Sized(With(m, h, l, c), i) = With(m, h, i, c)
  BY DEF Sized
<1>3. ASSUME NEW d \in BOOLEAN PROVE InChunks(With(m, h, l, c), d) = With(m, h, l, d)
  BY DEF InChunks
<1> HIDE DEF With
<1> QED BY <1>1, <1>2, <1>3

\* A message is itself with its own headers, length and flag.
LEMMA WithNothing ==
  ASSUME NEW m \in MessageType
  PROVE  /\ m = With(m, m.headers, m.len, m.chunked)
         /\ m.headers \in HeaderSets /\ m.len \in Nat /\ m.chunked \in BOOLEAN
  BY DEF With, MessageType, HeaderSets, Texts

\* remove_header, called with a key in lower case.
LEMMA RemoveHeaderIs ==
  ASSUME NEW m \in MessageType, NEW n \in Names
  PROVE  RemoveHeader(m, Key(n)) = With(m, But(m.headers, n, NoValue), m.len, m.chunked)
<1>1. RemoveHeader(m, Key(n)) = Put(m, n, NoValue)
  BY DEF RemoveHeader, Key, NoValue
<1>2. PICK h \in HeaderSets, l \in Nat, c \in BOOLEAN :
        h = m.headers /\ l = m.len /\ c = m.chunked /\ m = With(m, h, l, c)
  BY WithNothing, Zenon
<1>3. Put(With(m, h, l, c), n, NoValue) = With(m, But(h, n, NoValue), l, c)
  BY WithChanged
<1> QED BY <1>1, <1>2, <1>3, Zenon

\* What header() does to the headers.
HeadersAfter(h, n, v) ==
  IF n \in Replaced \cup {"content-length"} THEN But(h, n, One(v))
  ELSE IF n = "transfer-encoding" /\ IsChunked(v)
  THEN But(But(h, "content-length", NoValue), n, One(v))
  ELSE But(h, n, OneMore(h[n], v))

\* The values of every name after header(): a name that is held once is replaced, a
\* chunked encoding takes the length with it, any other name has one more value.
ValueAfter(h, n, v, k) ==
  IF k = n
  THEN IF n \in Replaced \cup {"content-length"} \/ (n = "transfer-encoding" /\ IsChunked(v))
       THEN One(v) ELSE OneMore(h[n], v)
  ELSE IF k = "content-length" /\ n = "transfer-encoding" /\ IsChunked(v) THEN NoValue
  ELSE h[k]
NowHolds(g, h, n, v) == g \in HeaderSets /\ \A k \in Names : g[k] = ValueAfter(h, n, v, k)

\* These are the values that header() leaves.
LEMMA HeadersAfterIs ==
  ASSUME NEW h \in HeaderSets, NEW n \in Names, NEW v \in STRING
  PROVE  NowHolds(HeadersAfter(h, n, v), h, n, v)
<1>1. PICK none \in Texts, s \in Texts : none = NoValue /\ s = One(v)
  BY TextsAre, Zenon
<1>2. h[n] \in Texts
  BY DEF HeaderSets
<1>3. PICK t \in Texts : t = OneMore(h[n], v)
  BY <1>2, TextsAre, Zenon
<1>4. PICK cl \in Names : cl = "content-length"
  BY MessagesAssumption DEF Twice
<1>5. CASE n \in Replaced \cup {"content-length"}
  <2>1. n # "transfer-encoding" /\ HeadersAfter(h, n, v) = But(h, n, s)
    BY <1>1, <1>5 DEF Replaced, HeadersAfter
  <2>2. /\ But(h, n, s) \in HeaderSets
        /\ \A k \in Names : But(h, n, s)[k] = IF k = n THEN s ELSE h[k]
    BY ButIs
  <2> QED BY <1>1, <1>5, <2>1, <2>2, Zenon DEF NowHolds, ValueAfter
<1>6. CASE n \notin Replaced \cup {"content-length"} /\ n = "transfer-encoding" /\ IsChunked(v)
  <2>1. PICK g \in HeaderSets : /\ g = But(h, cl, none)
                                /\ \A k \in Names : g[k] = IF k = cl THEN none ELSE h[k]
    BY ButIs
  <2>2. HeadersAfter(h, n, v) = But(g, n, s)
    BY <1>1, <1>4, <1>6, <2>1 DEF HeadersAfter
  <2>3. /\ But(g, n, s) \in HeaderSets
        /\ \A k \in Names : But(g, n, s)[k] = IF k = n THEN s ELSE g[k]
    BY ButIs
  <2> QED BY <1>1, <1>4, <1>6, <2>1, <2>2, <2>3 DEF NowHolds, ValueAfter
<1>7. CASE n \notin Replaced \cup {"content-length"} /\ ~(n = "transfer-encoding" /\ IsChunked(v))
  <2>1. HeadersAfter(h, n, v) = But(h, n, t)
    BY <1>3, <1>7 DEF HeadersAfter
  <2>2. /\ But(h, n, t) \in HeaderSets
        /\ \A k \in Names : But(h, n, t)[k] = IF k = n THEN t ELSE h[k]
    BY ButIs
  <2> QED BY <1>3, <1>7, <2>1, <2>2 DEF NowHolds, ValueAfter
<1> QED BY <1>5, <1>6, <1>7, Zenon

\* header() for a name that is held once.
LEMMA PlainHeaders ==
  ASSUME NEW h \in HeaderSets, NEW n \in Names, NEW v \in STRING, n \in Replaced \cup {"content-length"}
  PROVE  \A k \in Names : HeadersAfter(h, n, v)[k] = IF k = n THEN One(v) ELSE h[k]
<1>1. n # "transfer-encoding"
  BY SMT DEF Replaced
<1>2. NowHolds(HeadersAfter(h, n, v), h, n, v)
  BY HeadersAfterIs, Zenon
<1> QED BY <1>1, <1>2, Zenon DEF NowHolds, ValueAfter

\* What header() does to a message.
LEMMA HeaderIs ==
  ASSUME NEW m \in MessageType, NEW n \in Names, NEW v \in STRING,
         n = "content-length" => Stoull(v) \in Nat
  PROVE  Header(m, Key(n), v)
           = With(m, HeadersAfter(m.headers, n, v),
                  IF n = "content-length" THEN Stoull(v) ELSE m.len,
                  IF n = "transfer-encoding" /\ IsChunked(v) THEN TRUE ELSE m.chunked)
<1>1. PICK cl \in Names : cl = "content-length"
  BY MessagesAssumption DEF Twice
<1>2. PICK h \in HeaderSets, l \in Nat, c \in BOOLEAN :
        h = m.headers /\ l = m.len /\ c = m.chunked /\ m = With(m, h, l, c)
  BY WithNothing, Zenon
<1>3. NoValue \in Texts /\ OneMore(NoValue, v) = One(v)
  BY TextsAre, Zenon
<1>4. PICK g \in HeaderSets : g = But(h, n, NoValue) /\ g[n] = NoValue
  BY <1>3, ButIs
<1>5. RemoveHeader(m, Key(n)) = With(m, g, l, c) /\ But(g, n, One(v)) = But(h, n, One(v))
  <2>1. But(But(h, n, NoValue), n, One(v)) = But(h, n, One(v))
    BY DEF But, HeaderSets
  <2> QED BY <1>2, <1>4, <2>1, RemoveHeaderIs, Zenon
<1>6. Key(Key(n).name) = Key(n) /\ Key(n).name = n
  BY DEF Key
<1>7. ASSUME NEW f \in HeaderSets, NEW i \in Nat, NEW d \in BOOLEAN
      PROVE  Put(With(m, f, i, d), n, Append(With(m, f, i, d).headers[n], v))
               = With(m, But(f, n, OneMore(f[n], v)), i, d)
  <2>1. With(m, f, i, d).headers = f
    BY WithIs
  <2>2. Append(With(m, f, i, d).headers[n], v) = OneMore(f[n], v)
    BY <2>1 DEF OneMore
  <2> QED BY <2>2, WithChanged
<1>8. CASE n \in Replaced
  <2>1. Header(m, Key(n), v) = Put(With(m, g, l, c), n, Append(With(m, g, l, c).headers[n], v))
    BY <1>5, <1>6, <1>8 DEF Header
  <2>2. n # "content-length" /\ n # "transfer-encoding"
    BY <1>8 DEF Replaced
  <2>3. HeadersAfter(h, n, v) = But(h, n, One(v))
    BY <1>8 DEF HeadersAfter
  <2> QED BY <1>2, <1>3, <1>4, <1>5, <1>7, <2>1, <2>2, <2>3
<1>9. CASE n = "content-length"
  <2>1. n \notin Replaced /\ n # "transfer-encoding"
    BY <1>9 DEF Replaced
  <2>2. PICK i \in Nat : i = Stoull(v)
    BY <1>9
  <2>3. Sized(With(m, g, l, c), i) = With(m, g, i, c)
    BY WithChanged, SMTT(60)
  <2>4. Header(m, Key(n), v)
          = Put(Sized(With(m, g, l, c), i), n, Append(Sized(With(m, g, l, c), i).headers[n], v))
    BY <1>5, <1>6, <1>9, <2>1, <2>2 DEF Header, Sized
  <2>5. HeadersAfter(h, n, v) = But(h, n, One(v))
    BY <1>9 DEF HeadersAfter
  <2>6. Header(m, Key(n), v) = With(m, But(h, n, One(v)), i, c)
    BY <1>3, <1>4, <1>5, <1>7, <2>3, <2>4
  <2> QED BY <1>2, <1>9, <2>1, <2>2, <2>5, <2>6, Zenon
<1>10. CASE n = "transfer-encoding" /\ IsChunked(v)
  <2>1. n \notin Replaced /\ n # cl
    BY <1>1, <1>10 DEF Replaced
  <2>2. PICK f \in HeaderSets : f = But(g, cl, NoValue) /\ f[n] = NoValue
    BY <1>3, <1>4, <2>1, ButIs
  <2>3. RemoveHeader(With(m, g, l, c), Key("content-length")) = With(m, f, l, c)
    <3>1. RemoveHeader(With(m, g, l, c), Key("content-length")) = Put(With(m, g, l, c), cl, NoValue)
      BY <1>1 DEF RemoveHeader, Key, NoValue
    <3> QED BY <2>2, <3>1, WithChanged
  <2>4. InChunks(With(m, f, l, c), TRUE) = With(m, f, l, TRUE) /\ TRUE \in BOOLEAN
    BY WithChanged
  <2>5. Header(m, Key(n), v)
          = Put(InChunks(With(m, f, l, c), TRUE), n, Append(InChunks(With(m, f, l, c), TRUE).headers[n], v))
    BY <1>1, <1>5, <1>6, <1>10, <2>1, <2>3 DEF Header, InChunks
  <2>6. HeadersAfter(h, n, v) = But(f, n, One(v))
    <3>1. HeadersAfter(h, n, v) = But(But(h, cl, NoValue), n, One(v))
      BY <1>1, <1>10, <2>1 DEF HeadersAfter
    <3>2. But(But(h, cl, NoValue), n, One(v)) = But(But(But(h, n, NoValue), cl, NoValue), n, One(v))
      BY <2>1 DEF But, HeaderSets
    <3> QED BY <1>4, <2>2, <3>1, <3>2, Zenon
  <2>7. Header(m, Key(n), v) = With(m, But(f, n, One(v)), l, TRUE)
    <3>1. PICK d \in BOOLEAN : d = TRUE
      OBVIOUS
    <3>2. Header(m, Key(n), v) = Put(With(m, f, l, d), n, Append(With(m, f, l, d).headers[n], v))
      BY <2>4, <2>5, <3>1, Zenon
    <3>3. Header(m, Key(n), v) = With(m, But(f, n, OneMore(f[n], v)), l, d)
      BY <1>7, <3>2
    <3> QED BY <1>3, <2>2, <3>1, <3>3, Zenon
  <2> QED BY <1>1, <1>2, <1>10, <2>1, <2>6, <2>7, Zenon
<1>11. CASE n \notin Replaced /\ n # "content-length" /\ ~(n = "transfer-encoding" /\ IsChunked(v))
  <2>1. Header(m, Key(n), v) = Put(m, n, Append(m.headers[n], v))
    BY <1>6, <1>11 DEF Header
  <2>2. HeadersAfter(h, n, v) = But(h, n, OneMore(h[n], v))
    BY <1>11 DEF HeadersAfter
  <2>3. Header(m, Key(n), v) = With(m, But(h, n, OneMore(h[n], v)), l, c)
    <3>1. Put(With(m, h, l, c), n, Append(With(m, h, l, c).headers[n], v))
            = With(m, But(h, n, OneMore(h[n], v)), l, c)
      BY <1>7
    <3> QED BY <1>2, <2>1, <3>1, Zenon
  <2> QED BY <1>2, <1>11, <2>2, <2>3, Zenon
<1> QED BY <1>8, <1>9, <1>10, <1>11, Zenon

\* What no setter of these classes changes but status.
Kept(to, m) == to.kind = m.kind /\ to.code = m.code /\ to.reason = m.reason

\* The fields header() leaves alone, and those it changes.
Headed(to, m, n, v) ==
  /\ to \in MessageType /\ Kept(to, m) /\ to.headers = HeadersAfter(m.headers, n, v)
  /\ to.len = IF n = "content-length" THEN Stoull(v) ELSE m.len
  /\ to.chunked = IF n = "transfer-encoding" /\ IsChunked(v) THEN TRUE ELSE m.chunked
  /\ to.protocol = m.protocol /\ to.keepalive = m.keepalive
  /\ to.default_keepalive = m.default_keepalive

\* header(), called with a key in lower case, changes these fields so.
LEMMA HeaderFields ==
  ASSUME NEW m \in MessageType, NEW n \in Names, NEW v \in STRING,
         n = "content-length" => Stoull(v) \in Nat
  PROVE  Headed(Header(m, Key(n), v), m, n, v)
<1>1. m.headers \in HeaderSets /\ m.len \in Nat /\ m.chunked \in BOOLEAN
  BY WithNothing, Zenon
<1>2. PICK h \in HeaderSets : h = HeadersAfter(m.headers, n, v)
  BY <1>1, HeadersAfterIs, Zenon DEF NowHolds
<1>3. PICK l \in Nat : l = IF n = "content-length" THEN Stoull(v) ELSE m.len
  BY <1>1, Zenon
<1>4. PICK c \in BOOLEAN : c = IF n = "transfer-encoding" /\ IsChunked(v) THEN TRUE ELSE m.chunked
  BY <1>1, Zenon
<1>5. Header(m, Key(n), v) = With(m, h, l, c)
  <2>1. Header(m, Key(n), v)
          = With(m, HeadersAfter(m.headers, n, v),
                 IF n = "content-length" THEN Stoull(v) ELSE m.len,
                 IF n = "transfer-encoding" /\ IsChunked(v) THEN TRUE ELSE m.chunked)
    BY HeaderIs
  <2> QED BY <1>2, <1>3, <1>4, <2>1, Zenon
<1>6. /\ With(m, h, l, c) \in MessageType
      /\ With(m, h, l, c).headers = h /\ With(m, h, l, c).len = l /\ With(m, h, l, c).chunked = c
      /\ With(m, h, l, c).protocol = m.protocol /\ With(m, h, l, c).keepalive = m.keepalive
      /\ With(m, h, l, c).default_keepalive = m.default_keepalive
      /\ With(m, h, l, c).kind = m.kind
      /\ With(m, h, l, c).code = m.code /\ With(m, h, l, c).reason = m.reason
  BY WithIs
<1> QED BY <1>2, <1>3, <1>4, <1>5, <1>6, Zenon DEF Headed, Kept

\* The same of remove_header, called with a key in lower case.
Unheaded(to, m, n) ==
  /\ to \in MessageType /\ Kept(to, m)
  /\ \A k \in Names : to.headers[k] = IF k = n THEN NoValue ELSE m.headers[k]
  /\ to.len = m.len /\ to.chunked = m.chunked
  /\ to.protocol = m.protocol /\ to.keepalive = m.keepalive
  /\ to.default_keepalive = m.default_keepalive

\* remove_header() changes these fields so.
LEMMA RemoveFields ==
  ASSUME NEW m \in MessageType, NEW n \in Names
  PROVE  Unheaded(RemoveHeader(m, Key(n)), m, n)
<1>1. PICK g \in HeaderSets, l \in Nat, c \in BOOLEAN : g = m.headers /\ l = m.len /\ c = m.chunked
  BY WithNothing, Zenon
<1>2. PICK none \in Texts : none = NoValue
  BY EmptySeq, Zenon DEF Texts, NoValue
<1>3. PICK h \in HeaderSets : /\ h = But(g, n, none)
                              /\ \A k \in Names : h[k] = IF k = n THEN none ELSE g[k]
  BY ButIs
<1>4. RemoveHeader(m, Key(n)) = With(m, h, l, c)
  BY <1>1, <1>2, <1>3, RemoveHeaderIs, Zenon
<1>5. /\ With(m, h, l, c) \in MessageType
      /\ With(m, h, l, c).headers = h /\ With(m, h, l, c).len = l /\ With(m, h, l, c).chunked = c
      /\ With(m, h, l, c).protocol = m.protocol /\ With(m, h, l, c).keepalive = m.keepalive
      /\ With(m, h, l, c).default_keepalive = m.default_keepalive
      /\ With(m, h, l, c).kind = m.kind
      /\ With(m, h, l, c).code = m.code /\ With(m, h, l, c).reason = m.reason
  BY WithIs
<1> QED BY <1>1, <1>2, <1>3, <1>4, <1>5, ZenonT(60) DEF Unheaded, Kept

\* A number is printed as a text that is read as the number.
LEMMA StoullIs ==
  ASSUME NEW n \in 0 .. MaxLength
  PROVE  /\ n \in Nat /\ ToString(n) \in STRING /\ ToString(n) # EmptyText
         /\ Stoull(ToString(n)) = n
<1>1. n \in Nat
  BY MessagesAssumption
<1>2. ToString(n) \in STRING /\ ToString(n) # EmptyText
  BY MessagesAssumption, Zenon
<1>3. \A i \in 0 .. MaxLength : ToString(i) = ToString(n) => i = n
  BY MessagesAssumption, Zenon
<1>4. Stoull(ToString(n)) \in 0 .. MaxLength /\ ToString(Stoull(ToString(n))) = ToString(n)
  BY Zenon DEF Stoull
<1> QED BY <1>1, <1>2, <1>3, <1>4, Zenon

\* What a user gives.
LEMMA GivenValues ==
  ASSUME NEW n \in Names, NEW v \in Values[n]
  PROVE  /\ v \in STRING
         /\ n = "content-length" => Stoull(v) \in Nat /\ v = ToString(Stoull(v))
         /\ n = "transfer-encoding" => v # EmptyText
<1>1. v \in STRING
  BY MessagesAssumption, Zenon
<1>2. ASSUME n = "content-length" PROVE Stoull(v) \in Nat /\ v = ToString(Stoull(v))
  <2>1. PICK i \in 0 .. MaxLength : v = ToString(i)
    BY <1>2, MessagesAssumption, ZenonT(60)
  <2> QED BY <2>1, StoullIs, Zenon
<1>3. ASSUME n = "transfer-encoding" PROVE v # EmptyText
  BY <1>3, MessagesAssumption, Zenon
<1> QED BY <1>1, <1>2, <1>3, Zenon

\* The encodings the classes themselves write.
LEMMA ChunkedTexts == IsChunked("Chunked") /\ ~IsChunked("trailers")
  BY MessagesAssumption, Zenon

\* The texts that the classes write are texts.
LEMMA OwnTextsAre ==
  /\ EmptyText \in STRING /\ "0" \in STRING /\ "GET" \in STRING /\ "NONE" \in STRING /\ "Damn!" \in STRING
  /\ "close" \in STRING /\ "keep-alive" \in STRING /\ "Chunked" \in STRING /\ "trailers" \in STRING
<1>1. OwnTexts \subseteq STRING
  BY MessagesAssumption, Zenon
<1> QED BY <1>1, Zenon DEF OwnTexts

\* The names whose header says what a member says.
LEMMA TwiceNames ==
  "connection" \in Names /\ "content-length" \in Names /\ "transfer-encoding" \in Names
  BY MessagesAssumption DEF Twice

\* Members set without their header.
LEMMA SetsChunked ==
  ASSUME NEW m \in MessageType, NEW val \in BOOLEAN
  PROVE  LET to == [m EXCEPT !.chunked = val]
         IN  /\ to \in MessageType /\ Kept(to, m) /\ to.headers = m.headers /\ to.len = m.len
             /\ to.chunked = val /\ to.protocol = m.protocol /\ to.keepalive = m.keepalive
             /\ to.default_keepalive = m.default_keepalive
  BY DEF MessageType, Kept

\* _keepalive is set.
LEMMA SetsKeepalive ==
  ASSUME NEW m \in MessageType, NEW val \in BOOLEAN
  PROVE  LET to == [m EXCEPT !.keepalive = val]
         IN  /\ to \in MessageType /\ Kept(to, m) /\ to.headers = m.headers /\ to.len = m.len
             /\ to.chunked = m.chunked /\ to.protocol = m.protocol /\ to.keepalive = val
             /\ to.default_keepalive = m.default_keepalive
  BY DEF MessageType, Kept

\* keepalive(val) before it writes the header.
Decided(m, val) == [m EXCEPT !.keepalive = val, !.default_keepalive = FALSE]

\* _keepalive is set and no longer follows the protocol.
LEMMA SetsNoDefault ==
  ASSUME NEW m \in MessageType, NEW val \in BOOLEAN
  PROVE  LET to == Decided(m, val)
         IN  /\ to \in MessageType /\ Kept(to, m) /\ to.headers = m.headers /\ to.len = m.len
             /\ to.chunked = m.chunked /\ to.protocol = m.protocol /\ to.keepalive = val
             /\ to.default_keepalive = FALSE
  BY DEF MessageType, Kept, Decided

\* _content_len is set.
LEMMA SetsLen ==
  ASSUME NEW m \in MessageType, NEW n \in Nat
  PROVE  LET to == [m EXCEPT !.len = n]
         IN  /\ to \in MessageType /\ Kept(to, m) /\ to.headers = m.headers /\ to.len = n
             /\ to.chunked = m.chunked /\ to.protocol = m.protocol /\ to.keepalive = m.keepalive
             /\ to.default_keepalive = m.default_keepalive
  BY DEF MessageType, Kept

\* _protocol is set.
LEMMA SetsProtocol ==
  ASSUME NEW m \in MessageType, NEW p \in Protocols
  PROVE  LET to == [m EXCEPT !.protocol = p]
         IN  /\ to \in MessageType /\ Kept(to, m) /\ to.headers = m.headers /\ to.len = m.len
             /\ to.chunked = m.chunked /\ to.protocol = p /\ to.keepalive = m.keepalive
             /\ to.default_keepalive = m.default_keepalive
  BY DEF MessageType, Kept

\* chunked(val).
LEMMA ChunkedFields ==
  ASSUME NEW m \in MessageType, NEW val \in BOOLEAN
  PROVE  LET to == Chunked(m, val)
         IN  /\ to \in MessageType /\ Kept(to, m) /\ to.len = m.len /\ to.chunked = val
             /\ to.protocol = m.protocol /\ to.keepalive = m.keepalive
             /\ to.default_keepalive = m.default_keepalive
             /\ val = m.chunked => to = m
             /\ val # m.chunked => \A k \in Names :
                  to.headers[k] = IF k = "transfer-encoding" THEN IF val THEN One("Chunked") ELSE NoValue
                                  ELSE IF k = "content-length" /\ val THEN NoValue ELSE m.headers[k]
<1>1. m.headers \in HeaderSets /\ m.chunked \in BOOLEAN
  BY WithNothing, Zenon
<1>2. PICK te \in Names : te = "transfer-encoding" /\ Key(te).name = te
  BY TwiceNames DEF Key
<1>3. CASE val = m.chunked
  <2>1. Chunked(m, val) = m
    BY <1>3 DEF Chunked
  <2> QED BY <1>1, <1>3, <2>1, Zenon DEF Kept
<1>4. CASE val # m.chunked /\ val
  <2>1. PICK v \in STRING : v = "Chunked" /\ IsChunked(v) /\ te # "content-length" /\ te \notin Replaced
    <3>1. te # "content-length" /\ te \notin Replaced
      BY <1>2, SMT DEF Replaced
    <3>2. "Chunked" \in STRING
      BY OwnTextsAre, Zenon
    <3> QED BY <3>1, <3>2, ChunkedTexts, Zenon
  <2>2. PICK on \in MessageType :
          /\ on = Header(m, Key(te), v) /\ on.headers = HeadersAfter(m.headers, te, v)
          /\ on.len = m.len /\ on.protocol = m.protocol /\ on.keepalive = m.keepalive
          /\ on.default_keepalive = m.default_keepalive /\ Kept(on, m)
    <3>1. Headed(Header(m, Key(te), v), m, te, v)
      BY <2>1, HeaderFields, Zenon
    <3> QED BY <2>1, <3>1, Zenon DEF Headed
  <2>3. Chunked(m, val) = [on EXCEPT !.chunked = val]
    BY <1>2, <1>4, <2>1, <2>2, Zenon DEF Chunked
  <2>4. LET to == [on EXCEPT !.chunked = val]
        IN  /\ to \in MessageType /\ Kept(to, on) /\ to.headers = on.headers /\ to.len = on.len
            /\ to.chunked = val /\ to.protocol = on.protocol /\ to.keepalive = on.keepalive
            /\ to.default_keepalive = on.default_keepalive
    BY SetsChunked
  <2>5. \A k \in Names : HeadersAfter(m.headers, te, v)[k]
          = IF k = te THEN One(v) ELSE IF k = "content-length" THEN NoValue ELSE m.headers[k]
    <3>1. NowHolds(HeadersAfter(m.headers, te, v), m.headers, te, v)
      BY <1>1, HeadersAfterIs, Zenon
    <3> QED BY <1>2, <2>1, <3>1, Zenon DEF NowHolds, ValueAfter
  <2>6. \A k \in Names : Chunked(m, val).headers[k]
          = IF k = "transfer-encoding" THEN IF val THEN One("Chunked") ELSE NoValue
            ELSE IF k = "content-length" /\ val THEN NoValue ELSE m.headers[k]
    <3>1. Chunked(m, val).headers = HeadersAfter(m.headers, te, v)
      BY <2>2, <2>3, <2>4, Zenon
    <3>2. \A k \in Names : Chunked(m, val).headers[k]
            = IF k = "transfer-encoding" THEN One("Chunked")
              ELSE IF k = "content-length" THEN NoValue ELSE m.headers[k]
      BY <1>2, <2>1, <2>5, <3>1, Zenon
    <3> QED BY <1>4, <3>2, Zenon
  <2> QED BY <1>4, <2>2, <2>3, <2>4, <2>6, Zenon DEF Kept
<1>5. CASE val # m.chunked /\ ~val
  <2>1. PICK off \in MessageType :
          /\ off = RemoveHeader(m, Key(te))
          /\ \A k \in Names : off.headers[k] = IF k = te THEN NoValue ELSE m.headers[k]
          /\ off.len = m.len /\ off.protocol = m.protocol /\ off.keepalive = m.keepalive
          /\ off.default_keepalive = m.default_keepalive /\ Kept(off, m)
    BY RemoveFields, Zenon DEF Unheaded
  <2>2. Chunked(m, val) = [off EXCEPT !.chunked = val]
    BY <1>2, <1>5, <2>1, Zenon DEF Chunked
  <2>3. LET to == [off EXCEPT !.chunked = val]
        IN  /\ to \in MessageType /\ Kept(to, off) /\ to.headers = off.headers /\ to.len = off.len
            /\ to.chunked = val /\ to.protocol = off.protocol /\ to.keepalive = off.keepalive
            /\ to.default_keepalive = off.default_keepalive
    BY SetsChunked
  <2>4. \A k \in Names : Chunked(m, val).headers[k]
          = IF k = "transfer-encoding" THEN IF val THEN One("Chunked") ELSE NoValue
            ELSE IF k = "content-length" /\ val THEN NoValue ELSE m.headers[k]
    <3>1. Chunked(m, val).headers = off.headers
      BY <2>2, <2>3, Zenon
    <3> QED BY <1>2, <1>5, <2>1, <3>1, SMTT(60)
  <2> QED BY <1>5, <2>1, <2>2, <2>3, <2>4, Zenon DEF Kept
<1> QED BY <1>3, <1>4, <1>5, Zenon

\* keepalive(val).
KeepaliveText(val) == IF val THEN "keep-alive" ELSE "close"

\* keepalive(val) changes these fields so.
LEMMA KeepaliveFields ==
  ASSUME NEW m \in MessageType, NEW val \in BOOLEAN
  PROVE  LET to == Keepalive(m, val)
         IN  /\ to \in MessageType /\ Kept(to, m) /\ to.len = m.len /\ to.chunked = m.chunked
             /\ to.protocol = m.protocol /\ to.keepalive = val /\ to.default_keepalive = FALSE
             /\ \A k \in Names : to.headers[k]
                  = IF k = "connection" THEN One(KeepaliveText(val)) ELSE m.headers[k]
<1>1. PICK n \in Names : n = "connection" /\ n \in Replaced /\ n # "content-length" /\ n # "transfer-encoding"
  BY TwiceNames, SMT DEF Replaced
<1>2. PICK v \in STRING : v = KeepaliveText(val)
  BY OwnTextsAre, Zenon DEF KeepaliveText
<1>3. PICK on \in MessageType :
        /\ on = Decided(m, val)
        /\ Kept(on, m) /\ on.headers = m.headers /\ on.len = m.len
        /\ on.chunked = m.chunked /\ on.protocol = m.protocol /\ on.keepalive = val
        /\ on.default_keepalive = FALSE
  BY SetsNoDefault, Zenon
<1>4. Keepalive(m, val) = Header(on, Key(n), v)
  BY <1>1, <1>2, <1>3, Zenon DEF Keepalive, KeepaliveText, Decided
<1>5. Headed(Header(on, Key(n), v), on, n, v)
  BY <1>1, HeaderFields, Zenon
<1>6. \A k \in Names : HeadersAfter(m.headers, n, v)[k] = IF k = n THEN One(v) ELSE m.headers[k]
  <2>1. m.headers \in HeaderSets
    BY WithNothing, Zenon
  <2> QED BY <1>1, <2>1, PlainHeaders
<1>7. \A k \in Names : Keepalive(m, val).headers[k]
        = IF k = "connection" THEN One(KeepaliveText(val)) ELSE m.headers[k]
  BY <1>1, <1>2, <1>3, <1>4, <1>5, <1>6, Zenon DEF Headed
<1> QED BY <1>1, <1>3, <1>4, <1>5, <1>7, Zenon DEF Headed, Kept

\* content_len(n).
LEMMA ContentLenFields ==
  ASSUME NEW m \in MessageType, NEW n \in 0 .. MaxLength
  PROVE  LET to == ContentLen(m, n)
         IN  /\ to \in MessageType /\ Kept(to, m) /\ to.len = n /\ to.chunked = m.chunked
             /\ to.protocol = m.protocol /\ to.keepalive = m.keepalive
             /\ to.default_keepalive = m.default_keepalive
             /\ \A k \in Names : to.headers[k]
                  = IF k = "content-length" THEN One(ToString(n)) ELSE m.headers[k]
<1>1. PICK cl \in Names : cl = "content-length" /\ cl # "transfer-encoding"
  BY TwiceNames, SMT
<1>2. PICK v \in STRING : v = ToString(n) /\ Stoull(v) = n /\ n \in Nat
  BY StoullIs, Zenon
<1>3. PICK to \in MessageType :
        /\ to = [m EXCEPT !.len = n] /\ Kept(to, m) /\ to.headers = m.headers /\ to.len = n
        /\ to.chunked = m.chunked /\ to.protocol = m.protocol /\ to.keepalive = m.keepalive
        /\ to.default_keepalive = m.default_keepalive
  BY <1>2, SetsLen, Zenon
<1>4. PICK off \in MessageType : off = RemoveHeader(to, Key(cl)) /\ Unheaded(off, to, cl)
  BY RemoveFields, Zenon DEF Unheaded
<1>5. ContentLen(m, n) = Header(off, Key(cl), v)
  BY <1>1, <1>2, <1>3, <1>4, Zenon DEF ContentLen
<1>6. Headed(Header(off, Key(cl), v), off, cl, v)
  BY <1>2, HeaderFields, Zenon
<1>7. \A k \in Names : HeadersAfter(off.headers, cl, v)[k] = IF k = cl THEN One(v) ELSE off.headers[k]
  <2>1. off.headers \in HeaderSets
    BY WithNothing, Zenon
  <2> QED BY <1>1, <2>1, PlainHeaders
<1>8. \A k \in Names : ContentLen(m, n).headers[k]
        = IF k = "content-length" THEN One(ToString(n)) ELSE m.headers[k]
  <2>1. \A k \in Names : off.headers[k] = IF k = cl THEN NoValue ELSE m.headers[k]
    BY <1>3, <1>4, Zenon DEF Unheaded
  <2>2. ContentLen(m, n).headers = HeadersAfter(off.headers, cl, v)
    BY <1>5, <1>6, Zenon DEF Headed
  <2> QED BY <1>1, <1>2, <1>7, <2>1, <2>2, Zenon
<1>9. ContentLen(m, n).len = n /\ ContentLen(m, n).chunked = m.chunked
  BY <1>1, <1>2, <1>3, <1>4, <1>5, <1>6, Zenon DEF Headed, Unheaded
<1> QED BY <1>3, <1>4, <1>5, <1>6, <1>8, <1>9, ZenonT(60) DEF Headed, Unheaded, Kept

\* protocol(val), when it changes the protocol of a message whose keepalive nobody set.
LEMMA ProtocolFields ==
  ASSUME NEW m \in MessageType, NEW val \in Protocols \ {"UNSET"}
  PROVE  LET to == Protocol(m, val)
         IN  /\ to \in MessageType /\ Kept(to, m) /\ to.len = m.len /\ to.chunked = m.chunked
             /\ to.protocol = val /\ to.default_keepalive = m.default_keepalive
             /\ val = m.protocol => to = m
             /\ \A k \in Names \ {"connection"} : to.headers[k] = m.headers[k]
             /\ ~m.default_keepalive => to.headers = m.headers /\ to.keepalive = m.keepalive
             /\ m.default_keepalive /\ val # m.protocol =>
                  /\ val = "HTTP11" => to.keepalive = TRUE /\ to.headers["connection"] = NoValue
                  /\ val = "HTTP10" => to.keepalive = FALSE /\ to.headers["connection"] = One("close")
<1>1. PICK n \in Names : n = "connection" /\ n \in Replaced /\ n # "content-length" /\ n # "transfer-encoding"
  BY TwiceNames, SMT DEF Replaced
<1>2. PICK to \in MessageType :
        /\ to = [m EXCEPT !.protocol = val] /\ Kept(to, m) /\ to.headers = m.headers /\ to.len = m.len
        /\ to.chunked = m.chunked /\ to.protocol = val /\ to.keepalive = m.keepalive
        /\ to.default_keepalive = m.default_keepalive
  BY SetsProtocol, Zenon
<1>3. PICK bare \in MessageType : bare = RemoveHeader(to, Key(n)) /\ Unheaded(bare, to, n)
  BY RemoveFields, Zenon DEF Unheaded
<1>4. CASE val = m.protocol
  <2>1. Protocol(m, val) = m
    BY <1>4, Zenon DEF Protocol
  <2> QED BY <1>4, <2>1, Zenon DEF Kept
<1>5. CASE val # m.protocol /\ ~m.default_keepalive
  <2>1. Protocol(m, val) = to
    BY <1>2, <1>5, Zenon DEF Protocol
  <2> QED BY <1>2, <1>5, <2>1, Zenon
<1>6. CASE val # m.protocol /\ m.default_keepalive /\ val = "HTTP11"
  <2>1. Protocol(m, val) = [bare EXCEPT !.keepalive = TRUE]
    BY <1>1, <1>2, <1>3, <1>6, Zenon DEF Protocol
  <2>2. PICK on \in MessageType :
          /\ on = [bare EXCEPT !.keepalive = TRUE] /\ Kept(on, bare) /\ on.headers = bare.headers
          /\ on.len = bare.len /\ on.chunked = bare.chunked /\ on.protocol = bare.protocol
          /\ on.keepalive = TRUE /\ on.default_keepalive = bare.default_keepalive
    BY SetsKeepalive, Zenon
  <2>3. \A k \in Names : on.headers[k] = IF k = n THEN NoValue ELSE m.headers[k]
    <3>1. \A k \in Names : bare.headers[k] = IF k = n THEN NoValue ELSE m.headers[k]
      BY <1>2, <1>3, Zenon DEF Unheaded
    <3> QED BY <2>2, <3>1, Zenon
  <2>4. on.len = m.len /\ on.chunked = m.chunked /\ on.protocol = val
        /\ on.default_keepalive = m.default_keepalive
    BY <1>2, <1>3, <2>2, Zenon DEF Unheaded
  <2>5. Kept(on, m)
    BY <1>2, <1>3, <2>2, Zenon DEF Unheaded, Kept
  <2> QED BY <1>1, <1>6, <2>1, <2>2, <2>3, <2>4, <2>5, ZenonT(60)
<1>7. CASE val # m.protocol /\ m.default_keepalive /\ val = "HTTP10"
  <2>1. PICK v \in STRING : v = "close"
    BY OwnTextsAre, Zenon
  <2>2. PICK on \in MessageType : on = Header(bare, Key(n), v) /\ Headed(on, bare, n, v)
    BY <1>1, HeaderFields, Zenon DEF Headed
  <2>3. Protocol(m, val) = [on EXCEPT !.keepalive = FALSE]
    BY <1>1, <1>2, <1>3, <1>7, <2>1, <2>2, Zenon DEF Protocol
  <2>4. PICK off \in MessageType :
          /\ off = [on EXCEPT !.keepalive = FALSE] /\ Kept(off, on) /\ off.headers = on.headers
          /\ off.len = on.len /\ off.chunked = on.chunked /\ off.protocol = on.protocol
          /\ off.keepalive = FALSE /\ off.default_keepalive = on.default_keepalive
    BY SetsKeepalive, Zenon
  <2>5. \A k \in Names : HeadersAfter(bare.headers, n, v)[k] = IF k = n THEN One(v) ELSE bare.headers[k]
    <3>1. bare.headers \in HeaderSets
      BY WithNothing, Zenon
    <3> QED BY <1>1, <3>1, PlainHeaders
  <2>6. \A k \in Names : off.headers[k] = IF k = n THEN One(v) ELSE m.headers[k]
    <3>1. \A k \in Names : bare.headers[k] = IF k = n THEN NoValue ELSE m.headers[k]
      BY <1>2, <1>3, Zenon DEF Unheaded
    <3>2. off.headers = HeadersAfter(bare.headers, n, v)
      BY <2>2, <2>4, Zenon DEF Headed
    <3> QED BY <2>5, <3>1, <3>2, Zenon
  <2>7. /\ on.len = bare.len /\ on.chunked = bare.chunked /\ on.protocol = bare.protocol
        /\ on.default_keepalive = bare.default_keepalive /\ Kept(on, bare)
    BY <1>1, <2>2, Zenon DEF Headed
  <2>8. /\ bare.len = m.len /\ bare.chunked = m.chunked /\ bare.protocol = val
        /\ bare.default_keepalive = m.default_keepalive /\ Kept(bare, m)
    BY <1>2, <1>3, Zenon DEF Unheaded, Kept
  <2>9. Kept(off, m)
    BY <2>4, <2>7, <2>8, Zenon DEF Kept
  <2> QED BY <1>1, <1>7, <2>1, <2>3, <2>4, <2>6, <2>7, <2>8, <2>9, ZenonT(60)
<1>8. CASE val # m.protocol /\ m.default_keepalive /\ val # "HTTP10" /\ val # "HTTP11"
  <2>1. Protocol(m, val) = bare
    BY <1>1, <1>2, <1>3, <1>8, Zenon DEF Protocol
  <2> QED BY <1>1, <1>2, <1>3, <1>8, <2>1, ZenonT(60) DEF Unheaded, Kept
<1> QED BY <1>4, <1>5, <1>6, <1>7, <1>8, Zenon

-----------------------------------------------------------------------------
(* The inductive invariant of the message. *)

\* The connection header, unless it was written by hand: protocol() decides as long as
\* keepalive() was not called.
ConnectionSays(m, r) ==
  "connection" \notin r =>
    IF m.default_keepalive
    THEN /\ m.protocol = "HTTP11" => m.keepalive /\ m.headers["connection"] = NoValue
         /\ m.protocol = "HTTP10" => ~m.keepalive /\ m.headers["connection"] = One("close")
    ELSE m.headers["connection"] = One(KeepaliveText(m.keepalive))

\* The encoding, unless it was changed by hand.
EncodingSays(m, r) ==
  "transfer-encoding" \notin r =>
    m.headers["transfer-encoding"] = IF m.chunked THEN One("Chunked") ELSE NoValue

LengthSays(m) == m.headers["content-length"] = NoValue \/ m.headers["content-length"] = One(ToString(m.len))

OneLength(m, r) ==
  "transfer-encoding" \notin r /\ "content-length" \notin r /\ m.chunked =>
    m.headers["content-length"] = NoValue \/ m.len = 0

EncodingNamed(m) ==
  m.headers["transfer-encoding"] # NoValue => m.headers["transfer-encoding"][1] # EmptyText

HeadIs(m, r) ==
  /\ m \in MessageType /\ r \subseteq Twice
  /\ ConnectionSays(m, r) /\ EncodingSays(m, r) /\ LengthSays(m)
  /\ OneLength(m, r) /\ EncodingNamed(m)

HeadInv == HeadIs(msg, raw)

\* These names differ.
LEMMA ThreeNames ==
  /\ "connection" # "content-length" /\ "connection" # "transfer-encoding"
  /\ "content-length" # "transfer-encoding"
  BY SMT

\* The first value of a name stays the first.
LEMMA FirstOf ==
  ASSUME NEW s \in Texts, NEW v \in STRING
  PROVE  One(v)[1] = v /\ (s # NoValue => OneMore(s, v)[1] = s[1])
<1>1. One(v)[1] = v
  BY DEF One
<1>2. ASSUME s # NoValue PROVE OneMore(s, v)[1] = s[1]
  <2>1. Len(s) \in Nat \ {0}
    BY <1>2, EmptySeq, Zenon DEF Texts, NoValue
  <2>2. 1 \in 1 .. Len(s)
    BY <2>1, SMT
  <2>3. s \in Seq(STRING)
    BY Zenon DEF Texts
  <2>4. \A i \in 1 .. Len(s) : Append(s, v)[i] = s[i]
    BY <2>3, AppendProperties
  <2> QED BY <2>2, <2>4, Zenon DEF OneMore
<1> QED BY <1>1, <1>2, Zenon

\* keepalive() preserves the invariant.
LEMMA KeepaliveStep ==
  ASSUME NEW m, NEW r, HeadIs(m, r), NEW val \in BOOLEAN
  PROVE  HeadIs(Keepalive(m, val), r \ {"connection"})
<1>1. m \in MessageType /\ r \subseteq Twice
  BY Zenon DEF HeadIs
<1>2. PICK to \in MessageType :
        /\ to = Keepalive(m, val) /\ Kept(to, m) /\ to.len = m.len /\ to.chunked = m.chunked
        /\ to.protocol = m.protocol /\ to.keepalive = val /\ to.default_keepalive = FALSE
        /\ \A k \in Names : to.headers[k]
             = IF k = "connection" THEN One(KeepaliveText(val)) ELSE m.headers[k]
  BY <1>1, KeepaliveFields, Zenon
<1>3. /\ to.headers["connection"] = One(KeepaliveText(val))
      /\ to.headers["content-length"] = m.headers["content-length"]
      /\ to.headers["transfer-encoding"] = m.headers["transfer-encoding"]
  BY <1>2, TwiceNames, ThreeNames, Zenon
<1>4. ConnectionSays(to, r \ {"connection"})
  BY <1>2, <1>3, Zenon DEF ConnectionSays
<1>5. EncodingSays(to, r \ {"connection"}) /\ OneLength(to, r \ {"connection"})
  BY <1>2, <1>3, ThreeNames, Zenon DEF EncodingSays, OneLength, HeadIs
<1>6. LengthSays(to) /\ EncodingNamed(to)
  BY <1>2, <1>3, Zenon DEF LengthSays, EncodingNamed, HeadIs, Kept
<1> QED BY <1>1, <1>2, <1>4, <1>5, <1>6, Zenon DEF HeadIs

\* chunked() preserves it.
LEMMA ChunkedStep ==
  ASSUME NEW m, NEW r, HeadIs(m, r), NEW val \in BOOLEAN
  PROVE  HeadIs(Chunked(m, val), r \ IF val = m.chunked THEN {} ELSE {"transfer-encoding"})
<1>1. m \in MessageType /\ r \subseteq Twice
  BY Zenon DEF HeadIs
<1>2. CASE val = m.chunked
  <2>1. Chunked(m, val) = m
    BY <1>2, Zenon DEF Chunked
  <2>2. r \ {} = r
    BY Zenon
  <2> QED BY <1>2, <2>1, <2>2, Zenon
<1>3. CASE val # m.chunked
  <2>1. PICK to \in MessageType :
          /\ to = Chunked(m, val) /\ Kept(to, m) /\ to.len = m.len /\ to.chunked = val
          /\ to.protocol = m.protocol /\ to.keepalive = m.keepalive
          /\ to.default_keepalive = m.default_keepalive
          /\ \A k \in Names :
               to.headers[k] = IF k = "transfer-encoding" THEN IF val THEN One("Chunked") ELSE NoValue
                               ELSE IF k = "content-length" /\ val THEN NoValue ELSE m.headers[k]
    <3>1. LET to == Chunked(m, val)
          IN  /\ to \in MessageType /\ Kept(to, m) /\ to.len = m.len /\ to.chunked = val
              /\ to.protocol = m.protocol /\ to.keepalive = m.keepalive
              /\ to.default_keepalive = m.default_keepalive
              /\ val = m.chunked => to = m
              /\ val # m.chunked => \A k \in Names :
                   to.headers[k] = IF k = "transfer-encoding" THEN IF val THEN One("Chunked") ELSE NoValue
                                   ELSE IF k = "content-length" /\ val THEN NoValue ELSE m.headers[k]
      BY <1>1, ChunkedFields
    <3> QED BY <1>3, <3>1, Zenon
  <2>2. /\ to.headers["connection"] = m.headers["connection"]
        /\ to.headers["content-length"] = IF val THEN NoValue ELSE m.headers["content-length"]
        /\ to.headers["transfer-encoding"] = IF val THEN One("Chunked") ELSE NoValue
    BY <2>1, TwiceNames, ThreeNames, Zenon
  <2>3. ConnectionSays(to, r \ {"transfer-encoding"})
    BY <2>1, <2>2, ThreeNames, Zenon DEF ConnectionSays, HeadIs
  <2>4. EncodingSays(to, r \ {"transfer-encoding"}) /\ OneLength(to, r \ {"transfer-encoding"})
    BY <2>1, <2>2, Zenon DEF EncodingSays, OneLength
  <2>5. LengthSays(to)
    BY <2>1, <2>2, Zenon DEF LengthSays, HeadIs, Kept
  <2>6. EncodingNamed(to)
    <3>1. One("Chunked")[1] # EmptyText
      <4>1. One("Chunked")[1] = "Chunked"
        BY DEF One
      <4>2. "Chunked" # EmptyText
        BY Zenon DEF EmptyText
      <4> QED BY <4>1, <4>2, Zenon
    <3> QED BY <2>2, <3>1, Zenon DEF EncodingNamed
  <2> QED BY <1>1, <1>3, <2>1, <2>3, <2>4, <2>5, <2>6, Zenon DEF HeadIs
<1> QED BY <1>2, <1>3, Zenon

\* content_len() preserves it, when its assertion holds.
LEMMA ContentLenStep ==
  ASSUME NEW m, NEW r, HeadIs(m, r), NEW n \in Lengths, ~m.chunked \/ n = 0
  PROVE  HeadIs(ContentLen(m, n), r \ {"content-length"})
<1>1. m \in MessageType /\ r \subseteq Twice /\ n \in 0 .. MaxLength
  BY MessagesAssumption, Zenon DEF HeadIs
<1>2. PICK to \in MessageType :
        /\ to = ContentLen(m, n) /\ Kept(to, m) /\ to.len = n /\ to.chunked = m.chunked
        /\ to.protocol = m.protocol /\ to.keepalive = m.keepalive
        /\ to.default_keepalive = m.default_keepalive
        /\ \A k \in Names : to.headers[k]
             = IF k = "content-length" THEN One(ToString(n)) ELSE m.headers[k]
  BY <1>1, ContentLenFields, Zenon
<1>3. /\ to.headers["connection"] = m.headers["connection"]
      /\ to.headers["content-length"] = One(ToString(n))
      /\ to.headers["transfer-encoding"] = m.headers["transfer-encoding"]
  BY <1>2, TwiceNames, ThreeNames, Zenon
<1>4. ConnectionSays(to, r \ {"content-length"}) /\ EncodingSays(to, r \ {"content-length"})
  BY <1>2, <1>3, ThreeNames, Zenon DEF ConnectionSays, EncodingSays, HeadIs
<1>5. LengthSays(to) /\ OneLength(to, r \ {"content-length"})
  BY <1>2, <1>3, Zenon DEF LengthSays, OneLength
<1>6. EncodingNamed(to)
  BY <1>2, <1>3, Zenon DEF EncodingNamed, HeadIs, Kept
<1> QED BY <1>1, <1>2, <1>4, <1>5, <1>6, Zenon DEF HeadIs

\* protocol() preserves it.
LEMMA ProtocolStep ==
  ASSUME NEW m, NEW r, HeadIs(m, r), NEW val \in Protocols \ {"UNSET"}
  PROVE  HeadIs(Protocol(m, val),
                r \ IF val # m.protocol /\ m.default_keepalive THEN {"connection"} ELSE {})
<1>1. m \in MessageType /\ r \subseteq Twice
  BY Zenon DEF HeadIs
<1>2. r \ {} = r
  BY Zenon
<1>3. CASE val = m.protocol
  <2>1. Protocol(m, val) = m
    BY <1>3, Zenon DEF Protocol
  <2> QED BY <1>2, <1>3, <2>1, Zenon
<1>4. CASE val # m.protocol
  <2>1. PICK to \in MessageType :
          /\ to = Protocol(m, val) /\ Kept(to, m) /\ to.len = m.len /\ to.chunked = m.chunked
          /\ to.protocol = val /\ to.default_keepalive = m.default_keepalive
          /\ \A k \in Names \ {"connection"} : to.headers[k] = m.headers[k]
          /\ ~m.default_keepalive => to.headers = m.headers /\ to.keepalive = m.keepalive
          /\ m.default_keepalive =>
               /\ val = "HTTP11" => to.keepalive = TRUE /\ to.headers["connection"] = NoValue
               /\ val = "HTTP10" => to.keepalive = FALSE /\ to.headers["connection"] = One("close")
    BY <1>1, <1>4, ProtocolFields, Zenon
  <2>2. /\ to.headers["content-length"] = m.headers["content-length"]
        /\ to.headers["transfer-encoding"] = m.headers["transfer-encoding"]
    BY <2>1, TwiceNames, ThreeNames, Zenon
  <2>3. PICK q : q = r \ IF val # m.protocol /\ m.default_keepalive THEN {"connection"} ELSE {}
    BY Zenon
  <2>4. /\ q \subseteq Twice /\ ("transfer-encoding" \in q <=> "transfer-encoding" \in r)
        /\ ("content-length" \in q <=> "content-length" \in r)
        /\ ~m.default_keepalive => q = r
    BY <1>1, <1>2, <2>3, ThreeNames, Zenon
  <2>5. ConnectionSays(to, q)
    <3>1. CASE m.default_keepalive
      BY <2>1, <3>1, Zenon DEF ConnectionSays
    <3>2. CASE ~m.default_keepalive
      BY <2>1, <2>4, <3>2, Zenon DEF ConnectionSays, HeadIs
    <3> QED BY <3>1, <3>2, Zenon
  <2>6. EncodingSays(to, q) /\ OneLength(to, q)
    BY <2>1, <2>2, <2>4, Zenon DEF EncodingSays, OneLength, HeadIs
  <2>7. LengthSays(to) /\ EncodingNamed(to)
    BY <2>1, <2>2, Zenon DEF LengthSays, EncodingNamed, HeadIs, Kept
  <2> QED BY <2>1, <2>3, <2>4, <2>5, <2>6, <2>7, Zenon DEF HeadIs
<1> QED BY <1>3, <1>4, Zenon

\* remove_header() preserves it, with a key in any case.
LEMMA RemoveStep ==
  ASSUME NEW m, NEW r, HeadIs(m, r), NEW key \in Keys
  PROVE  HeadIs(RemoveHeader(m, key), IF key.lower THEN r \cup ({key.name} \cap Twice) ELSE r)
<1>1. m \in MessageType /\ r \subseteq Twice
  BY Zenon DEF HeadIs
<1>2. CASE ~key.lower
  <2>1. RemoveHeader(m, key) = m
    BY <1>2, Zenon DEF RemoveHeader
  <2> QED BY <1>2, <2>1, Zenon
<1>3. CASE key.lower
  <2>1. PICK n \in Names : n = key.name
    BY DEF Keys
  <2>2. RemoveHeader(m, key) = RemoveHeader(m, Key(n))
    BY <1>3, <2>1 DEF RemoveHeader, Key
  <2>3. PICK to \in MessageType : to = RemoveHeader(m, Key(n)) /\ Unheaded(to, m, n)
    BY <1>1, RemoveFields, Zenon DEF Unheaded
  <2>4. \A k \in Names : to.headers[k] = IF k = n THEN NoValue ELSE m.headers[k]
    BY <2>3, Zenon DEF Unheaded
  <2>5. PICK q : q = r \cup ({n} \cap Twice)
    BY Zenon
  <2>6. /\ q \subseteq Twice /\ \A k \in Twice : k \notin q => k \notin r /\ k # n
    BY <1>1, <2>5, Zenon
  <2>7. ASSUME NEW k \in Twice, k \notin q
        PROVE  k \notin r /\ to.headers[k] = m.headers[k]
    <3>1. k \in Names
      BY MessagesAssumption, Zenon
    <3> QED BY <2>4, <2>6, <2>7, <3>1, Zenon
  <2>8. "connection" \in Twice /\ "content-length" \in Twice /\ "transfer-encoding" \in Twice
    BY Zenon DEF Twice
  <2>9. ConnectionSays(to, q)
    BY <2>3, <2>7, <2>8, Zenon DEF ConnectionSays, HeadIs, Unheaded
  <2>10. EncodingSays(to, q)
    BY <2>3, <2>7, <2>8, Zenon DEF EncodingSays, HeadIs, Unheaded
  <2>11. OneLength(to, q)
    BY <2>3, <2>7, <2>8, Zenon DEF OneLength, HeadIs, Unheaded
  <2>12. LengthSays(to) /\ EncodingNamed(to)
    BY <2>3, <2>4, TwiceNames, Zenon DEF LengthSays, EncodingNamed, HeadIs, Unheaded
  <2> QED BY <1>3, <2>1, <2>2, <2>3, <2>5, <2>6, <2>9, <2>10, <2>11, <2>12, Zenon DEF HeadIs
<1> QED BY <1>2, <1>3, Zenon

\* header() preserves it.
LEMMA HeaderStep ==
  ASSUME NEW m, NEW r, HeadIs(m, r), NEW key \in Keys, NEW v \in Values[key.name]
  PROVE  HeadIs(Header(m, key, v), r \cup ({key.name} \cap Twice))
<1>1. m \in MessageType /\ r \subseteq Twice
  BY Zenon DEF HeadIs
<1>2. PICK n \in Names : n = key.name
  BY DEF Keys
<1>3. /\ v \in STRING
      /\ n = "content-length" => Stoull(v) \in Nat /\ v = ToString(Stoull(v))
      /\ n = "transfer-encoding" => v # EmptyText
  BY <1>2, GivenValues, Zenon
<1>4. Header(m, key, v) = Header(m, Key(n), v)
  <2>1. Key(Key(n).name) = Key(key.name)
    BY <1>2 DEF Key
  <2> QED BY <2>1, Zenon DEF Header
<1>5. PICK to \in MessageType : to = Header(m, Key(n), v) /\ Headed(to, m, n, v)
  BY <1>1, <1>3, HeaderFields, Zenon DEF Headed
<1>6. m.headers \in HeaderSets
  BY <1>1, WithNothing, Zenon
<1>7. \A k \in Names : to.headers[k] = ValueAfter(m.headers, n, v, k)
  <2>1. NowHolds(HeadersAfter(m.headers, n, v), m.headers, n, v)
    BY <1>3, <1>6, HeadersAfterIs, Zenon
  <2> QED BY <1>5, <2>1, Zenon DEF Headed, NowHolds
<1>8. PICK q : q = r \cup ({n} \cap Twice)
  BY Zenon
<1>9. /\ q \subseteq Twice /\ \A k \in Twice : k \notin q => k \notin r /\ k # n
  BY <1>1, <1>8, Zenon
<1>10. "connection" \in Twice /\ "content-length" \in Twice /\ "transfer-encoding" \in Twice
  BY Zenon DEF Twice
<1>11. ConnectionSays(to, q)
  <2>1. ASSUME "connection" \notin q
        PROVE  "connection" \notin r /\ to.headers["connection"] = m.headers["connection"]
    BY <1>7, <1>9, <1>10, <2>1, TwiceNames, ThreeNames, Zenon DEF ValueAfter
  <2>2. to.protocol = m.protocol /\ to.keepalive = m.keepalive
        /\ to.default_keepalive = m.default_keepalive
    BY <1>5, Zenon DEF Headed
  <2> QED BY <2>1, <2>2, Zenon DEF ConnectionSays, HeadIs
<1>12. EncodingSays(to, q) /\ OneLength(to, q)
  <2>1. ASSUME "transfer-encoding" \notin q
        PROVE  /\ "transfer-encoding" \notin r /\ n # "transfer-encoding"
               /\ to.headers["transfer-encoding"] = m.headers["transfer-encoding"]
    BY <1>7, <1>9, <1>10, <2>1, TwiceNames, ThreeNames, Zenon DEF ValueAfter
  <2>2. ASSUME "transfer-encoding" \notin q PROVE to.chunked = m.chunked
    BY <1>5, <2>1, <2>2, Zenon DEF Headed
  <2>3. ASSUME "transfer-encoding" \notin q, "content-length" \notin q
        PROVE  /\ "content-length" \notin r /\ to.len = m.len
               /\ to.headers["content-length"] = m.headers["content-length"]
    <3>1. n # "content-length" /\ "content-length" \notin r
      BY <1>9, <1>10, <2>3, Zenon
    <3>2. to.len = m.len
      BY <1>5, <3>1, Zenon DEF Headed
    <3> QED BY <1>7, <2>1, <2>3, <3>1, <3>2, TwiceNames, Zenon DEF ValueAfter
  <2>4. EncodingSays(to, q)
    BY <2>1, <2>2, Zenon DEF EncodingSays, HeadIs
  <2>5. OneLength(to, q)
    BY <2>1, <2>2, <2>3, Zenon DEF OneLength, HeadIs
  <2> QED BY <2>4, <2>5, Zenon
<1>13. LengthSays(to)
  <2>1. CASE n = "content-length"
    <3>1. to.headers["content-length"] = One(v) /\ to.len = Stoull(v)
      BY <1>5, <1>7, <2>1, Zenon DEF Headed, ValueAfter
    <3> QED BY <1>3, <2>1, <3>1, Zenon DEF LengthSays
  <2>2. CASE n # "content-length"
    <3>1. to.len = m.len
      BY <1>5, <2>2, Zenon DEF Headed
    <3>2. to.headers["content-length"] = NoValue \/ to.headers["content-length"] = m.headers["content-length"]
      BY <1>7, <2>2, TwiceNames, Zenon DEF ValueAfter
    <3> QED BY <3>1, <3>2, Zenon DEF LengthSays, HeadIs
  <2> QED BY <2>1, <2>2, Zenon
<1>14. EncodingNamed(to)
  <2>1. CASE n # "transfer-encoding"
    <3>1. to.headers["transfer-encoding"] = m.headers["transfer-encoding"]
      BY <1>7, <2>1, TwiceNames, ThreeNames, Zenon DEF ValueAfter
    <3> QED BY <3>1, Zenon DEF EncodingNamed, HeadIs
  <2>2. CASE n = "transfer-encoding"
    <3>1. PICK s \in Texts : s = m.headers[n]
      BY <1>6 DEF HeaderSets
    <3>2. to.headers[n] = One(v) \/ to.headers[n] = OneMore(s, v)
      BY <1>7, <3>1, Zenon DEF ValueAfter
    <3>3. One(v)[1] = v /\ (s # NoValue => OneMore(s, v)[1] = s[1]) /\ OneMore(NoValue, v) = One(v)
      BY <1>3, <3>1, FirstOf, TextsAre, Zenon
    <3> QED BY <1>3, <2>2, <3>1, <3>2, <3>3, Zenon DEF EncodingNamed, HeadIs
  <2> QED BY <2>1, <2>2, Zenon
<1> QED BY <1>2, <1>4, <1>5, <1>8, <1>9, <1>11, <1>12, <1>13, <1>14, Zenon DEF HeadIs

\* A message whose headers and flags are those of another.
LEMMA OthersStep ==
  ASSUME NEW m, NEW r, HeadIs(m, r), NEW to \in MessageType,
         to.headers = m.headers, to.len = m.len, to.chunked = m.chunked, to.protocol = m.protocol,
         to.keepalive = m.keepalive, to.default_keepalive = m.default_keepalive
  PROVE  HeadIs(to, r)
<1>1. ConnectionSays(to, r)
  BY Zenon DEF ConnectionSays, HeadIs
<1>2. EncodingSays(to, r) /\ OneLength(to, r) /\ LengthSays(to) /\ EncodingNamed(to)
  BY Zenon DEF EncodingSays, OneLength, LengthSays, EncodingNamed, HeadIs
<1> QED BY <1>1, <1>2, Zenon DEF HeadIs

\* method() preserves it.
LEMMA MethodStep ==
  ASSUME NEW m, NEW r, HeadIs(m, r), NEW name \in Methods
  PROVE  HeadIs([m EXCEPT !.method = MethodOf(name)], r)
<1>1. m \in MessageType
  BY Zenon DEF HeadIs
<1>2. PICK x \in STRING : x = MethodOf(name)
  <2>1. name \in STRING
    BY MessagesAssumption, Zenon
  <2> QED BY <2>1, OwnTextsAre, Zenon DEF MethodOf
<1>3. LET to == [m EXCEPT !.method = x]
      IN  /\ to \in MessageType /\ Kept(to, m) /\ to.headers = m.headers /\ to.len = m.len
          /\ to.chunked = m.chunked /\ to.protocol = m.protocol /\ to.keepalive = m.keepalive
          /\ to.default_keepalive = m.default_keepalive
  BY <1>1 DEF MessageType, Kept
<1>4. HeadIs([m EXCEPT !.method = x], r)
  BY <1>3, OthersStep, Zenon
<1> QED BY <1>2, <1>4, Zenon

\* The standard phrases are texts.
LEMMA DefaultMessageIs == ASSUME NEW code \in Codes PROVE DefaultMessage(code) \in STRING
<1>1. ToString(code) \in STRING
  BY MessagesAssumption, Zenon
<1> QED BY <1>1, OwnTextsAre, Zenon DEF DefaultMessage

\* status() preserves it, with and without a message.
LEMMA StatusStep ==
  ASSUME NEW m, NEW r, HeadIs(m, r), NEW code \in Codes, NEW text \in STRING
  PROVE  HeadIs(Status(m, code, text), r)
<1>1. m \in MessageType
  BY Zenon DEF HeadIs
<1>2. PICK c \in Nat : c = code
  BY MessagesAssumption, Zenon
<1>3. LET to == [m EXCEPT !.code = c, !.reason = text]
      IN  /\ to \in MessageType /\ to.headers = m.headers /\ to.len = m.len
          /\ to.chunked = m.chunked /\ to.protocol = m.protocol /\ to.keepalive = m.keepalive
          /\ to.default_keepalive = m.default_keepalive
  BY <1>1 DEF MessageType
<1>4. HeadIs([m EXCEPT !.code = c, !.reason = text], r)
  BY <1>3, OthersStep, Zenon
<1> QED BY <1>2, <1>4, Zenon DEF Status

\* The constructors establish it.
LEMMA EmptyIs ==
  ASSUME NEW kind \in {"request", "response"}
  PROVE  HeadIs(Empty(kind), {})
<1>1. PICK bare \in MessageType :
        /\ bare = [kind |-> kind, headers |-> [n \in Names |-> <<>>], protocol |-> "UNSET",
                   chunked |-> FALSE, keepalive |-> FALSE, default_keepalive |-> TRUE, len |-> 0,
                   method |-> "GET", code |-> 0, reason |-> EmptyText]
        /\ bare.headers = [n \in Names |-> NoValue] /\ bare.protocol = "UNSET"
        /\ bare.chunked = FALSE /\ bare.default_keepalive = TRUE /\ bare.code = 0
  <2>1. PICK get \in STRING, reason \in STRING : get = "GET" /\ reason = EmptyText
    BY OwnTextsAre, Zenon
  <2>2. PICK h \in [Names -> Seq(STRING)] : h = [n \in Names |-> <<>>]
    <3>1. <<>> \in Seq(STRING)
      BY EmptySeq, Zenon
    <3> QED BY <3>1
  <2>3. "UNSET" \in Protocols
    BY Zenon DEF Protocols
  <2>4. LET b == [kind |-> kind, headers |-> h, protocol |-> "UNSET",
                  chunked |-> FALSE, keepalive |-> FALSE, default_keepalive |-> TRUE, len |-> 0,
                  method |-> get, code |-> 0, reason |-> reason]
        IN  /\ b \in MessageType /\ b.headers = h /\ b.protocol = "UNSET"
            /\ b.chunked = FALSE /\ b.default_keepalive = TRUE /\ b.code = 0
    BY <2>3 DEF MessageType
  <2> QED BY <2>1, <2>2, <2>4, Zenon DEF NoValue
<1>2. PICK cl \in Names, co \in Names :
        /\ cl = "content-length" /\ cl \in Replaced \cup {"content-length"}
        /\ co = "connection" /\ co \in Replaced \cup {"content-length"} /\ co # "content-length"
  BY TwiceNames, ThreeNames, Zenon DEF Replaced
<1>3. PICK zero \in STRING, close \in STRING :
        zero = "0" /\ close = "close" /\ zero = ToString(0) /\ Stoull(zero) = 0 /\ 0 \in Nat
  <2>1. 0 \in 0 .. MaxLength /\ ToString(0) = "0"
    BY MessagesAssumption
  <2> QED BY <2>1, StoullIs, OwnTextsAre, Zenon
<1>4. PICK m \in MessageType : m = Header(bare, Key(cl), zero) /\ Headed(m, bare, cl, zero)
  BY <1>3, HeaderFields, Zenon DEF Headed
<1>5. PICK to \in MessageType : to = Header(m, Key(co), close) /\ Headed(to, m, co, close)
  BY <1>2, HeaderFields, ZenonT(60) DEF Headed
<1>6. Empty(kind) = to
  BY <1>1, <1>2, <1>3, <1>4, <1>5, Zenon DEF Empty
<1>7. /\ m.headers \in HeaderSets
      /\ \A k \in Names : m.headers[k] = IF k = cl THEN One(zero) ELSE bare.headers[k]
  <2>1. m.headers \in HeaderSets /\ bare.headers \in HeaderSets
    BY WithNothing, Zenon
  <2>2. \A k \in Names : HeadersAfter(bare.headers, cl, zero)[k] = IF k = cl THEN One(zero) ELSE bare.headers[k]
    BY <1>2, <2>1, PlainHeaders
  <2> QED BY <1>4, <2>1, <2>2, Zenon DEF Headed
<1>8. \A k \in Names : to.headers[k] = IF k = co THEN One(close) ELSE m.headers[k]
  <2>1. \A k \in Names : HeadersAfter(m.headers, co, close)[k] = IF k = co THEN One(close) ELSE m.headers[k]
    BY <1>2, <1>7, PlainHeaders, ZenonT(60)
  <2> QED BY <1>5, <2>1, Zenon DEF Headed
<1>9. /\ to.headers["content-length"] = One(ToString(0))
      /\ to.headers["transfer-encoding"] = NoValue
  <2>1. bare.headers["transfer-encoding"] = NoValue
    BY <1>1, TwiceNames, Zenon
  <2> QED BY <1>2, <1>3, <1>7, <1>8, <2>1, TwiceNames, ThreeNames, Zenon
<1>10. /\ to.len = 0 /\ to.chunked = FALSE /\ to.protocol = "UNSET"
       /\ to.default_keepalive = TRUE /\ to.code = 0
  <2>1. /\ m.len = 0 /\ m.chunked = FALSE /\ m.protocol = "UNSET"
        /\ m.default_keepalive = TRUE /\ m.code = 0
    BY <1>1, <1>2, <1>3, <1>4, ThreeNames, Zenon DEF Headed, Kept
  <2> QED BY <1>2, <1>5, <2>1, ThreeNames, Zenon DEF Headed, Kept
<1>11. ConnectionSays(to, {})
  <2>1. "UNSET" # "HTTP10" /\ "UNSET" # "HTTP11"
    BY SMT
  <2> QED BY <1>10, <2>1, Zenon DEF ConnectionSays
<1>12. EncodingSays(to, {}) /\ LengthSays(to) /\ OneLength(to, {}) /\ EncodingNamed(to)
  BY <1>9, <1>10, Zenon DEF EncodingSays, LengthSays, OneLength, EncodingNamed
<1> QED BY <1>6, <1>11, <1>12, Zenon DEF HeadIs

\* Every call on the message preserves the invariant.
LEMMA HeadInductive == HeadInv /\ [MsgNext]_msgVars => HeadInv'
<1> SUFFICES ASSUME HeadInv, [MsgNext]_msgVars PROVE HeadInv'
  OBVIOUS
<1>1. HeadIs(msg, raw)
  BY Zenon DEF HeadInv
<1>2. ASSUME NEW key \in Keys, NEW value \in Values[key.name], SetHeader(key, value) PROVE HeadInv'
  <2>1. HeadIs(Header(msg, key, value), raw \cup ({key.name} \cap Twice))
    BY <1>1, HeaderStep
  <2> QED BY <1>2, <2>1, Zenon DEF SetHeader, HeadInv
<1>3. ASSUME NEW key \in Keys, Remove(key) PROVE HeadInv'
  <2>1. HeadIs(RemoveHeader(msg, key), IF key.lower THEN raw \cup ({key.name} \cap Twice) ELSE raw)
    BY <1>1, RemoveStep, Zenon
  <2> QED BY <1>3, <2>1, Zenon DEF Remove, HeadInv
<1>4. ASSUME NEW val \in BOOLEAN, SetChunked(val) PROVE HeadInv'
  <2>1. HeadIs(Chunked(msg, val), raw \ IF val = msg.chunked THEN {} ELSE {"transfer-encoding"})
    BY <1>1, ChunkedStep, Zenon
  <2> QED BY <1>4, <2>1, Zenon DEF SetChunked, Set, HeadInv
<1>5. ASSUME NEW val \in BOOLEAN, SetKeepalive(val) PROVE HeadInv'
  <2>1. HeadIs(Keepalive(msg, val), raw \ {"connection"})
    BY <1>1, KeepaliveStep, Zenon
  <2> QED BY <1>5, <2>1, Zenon DEF SetKeepalive, Set, HeadInv
<1>6. ASSUME NEW n \in Lengths, SetContentLen(n) PROVE HeadInv'
  <2>1. ~msg.chunked \/ n = 0
    BY <1>6, Zenon DEF SetContentLen
  <2>2. HeadIs(ContentLen(msg, n), raw \ {"content-length"})
    BY <1>1, <2>1, ContentLenStep, Zenon
  <2> QED BY <1>6, <2>2, Zenon DEF SetContentLen, Set, HeadInv
<1>7. ASSUME NEW val \in Protocols \ {"UNSET"}, SetProtocol(val) PROVE HeadInv'
  <2>1. HeadIs(Protocol(msg, val),
               raw \ IF val # msg.protocol /\ msg.default_keepalive THEN {"connection"} ELSE {})
    BY <1>1, ProtocolStep, Zenon
  <2> QED BY <1>7, <2>1, Zenon DEF SetProtocol, Set, HeadInv
<1>8. ASSUME NEW name \in Methods, SetMethod(name) PROVE HeadInv'
  <2>1. HeadIs([msg EXCEPT !.method = MethodOf(name)], raw) /\ raw \ {} = raw
    BY <1>1, MethodStep, Zenon
  <2> QED BY <1>8, <2>1, Zenon DEF SetMethod, Set, HeadInv
<1>9. ASSUME NEW code \in Codes, SetStatus(code) PROVE HeadInv'
  <2>1. HeadIs(Status(msg, code, DefaultMessage(code)), raw) /\ raw \ {} = raw
    BY <1>1, StatusStep, DefaultMessageIs, Zenon
  <2> QED BY <1>9, <2>1, Zenon DEF SetStatus, Set, HeadInv
<1>10. ASSUME NEW code \in Codes, NEW text \in Reasons, SetStatusMessage(code, text) PROVE HeadInv'
  <2>1. HeadIs(Status(msg, code, text), raw) /\ raw \ {} = raw
    BY <1>1, StatusStep, MessagesAssumption, Zenon
  <2> QED BY <1>10, <2>1, Zenon DEF SetStatusMessage, Set, HeadInv
<1>11. CASE UNCHANGED msgVars
  BY <1>1, <1>11, Zenon DEF msgVars, HeadInv
<1> QED BY <1>2, <1>3, <1>4, <1>5, <1>6, <1>7, <1>8, <1>9, <1>10, <1>11, Zenon DEF MsgNext

\* The headers and the members of a message agree after every sequence of calls of header(),
\* remove_header() and the setters, as far as no header was written by hand.
THEOREM HeadInvariance == MsgSpec => []HeadInv
<1>1. MsgInit => HeadInv
  <2>1. HeadIs(Empty("request"), {}) /\ HeadIs(Empty("response"), {})
    BY EmptyIs, Zenon
  <2> QED BY <2>1, Zenon DEF MsgInit, HeadInv
<1> QED BY <1>1, HeadInductive, PTL DEF MsgSpec

\* serialize, of one value.
LEMMA JoinedOne ==
  ASSUME NEW n, NEW v
  PROVE  Joined(n, One(v)) = v
<1> DEFINE body(j) == [k \in 0 .. 1 |->
                         IF k = 0 THEN EmptyText ELSE IF k = 1 THEN v ELSE j[k - 1] \o Separator(n) \o <<v>>[k]]
           f == [k \in 0 .. 1 |-> IF k = 0 THEN EmptyText ELSE v]
<1>1. f = body(f)
  BY SMT
<1>2. PICK j : j = body(j) /\ j = CHOOSE g : g = body(g)
  BY <1>1, Zenon
<1>3. j[1] = v
  BY <1>2
<1>4. Len(<<v>>) = 1 /\ <<v>>[1] = v
  OBVIOUS
<1>5. Joined(n, One(v)) = j[1]
  BY <1>2, <1>4 DEF Joined, One
<1> QED BY <1>3, <1>5

\* serialize, of a name.
LEMMA SerializeIs ==
  ASSUME NEW m, NEW n \in Names
  PROVE  /\ n \in DOMAIN Serialize(m) <=> m.headers[n] # NoValue
         /\ \A v : m.headers[n] = One(v) /\ One(v) # NoValue =>
              n \in DOMAIN Serialize(m) /\ Serialize(m)[n] = v
<1>1. DOMAIN Serialize(m) = {k \in Names : m.headers[k] # <<>>}
  BY Zenon DEF Serialize
<1>2. m.headers[n] # <<>> => Serialize(m)[n] = Joined(n, m.headers[n])
  BY Zenon DEF Serialize
<1>3. \A v : Joined(n, One(v)) = v
  BY JoinedOne, Zenon
<1> QED BY <1>1, <1>2, <1>3, Zenon DEF NoValue

\* What a peer reads over HTTP/1 follows from the invariant.
LEMMA PeerReadsHolds == HeadInv => PeerReads
<1> SUFFICES ASSUME HeadInv PROVE PeerReads
  OBVIOUS
<1>1. HeadIs(msg, raw) /\ msg \in MessageType
  BY Zenon DEF HeadInv, HeadIs
<1>2. PICK head : head = Serialize(msg)
  BY Zenon
<1>3. ASSUME NEW n \in Names
      PROVE  /\ n \in DOMAIN head <=> msg.headers[n] # NoValue
             /\ \A v : msg.headers[n] = One(v) /\ One(v) # NoValue => n \in DOMAIN head /\ head[n] = v
  BY <1>2, SerializeIs, Zenon
<1>4. \A v \in STRING : One(v) # NoValue
  BY TextsAre, Zenon
<1>5. ASSUME msg.protocol \in {"HTTP10", "HTTP11"}, "connection" \notin raw
      PROVE  StaysOpen(head) = msg.keepalive
  <2>1. ConnectionSays(msg, raw) /\ msg.keepalive \in BOOLEAN /\ msg.default_keepalive \in BOOLEAN
    BY <1>1 DEF HeadIs, MessageType
  <2>2. "close" # "keep-alive" /\ "HTTP10" # "HTTP11"
    BY SMT
  <2>3. CASE msg.default_keepalive /\ msg.protocol = "HTTP11"
    <3>1. msg.keepalive /\ msg.headers["connection"] = NoValue
      BY <1>5, <2>1, <2>3, Zenon DEF ConnectionSays
    <3>2. "connection" \notin DOMAIN head
      BY <1>3, <3>1, TwiceNames, Zenon
    <3> QED BY <2>1, <2>3, <3>1, <3>2, Zenon DEF StaysOpen
  <2>4. CASE msg.default_keepalive /\ msg.protocol = "HTTP10"
    <3>1. ~msg.keepalive /\ msg.headers["connection"] = One("close")
      BY <1>5, <2>1, <2>4, Zenon DEF ConnectionSays
    <3>2. "connection" \in DOMAIN head /\ head["connection"] = "close"
      BY <1>3, <1>4, <3>1, TwiceNames, OwnTextsAre, Zenon
    <3> QED BY <2>1, <2>2, <3>1, <3>2, Zenon DEF StaysOpen
  <2>5. CASE ~msg.default_keepalive
    <3>1. msg.headers["connection"] = One(KeepaliveText(msg.keepalive))
      BY <1>5, <2>1, <2>5, Zenon DEF ConnectionSays
    <3>2. KeepaliveText(msg.keepalive) \in STRING
      BY OwnTextsAre, Zenon DEF KeepaliveText
    <3>3. "connection" \in DOMAIN head /\ head["connection"] = KeepaliveText(msg.keepalive)
      BY <1>3, <1>4, <3>1, <3>2, TwiceNames, Zenon
    <3>4. (head["connection"] = "keep-alive") = msg.keepalive
      BY <2>1, <2>2, <3>3, Zenon DEF KeepaliveText
    <3> QED BY <3>3, <3>4, Zenon DEF StaysOpen
  <2> QED BY <1>5, <2>3, <2>4, <2>5, Zenon
<1>6. ASSUME "transfer-encoding" \notin raw PROVE ReadsChunked(head) = msg.chunked
  <2>1. EncodingSays(msg, raw) /\ msg.chunked \in BOOLEAN
    BY <1>1 DEF HeadIs, MessageType
  <2>2. CASE msg.chunked
    <3>1. "transfer-encoding" \in DOMAIN head /\ head["transfer-encoding"] = "Chunked"
      BY <1>3, <1>4, <1>6, <2>1, <2>2, TwiceNames, OwnTextsAre, Zenon DEF EncodingSays
    <3> QED BY <2>1, <2>2, <3>1, ChunkedTexts, Zenon DEF ReadsChunked
  <2>3. CASE ~msg.chunked
    <3>1. "transfer-encoding" \notin DOMAIN head
      BY <1>3, <1>6, <2>1, <2>3, TwiceNames, Zenon DEF EncodingSays
    <3> QED BY <2>1, <2>3, <3>1, Zenon DEF ReadsChunked
  <2> QED BY <2>2, <2>3, Zenon
<1>7. ASSUME "content-length" \in DOMAIN head PROVE head["content-length"] = ToString(msg.len)
  <2>1. msg.headers["content-length"] = One(ToString(msg.len)) /\ msg.headers["content-length"] # NoValue
    BY <1>1, <1>3, <1>7, TwiceNames, Zenon DEF HeadIs, LengthSays
  <2> QED BY <1>3, <2>1, TwiceNames, Zenon
<1>8. ASSUME {"transfer-encoding", "content-length"} \cap raw = {}
      PROVE  ~(ReadsChunked(head) /\ "content-length" \in DOMAIN head /\ msg.len # 0)
  <2>1. "transfer-encoding" \notin raw /\ "content-length" \notin raw
    BY <1>8, Zenon
  <2>2. ReadsChunked(head) => msg.chunked
    BY <1>6, <2>1, Zenon
  <2>3. msg.chunked => msg.headers["content-length"] = NoValue \/ msg.len = 0
    BY <1>1, <2>1, Zenon DEF HeadIs, OneLength
  <2> QED BY <1>3, <2>2, <2>3, TwiceNames, Zenon
<1> QED BY <1>2, <1>5, <1>6, <1>7, <1>8, Zenon DEF PeerReads

\* filter().
LEMMA FilterIs ==
  ASSUME NEW m \in MessageType, NEW names
  PROVE  /\ Filter(m, names) \in MessageType
         /\ \A k \in Names : Filter(m, names).headers[k] = IF k \in names THEN NoValue ELSE m.headers[k]
<1>1. PICK h \in [Names -> Seq(STRING)] : h = [n \in Names |-> IF n \in names THEN <<>> ELSE m.headers[n]]
  <2>1. m.headers \in [Names -> Seq(STRING)]
    BY DEF MessageType
  <2>2. <<>> \in Seq(STRING)
    BY EmptySeq, Zenon
  <2> QED BY <2>1, <2>2
<1>2. Filter(m, names) = [m EXCEPT !.headers = h]
  BY <1>1, Zenon DEF Filter
<1>3. [m EXCEPT !.headers = h] \in MessageType /\ [m EXCEPT !.headers = h].headers = h
  BY DEF MessageType
<1> QED BY <1>1, <1>2, <1>3, Zenon DEF NoValue

\* The header block, of a message without the headers names.
LEMMA BlockIs ==
  ASSUME NEW m \in MessageType, EncodingNamed(m), NEW names, "transfer-encoding" \notin names,
         NEW b, b = Block(OnlyTrailers(Filter(m, names)))
  PROVE  /\ DOMAIN b \subseteq Names \ names
         /\ "transfer-encoding" \in DOMAIN b => b["transfer-encoding"] = "trailers"
         /\ \A n \in Names \ (names \cup {"transfer-encoding"}) :
              m.headers[n] # <<>> => n \in DOMAIN b /\ b[n] = Joined(EmptyText, m.headers[n])
<1>1. PICK f \in MessageType :
        /\ f = Filter(m, names)
        /\ \A k \in Names : f.headers[k] = IF k \in names THEN NoValue ELSE m.headers[k]
  <2>1. /\ Filter(m, names) \in MessageType
        /\ \A k \in Names : Filter(m, names).headers[k] = IF k \in names THEN NoValue ELSE m.headers[k]
    BY FilterIs
  <2> QED BY <2>1, Zenon
<1>2. PICK te \in Names : te = "transfer-encoding" /\ te # "content-length" /\ te \notin Replaced
  BY TwiceNames, SMT DEF Replaced
<1>3. PICK v \in STRING : v = "trailers" /\ ~IsChunked(v)
  BY OwnTextsAre, ChunkedTexts, Zenon
<1>4. PICK t :
        /\ t = OnlyTrailers(f)
        /\ t.headers[te] = NoValue \/ t.headers[te] = One(v)
        /\ \A k \in Names \ {te} : t.headers[k] = f.headers[k]
  <2>1. CASE Has(f, te)
    <3>1. PICK off \in MessageType : off = RemoveHeader(f, Key(te)) /\ Unheaded(off, f, te)
      BY RemoveFields, Zenon DEF Unheaded
    <3>2. PICK on \in MessageType : on = Header(off, Key(te), v) /\ Headed(on, off, te, v)
      BY <1>2, HeaderFields, Zenon DEF Headed
    <3>3. OnlyTrailers(f) = on
      BY <1>2, <1>3, <2>1, <3>1, <3>2, Zenon DEF OnlyTrailers
    <3>4. \A k \in Names : off.headers[k] = IF k = te THEN NoValue ELSE f.headers[k]
      BY <3>1, Zenon DEF Unheaded
    <3>5. \A k \in Names : on.headers[k] = IF k = te THEN OneMore(off.headers[te], v) ELSE off.headers[k]
      <4>1. off.headers \in HeaderSets
        BY WithNothing, Zenon
      <4>2. NowHolds(HeadersAfter(off.headers, te, v), off.headers, te, v)
        BY <4>1, HeadersAfterIs, Zenon
      <4>3. te \notin Replaced \cup {"content-length"}
        BY <1>2, Zenon
      <4>4. on.headers = HeadersAfter(off.headers, te, v)
        BY <3>2, Zenon DEF Headed
      <4> QED BY <1>3, <4>2, <4>3, <4>4, Zenon DEF NowHolds, ValueAfter
    <3>6. OneMore(NoValue, v) = One(v)
      BY TextsAre, Zenon
    <3>7. on.headers[te] = One(v)
      BY <3>4, <3>5, <3>6, Zenon
    <3>8. \A k \in Names \ {te} : on.headers[k] = f.headers[k]
      BY <3>4, <3>5, Zenon
    <3> QED BY <3>3, <3>7, <3>8, Zenon
  <2>2. CASE ~Has(f, te)
    <3>1. OnlyTrailers(f) = f
      BY <1>2, <2>2, Zenon DEF OnlyTrailers
    <3>2. f.headers[te] = m.headers[te]
      BY <1>1, <1>2, Zenon
    <3>3. f.headers[te] = NoValue
      BY <1>2, <2>2, <3>2, Zenon DEF Has, EncodingNamed, NoValue
    <3> QED BY <3>1, <3>3, Zenon
  <2> QED BY <2>1, <2>2, Zenon
<1>5. b = Block(t)
  BY <1>1, <1>4, Zenon
<1>6. /\ DOMAIN b = {k \in Names : t.headers[k] # NoValue}
      /\ \A k \in DOMAIN b : b[k] = Joined(EmptyText, t.headers[k])
  BY <1>5, Zenon DEF Block, NoValue
<1>7. \A k \in Names : k \in names => t.headers[k] = NoValue
  BY <1>1, <1>2, <1>4, Zenon
<1>8. DOMAIN b \subseteq Names \ names
  BY <1>6, <1>7, Zenon
<1>9. "transfer-encoding" \in DOMAIN b => b["transfer-encoding"] = "trailers"
  <2>1. \A x : Joined(EmptyText, One(x)) = x
    BY JoinedOne, Zenon
  <2> QED BY <1>2, <1>3, <1>4, <1>6, <2>1, Zenon
<1>10. ASSUME NEW n \in Names \ (names \cup {"transfer-encoding"}), m.headers[n] # <<>>
       PROVE  n \in DOMAIN b /\ b[n] = Joined(EmptyText, m.headers[n])
  <2>1. t.headers[n] = m.headers[n]
    BY <1>1, <1>2, <1>4, <1>10, Zenon
  <2> QED BY <1>6, <1>10, <2>1, Zenon DEF NoValue
<1> QED BY <1>8, <1>9, <1>10, Zenon

\* What a peer reads over HTTP/2 follows from the invariant.
LEMMA BlockHolds == HeadInv => BlockIsAllowed
<1> SUFFICES ASSUME HeadInv PROVE BlockIsAllowed
  OBVIOUS
<1>1. msg \in MessageType /\ EncodingNamed(msg)
  BY Zenon DEF HeadInv, HeadIs
<1>2. /\ "transfer-encoding" \notin ConnectionSpecific
      /\ "transfer-encoding" \notin ConnectionSpecific \cup {"host"}
  BY SMT DEF ConnectionSpecific
<1>3. SUFFICES ASSUME NEW b, b = IF msg.kind = "request" THEN RequestBlock(msg) ELSE ResponseBlock(msg)
               PROVE  /\ DOMAIN b \cap ConnectionSpecific = {}
                      /\ "transfer-encoding" \in DOMAIN b => b["transfer-encoding"] = "trailers"
                      /\ \A n \in Names \ (ConnectionSpecific \cup {"transfer-encoding", "host"}) :
                           msg.headers[n] # <<>> => n \in DOMAIN b /\ b[n] = Joined(EmptyText, msg.headers[n])
  BY <1>1, Zenon DEF BlockIsAllowed
<1>4. PICK names :
        /\ b = Block(OnlyTrailers(Filter(msg, names))) /\ "transfer-encoding" \notin names
        /\ ConnectionSpecific \subseteq names /\ names \subseteq ConnectionSpecific \cup {"host"}
  BY <1>2, <1>3, Zenon DEF RequestBlock, ResponseBlock
<1>5. /\ DOMAIN b \subseteq Names \ names
      /\ "transfer-encoding" \in DOMAIN b => b["transfer-encoding"] = "trailers"
      /\ \A n \in Names \ (names \cup {"transfer-encoding"}) :
           msg.headers[n] # <<>> => n \in DOMAIN b /\ b[n] = Joined(EmptyText, msg.headers[n])
  BY <1>1, <1>4, BlockIs
<1>6. DOMAIN b \cap ConnectionSpecific = {}
  BY <1>4, <1>5, Zenon
<1>7. \A n \in Names \ (ConnectionSpecific \cup {"transfer-encoding", "host"}) :
        n \in Names \ (names \cup {"transfer-encoding"})
  BY <1>4, Zenon
<1> QED BY <1>5, <1>6, <1>7, Zenon

\* The head that is sent, over HTTP/1 by serialize() and over HTTP/2 by on_header(), says
\* what the members of the message say, whatever calls built it, for every set of names,
\* values, lengths and codes.
THEOREM HeadAgreesHolds == MsgSpec => []HeadAgrees
<1>1. HeadInv => HeadAgrees
  <2>1. HeadInv => MsgTypeOK
    BY Zenon DEF HeadInv, HeadIs, MsgTypeOK
  <2> QED BY <2>1, PeerReadsHolds, BlockHolds, Zenon DEF HeadAgrees
<1> QED BY <1>1, HeadInvariance, PTL
=============================================================================
