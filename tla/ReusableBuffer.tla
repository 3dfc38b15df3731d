--------------------------- MODULE ReusableBuffer ---------------------------
(***************************************************************************)
(* reusable_buffer<N> (src/src/utils/reusable_buffer.h), the buffer a      *)
(* connector reads into: reserve() hands out free memory, the kernel fills *)
(* part of it, produce() marks that part as used and consume() frees the   *)
(* oldest part.  Pointers are offsets from mem.  The bytes received on the *)
(* connection are numbered from 1, so that the memory tells which byte of  *)
(* the stream each cell holds.                                             *)
(***************************************************************************)
EXTENDS Integers

CONSTANTS
  N,            \* size of the buffer
  EvalOrders,   \* orders in which reserve() may evaluate its two arguments
  MaxBytes      \* bound: bytes received in one behaviour

ASSUME NAssumption == N \in Nat \ {0}
ASSUME EvalOrdersAssumption == EvalOrders \subseteq {"size_first", "pointer_first"}
ASSUME MaxBytesAssumption == MaxBytes \in Nat

VARIABLES
  bound, wr, rd,
  mem,        \* mem[i] is the number of the stream byte at offset i, 0 for none
  res,        \* what the last reserve() returned; size 0 after its use
  given,      \* offset returned by the last produce(), and the offset it should be
  received,   \* bytes received so far
  freed       \* bytes consumed so far

bufVars == <<bound, wr, rd, mem, res, given, received, freed>>

Cells == 0 .. N - 1

BufTypeOK ==
  /\ bound \in BOOLEAN /\ wr \in Cells /\ rd \in Cells
  /\ mem \in [Cells -> Nat]
  /\ res \in [ptr : Cells, size : 0 .. N]
  /\ given \in [ptr : Cells, filled : Cells]
  /\ received \in Nat /\ freed \in Nat

BufInit ==
  /\ bound = FALSE /\ wr = 0 /\ rd = 0
  /\ mem = [i \in Cells |-> 0]
  /\ res = [ptr |-> 0, size |-> 0]
  /\ given = [ptr |-> 0, filled |-> 0]
  /\ received = 0 /\ freed = 0

-----------------------------------------------------------------------------
\* avail_mem(): the free memory from wr on; an empty buffer is re-aligned.
Realigns == wr = rd /\ ~bound

\* As AvailMem, but memory before rd is taken for memory up to the end.
AvailMemIgnoresRead == IF wr = rd THEN IF bound THEN 0 ELSE N ELSE N - wr

AvailMem ==
  IF wr < rd THEN rd - wr ELSE IF wr > rd THEN N - wr ELSE IF bound THEN 0 ELSE N

Aligned(p) == IF Realigns THEN 0 ELSE p

\* As Reserve, but an empty buffer goes on where it is.
ReserveNoRealign ==
  /\ res.size = 0
  /\ res' = [ptr |-> wr, size |-> IF Realigns THEN N - wr ELSE AvailMem]
  /\ UNCHANGED <<bound, wr, rd, mem, given, received, freed>>

(***************************************************************************)
(* reserve(), called with no read outstanding: wr is read before or after  *)
(* the call of avail_mem().                                                *)
(***************************************************************************)
Reserve ==
  /\ res.size = 0
  /\ wr' = Aligned(wr) /\ rd' = Aligned(rd)
  /\ \E order \in EvalOrders :
       res' = [ptr |-> IF order = "size_first" THEN wr' ELSE wr, size |-> AvailMem]
  /\ UNCHANGED <<bound, mem, given, received, freed>>

(***************************************************************************)
(* A read completes: the kernel has put len bytes at the reserved address, *)
(* then produce(len) marks them as used and says where they are.           *)
(***************************************************************************)
Produce(len) ==
  /\ len \in 1 .. res.size /\ received + len <= MaxBytes
  /\ mem' = [i \in Cells |-> IF i >= res.ptr /\ i < res.ptr + len
                             THEN received + (i - res.ptr) + 1 ELSE mem[i]]
  /\ received' = received + len
  /\ res' = [res EXCEPT !.size = 0]
  /\ len <= AvailMem
  /\ given' = [ptr |-> Aligned(wr), filled |-> res.ptr]
  /\ wr' = (IF Aligned(wr) + len = N THEN 0 ELSE Aligned(wr) + len)
  /\ bound' = (bound \/ Aligned(wr) + len = N)
  /\ rd' = Aligned(rd)
  /\ UNCHANGED freed

\* As Consume, but rd does not wrap around.
ConsumeNoWrap(ptr) ==
  /\ res.size = 0
  /\ ptr > rd /\ ptr <= (IF bound THEN N ELSE wr)
  /\ freed' = freed + (ptr - rd)
  /\ rd' = ptr
  /\ bound' = (bound /\ ptr # N)
  /\ UNCHANGED <<wr, mem, res, given, received>>

\* As Consume, but bound is not reset when rd wraps around.
ConsumeKeepsBound(ptr) ==
  /\ res.size = 0
  /\ ptr > rd /\ ptr <= (IF bound THEN N ELSE wr)
  /\ freed' = freed + (ptr - rd)
  /\ rd' = (IF ptr = N THEN 0 ELSE ptr)
  /\ UNCHANGED <<bound, wr, mem, res, given, received>>

(***************************************************************************)
(* consume(ptr), for bytes that are in use.  The connector frees what it   *)
(* has read before it reserves again, so no read is outstanding; an empty  *)
(* buffer re-aligned between reserve() and produce() would lose bytes.     *)
(***************************************************************************)
Consume(ptr) ==
  /\ res.size = 0
  /\ ptr > rd /\ ptr <= (IF bound THEN N ELSE wr)
  /\ freed' = freed + (ptr - rd)
  /\ rd' = (IF ptr = N THEN 0 ELSE ptr)
  /\ bound' = (bound /\ ptr # N)
  /\ UNCHANGED <<wr, mem, res, given, received>>

BufNext ==
  \/ Reserve
  \/ \E len \in 1 .. N : Produce(len)
  \/ \E ptr \in 1 .. N : Consume(ptr)

BufSpec == BufInit /\ [][BufNext]_bufVars

-----------------------------------------------------------------------------
(* Properties. *)

\* The number of bytes in use.
Used == IF wr > rd THEN wr - rd ELSE IF wr < rd \/ bound THEN N - rd + wr ELSE 0

\* The offset k places after rd.
Place(k) == IF rd + k < N THEN rd + k ELSE rd + k - N

\* The bytes in use are exactly those received and not yet freed, in order: the
\* wrap-around and re-alignment lose, repeat and overwrite nothing.
BytesKept ==
  /\ Used = received - freed
  /\ \A k \in 0 .. Used - 1 : mem[Place(k)] = freed + k + 1

\* The memory handed out by reserve() lies inside the buffer and holds no byte
\* in use: the kernel writes to all of it before produce() is called.
ReservedIsFree ==
  /\ res.ptr + res.size <= N
  /\ \A k \in 0 .. Used - 1 : ~(Place(k) >= res.ptr /\ Place(k) < res.ptr + res.size)

\* produce() returns the address that reserve() had handed out and the kernel
\* has filled.
ProducedIsReserved == given.ptr = given.filled

(***************************************************************************)
(* The inductive invariant: bound tells a wrapped buffer from one that is  *)
(* not, and while a read is outstanding nothing moves the place where      *)
(* produce() will find its bytes.                                          *)
(***************************************************************************)
Shape == (wr < rd => bound) /\ (wr > rd => ~bound)

Outstanding ==
  res.size > 0 => res.ptr = wr /\ res.size = AvailMem /\ (Realigns => wr = 0)

BufInv ==
  /\ BufTypeOK /\ Shape /\ Outstanding
  /\ BytesKept /\ ReservedIsFree /\ ProducedIsReserved
=============================================================================
