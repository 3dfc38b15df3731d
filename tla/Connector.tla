----------------------------- MODULE Connector -----------------------------
(***************************************************************************)
(* server::connector<socket> (src/src/connector.h) together with the part  *)
(* of a protocol handler it calls back into: the bytes waiting to be       *)
(* written (handler_http1::serialization), the callbacks waiting for those *)
(* bytes (pending_clear_callbacks) and on_write / write_feedbacks.         *)
(*                                                                         *)
(* Everything runs on one io_service thread, so each action is one         *)
(* completion handler (or one call made from user code) from start to end. *)
(* The actors that interleave are the peer and the kernel (completions),   *)
(* the shared deadline timer, and the user of the handler.                 *)
(*                                                                         *)
(* A "byte" is an item: one encoded part of one response.  Responses are   *)
(* numbered in the order in which their requests arrived.                  *)
(***************************************************************************)
EXTENDS Naturals, Sequences

CONSTANT Ids        \* numbers of the responses of this connection

ASSUME IdsAssumption == Ids \subseteq Nat

(***************************************************************************)
(* C: a whole "100 Continue"; H, B, T: encoded headers, body, trailer;     *)
(* E: the end of message (encode_eom), which has bytes only when chunked.  *)
(***************************************************************************)
Part == {"C", "H", "B", "T", "E"}
Item == [id : Ids, part : Part]

VARIABLES
  alive,    \* the connector object exists (the handler's weak_ptr locks)
  stopped,  \* _stopped
  rd,       \* async_read_some: "none", "pending", or its handler is "running"
  writing,  \* _writing: an async_write is in flight
  out,      \* _out: the bytes of that write
  fb,       \* the feedbacks captured by that write's completion handler
  ttl,      \* _ttl # 0
  armed,    \* _timer has a wait that may still be cancelled
  fired,    \* a wait has expired and its handler is queued: cancel is too late
  cut,      \* what cancels the socket behind the connector's back (see SocketCanceled)
  ser,      \* handler: bytes encoded but not handed to a write
  pcc,      \* handler: pending_clear_callbacks
  turn,     \* handler: responses below turn have been completely serialised
  wire,     \* bytes that reached the peer
  sent,     \* history: the bytes submitted by the handler, without those given up
  acked,    \* history: responses whose success feedback was posted
  nacked    \* history: responses whose error feedback was posted

timerVars == <<ttl, armed, fired, cut>>
writeVars == <<writing, out, fb, ser, pcc, turn, wire, sent, acked, nacked>>
connVars  == <<alive, stopped, rd, timerVars, writeVars>>

ConnTypeOK ==
  /\ alive \in BOOLEAN /\ stopped \in BOOLEAN
  /\ rd \in {"none", "pending", "running"}
  /\ writing \in BOOLEAN
  /\ ttl \in BOOLEAN /\ armed \in BOOLEAN /\ fired \in BOOLEAN
  /\ cut \in {{"timer"}} \cup SUBSET {"read", "write"}
  /\ out \in Seq(Item) /\ ser \in Seq(Item)
  /\ wire \in Seq(Item) /\ sent \in Seq(Item)
  /\ fb \subseteq Ids /\ pcc \subseteq Ids
  /\ acked \subseteq Ids /\ nacked \subseteq Ids
  /\ turn \in Nat

(***************************************************************************)
(* start(): the handler is in place and the first read is issued.  A       *)
(* connector made by dns_connector_factory may find the handler of the     *)
(* connect timer queued: it expired before the connection was made.        *)
(***************************************************************************)
ConnInit ==
  /\ alive = TRUE /\ stopped = FALSE /\ rd = "pending"
  /\ writing = FALSE /\ out = <<>> /\ fb = {}
  /\ ttl = FALSE /\ armed = FALSE /\ fired = FALSE /\ cut \in SUBSET {"timer"}
  /\ ser = <<>> /\ pcc = {} /\ turn = 0
  /\ wire = <<>> /\ sent = <<>> /\ acked = {} /\ nacked = {}

(***************************************************************************)
(* Every pending operation holds the connector alive; when the last one    *)
(* has run the destructor runs at once, before anything else.              *)
(***************************************************************************)
Unreferenced == alive /\ rd = "none" /\ ~writing /\ ~armed /\ ~fired

\* The event loop may run a completion handler.
LoopTurn == ~Unreferenced /\ rd # "running"

-----------------------------------------------------------------------------
(* Timer. *)

\* The value of armed after renew_ttl(): no effect when the ttl is zero.
Renewed(a) == a \/ ttl

\* As Stop, but the ttl is kept, so that a queued timer handler renews the wait.
StopKeepsTtl ==
  /\ stopped' = TRUE
  /\ armed' = (armed /\ stopped)
  /\ UNCHANGED ttl

\* stop(): the first call cancels the timer and zeroes the ttl; later calls do nothing.
Stop ==
  /\ stopped' = TRUE
  /\ armed' = (armed /\ stopped)
  /\ ttl' = (ttl /\ stopped)

\* cancel_deadline() followed by stop().
CancelAndStop ==
  /\ stopped' = TRUE
  /\ armed' = FALSE
  /\ ttl' = (ttl /\ stopped)

\* Time passes: the armed wait expires and its handler is queued.
TimerExpires ==
  /\ armed /\ ~fired
  /\ armed' = FALSE /\ fired' = TRUE
  /\ UNCHANGED <<alive, stopped, rd, ttl, cut, writeVars>>

\* The handler of an expired wait: report the timeout, then renew_ttl().
RunTimer ==
  /\ LoopTurn /\ fired
  /\ fired' = FALSE /\ armed' = Renewed(armed)
  /\ UNCHANGED <<alive, stopped, rd, ttl, cut, writeVars>>

\* set_timeout(ms): on = FALSE is a zero interval, which arms nothing and cancels nothing.
SetTimeout(on) ==
  /\ alive
  /\ ttl' = on /\ armed' = (armed \/ on)
  /\ UNCHANGED <<alive, stopped, rd, fired, cut, writeVars>>

-----------------------------------------------------------------------------
(* Reading. *)

\* The read completed: cancel_deadline(); on_read is now decoding.  The
\* completion may have been queued before a stop(), which cannot recall it.
ReadOk ==
  /\ LoopTurn /\ rd = "pending"
  /\ rd' = "running" /\ armed' = FALSE /\ cut' = cut \ {"read"}
  /\ UNCHANGED <<alive, stopped, ttl, fired, writeVars>>

\* on_read returned true: consume, then do_read().
ReadDone ==
  /\ rd = "running"
  /\ rd' = IF stopped THEN "none" ELSE "pending"
  /\ armed' = IF stopped THEN armed ELSE Renewed(armed)
  /\ UNCHANGED <<alive, stopped, ttl, fired, cut, writeVars>>

\* on_read returned false.
ReadRejected ==
  /\ rd = "running"
  /\ rd' = "none"
  /\ Stop
  /\ UNCHANGED <<alive, fired, cut, writeVars>>

\* The read failed: end of file or a socket error.
ReadFailed ==
  /\ LoopTurn /\ rd = "pending" /\ ~stopped
  /\ rd' = "none"
  /\ CancelAndStop
  /\ UNCHANGED <<alive, fired, cut, writeVars>>

\* operation_canceled, after stop() or SocketCanceled: only cancel_deadline().  On an
\* open connector nobody reads any more.
ReadCanceled ==
  /\ LoopTurn /\ rd = "pending"
  /\ stopped \/ "read" \in cut
  /\ rd' = "none" /\ armed' = FALSE
  /\ UNCHANGED <<alive, stopped, ttl, fired, cut, writeVars>>

(***************************************************************************)
(* The connect timer's queued handler: socket->cancel().  The read and the *)
(* write that are pending complete with operation_canceled, unless they    *)
(* have completed already; one that is started later is not affected.      *)
(* "read" and "write" stay in cut until the next completion or do_write(). *)
(***************************************************************************)
SocketCanceled ==
  /\ LoopTurn /\ "timer" \in cut
  /\ cut' = {op \in {"read", "write"} : IF op = "read" THEN rd = "pending" ELSE writing}
  /\ UNCHANGED <<alive, stopped, rd, ttl, armed, fired, writeVars>>

-----------------------------------------------------------------------------
(* Writing. *)

CanWrite == alive /\ ~writing /\ ~stopped

\* The bytes of a run of parts of response id.
Bytes(id, parts) == [i \in 1 .. Len(parts) |-> [id |-> id, part |-> parts[i]]]

(***************************************************************************)
(* The handler encodes the given parts of response id one after the other  *)
(* and calls do_write() after each of them.  ends: the response ends here, *)
(* and its feedback was registered just before the end of message was      *)
(* appended; endOnly: the end of message is the only part (it may have no  *)
(* bytes).  If no write is in flight the first do_write() takes what there *)
(* is; the later ones find _writing set.                                   *)
(***************************************************************************)
Submit(id, parts, ends, endOnly) ==
  LET new   == Bytes(id, parts)
      mine  == IF ends THEN {id} ELSE {}
      first == IF new = <<>> THEN ser ELSE Append(ser, Head(new))
      rest  == IF new = <<>> THEN <<>> ELSE Tail(new)
      now   == IF endOnly THEN pcc \cup mine ELSE pcc
      later == IF endOnly THEN {} ELSE mine
  IN
  /\ turn' = IF ends THEN id + 1 ELSE id
  /\ sent' = sent \o new
  /\ cut' = IF CanWrite THEN cut \ {"write"} ELSE cut
  /\ UNCHANGED <<alive, stopped, rd, ttl, fired, wire, nacked>>
  /\ \/ \* do_write() returns at once: a write in flight, or no connector
        /\ ~CanWrite
        /\ ser' = ser \o new
        /\ pcc' = pcc \cup mine
        /\ UNCHANGED <<armed, writing, out, fb, acked>>
     \/ \* on_write() has nothing to write: the feedbacks succeed at once
        /\ CanWrite /\ first = <<>>
        /\ armed' = Renewed(armed)
        /\ acked' = acked \cup now
        /\ ser' = <<>> /\ pcc' = later
        /\ UNCHANGED <<writing, out, fb>>
     \/ \* a write starts
        /\ CanWrite /\ first # <<>>
        /\ armed' = Renewed(armed)
        /\ writing' = TRUE /\ out' = first /\ fb' = now
        /\ ser' = rest /\ pcc' = later
        /\ UNCHANGED acked

\* As WriteOk, but the waiting bytes are not handed to a new write.
WriteOkForgetsWaiting ==
  /\ LoopTurn /\ writing
  /\ wire' = wire \o out
  /\ armed' = (~stopped /\ ttl) /\ cut' = cut \ {"write"}
  /\ acked' = acked \cup fb
  /\ writing' = FALSE /\ out' = <<>> /\ fb' = {}
  /\ UNCHANGED <<alive, stopped, rd, ttl, fired, ser, pcc, turn, sent, nacked>>

\* As WriteOk, but every registered feedback is posted, not the captured ones.
WriteOkAcksAll ==
  /\ LoopTurn /\ writing
  /\ wire' = wire \o out
  /\ armed' = (~stopped /\ ttl) /\ cut' = cut \ {"write"}
  /\ acked' = acked \cup fb \cup pcc
  /\ pcc' = {} /\ fb' = {}
  /\ out' = ser /\ ser' = <<>> /\ writing' = (ser # <<>>)
  /\ UNCHANGED <<alive, stopped, rd, ttl, fired, turn, sent, nacked>>


\* As WriteOk, but _out is overwritten by the waiting bytes before it is all written.
WriteOkOverwritesOut ==
  /\ LoopTurn /\ writing
  /\ wire' = wire \o (IF ser = <<>> THEN out ELSE ser)
  /\ armed' = (~stopped /\ ttl) /\ cut' = cut \ {"write"}
  /\ acked' = acked \cup fb \cup pcc
  /\ writing' = FALSE /\ out' = <<>> /\ fb' = {} /\ ser' = <<>> /\ pcc' = {}
  /\ UNCHANGED <<alive, stopped, rd, ttl, fired, turn, sent, nacked>>

(***************************************************************************)
(* The write completed: cancel_deadline(), post the success feedbacks,     *)
(* do_write().  As with reads, it may have been queued before a stop().    *)
(***************************************************************************)
WriteOk ==
  /\ LoopTurn /\ writing
  /\ wire' = wire \o out
  /\ armed' = (~stopped /\ ttl) /\ cut' = cut \ {"write"}
  /\ UNCHANGED <<alive, stopped, rd, ttl, fired, turn, sent, nacked>>
  /\ \/ /\ stopped
        /\ acked' = acked \cup fb
        /\ writing' = FALSE /\ out' = <<>> /\ fb' = {}
        /\ UNCHANGED <<ser, pcc>>
     \/ /\ ~stopped /\ ser = <<>>
        /\ acked' = acked \cup fb \cup pcc
        /\ writing' = FALSE /\ out' = <<>> /\ fb' = {} /\ pcc' = {}
        /\ UNCHANGED ser
     \/ /\ ~stopped /\ ser # <<>>
        /\ acked' = acked \cup fb
        /\ out' = ser /\ fb' = pcc /\ ser' = <<>> /\ pcc' = {}
        /\ UNCHANGED writing

\* As WriteFailed, but the success feedbacks are posted before the error is looked at.
WriteFailedAcksFirst(n) ==
  /\ LoopTurn /\ writing /\ ~stopped
  /\ n \in 0 .. Len(out)
  /\ wire' = wire \o SubSeq(out, 1, n)
  /\ acked' = acked \cup fb /\ nacked' = nacked \cup fb
  /\ writing' = FALSE /\ out' = <<>> /\ fb' = {}
  /\ CancelAndStop
  /\ UNCHANGED <<alive, rd, fired, cut, ser, pcc, turn, sent>>

\* The write failed after n of its bytes reached the peer.
WriteFailed(n) ==
  /\ LoopTurn /\ writing /\ ~stopped
  /\ n \in 0 .. Len(out)
  /\ wire' = wire \o SubSeq(out, 1, n)
  /\ nacked' = nacked \cup fb
  /\ writing' = FALSE /\ out' = <<>> /\ fb' = {}
  /\ CancelAndStop
  /\ UNCHANGED <<alive, rd, fired, cut, ser, pcc, turn, sent, acked>>

(***************************************************************************)
(* operation_canceled, after stop() or SocketCanceled: cancel_deadline()   *)
(* and the error feedbacks, no do_write().  On an open connector the rest  *)
(* of _out is given up, and the bytes that wait go out after the gap with  *)
(* the next do_write().                                                    *)
(***************************************************************************)
WriteCanceled(n) ==
  /\ LoopTurn /\ writing
  /\ stopped \/ "write" \in cut
  /\ n \in 0 .. Len(out)
  /\ wire' = wire \o SubSeq(out, 1, n)
  /\ sent' = IF stopped THEN sent ELSE wire' \o ser
  /\ nacked' = nacked \cup fb
  /\ writing' = FALSE /\ out' = <<>> /\ fb' = {}
  /\ armed' = FALSE
  /\ UNCHANGED <<alive, stopped, rd, ttl, fired, cut, ser, pcc, turn, acked>>

-----------------------------------------------------------------------------
(* Closing and destruction. *)

\* close()
ConnClose ==
  /\ alive
  /\ Stop
  /\ UNCHANGED <<alive, rd, fired, cut, writeVars>>

(***************************************************************************)
(* ~connector(): the handler loses its connector.  notify: the handler     *)
(* fails the responses still waiting for a feedback (on_connector_nulled); *)
(* after a user close it does not.                                         *)
(***************************************************************************)
Destroyed(notify) ==
  /\ Unreferenced
  /\ alive' = FALSE
  /\ nacked' = IF notify THEN nacked \cup pcc ELSE nacked
  /\ pcc' = IF notify THEN {} ELSE pcc
  /\ UNCHANGED <<stopped, rd, timerVars, writing, out, fb, ser, turn, wire, sent, acked>>

=============================================================================
