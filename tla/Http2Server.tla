---------------------------- MODULE Http2Server ----------------------------
(***************************************************************************)
(* The server side of HTTP/2: http2::session and http2::stream             *)
(* (src/src/http2/session.cpp, stream.cpp) between nghttp2, the connector  *)
(* and the user's request and response objects.                            *)
(*                                                                         *)
(* nghttp2 is external.  Of its state the model keeps, per stream, what it *)
(* still has to send (ng), whether the peer has ended its side (rx) and    *)
(* the peer's flow-control window (win); and the window of the connection. *)
(* The connector is reduced to what a session sees of it: whether a write  *)
(* is in flight, with which feedbacks, and whether it was stopped or       *)
(* destroyed (module Connector has the rest).                              *)
(*                                                                         *)
(* Every action is one completion handler, posted closure or call from     *)
(* user code, with all the nghttp2 callbacks that run inside it.           *)
(***************************************************************************)
EXTENDS Integers, Sequences, FiniteSets, SequencesExt

CONSTANTS
  Streams,     \* stream identifiers
  ChunkSizes,  \* sizes of the pieces in which the user gives a body
  FrameLen,    \* most bytes nghttp2 asks a data source for at once
  MaxBody,     \* bound: bytes the user gives to one response
  SmallWindow, \* the peer's windows where it sends WINDOW_UPDATEs (env "window")
  LargeWindow, \* its windows elsewhere: more than is ever sent
  Envs         \* combinations of optional events that may happen

ASSUME H2Assumption ==
  /\ FrameLen \in Nat \ {0} /\ MaxBody \in Nat
  /\ SmallWindow \in Nat /\ LargeWindow \in Nat
  /\ ChunkSizes \subseteq Nat \ {0} /\ Streams \subseteq Nat \ {0}

VARIABLES
  env,        \* the optional events of this behaviour
  str,        \* the streams, their request and response objects, nghttp2's view
  conn,       \* the connector: "open", "stopped" or "gone"
  out,        \* the frame whose async_write is in flight, or NoFrame
  cbs,        \* feedbacks captured by that write
  pending,    \* session::pending: feedbacks registered by on_eom
  cwin,       \* the peer's flow-control window of the connection
  ctrl,       \* nghttp2 has a control frame (SETTINGS, PING, GOAWAY...) to send
  goaway,     \* GOAWAY was sent or received
  corrupt     \* mem_send was entered from inside mem_send and sent a frame

vars == <<env, str, conn, out, cbs, pending, cwin, ctrl, goaway, corrupt>>

\* A frame is named by its stream; control frames belong to stream 0.
Control == 0
NoFrame == -1

(***************************************************************************)
(* life: whether the stream object exists.  eof, closed, headersSent,      *)
(* bodySent, resume, body, idx, trailers: its members.                     *)
(* ng: "idle" before submit_response, "resp" HEADERS queued, "data" the    *)
(* data source is active, "defer" it is deferred, "wait" it is held back   *)
(* by the stream's window, "await" DATA ended without END_STREAM, "trail"  *)
(* trailers queued, "end" END_STREAM sent, "shut" nghttp2 has closed the   *)
(* stream.  A response of status 101 (upgrade) only has "hdrs" and "bare": *)
(* copies of its HEADERS are queued, or all of them were sent.             *)
(* win: the peer's window for the stream.                                  *)
(* req: the request object, "on" until it is told finished or error.       *)
(* user: how far the user of the response is; held: the user keeps it.     *)
(* body: the list of chunks, each by the offset at which it ends, and      *)
(* base: the offset at which the first one begins; idx: body_index.        *)
(* given, sent: bytes given by the user and handed to nghttp2.             *)
(***************************************************************************)
\* The window the peer announces to begin with.
InitialWindow == IF "window" \in env THEN SmallWindow ELSE LargeWindow

NewStream ==
  [life |-> "live", eof |-> FALSE, closed |-> FALSE, headersSent |-> FALSE,
   bodySent |-> FALSE, resume |-> FALSE, body |-> <<>>, base |-> 0, idx |-> 0,
   trailers |-> FALSE, ng |-> "idle", rx |-> "open", req |-> "on",
   user |-> "begun", held |-> TRUE, told |-> {}, given |-> 0, sent |-> 0,
   upgrade |-> FALSE, copies |-> 0, win |-> InitialWindow]

NoStream == [NewStream EXCEPT !.life = "none", !.req = "none",
                              !.user = "none", !.held = FALSE]

UserStages == {"none", "begun", "headers", "body", "trailer", "ending", "ended"}

Live == {s \in Streams : str[s].life = "live"}

\* start(): the connection header is submitted and its write is in flight.
Init ==
  /\ env \in Envs
  /\ str = [s \in Streams |-> NoStream]
  /\ conn = "open" /\ out = Control /\ cbs = {} /\ pending = {}
  /\ cwin = InitialWindow
  /\ ctrl = FALSE /\ goaway = FALSE /\ corrupt = FALSE

-----------------------------------------------------------------------------
(* The data source of a stream. *)

BodyEmpty(r) == r.body = <<>> \/ (Len(r.body) = 1 /\ r.body[1] - r.base = r.idx)

Defer(r) == ~r.eof /\ ~r.trailers /\ BodyEmpty(r)

\* All bytes of the chunks, less the part of the first that was read.
BodyLength(r) == IF r.body = <<>> THEN 0 ELSE Last(r.body) - r.base - r.idx

IsLastFrame(r, length) == r.eof /\ ~r.trailers /\ BodyLength(r) = length

BodyEof(r) == BodyEmpty(r) /\ (r.eof \/ r.trailers)

\* As CopyFirst, but the position is kept when a chunk has been used up.
CopyFirstKeepsIndex(r, length) ==
  IF BodyEmpty(r) THEN r
  ELSE LET to == Min({r.base + r.idx + length, Head(r.body)})
           done == to = Head(r.body)
       IN [r EXCEPT !.sent = to,
                    !.body = IF done THEN Tail(@) ELSE @,
                    !.base = IF done THEN to ELSE @,
                    !.idx = to - r.base]

\* At most length bytes of the first chunk are copied out; a used up chunk
\* is removed from the list.
CopyFirst(r, length) ==
  IF BodyEmpty(r) THEN r
  ELSE LET to == Min({r.base + r.idx + length, Head(r.body)})
           done == to = Head(r.body)
       IN [r EXCEPT !.sent = to,
                    !.body = IF done THEN Tail(@) ELSE @,
                    !.base = IF done THEN to ELSE @,
                    !.idx = IF done THEN 0 ELSE to - r.base]

\* As DataSourceRead, but a deferred stream is not marked for resumption.
DataSourceReadForgetsResume(r, length) ==
  IF Defer(r) THEN [r EXCEPT !.ng = "defer"]
  ELSE LET c == CopyFirst(r, length) IN
       IF ~(BodyEof(c) \/ IsLastFrame(c, length)) THEN c
       ELSE [c EXCEPT !.bodySent = TRUE,
                      !.ng = IF r.trailers THEN "await" ELSE "end"]

(***************************************************************************)
(* data_source_read_callback: defer, or copy and decide whether this was   *)
(* the last DATA.  With trailers END_STREAM is left to them.               *)
(***************************************************************************)
DataSourceRead(r, length) ==
  IF Defer(r) THEN [r EXCEPT !.resume = TRUE, !.ng = "defer"]
  ELSE LET c == CopyFirst(r, length) IN
       IF ~(BodyEof(c) \/ IsLastFrame(c, length)) THEN c
       ELSE [c EXCEPT !.bodySent = TRUE,
                      !.ng = IF r.trailers THEN "await" ELSE "end"]

-----------------------------------------------------------------------------
(* Destruction of a stream. *)

\* As Die, but a stream the user has not finished with is destroyed too.
DieAlways(r) == [r EXCEPT !.life = "gone", !.ng = "shut"]

\* die(), called when nghttp2 has closed the stream: it is destroyed once
\* both sides have finished with it.
Die(r) == IF r.eof THEN [r EXCEPT !.life = "gone", !.ng = "shut"]
          ELSE [r EXCEPT !.closed = TRUE, !.ng = "shut"]

\* nghttp2 closes the stream when both sides have ended: on_stream_close_callback.
CloseIfDone(r) == IF r.ng = "end" /\ r.rx = "end" THEN Die(r) ELSE r

-----------------------------------------------------------------------------
(* Writing. *)

(***************************************************************************)
(* What nghttp2 would send with the connection's window at cw: HEADERS at  *)
(* any time, DATA only while that window is open.                          *)
(***************************************************************************)
Queued(ss, cw) ==
  {s \in Streams : \/ ss[s].ng \in {"resp", "hdrs", "trail"}
                   \/ ss[s].ng = "data" /\ cw > 0}

\* The ones from which no frame comes: their own window is used up, or their
\* data source has nothing.
Idle(ss, cw) ==
  {s \in Streams : ss[s].ng = "data" /\ cw > 0 /\ (ss[s].win = 0 \/ Defer(ss[s]))}

\* nghttp2 looks at the window before it asks the data source.
PutToSleep(r) == IF r.win = 0 THEN [r EXCEPT !.ng = "wait"] ELSE DataSourceRead(r, 1)

\* The streams of D were tried and nothing came from them.
Slept(ss, D) == [s \in Streams |-> IF s \in D THEN PutToSleep(ss[s]) ELSE ss[s]]

\* The bytes nghttp2 asks the data source of r for.
FrameRoom(r, cw) == Min({FrameLen, r.win, cw})

\* Stream r after nghttp2 has packed its next frame.
Packed(r, cw) ==
  CASE r.ng = "resp"  -> [r EXCEPT !.ng = "data"]
    [] r.ng = "data"  -> LET c == DataSourceRead(r, FrameRoom(r, cw))
                         IN [c EXCEPT !.win = @ - (c.sent - r.sent)]
    [] r.ng = "hdrs"  -> [r EXCEPT !.copies = @ - 1,
                                   !.ng = IF r.copies = 1 THEN "bare" ELSE @]
    [] r.ng = "trail" -> [r EXCEPT !.ng = "end"]

\* nghttp2_session_want_write.
WantWrite(ss, c, cw) == c \/ Queued(ss, cw) # {}

ShouldStop(ss, c, cw) ==
  /\ goaway /\ ~WantWrite(ss, c, cw)
  /\ \A s \in Streams : ss[s].life = "none" \/ ss[s].ng = "shut"

\* A response is told something; cleared() and error() both let go of it.
Tell(ss, S, what) ==
  [s \in Streams |-> IF s \in S THEN [ss[s] EXCEPT !.told = @ \cup {what}] ELSE ss[s]]

(***************************************************************************)
(* nghttp2_session_mem_send has nothing to write.  The connector stops if  *)
(* nghttp2 wants nothing more, and then reports success to the feedbacks.  *)
(***************************************************************************)
NothingToWrite(ss, pend, cw) ==
  LET idle == Slept(ss, Idle(ss, cw))
      stops == ShouldStop(idle, FALSE, cw)
  IN /\ Queued(ss, cw) = Idle(ss, cw)
     /\ str' = IF stops THEN Tell(idle, pend, "cleared") ELSE idle
     /\ pending' = IF stops THEN {} ELSE pend
     /\ conn' = IF stops THEN "stopped" ELSE conn
     /\ out' = NoFrame /\ cbs' = {} /\ cwin' = cw /\ ctrl' = FALSE /\ corrupt' = FALSE

\* A control frame goes out first.
WriteControl(ss, pend, cw) ==
  /\ str' = ss
  /\ out' = Control /\ cbs' = pend /\ pending' = {} /\ cwin' = cw /\ ctrl' = FALSE
  /\ UNCHANGED <<conn, corrupt>>

(***************************************************************************)
(* A frame of stream s goes out, after the streams of D were tried in      *)
(* vain.  If it closes the stream, on_stream_close_callback runs inside    *)
(* mem_send and calls do_write(): that enters mem_send again, and if there *)
(* is another frame it is written over the one being returned.             *)
(***************************************************************************)
WriteFrame(ss, pend, s, D, cw) ==
  LET packed == Packed(ss[s], cw)
      left   == cw - (packed.sent - ss[s].sent)
      closed == CloseIfDone(packed)
      nested == closed.ng = "shut"
      rest   == Slept([ss EXCEPT ![s] = closed], D)
  IN /\ str' = IF nested THEN Slept(rest, Idle(rest, left)) ELSE rest
     /\ out' = s /\ cbs' = pend /\ pending' = {} /\ cwin' = left
     /\ corrupt' = (nested /\ Queued(rest, left) # Idle(rest, left))
     /\ ctrl' = FALSE
     /\ UNCHANGED conn

(***************************************************************************)
(* connector::do_write() with the streams ss and the feedbacks pend; fly:  *)
(* a write is in flight; c: a control frame is queued; cw: the connection's *)
(* window.                                                                 *)
(***************************************************************************)
DoWrite(ss, pend, fly, c, cw) ==
  \/ /\ fly \/ conn # "open"
     /\ str' = ss /\ pending' = pend /\ ctrl' = c /\ cwin' = cw
     /\ UNCHANGED <<conn, corrupt>>
     /\ IF fly THEN UNCHANGED <<out, cbs>> ELSE out' = NoFrame /\ cbs' = {}
  \/ /\ ~fly /\ conn = "open"
     /\ \/ c /\ WriteControl(ss, pend, cw)
        \/ ~c /\ NothingToWrite(ss, pend, cw)
        \/ ~c /\ \E s \in Queued(ss, cw) \ Idle(ss, cw) :
                 \E D \in SUBSET Idle(ss, cw) : WriteFrame(ss, pend, s, D, cw)

InFlight == out # NoFrame

\* do_write() as the nghttp2 callbacks call it, with the streams now ss: only
\* if nghttp2 wants to write.
WriteIfWanted(ss, c, cw) ==
  \/ /\ WantWrite(ss, c, cw)
     /\ DoWrite(ss, pending, InFlight, c, cw)
  \/ /\ ~WantWrite(ss, c, cw)
     /\ str' = ss /\ ctrl' = c /\ cwin' = cw
     /\ UNCHANGED <<conn, out, cbs, pending, corrupt>>

\* The same, with the record of stream s now r.
MaybeWrite(s, r, c) ==
  \E ss \in {[str EXCEPT ![s] = r]} : WriteIfWanted(ss, c, cwin)

-----------------------------------------------------------------------------
(* Events of the peer: on_read, with the nghttp2 callbacks it leads to.     *)

Reading == conn # "gone" /\ ~corrupt

\* on_request_header_complete() and, at the end of the stream, on_request_finished().
Finished(r) == [r EXCEPT !.rx = "end", !.req = "finished"]

\* A new request: on_begin_headers, create_stream, on_header, on_frame_recv.
RecvHeaders(s, end) ==
  /\ Reading /\ ~goaway /\ str[s].life = "none"
  /\ \A p \in Streams : p < s => str[p].life # "none"
  /\ MaybeWrite(s, IF end THEN Finished(NewStream) ELSE NewStream, ctrl)
  /\ UNCHANGED <<env, goaway>>

\* A DATA frame: on_data_chunk_recv_callback posts it to the request.
RecvData(s) ==
  /\ Reading /\ str[s].life = "live" /\ str[s].ng # "shut" /\ str[s].rx = "open"
  /\ MaybeWrite(s, str[s], ctrl)
  /\ UNCHANGED <<env, goaway>>

\* The request ends with a DATA frame or with trailers, which are ignored.
RecvEnd(s) ==
  /\ Reading /\ str[s].life = "live" /\ str[s].ng # "shut" /\ str[s].rx = "open"
  /\ MaybeWrite(s, CloseIfDone(Finished(str[s])), ctrl)
  /\ UNCHANGED <<env, goaway>>

\* RST_STREAM: nghttp2 drops what it had for the stream and closes it.
RecvRst(s) ==
  /\ Reading /\ "rst" \in env
  /\ str[s].life = "live" /\ str[s].ng # "shut"
  /\ MaybeWrite(s, Die(str[s]), ctrl)
  /\ UNCHANGED <<env, goaway>>

\* SETTINGS or PING: nghttp2 queues an acknowledgement.
RecvControl ==
  /\ Reading /\ "control" \in env /\ ~ctrl
  /\ DoWrite(str, pending, InFlight, TRUE, cwin)
  /\ UNCHANGED <<env, goaway>>

\* GOAWAY from the peer.
RecvGoaway ==
  /\ Reading /\ "goaway" \in env /\ ~goaway
  /\ goaway' = TRUE
  /\ WriteIfWanted(str, ctrl, cwin)
  /\ UNCHANGED env

(***************************************************************************)
(* WINDOW_UPDATE for a stream: nghttp2 queues its data again if its window *)
(* was what held it back.                                                  *)
(***************************************************************************)
RecvStreamWindow(s, n) ==
  LET r == str[s] IN
  /\ Reading /\ "window" \in env /\ r.win + n <= SmallWindow
  /\ r.life = "live" /\ r.ng # "shut"
  /\ MaybeWrite(s, [r EXCEPT !.win = @ + n, !.ng = IF @ = "wait" THEN "data" ELSE @], ctrl)
  /\ UNCHANGED <<env, goaway>>

\* WINDOW_UPDATE for the connection.
RecvConnWindow(n) ==
  /\ Reading /\ "window" \in env /\ cwin + n <= SmallWindow
  /\ WriteIfWanted(str, ctrl, cwin + n)
  /\ UNCHANGED <<env, goaway>>

(***************************************************************************)
(* mem_recv reports a flood: go_away().  The assertion that follows does   *)
(* not hold then; this is the build without assertions.                    *)
(***************************************************************************)
RecvFlooded ==
  /\ Reading /\ "goaway" \in env /\ ~goaway
  /\ goaway' = TRUE
  /\ DoWrite(str, pending, InFlight, TRUE, cwin)
  /\ UNCHANGED env

\* mem_recv fails on a protocol error: on_read returns false, the connector stops.
RecvInvalid ==
  /\ Reading /\ "fail" \in env /\ conn = "open"
  /\ conn' = "stopped"
  /\ UNCHANGED <<str, out, cbs, pending, cwin, ctrl, env, goaway, corrupt>>

-----------------------------------------------------------------------------
(* The user's calls. *)

\* As Flush, but the data source is resumed only when more body is given.
FlushNoResumeAtEnd(r) ==
  IF r.closed THEN r
  ELSE IF r.upgrade THEN [r EXCEPT !.copies = @ + 1, !.ng = "hdrs"]
  ELSE IF r.resume /\ ~r.eof THEN [r EXCEPT !.resume = FALSE, !.ng = "data"]
  ELSE IF ~r.headersSent THEN [r EXCEPT !.headersSent = TRUE, !.ng = "resp"]
  ELSE r

(***************************************************************************)
(* flush() up to do_write(): resume the data source, or submit the         *)
(* response, or submit the trailers.  nghttp2 drops trailers of a stream   *)
(* whose END_STREAM was sent.  With status 101 every flush() submits the   *)
(* HEADERS again, without a data source and without END_STREAM.            *)
(***************************************************************************)
Flush(r) ==
  IF r.closed THEN r
  ELSE IF r.upgrade THEN [r EXCEPT !.copies = @ + 1, !.ng = "hdrs"]
  ELSE IF r.resume
    THEN [r EXCEPT !.resume = FALSE, !.ng = IF @ = "defer" THEN "data" ELSE @]
  ELSE IF ~r.headersSent
    THEN [r EXCEPT !.headersSent = TRUE, !.ng = IF @ = "idle" THEN "resp" ELSE @]
  ELSE IF r.bodySent /\ r.eof
    THEN [r EXCEPT !.ng = IF @ = "await" THEN "trail" ELSE @]
  ELSE r

\* flush() of stream s after its record became r.
FlushAndWrite(s, r, pend) ==
  IF r.closed
  THEN /\ str' = [str EXCEPT ![s] = r] /\ pending' = pend
       /\ UNCHANGED <<conn, out, cbs, cwin, ctrl, corrupt>>
  ELSE \E ss \in {[str EXCEPT ![s] = Flush(r)]} : DoWrite(ss, pend, InFlight, ctrl, cwin)

\* The user may call a response while it keeps it.
Calls(s, stages) == ~corrupt /\ str[s].held /\ str[s].user \in stages

\* headers(): on_header takes the status, 101 or another one.
Headers(s, upgrade) ==
  /\ Calls(s, {"begun"}) /\ (upgrade => "upgrade" \in env)
  /\ FlushAndWrite(s, [str[s] EXCEPT !.user = "headers", !.upgrade = upgrade], pending)
  /\ UNCHANGED <<env, goaway>>

\* body(): on_body
Body(s, n) ==
  LET r == str[s] IN
  /\ Calls(s, {"headers", "body"}) /\ r.given + n <= MaxBody
  /\ FlushAndWrite(s, [r EXCEPT !.user = "body", !.given = @ + n,
                                !.body = Append(@, r.given + n)],
                   pending)
  /\ UNCHANGED <<env, goaway>>

\* trailer(): on_trailer stores it; nothing is flushed.
Trailer(s) ==
  /\ "trailer" \in env
  /\ Calls(s, {"headers", "body"})
  /\ str' = [str EXCEPT ![s].user = "trailer", ![s].trailers = TRUE]
  /\ UNCHANGED <<conn, out, cbs, pending, cwin, ctrl, env, goaway, corrupt>>

\* end() posts a closure that holds the response.
End(s) ==
  /\ Calls(s, {"headers", "body", "trailer"})
  /\ str' = [str EXCEPT ![s].user = "ending"]
  /\ UNCHANGED <<conn, out, cbs, pending, cwin, ctrl, env, goaway, corrupt>>

(***************************************************************************)
(* The closure of end(): on_eom.  A stream that nghttp2 has closed is      *)
(* destroyed; otherwise the response waits for the next write and flushes. *)
(***************************************************************************)
RunEnd(s) ==
  LET r == [str[s] EXCEPT !.user = "ended", !.eof = TRUE] IN
  /\ ~corrupt /\ str[s].user = "ending"
  /\ \/ /\ r.closed
        /\ str' = [str EXCEPT ![s] = Die(r)]
        /\ UNCHANGED <<conn, out, cbs, pending, cwin, ctrl, corrupt>>
     \/ /\ ~r.closed
        /\ FlushAndWrite(s, r, pending \cup {s})
  /\ UNCHANGED <<env, goaway>>

\* The user lets go of the response.
Drop(s) ==
  /\ "drop" \in env /\ ~corrupt /\ str[s].held
  /\ str' = [str EXCEPT ![s].held = FALSE]
  /\ UNCHANGED <<conn, out, cbs, pending, cwin, ctrl, env, goaway, corrupt>>

\* close(): the connector stops.
Close ==
  /\ "fail" \in env /\ conn = "open" /\ ~corrupt
  /\ conn' = "stopped"
  /\ UNCHANGED <<str, out, cbs, pending, cwin, ctrl, env, goaway, corrupt>>

-----------------------------------------------------------------------------
(* The connector. *)

\* The write completed: its feedbacks are posted, then do_write().
WriteOk ==
  /\ InFlight /\ ~corrupt
  /\ \E ss \in {Tell(str, cbs, "cleared")} : DoWrite(ss, pending, FALSE, ctrl, cwin)
  /\ UNCHANGED <<env, goaway>>

\* The write failed or was cancelled.
WriteFailed ==
  /\ InFlight /\ ~corrupt
  /\ "fail" \in env \/ conn = "stopped"
  /\ str' = Tell(str, cbs, "error")
  /\ conn' = "stopped" /\ out' = NoFrame /\ cbs' = {}
  /\ UNCHANGED <<pending, cwin, ctrl, env, goaway, corrupt>>

\* The peer closes the connection.
ReadFailed ==
  /\ "fail" \in env /\ conn = "open" /\ ~corrupt
  /\ conn' = "stopped"
  /\ UNCHANGED <<str, out, cbs, pending, cwin, ctrl, env, goaway, corrupt>>

\* res.lock(): the user, the end() closure or the response itself holds it;
\* after end() it holds itself until it is told something.
Locks(s) == str[s].held \/ str[s].user = "ending"
                       \/ (str[s].user = "ended" /\ str[s].told = {})

\* As NotifyError, but the streams that nghttp2 has closed are not listeners any more.
NotifyErrorSkipsClosed(r, locks) ==
  IF r.ng = "shut" THEN r
  ELSE [r EXCEPT !.req = IF @ = "on" THEN "error" ELSE @,
                 !.told = IF locks THEN @ \cup {"error"} ELSE @]

\* stream::notify_error
NotifyError(r, locks) ==
  [r EXCEPT !.req = IF @ = "on" THEN "error" ELSE @,
            !.told = IF locks THEN @ \cup {"error"} ELSE @]

(***************************************************************************)
(* ~connector: on_connector_nulled fails the pending feedbacks, then tells *)
(* every subscribed stream.  pending is not emptied.                       *)
(***************************************************************************)
OnConnectorNulled ==
  /\ conn = "stopped" /\ ~InFlight /\ ~corrupt
  /\ conn' = "gone"
  /\ LET failed == Tell(str, pending, "error") IN
     str' = [s \in Streams |-> IF s \in Live THEN NotifyError(failed[s], Locks(s))
                                             ELSE failed[s]]
  /\ UNCHANGED <<out, cbs, pending, cwin, ctrl, env, goaway, corrupt>>

-----------------------------------------------------------------------------
Next ==
  \/ \E s \in Streams :
       \/ \E end \in BOOLEAN : RecvHeaders(s, end)
       \/ RecvData(s) \/ RecvEnd(s) \/ RecvRst(s)
       \/ \E n \in 1 .. SmallWindow : RecvStreamWindow(s, n)
       \/ \E upgrade \in BOOLEAN : Headers(s, upgrade)
       \/ Trailer(s) \/ End(s) \/ RunEnd(s) \/ Drop(s)
       \/ \E n \in ChunkSizes : Body(s, n)
  \/ \E n \in 1 .. SmallWindow : RecvConnWindow(n)
  \/ RecvControl \/ RecvGoaway \/ RecvFlooded \/ RecvInvalid
  \/ Close \/ WriteOk \/ WriteFailed \/ ReadFailed \/ OnConnectorNulled

Spec == Init /\ [][Next]_vars

-----------------------------------------------------------------------------
(* Properties. *)

\* The members have the values their declarations allow.
TypeOK ==
  /\ env \in Envs
  /\ conn \in {"open", "stopped", "gone"}
  /\ out \in Streams \cup {NoFrame, Control}
  /\ cbs \subseteq Streams /\ pending \subseteq Streams
  /\ cwin \in Nat /\ ctrl \in BOOLEAN /\ goaway \in BOOLEAN
  /\ corrupt \in BOOLEAN
  /\ \A s \in Streams :
       LET r == str[s] IN
       /\ r.life \in {"none", "live", "gone"} /\ r.user \in UserStages
       /\ r.ng \in {"idle", "resp", "data", "defer", "wait", "await", "trail", "end", "shut",
                   "hdrs", "bare"}
       /\ r.rx \in {"open", "end"} /\ r.req \in {"none", "on", "finished", "error"}
       /\ r.told \subseteq {"cleared", "error"}
       /\ r.body \in Seq(Nat) /\ r.idx \in Nat /\ r.given \in 0 .. MaxBody
       /\ r.upgrade \in BOOLEAN /\ r.copies \in Nat /\ r.win \in Nat

(***************************************************************************)
(* A data source that nghttp2 has put to sleep is known to be asleep       *)
(* (resume_needed_), so the next flush() wakes it; and resume_data is only *)
(* called for a sleeping one.                                              *)
(***************************************************************************)
DeferredIsResumable ==
  \A s \in Live : str[s].ng # "shut" => (str[s].ng = "defer" <=> str[s].resume)

(***************************************************************************)
(* What nghttp2 was given is what the user gave, in order and without gap: *)
(* the bytes sent and the bytes left in the list make up the body.  The    *)
(* end of the stream leaves bytes behind only if they would have filled    *)
(* exactly one frame (is_last_frame is asked after the copy).              *)
(***************************************************************************)
BodyInOrder ==
  \A s \in Streams :
    LET r == str[s] IN
    /\ r.sent = r.base + r.idx
    /\ r.sent + BodyLength(r) = r.given
    /\ r.ng \in {"await", "trail", "end"} => BodyLength(r) \in {0} \cup 1 .. FrameLen

(***************************************************************************)
(* A stream is destroyed only when nobody will call it again: nghttp2 has  *)
(* closed it, the user has ended the response and the closure of end() has *)
(* run.  The response's callbacks hold a raw pointer to the stream.        *)
(***************************************************************************)
DestroyedIsUnused ==
  \A s \in Streams : str[s].life = "gone" => str[s].ng = "shut" /\ str[s].user = "ended"

(***************************************************************************)
(* The invariant of the members and of the life of a stream: it is         *)
(* destroyed only when it is used no more, and while it lives its data     *)
(* source is asleep exactly when the next flush() will wake it.            *)
(***************************************************************************)
H2Inv == TypeOK /\ DestroyedIsUnused /\ DeferredIsResumable

(***************************************************************************)
(* When the connector is gone, every request was finished or failed, and   *)
(* every response that can still be reached was told its outcome, except   *)
(* for streams destroyed because the peer had reset them.                  *)
(***************************************************************************)
NobodyForgotten ==
  conn = "gone" => \A s \in Live :
    /\ str[s].req \in {"finished", "error"}
    /\ str[s].held \/ str[s].user = "ended" => str[s].told # {}

(***************************************************************************)
(* A response without trailers that its user has ended is sent to its end: *)
(* there is no state in which it still has something to send, no write is  *)
(* in flight whose completion would go on with it, and the peer's windows  *)
(* have room for it.  A response of status 101 has no end on the wire; its *)
(* copies of the HEADERS are all sent.                                     *)
(***************************************************************************)
WindowUsedUp(r) == (r.ng = "wait" /\ r.win = 0) \/ (r.ng = "data" /\ cwin = 0)

Finishes(s) ==
  str[s].user = "ended" /\ conn = "open" /\ ~InFlight
    => \/ str[s].ng \in {"end", "shut"}
       \/ str[s].upgrade /\ str[s].ng = "bare"
       \/ WindowUsedUp(str[s])

EndedIsFinished == ~corrupt => \A s \in Streams : ~str[s].trailers => Finishes(s)

\* The same for every response, with trailers or without.
TrailersAreSent == ~corrupt => \A s \in Streams : Finishes(s)

\* When the connector is gone, a stream whose response was ended is destroyed.
StreamsDestroyed ==
  conn = "gone" => \A s \in Streams : str[s].user = "ended" => str[s].life = "gone"

\* mem_send is never entered from inside one of its own callbacks to send a frame.
OneSendAtATime == ~corrupt

\* A response is told that it was written only after its last byte was handed over.
ClearedIsSent ==
  \A s \in Streams : "cleared" \in str[s].told => str[s].ng \in {"end", "shut"}

=============================================================================
