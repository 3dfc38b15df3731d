---------------------------- MODULE Http2Client ----------------------------
(***************************************************************************)
(* The client side of HTTP/2: http2::session_client and                    *)
(* http2::stream_client (src/src/http2/session_client.cpp,                 *)
(* stream_client.cpp) between nghttp2, the connector and the user's        *)
(* client_request and client_response objects.                             *)
(*                                                                         *)
(* A request is submitted without a data provider, so its HEADERS frame    *)
(* carries END_STREAM: body and trailers of a request are stored and never *)
(* asked for, and the answer may close the stream before the user has      *)
(* ended the request.  nghttp2 is external; the connector is reduced to    *)
(* the write in flight, its feedbacks and its end.                         *)
(***************************************************************************)
EXTENDS Integers, Sequences, FiniteSets, SequencesExt

CONSTANTS
  Streams,        \* transactions the user may create, in this order
  MaxConcurrent,  \* most streams the peer accepts at once
  MaxEvents,      \* bound: events delivered to one response
  Envs            \* combinations of optional events that may happen

ASSUME H2ClientAssumption ==
  /\ Streams \subseteq Nat \ {0}
  /\ MaxConcurrent \in Nat \ {0} /\ MaxEvents \in Nat

VARIABLES
  env,      \* the optional events of this behaviour
  str,      \* the streams with their request and response objects
  conn,     \* the connector: "open", "stopped" or "gone"
  out,      \* an async_write is in flight
  cbs,      \* feedbacks captured by that write
  pending,  \* session_client::pending
  goaway,   \* the peer has sent GOAWAY
  misused   \* streams that were called after their destruction

vars == <<env, str, conn, out, cbs, pending, goaway, misused>>

(***************************************************************************)
(* life: the stream object.  eof, closed, headersSent, gotHeaders (which   *)
(* is _headers_sent) and res (the response is still referred to): members. *)
(* ng: "idle" no request submitted, "req" its HEADERS queued, "open" sent, *)
(* "shut" closed by nghttp2.  rx: what the peer may send next.             *)
(* user: how far the user of the request is.  evs: what the response       *)
(* reported.  told: what the request reported.  dies: error callbacks of   *)
(* the request that are posted and have not run.                           *)
(***************************************************************************)
NewStream ==
  [life |-> "live", eof |-> FALSE, closed |-> FALSE, headersSent |-> FALSE,
   gotHeaders |-> FALSE, res |-> TRUE, ng |-> "idle", rx |-> "head",
   user |-> "begun", evs |-> <<>>, told |-> {}, dies |-> 0]

NoStream == [NewStream EXCEPT !.life = "none", !.user = "none"]

UserStages == {"none", "begun", "headers", "ended"}
Outcomes == {"finished", "error"}

\* start(): SETTINGS are submitted and their write is in flight.
Init ==
  /\ env \in Envs
  /\ str = [s \in Streams |-> NoStream]
  /\ conn = "open" /\ out = TRUE /\ cbs = {} /\ pending = {}
  /\ goaway = FALSE /\ misused = {}

-----------------------------------------------------------------------------
(* Destruction. *)

\* As Die, but a stream the user is still writing to is destroyed as well.
DieAlways(r) == [r EXCEPT !.life = "gone"]

\* die(): destroyed if the request was ended, otherwise marked as closed.
Die(r) == IF r.eof THEN [r EXCEPT !.life = "gone"] ELSE [r EXCEPT !.closed = TRUE]

\* on_stream_close_callback
OnStreamClose(r) == [Die(r) EXCEPT !.ng = "shut"]

-----------------------------------------------------------------------------
(* Writing. *)

Active(ss) == {s \in Streams : ss[s].ng = "open"}

\* The peer accepts one more stream.
BelowLimit(ss) == Cardinality(Active(ss)) < MaxConcurrent

\* Requests whose HEADERS nghttp2 can handle now; the others wait for the
\* peer's limit on concurrent streams.
Sendable(ss) == {s \in Streams : ss[s].ng = "req" /\ BelowLimit(ss)}

\* client_request::cleared and error.  The error callback is die() unless
\* the user has registered another one.
TellRequest(r, what) ==
  [r EXCEPT !.told = @ \cup {what},
            !.dies = IF what = "error" /\ "onerror" \notin env THEN @ + 1 ELSE @]

TellAll(ss, S, what) ==
  [s \in Streams |-> IF s \in S THEN TellRequest(ss[s], what) ELSE ss[s]]

\* nghttp2_session_want_read and want_write are both 0.
ShouldStop(ss, gone) == gone /\ Active(ss) = {} /\ Sendable(ss) = {}

(***************************************************************************)
(* After GOAWAY nghttp2 opens no stream: frame_not_send_callback calls     *)
(* die() and submits RST_STREAM, then nghttp2 closes the stream and        *)
(* on_stream_close_callback calls die() again and do_write().  That enters *)
(* mem_send from inside mem_send: the RST_STREAM is written by the inner   *)
(* call, and the outer one puts its own result, another RST_STREAM or      *)
(* nothing, in the buffer being written.  What the peer then receives is   *)
(* undefined; no property here is about it.  With nothing to return and    *)
(* nothing left to wait for the outer call also stops the connector.       *)
(***************************************************************************)
Refused(ss) ==
  [s \in Streams |-> IF s \in Sendable(ss) THEN OnStreamClose(Die(ss[s])) ELSE ss[s]]

RefusedLast(ss) == Cardinality(Sendable(ss)) = 1 /\ ShouldStop(Refused(ss), TRUE)

\* connector::do_write() with the streams ss, the feedbacks pend, a write in
\* flight or not (fly), and GOAWAY received or not (gone).
DoWrite(ss, pend, fly, gone) ==
  \/ /\ fly \/ conn # "open"
     /\ str' = ss /\ pending' = pend
     /\ IF fly THEN UNCHANGED <<out, cbs>> ELSE out' = FALSE /\ cbs' = {}
     /\ UNCHANGED <<conn, misused>>
  \/ /\ ~fly /\ conn = "open" /\ ~gone
     /\ \E s \in Sendable(ss) :
          /\ \A p \in Sendable(ss) : s <= p
          /\ str' = [ss EXCEPT ![s].ng = "open"]
     /\ out' = TRUE /\ cbs' = pend /\ pending' = {}
     /\ UNCHANGED <<conn, misused>>
  \/ /\ ~fly /\ conn = "open" /\ gone /\ Sendable(ss) # {}
     /\ str' = Refused(ss)
     /\ misused' = misused \cup {s \in Sendable(ss) : ss[s].eof}
     /\ out' = TRUE /\ cbs' = pend /\ pending' = {}   \* RST_STREAM
     /\ conn' = IF RefusedLast(ss) THEN "stopped" ELSE conn
  \/ /\ ~fly /\ conn = "open" /\ Sendable(ss) = {}
     /\ LET stops == ShouldStop(ss, gone) IN
        /\ str' = IF stops THEN TellAll(ss, pend, "cleared") ELSE ss
        /\ pending' = IF stops THEN {} ELSE pend
        /\ conn' = IF stops THEN "stopped" ELSE conn
     /\ out' = FALSE /\ cbs' = {}
     /\ UNCHANGED misused

\* do_write() as the nghttp2 callbacks call it, with the streams now ss: only
\* if nghttp2 wants to write.
WriteIfWanted(ss, gone) ==
  IF Sendable(ss) # {} THEN DoWrite(ss, pending, out, gone)
  ELSE str' = ss /\ UNCHANGED <<conn, out, cbs, pending, misused>>

\* The same, with the record of stream s now r.
MaybeWrite(s, r) == \E ss \in {[str EXCEPT ![s] = r]} : WriteIfWanted(ss, goaway)

-----------------------------------------------------------------------------
(* Events of the peer: on_read and the nghttp2 callbacks it leads to.       *)

Sane == misused = {}
Receiving(s) == Sane /\ conn # "gone" /\ str[s].ng = "open" /\ str[s].life = "live"
Room(s, n) == Len(str[s].evs) + n <= MaxEvents
Report(r, what) == [r EXCEPT !.evs = @ \o what]

\* add_header: a field is a trailer once headers have been reported.
AddHeader(r) == IF r.gotHeaders THEN Report(r, <<"trailer">>) ELSE r

\* on_response_header_complete, for every HEADERS frame.
OnResponseHeaderComplete(r) == [Report(r, <<"headers">>) EXCEPT !.gotHeaders = TRUE]

\* As OnResponseFinished, but the stream keeps its reference to the response.
OnResponseFinishedKeepsResponse(r) == [Report(r, <<"finished">>) EXCEPT !.rx = "end"]

OnResponseFinished(r) == [Report(r, <<"finished">>) EXCEPT !.res = FALSE, !.rx = "end"]

\* END_STREAM: the response is finished, and as the request was ended with
\* its HEADERS nghttp2 closes the stream.
Ended(r, end) == IF end THEN OnStreamClose(OnResponseFinished(r)) ELSE r

\* An interim response, the response or its trailers.
RecvHeaders(s, kind, end) ==
  /\ Receiving(s) /\ Room(s, 3)
  /\ \/ kind = "interim" /\ "interim" \in env /\ str[s].rx = "head" /\ ~end
     \/ kind = "final" /\ str[s].rx = "head"
     \/ kind = "trailer" /\ "trailer" \in env /\ str[s].rx = "body" /\ end
  /\ LET r == [OnResponseHeaderComplete(AddHeader(str[s]))
                 EXCEPT !.rx = IF kind = "final" THEN "body" ELSE @]
     IN MaybeWrite(s, Ended(r, end))
  /\ UNCHANGED <<env, goaway>>

RecvData(s, end) ==
  /\ Receiving(s) /\ str[s].rx = "body" /\ Room(s, IF end THEN 2 ELSE 4)
  /\ MaybeWrite(s, Ended(Report(str[s], <<"body">>), end))
  /\ UNCHANGED <<env, goaway>>

\* RST_STREAM: the stream is closed and nobody is told.
RecvRst(s) ==
  /\ Receiving(s) /\ "rst" \in env
  /\ MaybeWrite(s, OnStreamClose(str[s]))
  /\ UNCHANGED <<env, goaway>>

\* GOAWAY: nghttp2 closes the streams S the peer will not process, and handles
\* the requests that were waiting for one of them to end.
RecvGoaway ==
  /\ Sane /\ conn # "gone" /\ "goaway" \in env /\ ~goaway
  /\ goaway' = TRUE
  /\ \E S \in SUBSET Active(str) :
     \E ss \in {[s \in Streams |-> IF s \in S THEN OnStreamClose(str[s]) ELSE str[s]]} :
       WriteIfWanted(ss, TRUE)
  /\ UNCHANGED env

\* mem_recv fails or the peer closes: the connector stops.
ReadFailed ==
  /\ Sane /\ "fail" \in env /\ conn = "open"
  /\ conn' = "stopped"
  /\ UNCHANGED <<env, str, out, cbs, pending, goaway, misused>>

-----------------------------------------------------------------------------
(* The user. *)

\* create_transaction(): get_user_handlers needs a connector.
CreateTransaction(s) ==
  /\ Sane /\ conn # "gone" /\ str[s].life = "none"
  /\ \A p \in Streams : p < s => str[p].life # "none"
  /\ str' = [str EXCEPT ![s] = NewStream]
  /\ UNCHANGED <<env, conn, out, cbs, pending, goaway, misused>>

\* As Flush, but a request made while a write is in flight is not submitted.
FlushWhenIdle(r) ==
  IF ~r.headersSent /\ ~out THEN [r EXCEPT !.headersSent = TRUE, !.ng = "req"] ELSE r

\* flush(): with no data provider only the first call has an effect.
Flush(r) == IF ~r.headersSent THEN [r EXCEPT !.headersSent = TRUE, !.ng = "req"] ELSE r

FlushAndWrite(s, r, pend) ==
  IF r.closed
  THEN /\ str' = [str EXCEPT ![s] = r] /\ pending' = pend
       /\ UNCHANGED <<conn, out, cbs, misused>>
  ELSE \E ss \in {[str EXCEPT ![s] = Flush(r)]} : DoWrite(ss, pend, out, goaway)

Calls(s, stage) == Sane /\ str[s].user = stage

\* headers(): on_header submits the request.
Headers(s) ==
  /\ Calls(s, "begun")
  /\ FlushAndWrite(s, [str[s] EXCEPT !.user = "headers"], pending)
  /\ UNCHANGED <<env, goaway>>

\* body(): on_body stores the chunk and flushes; it is never sent.
Body(s) ==
  /\ Calls(s, "headers")
  /\ FlushAndWrite(s, str[s], pending)
  /\ UNCHANGED <<env, goaway>>

\* end(): on_eom runs at once.
End(s) ==
  LET r == [str[s] EXCEPT !.user = "ended", !.eof = TRUE] IN
  /\ Calls(s, "headers")
  /\ \/ /\ r.closed
        /\ str' = [str EXCEPT ![s] = Die(r)]
        /\ UNCHANGED <<conn, out, cbs, pending, misused>>
     \/ ~r.closed /\ FlushAndWrite(s, r, pending \cup {s})
  /\ UNCHANGED <<env, goaway>>

Close ==
  /\ Sane /\ "fail" \in env /\ conn = "open"
  /\ conn' = "stopped"
  /\ UNCHANGED <<env, str, out, cbs, pending, goaway, misused>>

\* A posted error callback of the request runs.
RunError(s) ==
  LET r == [str[s] EXCEPT !.dies = @ - 1] IN
  /\ Sane /\ str[s].dies > 0
  /\ IF r.life = "gone"
     THEN str' = [str EXCEPT ![s] = r] /\ misused' = misused \cup {s}
     ELSE str' = [str EXCEPT ![s] = Die(r)] /\ UNCHANGED misused
  /\ UNCHANGED <<env, conn, out, cbs, pending, goaway>>

-----------------------------------------------------------------------------
(* The connector. *)

WriteOk ==
  /\ out /\ Sane
  /\ \E ss \in {TellAll(str, cbs, "cleared")} : DoWrite(ss, pending, FALSE, goaway)
  /\ UNCHANGED <<env, goaway>>

WriteFailed ==
  /\ out /\ Sane
  /\ "fail" \in env \/ conn = "stopped"
  /\ str' = TellAll(str, cbs, "error")
  /\ conn' = "stopped" /\ out' = FALSE /\ cbs' = {}
  /\ UNCHANGED <<env, pending, goaway, misused>>

\* As NotifyError, but only the requests that were sent are told.
NotifyErrorSkipsUnsent(r) ==
  IF r.life # "live" \/ r.ng # "open" THEN r
  ELSE TellRequest(IF r.res THEN Report(r, <<"error">>) ELSE r, "error")

\* stream_client::notify_error
NotifyError(r) ==
  IF r.life # "live" THEN r
  ELSE TellRequest(IF r.res THEN Report(r, <<"error">>) ELSE r, "error")

\* ~connector: on_connector_nulled fails the pending requests, then tells
\* every stream.
OnConnectorNulled ==
  /\ conn = "stopped" /\ ~out /\ Sane
  /\ conn' = "gone"
  /\ LET failed == TellAll(str, pending, "error") IN
     str' = [s \in Streams |-> NotifyError(failed[s])]
  /\ UNCHANGED <<env, out, cbs, pending, goaway, misused>>

-----------------------------------------------------------------------------
Next ==
  \/ \E s \in Streams :
       \/ CreateTransaction(s) \/ Headers(s) \/ Body(s) \/ End(s) \/ RunError(s)
       \/ \E kind \in {"interim", "final", "trailer"}, end \in BOOLEAN : RecvHeaders(s, kind, end)
       \/ \E end \in BOOLEAN : RecvData(s, end)
       \/ RecvRst(s)
  \/ RecvGoaway \/ ReadFailed \/ Close \/ WriteOk \/ WriteFailed \/ OnConnectorNulled

Spec == Init /\ [][Next]_vars

-----------------------------------------------------------------------------
(* Properties. *)

\* The members have the values their declarations allow.
TypeOK ==
  /\ env \in Envs /\ conn \in {"open", "stopped", "gone"}
  /\ out \in BOOLEAN /\ goaway \in BOOLEAN
  /\ cbs \subseteq Streams /\ pending \subseteq Streams /\ misused \subseteq Streams
  /\ \A s \in Streams :
       LET r == str[s] IN
       /\ r.life \in {"none", "live", "gone"} /\ r.user \in UserStages
       /\ r.ng \in {"idle", "req", "open", "shut"} /\ r.rx \in {"head", "body", "end"}
       /\ r.told \subseteq {"cleared", "error"} /\ r.dies \in 0 .. 3
       /\ Len(r.evs) <= MaxEvents + 1

(***************************************************************************)
(* A response reports headers first, one outcome at most, and nothing      *)
(* after the outcome: neither the end of the connection nor a frame that   *)
(* arrives later reaches a response that is finished.                      *)
(***************************************************************************)
ResponseEventsInOrder ==
  \A s \in Streams : LET e == str[s].evs IN
    /\ \A i \in DOMAIN e : e[i] \in Outcomes => i = Len(e)
    /\ e # <<>> => Head(e) \in {"headers", "error"}

(***************************************************************************)
(* A destroyed stream was closed by nghttp2, or lost its connection, and   *)
(* the user had ended the request: no call of the user reaches it.         *)
(***************************************************************************)
DestroyedIsUnused ==
  \A s \in Streams : str[s].life = "gone" =>
    str[s].user = "ended" /\ (str[s].ng = "shut" \/ "error" \in str[s].told)

(***************************************************************************)
(* The invariant of the members, of the life of a stream and of what its   *)
(* response has reported.                                                  *)
(***************************************************************************)
H2ClientInv == TypeOK /\ DestroyedIsUnused /\ ResponseEventsInOrder

(***************************************************************************)
(* A request the user has given headers for is handed to the peer as soon  *)
(* as the peer's limit allows: a write is in flight, or nothing sendable   *)
(* is left.                                                                *)
(***************************************************************************)
RequestIsSent ==
  Sane /\ conn = "open" /\ ~out /\ ~goaway =>
    \A s \in Streams : str[s].user \in {"headers", "ended"} /\ ~str[s].closed =>
       str[s].ng \in {"open", "shut"} \/ ~BelowLimit(str)

(***************************************************************************)
(* When the connector is gone and the error callbacks have run, the        *)
(* streams of ended requests are destroyed; with an error callback of the  *)
(* user's nobody destroys them.                                            *)
(***************************************************************************)
StreamsDestroyed ==
  Sane /\ conn = "gone" /\ "onerror" \notin env => \A s \in Streams :
    str[s].user = "ended" /\ str[s].dies = 0 => str[s].life = "gone"

(***************************************************************************)
(* When the connector is gone every stream that still exists has reported  *)
(* an outcome to its response and an error to its request, also one that   *)
(* the peer had reset while the user was writing to it; and the streams of *)
(* ended requests do not stay behind.                                      *)
(***************************************************************************)
NobodyForgotten ==
  /\ StreamsDestroyed
  /\ conn = "gone" => \A s \in Streams : str[s].life = "live" =>
       /\ str[s].evs # <<>> /\ Last(str[s].evs) \in Outcomes
       /\ "error" \in str[s].told

\* No stream is called after its destruction.
NoUseAfterDestruction == misused = {}

\* A response reports its headers once.
HeadersOnce ==
  \A s \in Streams : Cardinality({i \in DOMAIN str[s].evs : str[s].evs[i] = "headers"}) <= 1

=============================================================================
