---------------------------- MODULE Http1Server ----------------------------
(***************************************************************************)
(* A server side HTTP/1.x connection: handler_http1<server_traits>         *)
(* (src/src/protocol/handler_http1.h) between its connector and the        *)
(* http::request / http::response objects it hands to the user             *)
(* (src/src/http/server).                                                  *)
(*                                                                         *)
(* Requests are numbered in arrival order; request n and response n are    *)
(* created together when the parser reports the beginning of a message.    *)
(* The io_service is single threaded: an action is one completion handler, *)
(* one posted closure, one parser callback or one call by the user.  Two   *)
(* handlers are split where other code runs in the middle of them:         *)
(*   - on_read (mode # "idle"): the parser callbacks are separate actions, *)
(*     because the user's on_request callback runs between them;           *)
(*   - notify_local_content (polling): one action per iteration of its     *)
(*     loop.                                                               *)
(* While either is in progress no other handler is enabled.                *)
(*                                                                         *)
(* The closures posted by end() run in the order of the calls; those that  *)
(* only report an outcome to one response (Posted) may run in any order,   *)
(* which asio does not promise and which none of them can notice.          *)
(***************************************************************************)
EXTENDS Connector, FiniteSets

CONSTANTS
  MaxReq,     \* bound: requests the peer sends on this connection
  Chunked,    \* the requests that get a chunked response
  ConnHdr,    \* connection header of a response: subset of {"none", "keepalive", "close"}
  Envs        \* the circumstances a connection may meet: sets of elements of EnvAll

\* What the peer and the user may do besides plain requests and responses.
EnvAll == {"body", "trailer", "reqtrailer", "continue", "drop", "close", "fail", "reset",
           "timeout", "nonpersistent"}

ASSUME MaxReqAssumption == MaxReq \in Nat /\ Ids = 1 .. MaxReq
ASSUME ChunkedAssumption == Chunked \subseteq Ids
ASSUME ConnHdrAssumption == ConnHdr \subseteq {"none", "keepalive", "close"}
ASSUME EnvAssumption == Envs \subseteq SUBSET EnvAll

VARIABLES
  env,            \* the circumstances of this connection, one of Envs
  locals,         \* local_objects: numbers of the responses still to be serialised
  remotes,        \* remote_objects: the requests being decoded
  nreq,           \* requests handed to the user so far
  dec,            \* where the parser is in the current message
  mode,           \* on_read: "idle", "start", "callback" (the user runs), "parse"
  polling,        \* notify_local_content is looping
  cur,            \* the response whose end() closure is running, or 0
  user_close, decoding_error, persistent,
  enc,            \* encoder: _encoder_state and _chunked
  enc_ok,         \* no assertion of the encoder has failed
  resp, req,      \* the response and request objects
  ends,           \* posted closures of response::end()
  ran,            \* responses whose posted feedback has run
  missing,        \* responses reported as missing_stream_element
  crashed         \* the list operations of decoding_failure met an empty list

userVars    == <<nreq, resp, req, ends, ran>>
decodeVars  == <<remotes, dec, mode, decoding_error, crashed>>
encodeVars  == <<enc, enc_ok>>
handlerVars == <<env, locals, polling, cur, user_close, persistent, missing,
                 decodeVars, encodeVars, userVars>>
vars        == <<connVars, handlerVars>>

Stages == {"none", "continued", "headers", "body", "trailer", "ended"}

Response ==
  [held : BOOLEAN,                                  \* the user keeps the object
   stage : Stages,                                  \* how far the user has got
   cont : BOOLEAN,                                  \* continue_required
   hdr : {"no", "none", "keepalive", "close"},      \* response_headers
   body : BOOLEAN, trl : BOOLEAN, ended : BOOLEAN,  \* content, trailers, ended
   told : Seq({"cleared", "error"})]                \* callbacks fired

\* The events posted to a request so far, in the order they will run.
Request == Seq({"headers", "body", "trailer", "finished", "error"})

TypeOK ==
  /\ ConnTypeOK
  /\ env \in Envs
  /\ locals \in Seq(Ids) /\ remotes \in Seq(Ids)
  /\ nreq \in 0 .. MaxReq
  /\ dec \in {"idle", "begun", "headers", "body", "trailer"}
  /\ mode \in {"idle", "start", "callback", "parse"}
  /\ polling \in BOOLEAN /\ cur \in Ids \cup {0}
  /\ user_close \in BOOLEAN /\ decoding_error \in BOOLEAN /\ persistent \in BOOLEAN
  /\ enc \in [st : {"ZERO", "HEADER", "BODY", "TRAILER"}, chunked : BOOLEAN]
  /\ enc_ok \in BOOLEAN /\ crashed \in BOOLEAN
  /\ resp \in [Ids -> Response]
  /\ req \in [Ids -> Request]
  /\ ends \in Seq(Ids) /\ ran \subseteq Ids /\ missing \subseteq Ids

FreshResponse ==
  [held |-> FALSE, stage |-> "none", cont |-> FALSE, hdr |-> "no",
   body |-> FALSE, trl |-> FALSE, ended |-> FALSE, told |-> <<>>]

\* Nobody cancels the socket of an accepted connection while it is open: the handler of the
\* handshake timer only shuts it down (http_server.cpp:98-103).
Init ==
  /\ ConnInit /\ cut = {}
  /\ env \in Envs
  /\ locals = <<>> /\ remotes = <<>> /\ nreq = 0
  /\ dec = "idle" /\ mode = "idle" /\ polling = FALSE /\ cur = 0
  /\ user_close = FALSE /\ decoding_error = FALSE /\ persistent = TRUE
  /\ enc = [st |-> "ZERO", chunked |-> FALSE] /\ enc_ok = TRUE
  /\ resp = [id \in Ids |-> FreshResponse]
  /\ req = [id \in Ids |-> <<>>]
  /\ ends = <<>> /\ ran = {} /\ missing = {} /\ crashed = FALSE

InSeq(s) == {s[i] : i \in DOMAIN s}

-----------------------------------------------------------------------------
(* Who may run. *)

Running    == ~crashed /\ ~polling
HandlerTurn == Running /\ mode = "idle" /\ LoopTurn
ParserTurn == Running /\ mode # "idle"
UserTurn   == Running /\ mode \in {"idle", "callback"} /\ ~Unreferenced

\* The feedback closures posted by the connector and not yet run.
Posted == (acked \cup nacked) \ ran

\* weak_ptr::lock() on a response: the user or some closure holds it.
Locks(id) ==
  resp[id].held \/ cur = id \/ id \in InSeq(ends) \cup pcc \cup fb \cup Posted

-----------------------------------------------------------------------------
(* Notifications to the objects the user holds. *)

Terminated(id) == InSeq(req[id]) \cap {"finished", "error"} # {}

\* request::error / request::finished: only the first of them is passed on.
WithTerminal(id, event) == IF Terminated(id) THEN req[id] ELSE Append(req[id], event)

\* As Failed, but the outcome replaces the list of outcomes.
FailedOverwrites(r) == [r EXCEPT !.ended = TRUE, !.told = "error"]

\* response::error(), response::cleared()
Failed(r)  == [r EXCEPT !.ended = TRUE, !.told = Append(@, "error")]
Cleared(r) == [r EXCEPT !.ended = TRUE, !.told = Append(@, "cleared")]

\* notify_all(err), together with the pending feedbacks in more, which fail too.
NotifyAll(more) ==
  /\ req' = [id \in Ids |-> IF id \in InSeq(remotes) THEN WithTerminal(id, "error")
                                                     ELSE req[id]]
  /\ resp' = [id \in Ids |-> IF id \in more \/ (id \in InSeq(locals) /\ Locks(id))
                             THEN Failed(resp[id]) ELSE resp[id]]
  /\ locals' = <<>> /\ remotes' = <<>>

\* content_notification: enter the loop of notify_local_content.
Notify ==
  /\ polling' = (locals # <<>>)
  /\ cur' = 0
  /\ UNCHANGED <<connVars, locals, env, user_close, persistent, missing, decodeVars,
                 encodeVars, nreq, req, ran>>

-----------------------------------------------------------------------------
(* The user's calls.  The user may send one 100 Continue, then sends       *)
(* headers, then at most one body, then at most one trailer, then the end; *)
(* a body or trailer may be left out, a trailer needs a body.              *)

Held(id) == UserTurn /\ resp[id].held

Headers(id, c) ==
  /\ c = "none" \/ "nonpersistent" \in env
  /\ Held(id) /\ resp[id].stage \in {"none", "continued"}
  /\ resp' = [resp EXCEPT ![id].stage = "headers", ![id].hdr = c]
  /\ UNCHANGED ends
  /\ Notify

Body(id) ==
  /\ "body" \in env
  /\ Held(id) /\ resp[id].stage = "headers"
  /\ resp' = [resp EXCEPT ![id].stage = "body", ![id].body = TRUE]
  /\ UNCHANGED ends
  /\ Notify

Trailer(id) ==
  /\ "trailer" \in env /\ id \in Chunked
  /\ Held(id) /\ resp[id].stage = "body"
  /\ resp' = [resp EXCEPT ![id].stage = "trailer", ![id].trl = TRUE]
  /\ UNCHANGED ends
  /\ Notify

SendContinue(id) ==
  /\ "continue" \in env
  /\ Held(id) /\ resp[id].stage = "none"
  /\ resp' = [resp EXCEPT ![id].stage = "continued", ![id].cont = TRUE]
  /\ UNCHANGED ends
  /\ Notify

\* end() only posts a closure, which holds the response.
End(id) ==
  /\ Held(id) /\ resp[id].stage \in {"headers", "body", "trailer"}
  /\ resp' = [resp EXCEPT ![id].stage = "ended"]
  /\ ends' = Append(ends, id)
  /\ UNCHANGED <<connVars, locals, polling, cur, env, user_close, persistent, missing,
                 decodeVars, encodeVars, nreq, req, ran>>

\* The user lets its shared_ptr go.
Drop(id) ==
  /\ "drop" \in env
  /\ Held(id)
  /\ resp' = [resp EXCEPT ![id].held = FALSE]
  /\ UNCHANGED <<connVars, locals, polling, cur, env, user_close, persistent, missing,
                 decodeVars, encodeVars, nreq, req, ends, ran>>

\* connection::close()
Close ==
  /\ "close" \in env
  /\ UserTurn
  /\ user_close' = TRUE
  /\ ConnClose \/ (~alive /\ UNCHANGED connVars)
  /\ NotifyAll({})
  /\ UNCHANGED <<env, polling, cur, persistent, missing, dec, mode, decoding_error, crashed,
                 encodeVars, nreq, ends, ran>>

\* connection::on_timeout() (on a stopped connector: see LateTimeout in ConnectorSpec)
OnTimeout(on) ==
  /\ "timeout" \in env
  /\ UserTurn /\ ~stopped
  /\ SetTimeout(on)
  /\ UNCHANGED handlerVars

\* connection::set_persistent()
SetPersistent(on) ==
  /\ "nonpersistent" \in env
  /\ UserTurn
  /\ persistent' = on
  /\ UNCHANGED <<connVars, locals, polling, cur, env, user_close, missing, decodeVars, encodeVars,
                 userVars>>

-----------------------------------------------------------------------------
(* Posted closures. *)

\* The closure of end(): ccb sets ended and notifies.
RunEnd ==
  /\ HandlerTurn /\ ends # <<>>
  /\ ends' = Tail(ends)
  /\ resp' = [resp EXCEPT ![Head(ends)].ended = TRUE]
  /\ polling' = (locals # <<>>)
  /\ cur' = IF locals # <<>> THEN Head(ends) ELSE 0
  /\ UNCHANGED <<connVars, locals, env, user_close, persistent, missing, decodeVars,
                 encodeVars, nreq, req, ran>>

\* A feedback posted by the connector: cleared() or error().
RunFeedback(id) ==
  /\ HandlerTurn /\ id \in Posted
  /\ ran' = ran \cup {id}
  /\ resp' = [resp EXCEPT ![id] = IF id \in acked THEN Cleared(@) ELSE Failed(@)]
  /\ UNCHANGED <<connVars, locals, polling, cur, env, user_close, persistent, missing,
                 decodeVars, encodeVars, nreq, req, ends>>

-----------------------------------------------------------------------------
(* notify_local_content: one iteration of its loop. *)

\* As Encoded, but the content is looked at before the headers.
EncodedBodyFirst(r) ==
  (IF r.body THEN <<"B">> ELSE <<>>) \o (IF r.hdr # "no" THEN <<"H">> ELSE <<>>) \o
  (IF r.trl THEN <<"T">> ELSE <<>>) \o (IF r.ended THEN <<"E">> ELSE <<>>)

\* The parts get_state() reports one after the other, in its order.
Encoded(r) ==
  (IF r.hdr # "no" THEN <<"H">> ELSE <<>>) \o (IF r.body THEN <<"B">> ELSE <<>>) \o
  (IF r.trl THEN <<"T">> ELSE <<>>) \o (IF r.ended THEN <<"E">> ELSE <<>>)

\* The assertions of http_codec's encode_* and the states they move to.
Accepts(st, p) ==
  CASE p = "H" -> st = "ZERO"
    [] p = "B" -> st \in {"HEADER", "BODY"}
    [] p = "T" -> st \in {"BODY", "TRAILER"}
    [] p = "E" -> st # "ZERO"

After(p) ==
  CASE p = "H" -> "HEADER" [] p = "B" -> "BODY" [] p = "T" -> "TRAILER" [] p = "E" -> "ZERO"

StopPolling == polling' = FALSE /\ cur' = 0

\* The front response is gone: a connection error, and everybody fails.
PollExpired ==
  /\ ~crashed /\ polling /\ ~Locks(Head(locals))
  /\ missing' = missing \cup {Head(locals)}
  /\ NotifyAll({})
  /\ StopPolling
  /\ UNCHANGED <<connVars, env, user_close, persistent, dec, mode, decoding_error, crashed,
                 encodeVars, nreq, ends, ran>>

\* send_continue: header and end of message of a 100, then poll_local returns false.
PollContinue ==
  /\ ~crashed /\ polling
  /\ LET id == Head(locals) IN
     /\ Locks(id) /\ resp[id].cont
     /\ resp' = [resp EXCEPT ![id].cont = FALSE]
     /\ Submit(id, <<"C">>, FALSE, FALSE)
     /\ enc' = [st |-> "ZERO", chunked |-> FALSE]
     /\ enc_ok' = (enc_ok /\ enc.st = "ZERO")
  /\ StopPolling
  /\ UNCHANGED <<locals, env, user_close, persistent, missing, decodeVars, nreq, req, ends, ran>>

\* The loop of poll_local: encode and submit everything response id has.
Drain(id) ==
  LET r    == resp[id]
      all  == Encoded(r)
      ch   == IF r.hdr # "no" THEN id \in Chunked ELSE enc.chunked
      with == IF r.ended /\ ~ch THEN SubSeq(all, 1, Len(all) - 1) ELSE all
  IN
  /\ Locks(id) /\ ~r.cont
  /\ resp' = [resp EXCEPT ![id].hdr = "no", ![id].body = FALSE, ![id].trl = FALSE]
  /\ persistent' = IF r.hdr \in {"keepalive", "close"} THEN r.hdr = "keepalive" ELSE persistent
  /\ IF all = <<>> THEN UNCHANGED <<connVars, encodeVars>>
     ELSE /\ Submit(id, with, r.ended, all = <<"E">>)
          /\ enc' = [st |-> After(all[Len(all)]), chunked |-> ch]
          /\ enc_ok' = (enc_ok /\ \A i \in DOMAIN all :
                          Accepts(IF i = 1 THEN enc.st ELSE After(all[i - 1]), all[i]))

\* The response at the front has ended.
FrontEnded == resp[Head(locals)].ended

\* As PollFront, but the loop goes on with the next response when this one has not ended.
PollFrontNoBreak ==
  /\ ~crashed /\ polling
  /\ Drain(Head(locals))
  /\ locals' = IF FrontEnded THEN Tail(locals)
               ELSE Append(Tail(locals), Head(locals))
  /\ polling' = (FrontEnded /\ Len(locals) > 1)
  /\ cur' = IF polling' THEN cur ELSE 0
  /\ UNCHANGED <<env, user_close, missing, decodeVars, nreq, req, ends, ran>>

\* As PollFront, but a response that has ended is not removed.
PollFrontKeepsEnded ==
  /\ ~crashed /\ polling
  /\ Drain(Head(locals))
  /\ StopPolling
  /\ UNCHANGED <<locals, env, user_close, missing, decodeVars, nreq, req, ends, ran>>

\* Drain the front response; remove it and go on with the next if it has ended.
PollFront ==
  /\ ~crashed /\ polling
  /\ Drain(Head(locals))
  /\ locals' = IF FrontEnded THEN Tail(locals) ELSE locals
  /\ polling' = (FrontEnded /\ Len(locals) > 1)
  /\ cur' = IF polling' THEN cur ELSE 0
  /\ UNCHANGED <<env, user_close, missing, decodeVars, nreq, req, ends, ran>>

-----------------------------------------------------------------------------
(* Decoding: the callbacks of http_codec during on_read. *)

\* The bytes received in one read carry at least one parser event.
Read ==
  /\ HandlerTurn
  /\ nreq < MaxReq \/ dec # "idle" \/ "fail" \in env
  /\ ReadOk
  /\ mode' = "start"
  /\ UNCHANGED <<locals, polling, cur, env, user_close, persistent, missing, remotes, dec,
                 decoding_error, crashed, encodeVars, userVars>>

\* get_current() returns nullptr.
NoCurrent ==
  decoding_error \/ (IF remotes = <<>> THEN TRUE ELSE Terminated(Head(remotes)))

\* get_current() on an empty list is a connection error and stays one.
CurrentError == decoding_error' = (decoding_error \/ remotes = <<>>)

\* decoding_start: get_user_handlers, then the user's on_request callback.
DecodingStart ==
  /\ ParserTurn /\ dec = "idle" /\ nreq < MaxReq
  /\ dec' = "begun" /\ mode' = "callback"
  /\ decoding_error' = FALSE
  /\ nreq' = nreq + 1
  /\ locals' = Append(locals, nreq + 1) /\ remotes' = Append(remotes, nreq + 1)
  /\ resp' = [resp EXCEPT ![nreq + 1].held = TRUE]
  /\ UNCHANGED <<connVars, polling, cur, env, user_close, persistent, missing, crashed,
                 encodeVars, req, ends, ran>>

\* A parser event that passes on an event of the current request.
Decoded(from, to, event, left) ==
  /\ ParserTurn /\ dec \in from
  /\ dec' = to /\ mode' = "parse"
  /\ CurrentError
  /\ req' = IF NoCurrent THEN req
            ELSE [req EXCEPT ![Head(remotes)] =
                    IF event = "finished" THEN WithTerminal(Head(remotes), event)
                    ELSE Append(@, event)]
  /\ remotes' = IF NoCurrent THEN remotes ELSE left
  /\ UNCHANGED <<connVars, locals, polling, cur, env, user_close, missing, crashed,
                 encodeVars, nreq, resp, ends, ran>>

\* decoded_headers with update_persistent; keep: the request allows a persistent connection.
DecodedHeaders(keep) ==
  /\ keep \/ "nonpersistent" \in env
  /\ Decoded({"begun"}, "headers", "headers", remotes)
  /\ persistent' = (persistent /\ (keep \/ NoCurrent))

DecodedBody ==
  /\ "body" \in env
  /\ Decoded({"headers"}, "body", "body", remotes)
  /\ UNCHANGED persistent

\* A chunked request may carry a trailer, after its body or after no body at all.
DecodedTrailer ==
  /\ "reqtrailer" \in env
  /\ Decoded({"headers", "body"}, "trailer", "trailer", remotes)
  /\ UNCHANGED persistent

\* As DecodingEnd, but the finished request stays in the list.
DecodingEndKeeps ==
  /\ Decoded({"headers", "body", "trailer"}, "idle", "finished", remotes)
  /\ UNCHANGED persistent

DecodingEnd ==
  /\ Decoded({"headers", "body", "trailer"}, "idle", "finished", Tail(remotes))
  /\ UNCHANGED persistent

(***************************************************************************)
(* decoding_failure, after which on_read returns false: the current        *)
(* request fails, the LAST response fails, the FIRST is removed.           *)
(***************************************************************************)
DecodingFailure ==
  /\ "fail" \in env
  /\ ParserTurn
  /\ dec' = "idle" /\ mode' = "idle"
  /\ ReadRejected
  /\ CurrentError
  /\ \/ /\ NoCurrent
        /\ UNCHANGED <<req, remotes, resp, locals, crashed>>
     \/ /\ ~NoCurrent
        /\ req' = [req EXCEPT ![Head(remotes)] = WithTerminal(Head(remotes), "error")]
        /\ remotes' = Tail(remotes)
        /\ crashed' = (locals = <<>>)
        /\ IF locals = <<>> THEN UNCHANGED <<resp, locals>>
           ELSE LET back == locals[Len(locals)] IN
                /\ resp' = IF Locks(back) THEN [resp EXCEPT ![back] = Failed(@)] ELSE resp
                /\ locals' = Tail(locals)
  /\ UNCHANGED <<polling, cur, env, user_close, persistent, missing, encodeVars, nreq, ends, ran>>

\* The bytes of this read are used up: on_read returns true.
ReadEnds ==
  /\ ParserTurn /\ mode # "start"
  /\ ReadDone
  /\ mode' = "idle"
  /\ UNCHANGED <<locals, polling, cur, env, user_close, persistent, missing, remotes, dec,
                 decoding_error, crashed, encodeVars, userVars>>

-----------------------------------------------------------------------------
(* Connector events that reach the handler only through its connector. *)

Connection ==
  /\ HandlerTurn
  /\ \/ ReadFailed /\ "reset" \in env
     \/ ReadCanceled
     \/ WriteOk
     \/ \E n \in 0 .. Len(out) : (WriteFailed(n) /\ "reset" \in env) \/ WriteCanceled(n)
     \/ TimerExpires
     \/ RunTimer
  /\ UNCHANGED handlerVars

\* As OnConnectorNulled, but the pending feedbacks are not failed.
OnConnectorNulledForgetsPending ==
  /\ Running /\ mode = "idle"
  /\ Destroyed(FALSE)
  /\ IF user_close
     THEN UNCHANGED <<req, resp, locals, remotes, ran>>
     ELSE NotifyAll({}) /\ UNCHANGED ran
  /\ UNCHANGED <<polling, cur, env, user_close, persistent, missing, dec, mode,
                 decoding_error, crashed, encodeVars, nreq, ends>>

\* on_connector_nulled: nothing more after a user close, an error to everybody otherwise.
OnConnectorNulled ==
  /\ Running /\ mode = "idle"
  /\ Destroyed(~user_close)
  /\ IF user_close
     THEN UNCHANGED <<req, resp, locals, remotes, ran>>
     ELSE NotifyAll(pcc) /\ ran' = ran \cup pcc
  /\ UNCHANGED <<polling, cur, env, user_close, persistent, missing, dec, mode,
                 decoding_error, crashed, encodeVars, nreq, ends>>

-----------------------------------------------------------------------------

User ==
  \/ \E id \in Ids :
       \/ \E c \in ConnHdr : Headers(id, c)
       \/ Body(id) \/ Trailer(id) \/ SendContinue(id) \/ End(id) \/ Drop(id)
  \/ Close
  \/ \E on \in BOOLEAN : OnTimeout(on) \/ SetPersistent(on)

Posts == RunEnd \/ \E id \in Ids : RunFeedback(id)

Poll == PollExpired \/ PollContinue \/ PollFront

Decode ==
  \/ DecodingStart \/ (\E keep \in BOOLEAN : DecodedHeaders(keep))
  \/ DecodedBody \/ DecodedTrailer \/ DecodingEnd \/ DecodingFailure

Next == User \/ Posts \/ Poll \/ Read \/ Decode \/ ReadEnds \/ Connection \/ OnConnectorNulled

Spec == Init /\ [][Next]_vars

(***************************************************************************)
(* The single io_service thread keeps running whatever is ready: posted    *)
(* closures, the loop of notify_local_content, the parser once it has      *)
(* bytes, completions of cancelled operations, the destructor.  The peer   *)
(* takes the bytes written to it or resets.  Nothing is assumed of the     *)
(* user, and the peer need not send anything.                              *)
(***************************************************************************)
Fairness ==
  /\ WF_vars(RunEnd) /\ \A id \in Ids : WF_vars(RunFeedback(id))
  /\ WF_vars(Poll)
  /\ WF_vars(ReadEnds) /\ WF_vars(Decode)
  /\ WF_vars(stopped /\ Connection /\ rd' # rd)
  /\ WF_vars(writing /\ Connection /\ rd' = rd /\ fired' = fired)
  /\ WF_vars(Connection /\ fired' # fired)
  /\ WF_vars(OnConnectorNulled)

FairSpec == Spec /\ Fairness

-----------------------------------------------------------------------------
(* Properties. *)

ServerRuns ==
  {<<"C">>} \cup
  {h \o b \o t \o e : h \in {<<>>, <<"H">>}, b \in {<<>>, <<"B">>},
                      t \in {<<>>, <<"T">>}, e \in {<<>>, <<"E">>}}

Conn == INSTANCE ConnectorSpec
          WITH Runs <- ServerRuns, MaxSent <- 5 * MaxReq, LateTimeout <- FALSE

\* The handler uses its connector the way ConnectorSpec lets any handler use
\* one: responses are serialised in request order and nothing is submitted
\* for a response after its end, so all that is proved of the connector holds.
UsesConnector == Conn!ConnSpec

\* Responses that were serialised to their end.
Complete == pcc \cup fb \cup acked \cup nacked

\* Circumstances under which the handler tells everybody and leaves its encoder
\* between two messages: no malformed request and no close by the user.
Orderly == env \cap {"fail", "close"} = {}

\* A response its user let go after some of it was sent: notify_local_content
\* reports the missing element and goes on with the connection as it is.
Torso == \E id \in missing : \E i \in 1 .. Len(sent) : sent[i].id = id

\* What reaches the peer is a sequence of whole responses in request order: no
\* part of a response is missing, repeated or mixed with another response, and
\* the assertions of http_codec's encode_* hold for a user that respects the
\* protocol of response, whatever the order in which responses are answered.
\* A response its user lets go half way is cut short, and the encoder stays
\* inside it.
ResponsesWhole ==
  /\ TypeOK
  /\ Orderly /\ ~Torso => enc_ok
  /\ wire # <<>> => wire[1].part \in {"C", "H"}
  /\ \A i \in 1 .. Len(wire) - 1 :
       LET a == wire[i]  b == wire[i + 1] IN
       IF a.id = b.id
       THEN <<a.part, b.part>> \in {<<"C", "H">>, <<"H", "B">>, <<"H", "E">>,
                                   <<"B", "T">>, <<"B", "E">>, <<"T", "E">>}
       ELSE a.id < b.id /\ b.part \in {"C", "H"} /\ a.id \in Complete \cup missing

\* on_write is reported to the user only for a response the user has ended and
\* of which nothing is still queued, in flight or unserialised.
ClearedIsDelivered ==
  \A id \in Ids : "cleared" \in InSeq(resp[id].told) =>
    /\ resp[id].stage = "ended"
    /\ resp[id].hdr = "no" /\ ~resp[id].body /\ ~resp[id].trl
    /\ \A i \in 1 .. Len(sent) : sent[i].id = id => i <= Len(wire)

\* A response is reported as written or as failed at most once: cleared() and
\* error() of response come from the connector's feedbacks, notify_all and
\* decoding_failure, which must not overlap.  decoding_failure tells a response
\* that stays in the list, so malformed requests are left out.
OneOutcome == "fail" \notin env => \A id \in Ids : Len(resp[id].told) <= 1

\* The events of a request arrive in order, nothing follows its end, and only
\* the request the parser is inside of is still open: the parser callbacks find
\* their request through get_current(), while close(), a missing response or a
\* lost connector may empty remote_objects between them.
RequestEventsInOrder ==
  \A id \in 1 .. nreq :
    /\ dec = "idle" \/ id < nreq => Terminated(id)
    /\ \A i \in DOMAIN req[id] :
         /\ req[id][i] \in {"finished", "error"} => i = Len(req[id])
         /\ req[id][i] \in {"body", "trailer", "finished"} => req[id][1] = "headers"
         /\ req[id][i] = "body" => i = 2
         /\ req[id][i] = "headers" => i = 1

\* The connection is gone and everything that was posted has run.
Quiet == ~alive /\ mode = "idle" /\ ~polling /\ Posted = {} /\ ends = <<>>

\* When the connection is gone, every request has been finished or failed and
\* every response the user still holds has been reported written or failed:
\* on_connector_nulled has to reach those in local_objects and those that have
\* left it and wait in pending_clear_callbacks.
NobodyForgotten ==
  Orderly /\ Quiet => \A id \in 1 .. nreq :
    Terminated(id) /\ (resp[id].held => resp[id].told # <<>>)

\* decoding_failure finds the response of the request that failed.
FailureFindsResponse == ~crashed

\* A response that the user has ended is never reported as a missing element
\* by notify_local_content, even when the user keeps no reference to it.
EndedNotMissing == \A id \in missing : resp[id].stage # "ended"

\* A response the user has ended, like all before it, is eventually reported if
\* the user still holds it: no end() closure, serialisation round, expired
\* neighbour or write completion loses it.  A 100 Continue may (poll_local
\* returns false after it), and the circumstances are Orderly.
EndedIsAnswered ==
  \A id \in Ids :
    (Orderly /\ "continue" \notin env /\ \A j \in 1 .. id : resp[j].stage = "ended")
      ~> (resp[id].told # <<>> \/ ~resp[id].held)

\* should_stop()
ShouldStop == locals = <<>> /\ ~persistent

\* A connection for which should_stop() holds (nothing to answer, not
\* persistent) is stopped: do_write() asks should_stop() for that purpose.
ShouldStopStops == (ShouldStop /\ alive) ~> (stopped \/ ~ShouldStop)
=============================================================================
