---------------------------- MODULE Http1Client ----------------------------
(***************************************************************************)
(* A client side HTTP/1.x connection: handler_http1<client_traits>         *)
(* (src/src/protocol/handler_http1.h) between its connector and the        *)
(* client_request / client_response pairs the user creates                 *)
(* (src/src/http/client).  The peer may answer a request once its headers  *)
(* have arrived, may send 100 Continue first, and may send a message       *)
(* nobody asked for or one the parser rejects.                             *)
(*                                                                         *)
(* Handlers are atomic, with two exceptions.  A response arrives in any    *)
(* number of reads, so the parser's callbacks are separate actions; and    *)
(* notify_local_content is one action per state that poll_local meets,     *)
(* while no other handler is enabled.  When a request is complete it calls *)
(* the user's on_request_sent, with that request still in front of the     *)
(* list: the user may create transactions there and, in the environment    *)
(* "nested", enter notify_local_content or close() again.                  *)
(*                                                                         *)
(* The connector is reduced to its read, the write in flight, its          *)
(* feedbacks and its end (module Connector has the rest).  What had        *)
(* completed before a stop() still arrives after it.  In the environment   *)
(* "cancel" the connect timer's queued handler cancels the socket of the   *)
(* open connector.  A handler never stops its connector: on_write returns  *)
(* false when there is nothing to write, and should_stop() is not asked.   *)
(***************************************************************************)
EXTENDS Integers, Sequences, FiniteSets, SequencesExt

CONSTANTS
  MaxReq,    \* bound: transactions the user creates
  Chunked,   \* the requests whose end is written as a last chunk
  MaxMsgs,   \* bound: messages the peer sends
  MaxDepth,  \* bound: calls of notify_local_content within one another
  Envs       \* combinations of optional events that may happen

Ids == 1 .. MaxReq

ASSUME H1ClientAssumption ==
  /\ MaxReq \in Nat /\ MaxMsgs \in Nat /\ MaxDepth \in Nat
  /\ Chunked \subseteq 1 .. MaxReq

VARIABLES
  env,       \* the optional events of this behaviour
  locals,    \* local_objects: requests still to be serialised
  remotes,   \* remote_objects: responses still to be received
  q,         \* the client_request objects
  evs,       \* what each client_response has reported, with the answer it was part of
  ser,       \* serialization: pieces of requests <<n, part>>
  fly, cbs,  \* the pieces of the write in flight and its feedbacks
  flying,    \* a write is in flight
  wire,      \* pieces the peer has received
  pcc,       \* pending_clear_callbacks
  conn,      \* the connector: "open", "stopped" or "gone"
  reading,   \* its read is pending or being decoded
  cut,       \* the connect timer's queued handler, then the operations it has cancelled
  user_close, myself, decoding_error, managing_continue,
  msg,       \* the message being received: its kind and answer number, or NoMsg
  answered,  \* requests the peer has answered
  msgs,      \* messages the peer has sent
  errs,      \* invalid_read errors reported for the current message
  polling,   \* the requests whose calls run notify_local_content, the innermost last
  clearing,  \* the innermost is in cleared(), that is, in on_request_sent
  timers,    \* timeout closures posted and not yet run
  broken     \* undefined behaviour (an empty list was used, or a dead handler),
             \* or a failed assertion

connVars == <<ser, fly, cbs, flying, wire, pcc, conn, reading, cut>>
loopVars == <<polling, clearing>>
recvVars == <<decoding_error, managing_continue, msg, answered, msgs, errs>>
vars == <<env, locals, remotes, q, evs, connVars, recvVars,
          user_close, myself, loopVars, timers, broken>>

NoMsg == [kind |-> "none", of |-> 0, body |-> FALSE]
Outcomes == {"finished", "error"}

\* stage: how far the user is; h, b: content not yet serialised; e: ended;
\* eom: its end was encoded; self: the object holds itself after end();
\* told: outcomes reported; late: created after the user had closed the connection.
NewRequest == [stage |-> "none", held |-> FALSE, h |-> FALSE, b |-> FALSE, e |-> FALSE,
               eom |-> FALSE, self |-> FALSE, told |-> {}, late |-> FALSE]

Init ==
  /\ env \in Envs
  /\ locals = <<>> /\ remotes = <<>>
  /\ q = [n \in Ids |-> NewRequest] /\ evs = [n \in Ids |-> <<>>]
  /\ ser = <<>> /\ fly = <<>> /\ cbs = {} /\ flying = FALSE /\ wire = <<>>
  /\ pcc = {} /\ conn = "open" /\ reading = TRUE
  /\ cut = IF "cancel" \in env THEN {"timer"} ELSE {}
  /\ user_close = FALSE /\ myself = TRUE
  /\ decoding_error = FALSE /\ managing_continue = FALSE
  /\ msg = NoMsg /\ answered = 0 /\ msgs = 0 /\ errs = 0
  /\ polling = <<>> /\ clearing = FALSE /\ timers = 0 /\ broken = FALSE

Sane == ~broken

\* No call of the user is in the middle of notify_local_content.
Idle == Sane /\ polling = <<>>

\* User code may run: in a handler of its own, or in on_request_sent.
UserTurn == Sane /\ (polling = <<>> \/ clearing)

\* ... and may do what changes the list under the hands of the loop.
UserMayNest == UserTurn /\ (clearing => "nested" \in env)

-----------------------------------------------------------------------------
(* Outcomes. *)

\* client_request::error and cleared: the object lets go of itself.
Told(r, what) == [r EXCEPT !.told = @ \cup {what}, !.self = FALSE]
TellRequests(qq, S, what) == [n \in Ids |-> IF n \in S THEN Told(qq[n], what) ELSE qq[n]]

\* client_response::error, finished, ...
Report(n, e) == [evs EXCEPT ![n] = Append(@, [ev |-> e, of |-> msg.of])]

\* weak_ptr::lock() on a request of the list.
Locks(r, n) == r.held \/ r.self \/ n \in pcc \cup cbs

(***************************************************************************)
(* notify_all: every response and request in the lists fails, together     *)
(* with the requests in more.  An end() that is in progress makes the      *)
(* object hold itself afterwards.                                          *)
(***************************************************************************)
NotifyAll(more) ==
  /\ evs' = [n \in Ids |-> IF n \in ToSet(remotes)
                           THEN Append(evs[n], [ev |-> "error", of |-> n]) ELSE evs[n]]
  /\ q' = [n \in Ids |-> IF n \in more \cup {m \in ToSet(locals) : Locks(q[m], m)}
                         THEN [Told(q[n], "error") EXCEPT !.self = n \in ToSet(polling) /\ q[n].self]
                         ELSE q[n]]
  /\ remotes' = <<>> /\ locals' = <<>>

-----------------------------------------------------------------------------
(* Writing. *)

\* As DoWrite, but a request is told as soon as its last part is handed to a write.
DoWriteClearsEarly(qq, s, p, writing) ==
  \/ /\ writing \/ conn # "open"
     /\ q' = qq /\ ser' = s /\ pcc' = p /\ UNCHANGED <<fly, cbs, flying>>
  \/ /\ ~writing /\ conn = "open"
     /\ q' = TellRequests(qq, p, "cleared")
     /\ ser' = <<>> /\ pcc' = {} /\ fly' = s /\ cbs' = {} /\ flying' = (s # <<>>)

(***************************************************************************)
(* connector::do_write(), for requests qq, serialization s and feedbacks   *)
(* p: with nothing to write the feedbacks succeed at once.                 *)
(***************************************************************************)
DoWrite(qq, s, p, writing) ==
  \/ /\ writing \/ conn # "open"
     /\ q' = qq /\ ser' = s /\ pcc' = p /\ UNCHANGED <<fly, cbs, flying>>
  \/ /\ ~writing /\ conn = "open" /\ s = <<>>
     /\ q' = TellRequests(qq, p, "cleared")
     /\ ser' = <<>> /\ pcc' = {} /\ fly' = <<>> /\ cbs' = {} /\ flying' = FALSE
  \/ /\ ~writing /\ conn = "open" /\ s # <<>>
     /\ q' = qq
     /\ ser' = <<>> /\ pcc' = {} /\ fly' = s /\ cbs' = p /\ flying' = TRUE

-----------------------------------------------------------------------------
(* notify_local_content: the loop over the requests. *)

FrontRequest == Head(locals)

\* The next thing request r has to serialise.
GetState(r) == IF r.h THEN "H" ELSE IF r.b THEN "B" ELSE IF r.e THEN "E" ELSE "pending"

\* poll_local finds the front request in a state.
Polls(state) ==
  /\ Sane /\ polling # <<>> /\ ~clearing
  /\ Locks(q[FrontRequest], FrontRequest) /\ GetState(q[FrontRequest]) = state

PollFrame == UNCHANGED <<env, wire, conn, reading, cut, recvVars, user_close, timers>>

\* notify_local_content returns, into on_request_sent if it was called from there.
LoopEnds == polling' = Front(polling) /\ clearing' = (Len(polling) > 1)

PollHeaders ==
  /\ Polls("H")
  /\ DoWrite([q EXCEPT ![FrontRequest].h = FALSE],
             Append(ser, <<FrontRequest, "H">>), pcc, flying)
  /\ UNCHANGED <<locals, remotes, evs, myself, loopVars, broken>>
  /\ PollFrame

PollBody ==
  /\ Polls("B")
  /\ DoWrite([q EXCEPT ![FrontRequest].b = FALSE],
             Append(ser, <<FrontRequest, "B">>), pcc, flying)
  /\ UNCHANGED <<locals, remotes, evs, myself, loopVars, broken>>
  /\ PollFrame

(***************************************************************************)
(* The end of a request, which has no bytes if it is not chunked, and then *)
(* cleared(), with the request still in front.  A loop entered from there  *)
(* finds it ended once more: encode_eom, which asserts that a message is   *)
(* open, has no bytes for it.                                              *)
(***************************************************************************)
PollEnd ==
  /\ Polls("E")
  /\ LET r == q[FrontRequest] IN
     /\ DoWrite([q EXCEPT ![FrontRequest].eom = TRUE],
                IF FrontRequest \in Chunked /\ ~r.eom THEN Append(ser, <<FrontRequest, "E">>)
                ELSE ser,
                pcc \cup {FrontRequest}, flying)
     /\ broken' \in {FALSE, r.eom}
  /\ clearing' = TRUE
  /\ UNCHANGED <<locals, remotes, evs, myself, polling>>
  /\ PollFrame

\* on_request_sent returns: pop_front() of whatever is there now, and the loop goes on.
ClearedReturns ==
  /\ Sane /\ clearing
  /\ broken' = (locals = <<>>)
  /\ locals' = IF locals = <<>> THEN <<>> ELSE Tail(locals)
  /\ IF locals' = <<>> THEN LoopEnds ELSE clearing' = FALSE /\ UNCHANGED polling
  /\ UNCHANGED <<remotes, q, evs, ser, pcc, fly, cbs, flying, myself>>
  /\ PollFrame

\* As PollPending, but the loop goes on with the next request.
PollPendingGoesOn ==
  /\ Polls("pending")
  /\ locals' = Append(Tail(locals), FrontRequest)
  /\ IF FrontRequest > Last(locals) THEN LoopEnds ELSE UNCHANGED loopVars
  /\ UNCHANGED <<remotes, q, evs, ser, pcc, fly, cbs, flying, myself, broken>>
  /\ PollFrame

\* The front request has nothing more for now: the loop ends.
PollPending ==
  /\ Polls("pending")
  /\ LoopEnds
  /\ UNCHANGED <<locals, remotes, q, evs, ser, pcc, fly, cbs, flying, myself, broken>>
  /\ PollFrame

\* A front request that no longer exists is a connection error and fails everybody.
PollExpired ==
  /\ Sane /\ polling # <<>> /\ ~clearing /\ ~Locks(q[FrontRequest], FrontRequest)
  /\ NotifyAll({})
  /\ LoopEnds
  /\ myself' = FALSE
  /\ UNCHANGED <<ser, pcc, fly, cbs, flying, broken>>
  /\ PollFrame

-----------------------------------------------------------------------------
(* The user. *)

\* create_transaction(): nothing is created without a connector.
CreateTransaction(n) ==
  /\ UserTurn /\ conn # "gone" /\ q[n].stage = "none"
  /\ \A p \in Ids : p < n => q[p].stage # "none"
  /\ q' = [q EXCEPT ![n] = [NewRequest EXCEPT !.stage = "begun", !.held = TRUE,
                                          !.late = user_close]]
  /\ remotes' = Append(remotes, n) /\ locals' = Append(locals, n)
  /\ UNCHANGED <<env, evs, connVars, recvVars, user_close, myself, loopVars, timers, broken>>

\* A call on a request in one of the stages, which leaves it as r and polls.
Calls(n, stages, r) ==
  /\ UserMayNest /\ Len(polling) < MaxDepth
  /\ q[n].held /\ q[n].stage \in stages
  /\ q' = [q EXCEPT ![n] = r]
  /\ IF locals = <<>> THEN UNCHANGED loopVars
     ELSE polling' = Append(polling, n) /\ clearing' = FALSE
  /\ UNCHANGED <<env, locals, remotes, evs, connVars, recvVars, user_close, myself, timers,
                 broken>>

Headers(n) == Calls(n, {"begun"}, [q[n] EXCEPT !.stage = "headers", !.h = TRUE])

Body(n) == Calls(n, {"headers"}, [q[n] EXCEPT !.stage = "body", !.b = TRUE])

\* end(): after the loop the object holds itself, which nobody can tell from before it.
End(n) ==
  Calls(n, {"headers", "body"}, [q[n] EXCEPT !.stage = "ended", !.e = TRUE, !.self = TRUE])

\* The user lets the request go (not in the middle of a call on it).
Drop(n) ==
  /\ "drop" \in env /\ UserTurn /\ q[n].held /\ n \notin ToSet(polling)
  /\ q' = [q EXCEPT ![n].held = FALSE]
  /\ UNCHANGED <<env, locals, remotes, evs, connVars, recvVars, user_close, myself, loopVars,
                 timers, broken>>

\* close()
Close ==
  /\ "close" \in env /\ UserMayNest /\ conn # "gone" /\ ~user_close
  /\ user_close' = TRUE /\ conn' = "stopped" /\ myself' = FALSE
  /\ NotifyAll({})
  /\ UNCHANGED <<env, ser, fly, cbs, flying, wire, pcc, reading, cut, recvVars, loopVars, timers,
                 broken>>

-----------------------------------------------------------------------------
(***************************************************************************)
(* Receiving: on_read with the parser's callbacks.  A read that completed  *)
(* before a stop() is still decoded after it.                              *)
(***************************************************************************)

\* The requests whose headers may have reached the peer, and the next it answers.
Received == {p[1] : p \in {w \in ToSet(wire \o fly) : w[2] = "H"}}
ToAnswer(n) == n \in Received /\ n > answered /\ \A m \in Received : m > answered => n <= m

RecvFrame ==
  UNCHANGED <<env, locals, q, connVars, user_close, myself, loopVars, timers, broken>>

\* get_current(): the response to be received, or none.
Current(derr) == IF derr \/ remotes = <<>> THEN 0 ELSE Head(remotes)

\* get_current() without a response reports an error once in a message.
CurrentFails(derr) ==
  /\ decoding_error' = (derr \/ remotes = <<>>)
  /\ errs' = (IF msg = NoMsg THEN 0 ELSE errs) + (IF ~derr /\ remotes = <<>> THEN 1 ELSE 0)

\* decoding_start and decoded_headers of a message of the given kind.
RecvHeaders(kind) ==
  /\ Idle /\ reading /\ msg = NoMsg /\ msgs < MaxMsgs
  /\ \E of \in 0 .. MaxReq :
       /\ \/ kind = "answer" /\ ToAnswer(of) /\ answered' = of
          \/ kind = "interim" /\ "continue" \in env /\ ToAnswer(of) /\ UNCHANGED answered
          \/ kind = "extra" /\ "extra" \in env /\ of = 0 /\ UNCHANGED answered
       /\ msg' = [kind |-> kind, of |-> of, body |-> FALSE]
  /\ msgs' = msgs + 1
  /\ decoding_error' = (remotes = <<>>)
  /\ errs' = IF remotes = <<>> THEN 1 ELSE 0
  /\ managing_continue' = (remotes # <<>> /\ kind = "interim")
  /\ evs' = IF remotes = <<>> \/ kind = "interim" THEN evs
            ELSE [evs EXCEPT ![Head(remotes)] = Append(@, [ev |-> "headers", of |-> msg'.of])]
  /\ UNCHANGED remotes
  /\ RecvFrame

\* decoded_body, decoded_trailer
RecvBody ==
  /\ Idle /\ reading /\ msg.kind \in {"answer", "extra"}
  /\ ~msg.body /\ msg' = [msg EXCEPT !.body = TRUE]   \* bound: one body event
  /\ IF Current(decoding_error) = 0 THEN CurrentFails(decoding_error) /\ UNCHANGED evs
     ELSE /\ evs' = Report(Head(remotes), "body")
          /\ UNCHANGED <<decoding_error, errs>>
  /\ UNCHANGED <<remotes, managing_continue, answered, msgs>>
  /\ RecvFrame

\* As RecvEnd, but the response stays in the list.
RecvEndKeeps ==
  /\ Idle /\ reading /\ msg # NoMsg
  /\ msg' = NoMsg
  /\ IF Current(decoding_error) = 0 THEN CurrentFails(decoding_error) /\ UNCHANGED <<remotes, evs>>
     ELSE /\ evs' = Report(Head(remotes), IF managing_continue THEN "continue" ELSE "finished")
          /\ UNCHANGED <<remotes, decoding_error, errs>>
  /\ UNCHANGED <<managing_continue, answered, msgs>>
  /\ RecvFrame

(***************************************************************************)
(* decoding_end: the response leaves the list before managing_continue is  *)
(* looked at, so an interim response uses it up as well.                   *)
(***************************************************************************)
RecvEnd ==
  /\ Idle /\ reading /\ msg # NoMsg
  /\ msg' = NoMsg
  /\ IF Current(decoding_error) = 0 THEN CurrentFails(decoding_error) /\ UNCHANGED <<remotes, evs>>
     ELSE /\ remotes' = Tail(remotes)
          /\ evs' = Report(Head(remotes), IF managing_continue THEN "continue" ELSE "finished")
          /\ UNCHANGED <<decoding_error, errs>>
  /\ UNCHANGED <<managing_continue, answered, msgs>>
  /\ RecvFrame

(***************************************************************************)
(* decoding_failure, after which on_read fails and the connector stops.    *)
(* The last request of the list is told and the first removed; the list is *)
(* empty when the request has been sent, which is undefined behaviour.     *)
(***************************************************************************)
RecvBad ==
  /\ "bad" \in env /\ Idle /\ reading
  /\ LET derr == msg # NoMsg /\ decoding_error IN
     IF Current(derr) = 0
     THEN CurrentFails(derr) /\ UNCHANGED <<locals, remotes, q, evs, broken>>
     ELSE /\ evs' = [evs EXCEPT ![Head(remotes)] = Append(@, [ev |-> "error", of |-> Head(remotes)])]
          /\ remotes' = Tail(remotes)
          /\ broken' = (locals = <<>>)
          /\ locals' = IF locals = <<>> THEN locals ELSE Tail(locals)
          /\ q' = IF locals # <<>> /\ Locks(q[Last(locals)], Last(locals))
                  THEN TellRequests(q, {Last(locals)}, "error") ELSE q
          /\ UNCHANGED <<decoding_error, errs>>
  /\ msg' = NoMsg /\ conn' = "stopped" /\ reading' = FALSE
  /\ UNCHANGED <<env, ser, fly, cbs, flying, wire, pcc, cut, managing_continue, answered, msgs,
                 user_close, myself, loopVars, timers>>

-----------------------------------------------------------------------------
(* The connector. *)

ConnFrame ==
  UNCHANGED <<env, locals, remotes, evs, recvVars, user_close, myself, loopVars, timers, broken>>

\* The write is complete: its feedbacks succeed, then do_write(), which returns at
\* once if the connector was stopped in the meantime.
WriteOk ==
  /\ flying /\ Idle
  /\ wire' = wire \o fly /\ cut' = cut \ {"write"}
  /\ LET told == TellRequests(q, cbs, "cleared") IN
     \/ conn = "open" /\ DoWrite(told, ser, pcc, FALSE)
     \/ /\ conn # "open"
        /\ q' = told /\ fly' = <<>> /\ cbs' = {} /\ flying' = FALSE
        /\ UNCHANGED <<ser, pcc>>
  /\ UNCHANGED <<conn, reading>>
  /\ ConnFrame

\* The write fails after n of its pieces, or it is cancelled, which does not stop
\* an open connector: what waits then waits for the next do_write().
WriteAborted(n) ==
  /\ flying /\ Idle
  /\ wire' = wire \o SubSeq(fly, 1, n)
  /\ \/ conn = "open" /\ "fail" \in env /\ conn' = "stopped"
     \/ (conn = "stopped" \/ "write" \in cut) /\ UNCHANGED conn
  /\ q' = TellRequests(q, cbs, "error") /\ cut' = cut \ {"write"}
  /\ fly' = <<>> /\ cbs' = {} /\ flying' = FALSE
  /\ UNCHANGED <<ser, pcc, reading>>
  /\ ConnFrame

\* The peer closes, or the read fails.
ReadFailed ==
  /\ "fail" \in env /\ Idle /\ conn = "open" /\ reading
  /\ conn' = "stopped" /\ reading' = FALSE
  /\ UNCHANGED <<q, ser, fly, cbs, flying, wire, pcc, cut>>
  /\ ConnFrame

\* The read is cancelled, or returned to a connector that was stopped.
ReadOver ==
  /\ Idle /\ reading /\ (conn = "stopped" \/ "read" \in cut)
  /\ reading' = FALSE
  /\ UNCHANGED <<q, ser, fly, cbs, flying, wire, pcc, conn, cut>>
  /\ ConnFrame

\* The connect timer's queued handler cancels what is pending on the socket.
SocketCanceled ==
  /\ Idle /\ "timer" \in cut
  /\ cut' = {op \in {"read", "write"} : IF op = "read" THEN reading ELSE flying}
  /\ UNCHANGED <<q, ser, fly, cbs, flying, wire, pcc, conn, reading>>
  /\ ConnFrame

\* As OnConnectorNulled, but the requests waiting for their write are not told.
OnConnectorNulledKeepsPending ==
  /\ conn # "gone" /\ ~reading /\ ~flying /\ Idle
  /\ conn' = "gone"
  /\ IF user_close THEN UNCHANGED <<locals, remotes, q, evs, myself, pcc>>
     ELSE NotifyAll({}) /\ myself' = FALSE /\ pcc' = {}
  /\ UNCHANGED <<env, ser, fly, cbs, flying, wire, reading, cut, recvVars, user_close, loopVars,
                 timers, broken>>

\* ~connector: nothing more happens if the user closed the connection.  A connector
\* whose read was cancelled goes without a stop(), unless its timer holds it.
OnConnectorNulled ==
  /\ conn # "gone" /\ ~reading /\ ~flying /\ Idle
  /\ conn' = "gone"
  /\ IF user_close THEN UNCHANGED <<locals, remotes, q, evs, myself, pcc>>
     ELSE NotifyAll(pcc) /\ myself' = FALSE /\ pcc' = {}
  /\ UNCHANGED <<env, ser, fly, cbs, flying, wire, reading, cut, recvVars, user_close, loopVars,
                 timers, broken>>

\* The deadline expires: trigger_timeout_event posts a closure with a raw pointer.
TimerFires ==
  /\ "timeout" \in env /\ Idle /\ conn # "gone" /\ timers = 0
  /\ timers' = 1
  /\ UNCHANGED <<env, locals, remotes, q, evs, connVars, recvVars, user_close, myself, loopVars,
                 broken>>

\* Somebody refers to the handler: the connector, itself, the user's objects.
HandlerAlive == \/ conn # "gone" \/ myself \/ pcc # {}
                \/ \E n \in Ids : q[n].held \/ q[n].self

RunTimeout ==
  /\ Idle /\ timers = 1
  /\ timers' = 0 /\ broken' = ~HandlerAlive
  /\ UNCHANGED <<env, locals, remotes, q, evs, connVars, recvVars, user_close, myself, loopVars>>

-----------------------------------------------------------------------------
Next ==
  \/ \E n \in Ids : CreateTransaction(n) \/ Headers(n) \/ Body(n) \/ End(n) \/ Drop(n)
  \/ PollHeaders \/ PollBody \/ PollEnd \/ ClearedReturns \/ PollPending \/ PollExpired
  \/ Close
  \/ \E kind \in {"answer", "interim", "extra"} : RecvHeaders(kind)
  \/ RecvBody \/ RecvEnd \/ RecvBad
  \/ WriteOk \/ (\E n \in 0 .. Len(fly) : WriteAborted(n))
  \/ ReadFailed \/ ReadOver \/ SocketCanceled \/ OnConnectorNulled
  \/ TimerFires \/ RunTimeout

Spec == Init /\ [][Next]_vars

-----------------------------------------------------------------------------
(* Properties. *)

Requests ==
  [stage : {"none", "begun", "headers", "body", "ended"}, held : BOOLEAN, h : BOOLEAN,
   b : BOOLEAN, e : BOOLEAN, eom : BOOLEAN, self : BOOLEAN,
   told : SUBSET {"cleared", "error"}, late : BOOLEAN]
Pieces == Ids \X {"H", "B", "E"}
Events == [ev : {"headers", "body", "continue", "finished", "error"}, of : 0 .. MaxReq]

\* The members have the values their declarations allow.
TypeOK ==
  /\ locals \in Seq(Ids) /\ remotes \in Seq(Ids)
  /\ q \in [Ids -> Requests] /\ evs \in [Ids -> Seq(Events)]
  /\ ser \in Seq(Pieces) /\ fly \in Seq(Pieces) /\ wire \in Seq(Pieces)
  /\ pcc \subseteq Ids /\ cbs \subseteq Ids /\ flying \in BOOLEAN
  /\ conn \in {"open", "stopped", "gone"} /\ reading \in BOOLEAN
  /\ cut \in {{"timer"}} \cup SUBSET {"read", "write"}
  /\ user_close \in BOOLEAN /\ myself \in BOOLEAN
  /\ decoding_error \in BOOLEAN /\ managing_continue \in BOOLEAN
  /\ msg \in [kind : {"none", "answer", "interim", "extra"}, of : 0 .. MaxReq, body : BOOLEAN]
  /\ answered \in 0 .. MaxReq /\ msgs \in 0 .. MaxMsgs /\ errs \in Nat
  /\ polling \in Seq(Ids) /\ clearing \in BOOLEAN /\ timers \in 0 .. 1 /\ broken \in BOOLEAN

\* The pieces the peer has received, may receive and, while the connection is
\* open, will be sent.
Sent == IF conn = "open" THEN wire \o fly \o ser ELSE wire \o fly

Rank(part) == CASE part = "H" -> 1 [] part = "B" -> 2 [] part = "E" -> 3

(***************************************************************************)
(* The peer receives whole requests one after the other in the order they  *)
(* were created, whatever the order in which the user fills them: parts of *)
(* two requests never mix, and within one headers come first, end last.    *)
(* Only a request its user has dropped is cut short.  Exempt are a user    *)
(* who calls into the handler from on_request_sent (the loop it interrupts *)
(* then removes a request that is not complete) and an open connector      *)
(* whose write is cancelled (its bytes are lost).                          *)
(***************************************************************************)
RequestsWhole ==
  /\ TypeOK
  /\ env \cap {"nested", "cancel"} = {} =>
       /\ \A i \in 1 .. Len(Sent) - 1 : LET p == Sent[i]  r == Sent[i + 1] IN
            \/ p[1] < r[1] /\ (q[p[1]].stage = "ended" \/ ~q[p[1]].held)
            \/ p[1] = r[1] /\ Rank(p[2]) < Rank(r[2])
       /\ \A i \in 1 .. Len(Sent) : \E j \in 1 .. i : Sent[j] = <<Sent[i][1], "H">>

\* Requests go to the peer in order and without gaps, and it sends nothing but answers.
Plain == env \cap {"continue", "extra", "drop", "nested", "cancel"} = {}

(***************************************************************************)
(* What a client_response reports belongs to the answer to its own         *)
(* request, headers first and one outcome last, as long as the peer sends  *)
(* nothing but answers and no request is lost on the way (as above, or     *)
(* because the user drops one: that empties the lists in the middle of an  *)
(* answer, the rest of which goes to the next response created).  So does  *)
(* close(): a response created after it gets what a read that had already  *)
(* completed brings.  A message nobody waits for is reported once.         *)
(***************************************************************************)
AnswersAreMatched ==
  /\ errs <= 1
  /\ \A n \in Ids : LET e == evs[n] IN
    /\ Plain /\ ~q[n].late => \A i \in DOMAIN e : e[i].of = n
    /\ \A i \in DOMAIN e : e[i].ev \in Outcomes \cup {"continue"} => i = Len(e)
    /\ "drop" \notin env /\ ~q[n].late =>
         \A i \in DOMAIN e : e[i].ev \in {"body", "finished"} => e[1].ev = "headers"

(***************************************************************************)
(* A request is told that it was sent only when it was ended and none of   *)
(* its parts waits or is on its way, however writes, calls from            *)
(* on_request_sent and completions after a stop() interleave.              *)
(***************************************************************************)
ClearedIsDelivered ==
  \A n \in Ids : "cleared" \in q[n].told =>
    /\ q[n].stage = "ended"
    /\ \A i \in DOMAIN (ser \o fly) : (ser \o fly)[i][1] # n

(***************************************************************************)
(* When the connector is gone every response has reported an outcome, and  *)
(* every request that was ended was told one, unless the user closed the   *)
(* connection; an interim answer uses the response up.  A transaction      *)
(* created after close(), before the connector is gone, is told nothing,   *)
(* and neither is a request that is removed from the list unfinished       *)
(* because on_request_sent called into the handler.                        *)
(***************************************************************************)
NobodyForgotten ==
  Sane /\ conn = "gone" => \A n \in Ids :
    /\ q[n].stage # "none" /\ ~q[n].late
         => evs[n] # <<>> /\ Last(evs[n]).ev \in Outcomes \cup {"continue"}
    /\ q[n].stage = "ended" /\ ~user_close /\ env \cap {"bad", "nested"} = {}
         => q[n].told # {}

\* No answer is lost or taken for another when the peer sends 100 Continue.
ContinueKeepsMatch == \A n \in Ids : \A i \in DOMAIN evs[n] : evs[n][i].of = n

\* Neither an empty list nor a dead handler is used.
NoUndefinedBehaviour == ~broken

=============================================================================
