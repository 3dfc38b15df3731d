------------------------ MODULE DnsConnectorFactory ------------------------
(***************************************************************************)
(* One call of network::dns_connector_factory::get_connector               *)
(* (src/src/network/communicator/dns_communicator_factory.cpp): resolve a  *)
(* name, connect to one of its endpoints, perform the TLS handshake if one *)
(* is wanted, and answer through connector_cb or error_cb.                 *)
(*                                                                         *)
(* Every stage is an asynchronous operation raced by a timer.  Both end in *)
(* completion handlers that the single io_service thread runs in any       *)
(* order; a handler that is already queued can no longer be cancelled.     *)
(* The user may stop or destroy the factory at any time.                   *)
(***************************************************************************)
EXTENDS Naturals

CONSTANT MaxEndpoints   \* bound: endpoints a name resolves to

ASSUME MaxEndpointsAssumption == MaxEndpoints \in Nat \ {0}

Attempts == 1 .. MaxEndpoints

VARIABLES
  phase,     \* the stage of the call
  tls,       \* a TLS connection is wanted
  op,        \* its asynchronous operation: "pending", or queued with a result
  left,      \* endpoints not yet tried
  attempt,   \* calls of endpoint_connect that started an attempt
  rtimer,    \* resolve_timer: "off", "armed", or its handler is "queued"
  ctimer,    \* the connect_timer of each attempt
  stopping,
  dead,      \* the factory has been destroyed
  calls,     \* how often each callback was called: connector_cb, error_cb(1 or
             \* 3), and error_cb(4), which only a connect_timer calls
  used_dead  \* a member of the destroyed factory was read

timers == <<rtimer, ctimer>>
vars   == <<phase, tls, op, left, attempt, timers, stopping, dead, calls, used_dead>>

TypeOK ==
  /\ phase \in {"idle", "resolving", "connecting", "handshaking", "done"}
  /\ tls \in BOOLEAN /\ stopping \in BOOLEAN /\ dead \in BOOLEAN /\ used_dead \in BOOLEAN
  /\ op \in {"none", "pending", "ok", "error", "canceled"}
  /\ left \in 0 .. MaxEndpoints /\ attempt \in 0 .. MaxEndpoints
  /\ rtimer \in {"off", "armed", "queued"}
  /\ ctimer \in [Attempts -> {"off", "armed", "queued"}]
  /\ calls \in [connector : Nat, error : Nat, timeout : Nat]

Init ==
  /\ phase = "idle" /\ tls = FALSE /\ op = "none" /\ left = 0 /\ attempt = 0
  /\ rtimer = "off" /\ ctimer = [k \in Attempts |-> "off"]
  /\ stopping = FALSE /\ dead = FALSE /\ used_dead = FALSE
  /\ calls = [connector |-> 0, error |-> 0, timeout |-> 0]

-----------------------------------------------------------------------------
\* deadline_timer::cancel(): too late for a handler that is queued.
Cancelled(t) == IF t = "armed" THEN "off" ELSE t

ConnectorCb == calls' = [calls EXCEPT !.connector = @ + 1]
ErrorCb     == calls' = [calls EXCEPT !.error = @ + 1]

\* The call goes no further.
Finish == phase' = "done" /\ op' = "none" /\ UNCHANGED <<left, attempt>>

(***************************************************************************)
(* endpoint_connect with n endpoints left; timer is connect_timer's state  *)
(* of the attempts before.  The plain one tries one endpoint, the TLS one  *)
(* all of them.                                                            *)
(***************************************************************************)
EndpointConnect(n, timer) ==
  \/ /\ n = 0 \/ stopping
     /\ ErrorCb /\ Finish
     /\ ctimer' = timer
  \/ /\ n > 0 /\ ~stopping
     /\ phase' = "connecting" /\ op' = "pending"
     /\ left' = n - 1 /\ attempt' = attempt + 1
     /\ ctimer' = [timer EXCEPT ![attempt + 1] = "armed"]
     /\ UNCHANGED calls

\* As GetConnector, but the resolution has no timer.
GetConnectorNoTimer(t) ==
  /\ phase = "idle" /\ ~dead
  /\ tls' = t
  /\ \/ /\ stopping
        /\ ErrorCb /\ Finish
     \/ /\ ~stopping
        /\ phase' = "resolving" /\ op' = "pending"
        /\ UNCHANGED <<left, attempt, calls>>
  /\ UNCHANGED <<timers, stopping, dead, used_dead>>

\* get_connector and dns_resolver
GetConnector(t) ==
  /\ phase = "idle" /\ ~dead
  /\ tls' = t
  /\ \/ /\ stopping
        /\ ErrorCb /\ Finish
        /\ UNCHANGED rtimer
     \/ /\ ~stopping
        /\ phase' = "resolving" /\ op' = "pending" /\ rtimer' = "armed"
        /\ UNCHANGED <<left, attempt, calls>>
  /\ UNCHANGED <<ctimer, stopping, dead, used_dead>>

\* The network answers: the completion handler is queued with its result.
Completes(result) ==
  /\ op = "pending" /\ result \in {"ok", "error"}
  /\ op' = result
  /\ UNCHANGED <<phase, tls, left, attempt, timers, stopping, dead, calls, used_dead>>

\* Time passes: a timer expires.
ResolveTimerExpires ==
  /\ rtimer = "armed"
  /\ rtimer' = "queued"
  /\ UNCHANGED <<phase, tls, op, left, attempt, ctimer, stopping, dead, calls, used_dead>>

ConnectTimerExpires(k) ==
  /\ ctimer[k] = "armed"
  /\ ctimer' = [ctimer EXCEPT ![k] = "queued"]
  /\ UNCHANGED <<phase, tls, op, left, attempt, rtimer, stopping, dead, calls, used_dead>>

\* The handler of resolve_timer: r->cancel().
ResolveTimeout ==
  /\ rtimer = "queued"
  /\ rtimer' = "off"
  /\ op' = IF phase = "resolving" /\ op = "pending" THEN "canceled" ELSE op
  /\ UNCHANGED <<phase, tls, left, attempt, ctimer, stopping, dead, calls, used_dead>>

\* As ConnectTimeout, but the error is left to the cancelled operation.
ConnectTimeoutSilent(k) ==
  /\ ctimer[k] = "queued"
  /\ ctimer' = [ctimer EXCEPT ![k] = "off"]
  /\ op' = IF phase \in {"connecting", "handshaking"} /\ op = "pending" THEN "canceled" ELSE op
  /\ UNCHANGED <<phase, tls, left, attempt, rtimer, stopping, dead, calls, used_dead>>

(***************************************************************************)
(* The handler of a connect_timer: cancel what is pending on the socket,   *)
(* which all attempts share, then error_cb(4).  A TLS attempt in the       *)
(* middle of its list of endpoints goes on with the next of them.          *)
(***************************************************************************)
ConnectTimeout(k) ==
  /\ ctimer[k] = "queued"
  /\ ctimer' = [ctimer EXCEPT ![k] = "off"]
  /\ \/ /\ phase \in {"connecting", "handshaking"} /\ op = "pending"
        /\ op' = "canceled"
        /\ UNCHANGED left
     \/ /\ phase = "connecting" /\ op = "pending" /\ tls /\ left > 0
        /\ left' = left - 1
        /\ UNCHANGED op
     \/ /\ ~(phase \in {"connecting", "handshaking"} /\ op = "pending")
        /\ UNCHANGED <<op, left>>
  /\ calls' = [calls EXCEPT !.timeout = @ + 1]
  /\ UNCHANGED <<phase, tls, attempt, rtimer, stopping, dead, used_dead>>

\* A completion handler that finds the factory dead returns at once.
ReturnIfDead == dead /\ Finish /\ UNCHANGED <<timers, calls>>

\* As Resolved, but a cancelled resolution is not reported.
ResolvedCanceledIsSilent ==
  /\ phase = "resolving" /\ op \in {"ok", "error", "canceled"}
  /\ \/ ReturnIfDead
     \/ /\ ~dead
        /\ rtimer' = Cancelled(rtimer)
        /\ \/ op = "ok" /\ \E n \in Attempts : EndpointConnect(n, ctimer)
           \/ op = "error" /\ ErrorCb /\ Finish /\ UNCHANGED ctimer
           \/ op = "canceled" /\ Finish /\ UNCHANGED <<calls, ctimer>>
  /\ UNCHANGED <<tls, stopping, dead, used_dead>>

\* The handler of async_resolve.
Resolved ==
  /\ phase = "resolving" /\ op \in {"ok", "error", "canceled"}
  /\ \/ ReturnIfDead
     \/ /\ ~dead
        /\ rtimer' = Cancelled(rtimer)
        /\ \/ op = "ok" /\ \E n \in Attempts : EndpointConnect(n, ctimer)
           \/ op # "ok" /\ ErrorCb /\ Finish /\ UNCHANGED ctimer
  /\ UNCHANGED <<tls, stopping, dead, used_dead>>

CancelConnectTimer == [ctimer EXCEPT ![attempt] = Cancelled(@)]

\* As Connected, but it does not look at dead.
ConnectedIgnoresDead ==
  /\ phase = "connecting" /\ ~tls /\ op \in {"ok", "error", "canceled"}
  /\ \/ op = "ok" /\ ConnectorCb /\ Finish /\ ctimer' = CancelConnectTimer
     \/ op = "error" /\ EndpointConnect(left, CancelConnectTimer)
     \/ op = "canceled" /\ Finish /\ ctimer' = CancelConnectTimer /\ UNCHANGED calls
  /\ UNCHANGED <<tls, rtimer, stopping, dead, used_dead>>

\* As Connected, but a failed attempt is reported although another one starts.
ConnectedReportsEach ==
  /\ phase = "connecting" /\ ~tls /\ op \in {"ok", "error", "canceled"}
  /\ \/ ReturnIfDead
     \/ /\ ~dead
        /\ \/ op = "ok" /\ ConnectorCb /\ Finish /\ ctimer' = CancelConnectTimer
           \/ /\ op = "error" /\ left > 0
              /\ op' = "pending" /\ left' = left - 1 /\ attempt' = attempt + 1
              /\ ctimer' = [CancelConnectTimer EXCEPT ![attempt + 1] = "armed"]
              /\ ErrorCb /\ UNCHANGED phase
           \/ op = "error" /\ left = 0 /\ EndpointConnect(0, CancelConnectTimer)
           \/ op = "canceled" /\ Finish /\ ctimer' = CancelConnectTimer /\ UNCHANGED calls
        /\ UNCHANGED rtimer
  /\ UNCHANGED <<tls, stopping, dead, used_dead>>

\* The handler of async_connect on a plain socket.
Connected ==
  /\ phase = "connecting" /\ ~tls /\ op \in {"ok", "error", "canceled"}
  /\ \/ ReturnIfDead
     \/ /\ ~dead
        /\ \/ op = "ok" /\ ConnectorCb /\ Finish /\ ctimer' = CancelConnectTimer
           \/ op = "error" /\ EndpointConnect(left, CancelConnectTimer)
           \/ op = "canceled" /\ Finish /\ ctimer' = CancelConnectTimer /\ UNCHANGED calls
        /\ UNCHANGED rtimer
  /\ UNCHANGED <<tls, stopping, dead, used_dead>>

\* The handler of async_connect for TLS: connect_timer goes on, for the
\* handshake or for nothing; an error leaves no endpoint to try.
TlsConnected ==
  /\ phase = "connecting" /\ tls /\ op \in {"ok", "error", "canceled"}
  /\ \/ ReturnIfDead
     \/ /\ ~dead
        /\ \/ /\ op = "ok"
              /\ phase' = "handshaking" /\ op' = "pending"
              /\ UNCHANGED <<left, attempt, ctimer, calls>>
           \/ op = "error" /\ EndpointConnect(0, ctimer)
           \/ op = "canceled" /\ Finish /\ UNCHANGED <<ctimer, calls>>
        /\ UNCHANGED rtimer
  /\ UNCHANGED <<tls, stopping, dead, used_dead>>

\* The handler of async_handshake, which does not look at dead.
HandshakeDone ==
  /\ phase = "handshaking" /\ op \in {"ok", "error", "canceled"}
  /\ ctimer' = CancelConnectTimer
  /\ \/ op = "ok" /\ ConnectorCb /\ used_dead' = dead
     \/ op = "error" /\ ErrorCb /\ UNCHANGED used_dead
     \/ op = "canceled" /\ UNCHANGED <<calls, used_dead>>
  /\ Finish
  /\ UNCHANGED <<tls, rtimer, stopping, dead>>

StopFactory ==
  /\ ~dead /\ ~stopping
  /\ stopping' = TRUE
  /\ UNCHANGED <<phase, tls, op, left, attempt, timers, dead, calls, used_dead>>

\* ~dns_connector_factory()
DestroyFactory ==
  /\ ~dead
  /\ dead' = TRUE
  /\ UNCHANGED <<phase, tls, op, left, attempt, timers, stopping, calls, used_dead>>

Handlers ==
  \/ Resolved \/ Connected \/ TlsConnected \/ HandshakeDone \/ ResolveTimeout
  \/ \E k \in Attempts : ConnectTimeout(k)

Expires == ResolveTimerExpires \/ \E k \in Attempts : ConnectTimerExpires(k)

Next ==
  \/ \E t \in BOOLEAN : GetConnector(t)
  \/ \E result \in {"ok", "error"} : Completes(result)
  \/ Handlers \/ Expires
  \/ StopFactory \/ DestroyFactory

Spec == Init /\ [][Next]_vars

\* Queued handlers run and time passes; the network need never answer.
FairSpec == Spec /\ WF_vars(Handlers) /\ WF_vars(Expires)

-----------------------------------------------------------------------------
(* Properties. *)

\* Timeouts aside, a call of get_connector is answered at most once: the chain
\* of resolution, attempts and handshake has one end, whatever the timers do.
AnsweredOnce == calls.connector + calls.error <= 1

\* The completion handlers that return without a callback when their operation
\* was cancelled leave nobody waiting: a connect_timer has reported already.
EndIsReported ==
  phase = "done" /\ ~dead => calls.connector + calls.error + calls.timeout > 0

\* A plain connection asked of a factory that has been destroyed is never
\* handed out, nor is another endpoint tried: what the dead flag is for.
DeadIsSilent ==
  [][dead /\ ~tls => calls'.connector = calls.connector /\ attempt' = attempt]_vars

\* Every call is answered in the end if the factory lives, also when the
\* network never answers.
EventuallyAnswered ==
  phase # "idle" ~> dead \/ calls.connector + calls.error + calls.timeout > 0

\* The caller of get_connector gets one callback.
OneCallback == calls.connector + calls.error + calls.timeout <= 1

\* No completion handler touches the factory once it is destroyed.
DeadNotUsed == ~used_dead

(***************************************************************************)
(* The inductive invariant: nothing but a timeout is reported before the   *)
(* call is over, and a cancelled connection or handshake has been reported *)
(* by the timer that cancelled it; an attempt has a timer of its own.      *)
(***************************************************************************)
BeforeEnd == phase # "done" => calls.connector = 0 /\ calls.error = 0

CanceledIsReported ==
  op = "canceled" /\ phase \in {"connecting", "handshaking"} => calls.timeout > 0

AttemptsLeft ==
  /\ phase \in {"idle", "resolving"} => attempt = 0
  /\ phase \in {"connecting", "handshaking"} => attempt > 0
  /\ phase = "handshaking" => tls
  /\ phase = "connecting" /\ ~tls => attempt + left <= MaxEndpoints

DnsInv ==
  /\ TypeOK /\ BeforeEnd /\ CanceledIsReported /\ AttemptsLeft
  /\ AnsweredOnce /\ EndIsReported
=============================================================================
