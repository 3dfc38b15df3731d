----------------------------- MODULE HttpServer -----------------------------
(***************************************************************************)
(* http_server (src/src/http_server.cpp) with its sni_solver               *)
(* (src/src/utils/sni_solver.cpp) and handler_factory                      *)
(* (src/src/protocol/handler_factory.cpp): the two acceptors, the accept   *)
(* loops, the TLS handshake with its timer, the certificate chosen for the *)
(* name the client asks for, and the handler chosen for the protocol they  *)
(* agree on.  The server may be stopped and started again.                 *)
(*                                                                         *)
(* Asynchronous operations complete in two steps: the event (a connection  *)
(* arrives, the timer expires) queues the handler, and the handler runs    *)
(* later; cancelling an operation whose handler is queued has no effect.   *)
(* A cancelled accept only returns, so it is left out.                     *)
(***************************************************************************)
EXTENDS Integers, Sequences, FiniteSets, SequencesExt

CONSTANTS
  Conns,        \* connections clients open
  Certificates, \* the certificates that may be added: [cn, hosts, good]
  Hosts,        \* names a client may ask for
  Wildcard,     \* the hosts a wildcard name stands for: a function on wildcard names
  Offers,       \* the sets of protocols a client may offer
  MaxStarts,    \* bound: calls of start()
  Envs          \* combinations of optional events that may happen

\* The name of a client that asks for none, and of a certificate not read.
NoName == ""

ASSUME ServerAssumption ==
  /\ MaxStarts \in Nat /\ NoName \notin Hosts /\ NoName \notin DOMAIN Wildcard
  /\ \A c \in Certificates : c.hosts \subseteq Hosts /\ c.good \in BOOLEAN

Acceptors == {"plain", "tls"}

VARIABLES
  env,
  running, ssl,  \* running, _ssl
  raws,          \* raw_certificates
  list,          \* certificates_list
  loads,         \* the calls of load_certificates that moved the list
  ctx,           \* _ssl_ctx: loads when it was taken, or 0
  acceptor,      \* plain_acceptor, ssl_acceptor: "none", "open" or "closed"
  accepts,       \* accepts waiting on each acceptor
  user,          \* connect_cb is set
  conn,          \* the connections
  starts,        \* calls of start() that did something
  fate           \* "fine", "thrown" out of start(), or "stale": a dead context was used

vars == <<env, running, ssl, raws, list, loads, ctx, acceptor, accepts, user, conn, starts, fate>>

\* state: "none", "accepted" (handler queued), "shaking", "served", "dropped";
\* timer: "none", "armed", "queued", "cancelled", "done"; ctx: the ssl_ctx its accept
\* handler refers to; known: the certificates there were when cert
\* was chosen; told: the handlers given to the user; cut: the socket was shut down.
NewConn == [on |-> "plain", state |-> "none", timer |-> "none", host |-> NoName, offer |-> {},
            cert |-> 0, known |-> 0, ctx |-> 0, told |-> <<>>, cut |-> FALSE]

Init ==
  /\ env \in Envs
  /\ running = FALSE /\ ssl = ("tls" \in env)
  /\ raws = <<>> /\ list = <<>> /\ loads = 0 /\ ctx = 0
  /\ acceptor = [a \in Acceptors |-> "none"] /\ accepts = [a \in Acceptors |-> 0]
  /\ user = FALSE
  /\ conn = [c \in Conns |-> NewConn] /\ starts = 0 /\ fate = "fine"

Fine == fate = "fine"

-----------------------------------------------------------------------------
(* Certificates and protocols. *)

\* prepare_certificate: the common name is not read, so server_name is empty.
Prepared(raw) == [server_name |-> NoName, cn |-> raw.cn, hosts |-> raw.hosts]

\* load_certificates: every certificate added so far is loaded (again), up to
\* the first that cannot be.
Loaded ==
  LET bad == SelectInSeq(raws, LAMBDA r : ~r.good)
      taken == IF bad = 0 THEN raws ELSE SubSeq(raws, 1, bad - 1)
      new == list \o [i \in 1 .. Len(taken) |-> Prepared(taken[i])]
  IN  [ok |-> bad = 0 /\ new # <<>>, list |-> new, loads |-> loads + IF raws = <<>> THEN 0 ELSE 1]

\* As SniCallback, but the last pass compares nothing and takes the first certificate.
SniCallbackTakesFirst(name) == 1

\* sni_callback: a certificate whose name is asked for, else one whose wildcard
\* covers it, else one that X509_check_host accepts; without any, the handshake
\* goes on with the context of the acceptor, the first certificate.
SniCallback(name) ==
  LET exact == SelectInSeq(list, LAMBDA c : c.server_name = name)
      wild == SelectInSeq(list, LAMBDA c : c.server_name \in DOMAIN Wildcard
                                           /\ name \in Wildcard[c.server_name])
      san == SelectInSeq(list, LAMBDA c : name \in c.hosts)
  IN  IF name = NoName THEN 1
      ELSE IF exact > 0 THEN exact ELSE IF wild > 0 THEN wild ELSE IF san > 0 THEN san ELSE 1

\* alpn_protos_default, in the order of preference.
Protocols == <<"h2", "h2-16", "h2-14", "http/1.1", "http/1.0">>

\* alpn_select_cb: the first protocol of the server's list that is offered, or none.
AlpnSelect(offer) ==
  LET i == SelectInSeq(Protocols, LAMBDA x : x \in offer) IN IF i = 0 THEN "" ELSE Protocols[i]

\* negotiate_handler: the protocol agreed on by ALPN, or else the one the client
\* named by NPN (npn); the length of its name tells the handler.
NameLength == [x \in {"", "h2", "h2-16", "h2-14", "http/1.1", "http/1.0"} |->
                 CASE x = "" -> 0 [] x = "h2" -> 2 [] x \in {"h2-16", "h2-14"} -> 5 [] OTHER -> 8]
NegotiateHandler(offer, npn) ==
  LET len == IF NameLength[AlpnSelect(offer)] > 0 THEN NameLength[AlpnSelect(offer)]
             ELSE NameLength[npn]
  IN  IF len \in {2, 3, 5} THEN "ht_h2" ELSE "ht_h1"

-----------------------------------------------------------------------------
(* The user. *)

\* add_certificate throws while the server runs.
AddCertificate(raw) ==
  /\ Fine /\ ~running /\ Len(raws) < Cardinality(Certificates) /\ "tls" \in env
  /\ \A i \in 1 .. Len(raws) : raws[i] # raw
  /\ raws' = Append(raws, raw)
  /\ UNCHANGED <<env, running, ssl, list, loads, ctx, acceptor, accepts, user, conn, starts, fate>>

OnClientConnect ==
  /\ Fine /\ ~user
  /\ user' = TRUE
  /\ UNCHANGED <<env, running, ssl, raws, list, loads, ctx, acceptor, accepts, conn, starts, fate>>

\* listen: a new acceptor replaces the old one; on failure an error is kept
\* only if there is an old one (the test is inverted), and thrown.
Listened(a, busy) == IF ~busy THEN "open" ELSE acceptor[a]
Throws(a, busy) == busy /\ acceptor[a] # "none"

\* start_accept(a): on an acceptor that is closed the accept fails at once.
Accepting(acc, a) == IF acc[a] = "open" THEN 1 ELSE 0

\* start: busy is the set of ports that cannot be bound.  A TLS acceptor left
\* over from an earlier start is used with whatever _ssl_ctx points to.
Start(busy) ==
  /\ Fine /\ ~running /\ starts < MaxStarts
  /\ busy # {} => "busy" \in env
  /\ starts' = starts + 1 /\ running' = TRUE
  /\ \E l \in {IF ssl THEN Loaded ELSE [ok |-> FALSE, list |-> list, loads |-> loads]} :
       /\ list' = l.list /\ ssl' = l.ok /\ loads' = l.loads
       /\ ctx' = IF l.ok THEN l.loads ELSE ctx
       /\ \E acc \in {[plain |-> Listened("plain", "plain" \in busy),
                      tls |-> IF l.ok THEN Listened("tls", "tls" \in busy) ELSE acceptor["tls"]]} :
            \/ /\ (l.ok /\ Throws("tls", "tls" \in busy)) \/ Throws("plain", "plain" \in busy)
               /\ fate' = "thrown" /\ UNCHANGED <<acceptor, accepts>>
            \/ /\ ~((l.ok /\ Throws("tls", "tls" \in busy)) \/ Throws("plain", "plain" \in busy))
               /\ acceptor' = acc
               /\ accepts' = [a \in Acceptors |-> accepts[a] + Accepting(acc, a)]
               /\ fate' = IF acc["tls"] # "none" /\ ctx' # loads' THEN "stale" ELSE "fine"
  /\ UNCHANGED <<env, raws, user, conn>>

\* stop: the acceptors are closed, which cancels the accepts waiting on them.
Stop ==
  /\ Fine /\ running /\ "stop" \in env
  /\ running' = FALSE
  /\ acceptor' = [a \in Acceptors |-> IF acceptor[a] = "none" THEN "none" ELSE "closed"]
  /\ accepts' = [a \in Acceptors |-> 0]
  /\ UNCHANGED <<env, ssl, raws, list, loads, ctx, user, conn, starts, fate>>

-----------------------------------------------------------------------------
(* Connections. *)

\* A client connects: an accept completes and its handler is queued.
ClientConnects(c, a, host, offer) ==
  /\ Fine /\ conn[c].state = "none" /\ accepts[a] > 0
  /\ a = "plain" => host = NoName /\ offer = {}
  /\ conn' = [conn EXCEPT ![c] = [@ EXCEPT !.on = a, !.state = "accepted", !.host = host,
                                          !.offer = offer, !.ctx = ctx]]
  /\ accepts' = [accepts EXCEPT ![a] = @ - 1]
  /\ UNCHANGED <<env, running, ssl, raws, list, loads, ctx, acceptor, user, starts, fate>>

\* start_accept at the end of an accept handler; on a closed acceptor it fails
\* at once and is tried again, for ever.
AcceptAgain(a) ==
  accepts' = IF running THEN [accepts EXCEPT ![a] = @ + Accepting(acceptor, a)] ELSE accepts

Told(c, handler) == IF user THEN Append(conn[c].told, handler) ELSE conn[c].told

\* The accept handler of a plain connection: build_handler, then the user.
AcceptPlain(c) ==
  /\ Fine /\ conn[c].state = "accepted" /\ conn[c].on = "plain"
  /\ conn' = [conn EXCEPT ![c] = [@ EXCEPT !.state = "served", !.told = Told(c, "ht_h1")]]
  /\ AcceptAgain("plain")
  /\ UNCHANGED <<env, running, ssl, raws, list, loads, ctx, acceptor, user, starts, fate>>

\* As AcceptTls, but the next accept waits for the handshake.
AcceptTlsOnce(c) ==
  /\ Fine /\ conn[c].state = "accepted" /\ conn[c].on = "tls"
  /\ conn' = [conn EXCEPT ![c] = [@ EXCEPT !.state = "shaking", !.timer = "armed"]]
  /\ UNCHANGED <<env, running, ssl, raws, list, loads, ctx, acceptor, accepts, user, starts, fate>>

\* The accept handler of a TLS connection: the timer is armed, the handshake
\* begins, and the next accept uses the context this one was given, wherever
\* the certificates are now.
AcceptTls(c) ==
  /\ Fine /\ conn[c].state = "accepted" /\ conn[c].on = "tls"
  /\ conn' = [conn EXCEPT ![c] = [@ EXCEPT !.state = "shaking", !.timer = "armed"]]
  /\ AcceptAgain("tls")
  /\ fate' = IF running /\ conn[c].ctx # loads THEN "stale" ELSE "fine"
  /\ UNCHANGED <<env, running, ssl, raws, list, loads, ctx, acceptor, user, starts>>

\* An accept fails for another reason than being cancelled; its handler
\* accepts again, so nothing changes but that the handler was queued.
AcceptFails(a) ==
  /\ Fine /\ "fail" \in env /\ accepts[a] > 0
  /\ accepts' = [accepts EXCEPT ![a] = @ - 1 + IF running THEN Accepting(acceptor, a) ELSE 0]
  /\ UNCHANGED <<env, running, ssl, raws, list, loads, ctx, acceptor, user, conn, starts, fate>>

\* The certificate is chosen when the client's first message is read.
ServerName(c) ==
  /\ Fine /\ conn[c].state = "shaking" /\ conn[c].cert = 0
  /\ conn' = [conn EXCEPT ![c] = [@ EXCEPT !.cert = SniCallback(conn[c].host), !.known = Len(list)]]
  /\ UNCHANGED <<env, running, ssl, raws, list, loads, ctx, acceptor, accepts, user, starts, fate>>

Cancelled(timer) == IF timer = "armed" THEN "cancelled" ELSE timer

\* As Handshaken, but the timer is left running.
HandshakenKeepsTimer(c, npn) ==
  /\ Fine /\ conn[c].state = "shaking" /\ conn[c].cert > 0
  /\ conn' = [conn EXCEPT ![c] =
       [@ EXCEPT !.state = "served", !.told = Told(c, NegotiateHandler(conn[c].offer, npn))]]
  /\ UNCHANGED <<env, running, ssl, raws, list, loads, ctx, acceptor, accepts, user, starts, fate>>

\* handshake_cb without an error: the timer is cancelled, the handler built.
Handshaken(c, npn) ==
  /\ Fine /\ conn[c].state = "shaking" /\ conn[c].cert > 0
  /\ conn' = [conn EXCEPT ![c] =
       [@ EXCEPT !.state = "served", !.timer = Cancelled(conn[c].timer),
                 !.told = Told(c, NegotiateHandler(conn[c].offer, npn))]]
  /\ UNCHANGED <<env, running, ssl, raws, list, loads, ctx, acceptor, accepts, user, starts, fate>>

(***************************************************************************)
(* handshake_cb with an error: the socket goes with the handler.  The code *)
(* leaves the timer alone when the error is operation_canceled, an error   *)
(* no handshake ends with: only the timer's handler touches the socket in  *)
(* the meantime, and it calls shutdown(), not cancel().                    *)
(***************************************************************************)
HandshakeFails(c) ==
  /\ Fine /\ conn[c].state = "shaking"
  /\ conn' = [conn EXCEPT ![c] = [@ EXCEPT !.state = "dropped", !.timer = Cancelled(conn[c].timer)]]
  /\ UNCHANGED <<env, running, ssl, raws, list, loads, ctx, acceptor, accepts, user, starts, fate>>

TimerExpires(c) ==
  /\ Fine /\ "timeout" \in env /\ conn[c].timer = "armed"
  /\ conn' = [conn EXCEPT ![c].timer = "queued"]
  /\ UNCHANGED <<env, running, ssl, raws, list, loads, ctx, acceptor, accepts, user, starts, fate>>

\* The timer's handler shuts the socket down, whatever became of it.
ConnectionTimeout(c) ==
  /\ Fine /\ conn[c].timer = "queued"
  /\ conn' = [conn EXCEPT ![c] = [@ EXCEPT !.timer = "done", !.cut = TRUE]]
  /\ UNCHANGED <<env, running, ssl, raws, list, loads, ctx, acceptor, accepts, user, starts, fate>>

Next ==
  \/ \E raw \in Certificates : AddCertificate(raw)
  \/ OnClientConnect
  \/ \E busy \in SUBSET Acceptors : Start(busy)
  \/ Stop
  \/ \E c \in Conns, a \in Acceptors, host \in Hosts \cup {NoName}, offer \in Offers :
       ClientConnects(c, a, host, offer)
  \/ \E c \in Conns :
       \/ AcceptPlain(c) \/ AcceptTls(c) \/ ServerName(c)
       \/ HandshakeFails(c) \/ TimerExpires(c) \/ ConnectionTimeout(c)
  \/ \E c \in Conns, npn \in DOMAIN NameLength : Handshaken(c, npn)
  \/ \E a \in Acceptors : AcceptFails(a)

Spec == Init /\ [][Next]_vars

-----------------------------------------------------------------------------
(* Properties. *)

TypeOK ==
  /\ env \in Envs /\ fate \in {"fine", "thrown", "stale"}
  /\ {running, ssl, user} \subseteq BOOLEAN /\ starts \in 0 .. MaxStarts
  /\ loads \in 0 .. MaxStarts /\ ctx \in 0 .. loads
  /\ acceptor \in [Acceptors -> {"none", "open", "closed"}] /\ accepts \in [Acceptors -> Nat]
  /\ \A c \in Conns : conn[c].cert \in 0 .. Len(list)

\* While the server runs, an acceptor that is open always has an accept waiting
\* or an accept handler that will begin the next one (start_accept at the end of
\* every accept handler, http_server.cpp:129 and :153): connections, failed
\* accepts and restarts never leave a port that listens and does not answer.
ServedWhileRunning ==
  TypeOK /\ (Fine /\ running =>
    \A a \in Acceptors : acceptor[a] = "open" =>
      accepts[a] > 0 \/ \E c \in Conns : conn[c].on = a /\ conn[c].state = "accepted")

\* The certificate a client is shown is for the name it asked for whenever one
\* that was loaded is (sni_callback, sni_solver.cpp:156-217), whatever was added
\* and reloaded before the client came.
CertificateFits ==
  \A c \in Conns :
    conn[c].cert > 0 /\ (\E i \in 1 .. conn[c].known : conn[c].host \in list[i].hosts)
      => conn[c].host \in list[conn[c].cert].hosts

\* A handshake never goes on without its timer, and a timer never outlives the
\* handshake unless its handler was already queued (http_server.cpp:95-109).
HandshakeIsTimed ==
  \A c \in Conns :
    /\ conn[c].state = "shaking" => conn[c].timer \in {"armed", "queued"} \/ conn[c].cut
    /\ conn[c].state \in {"served", "dropped"} => conn[c].timer # "armed"

-----------------------------------------------------------------------------
(* What the code does not guarantee; each is violated. *)

\* The comment in sni_callback says that the first pass is against the common
\* name: a certificate for that very name would be preferred.
CommonNameFirst ==
  \A c \in Conns :
    conn[c].cert > 0 /\ (\E i \in 1 .. conn[c].known : list[i].cn = conn[c].host)
      => list[conn[c].cert].cn = conn[c].host

\* The timer cuts connections in the handshake only.
ServedIsNotCut == \A c \in Conns : ~(conn[c].state = "served" /\ conn[c].cut)

\* Each acceptor is served by one chain of accepts.
OneAcceptChain ==
  \A a \in Acceptors :
    accepts[a] + Cardinality({c \in Conns : conn[c].on = a /\ conn[c].state = "accepted"}) <= 1

\* start(), which is noexcept, lets no exception out.
StartDoesNotThrow == fate # "thrown"

\* No acceptor is used with a context that the list of certificates has left behind.
NoStaleContext == fate # "stale"

=============================================================================
