-------------------------- MODULE Http2ClientProofs --------------------------
(***************************************************************************)
(* Proofs about the client side of HTTP/2, for any number of transactions, *)
(* any limit of the peer on concurrent streams and any combination of      *)
(* events.  What holds of a stream differs before and after the end of the *)
(* connector: before it a response that is referred to has reported no     *)
(* outcome and a request has at most one error callback posted; after it   *)
(* everyone has an outcome.                                                *)
(***************************************************************************)
EXTENDS Http2Client, TLAPS

Events == {"headers", "body", "trailer"} \cup Outcomes

StreamRecords ==
  [life : {"none", "live", "gone"}, eof : BOOLEAN, closed : BOOLEAN, headersSent : BOOLEAN,
   gotHeaders : BOOLEAN, res : BOOLEAN, ng : {"idle", "req", "open", "shut"},
   rx : {"head", "body", "end"}, user : UserStages, evs : Seq(Events),
   told : SUBSET {"cleared", "error"}, dies : Nat]

\* The life of a stream: it is closed or destroyed only by nghttp2 or an error.
LifeOK(r) ==
  /\ r.life = "none" <=> r.user = "none"
  /\ r.life = "none" => ~r.closed /\ r.ng = "idle" /\ r.dies = 0
  /\ r.life = "gone" => r.user = "ended" /\ (r.ng = "shut" \/ "error" \in r.told)
  /\ r.eof <=> r.user = "ended"
  /\ r.closed => r.ng = "shut" \/ "error" \in r.told
  /\ r.dies > 0 => "error" \in r.told
  /\ r.life = "live" /\ r.ng = "shut" => r.closed

\* A request with headers was submitted.
FlushedOK(r) == r.user \in {"headers", "ended"} /\ ~r.closed => r.headersSent

NoOutcome(e) == \A i \in 1 .. Len(e) : e[i] \notin Outcomes

\* What a response has reported.
Ordered(e) ==
  /\ \A i \in 1 .. Len(e) : i < Len(e) => e[i] \notin Outcomes
  /\ e # <<>> => e[1] \in {"headers", "error"}

Closing(e) == e # <<>> /\ e[Len(e)] \in Outcomes

EventsOK(r) ==
  /\ Ordered(r.evs) /\ Len(r.evs) <= MaxEvents + 1
  /\ r.gotHeaders \/ r.rx = "body" => r.evs # <<>>
  /\ ~r.res => Closing(r.evs)

StreamBegun(r) ==
  r \in StreamRecords /\ LifeOK(r) /\ EventsOK(r) /\ (r.headersSent => r.ng # "idle")
StreamOK(r) == StreamBegun(r) /\ FlushedOK(r)

\* While the connector exists a response is referred to until its outcome, and
\* at most one error callback is posted.
WorkingOK(r) ==
  /\ Len(r.evs) <= MaxEvents /\ (r.res => NoOutcome(r.evs))
  /\ ~r.res => r.ng = "shut"
  /\ r.dies <= 1 /\ (r.dies > 0 => r.user = "ended")

\* When it is gone everyone was told, and ended requests have a callback to come.
GoneOK(r) ==
  /\ r.dies <= 3
  /\ r.life = "live" => Closing(r.evs) /\ "error" \in r.told
  /\ r.life = "live" /\ "onerror" \notin env => r.dies > 0 \/ (r.closed /\ r.user # "ended")

\* The requests of T wait for a write and have not failed yet.
Waiting(ss, T) == \A s \in T : ss[s].user = "ended" /\ ss[s].dies = 0

SessionTypeOK ==
  /\ env \in Envs /\ conn \in {"open", "stopped", "gone"} /\ out \in BOOLEAN
  /\ cbs \subseteq Streams /\ pending \subseteq Streams /\ misused \subseteq Streams
  /\ goaway \in BOOLEAN

StreamsOK(ss) == ss \in [Streams -> StreamRecords] /\ \A s \in Streams : StreamOK(ss[s])

\* What holds before and what holds after the end of the connector.
Working ==
  conn # "gone" => /\ \A s \in Streams : WorkingOK(str[s])
                   /\ Waiting(str, cbs) /\ Waiting(str, pending) /\ cbs \cap pending = {}

Gone == conn = "gone" => ~out /\ \A s \in Streams : GoneOK(str[s])

\* Nothing that could be sent waits while no write is in flight.
NothingSendable == Sane /\ conn = "open" /\ ~out /\ ~goaway => Sendable(str) = {}

\* The inductive invariant.
H2CIInv == SessionTypeOK /\ StreamsOK(str) /\ Working /\ Gone /\ NothingSendable

-----------------------------------------------------------------------------
(* The functions that compute the next record of a stream. *)

\* A response that has reported nothing.
LEMMA EmptyEvents ==
  <<>> \in Seq(Events) /\ Ordered(<<>>) /\ NoOutcome(<<>>) /\ Len(<<>>) = 0
  BY DEF Ordered, NoOutcome

\* A report: order is kept, and it is the last one.
LEMMA Reported ==
  ASSUME NEW e \in Seq(Events), Ordered(e), NoOutcome(e), NEW x \in Events,
         e = <<>> => x \in {"headers", "error"}
  PROVE  LET q == e \o <<x>>
         IN  /\ q \in Seq(Events) /\ Ordered(q) /\ q # <<>> /\ Len(q) = Len(e) + 1
             /\ q[Len(q)] = x /\ (x \notin Outcomes => NoOutcome(q))
<1> DEFINE q == e \o <<x>>
<1>1. /\ q \in Seq(Events) /\ Len(q) = Len(e) + 1 /\ Len(e) \in Nat
      /\ q[Len(e) + 1] = x /\ \A i \in 1 .. Len(e) : q[i] = e[i]
  OBVIOUS
<1>2. e = <<>> \/ 1 \in 1 .. Len(e)
  OBVIOUS
<1> HIDE DEF q
<1>3. q # <<>> /\ q[Len(q)] = x
  BY <1>1
<1>4. \A i \in 1 .. Len(q) : i < Len(q) => i \in 1 .. Len(e)
  BY <1>1
<1>5. \A i \in 1 .. Len(q) : i < Len(q) => q[i] \notin Outcomes
  BY <1>1, <1>4 DEF NoOutcome
<1>6. q[1] \in {"headers", "error"}
  <2>1. CASE e = <<>>
    BY <1>1, <2>1
  <2>2. CASE e # <<>>
    BY <1>1, <1>2, <2>2 DEF Ordered
  <2> QED
    BY <2>1, <2>2
<1>7. x \notin Outcomes => NoOutcome(q)
  <2> SUFFICES ASSUME x \notin Outcomes, NEW i \in 1 .. Len(q)
               PROVE  q[i] \notin Outcomes
    BY DEF NoOutcome
  <2>1. i = Len(q) \/ i < Len(q)
    BY <1>1
  <2> QED
    BY <1>3, <1>5, <2>1
<1> QED
  BY <1>1, <1>3, <1>5, <1>6, <1>7 DEF Ordered, q

\* A stream just created, and one not created yet, satisfy the per-stream invariant.
LEMMA NewStreamOK ==
  /\ StreamOK(NewStream) /\ WorkingOK(NewStream) /\ NewStream.ng = "idle"
  /\ StreamOK(NoStream) /\ WorkingOK(NoStream) /\ NoStream.ng = "idle"
<1>1. NewStream \in StreamRecords
  BY EmptyEvents DEF NewStream, StreamRecords, UserStages
<1>2. /\ NoStream \in StreamRecords /\ NoStream.life = "none" /\ NoStream.user = "none"
      /\ NoStream.eof = NewStream.eof /\ NoStream.closed = NewStream.closed
      /\ NoStream.headersSent = NewStream.headersSent /\ NoStream.ng = NewStream.ng
      /\ NoStream.gotHeaders = NewStream.gotHeaders /\ NoStream.res = NewStream.res
      /\ NoStream.rx = NewStream.rx /\ NoStream.evs = NewStream.evs
      /\ NoStream.told = NewStream.told /\ NoStream.dies = NewStream.dies
  BY <1>1 DEF NoStream, StreamRecords, UserStages
<1>3. /\ NewStream.life = "live" /\ NewStream.user = "begun"
      /\ ~NewStream.eof /\ ~NewStream.closed /\ ~NewStream.headersSent /\ NewStream.ng = "idle"
      /\ ~NewStream.gotHeaders /\ NewStream.res /\ NewStream.rx = "head"
      /\ NewStream.evs = <<>> /\ NewStream.told = {} /\ NewStream.dies = 0
  BY DEF NewStream
<1>4. MaxEvents \in Nat
  BY H2ClientAssumption
<1> QED
  BY <1>1, <1>2, <1>3, <1>4, EmptyEvents
     DEF StreamOK, StreamBegun, LifeOK, EventsOK, FlushedOK, WorkingOK

\* nghttp2 closes a stream; frame_not_send_callback does so twice.
LEMMA OnStreamCloseOK ==
  ASSUME NEW r, StreamOK(r), r.life # "none", NEW q \in {OnStreamClose(r), OnStreamClose(Die(r))}
  PROVE  /\ StreamOK(q) /\ q.ng = "shut" /\ q.evs = r.evs /\ q.res = r.res /\ q.dies = r.dies
         /\ q.user = r.user /\ q.told = r.told
<1>1. /\ q \in StreamRecords /\ q.ng = "shut" /\ q.eof = r.eof /\ q.headersSent = r.headersSent
      /\ q.gotHeaders = r.gotHeaders /\ q.res = r.res /\ q.rx = r.rx /\ q.user = r.user
      /\ q.evs = r.evs /\ q.told = r.told /\ q.dies = r.dies
      /\ r.eof => q.life = "gone" /\ q.closed = r.closed
      /\ ~r.eof => q.life = r.life /\ q.closed
  <2>1. CASE r.eof
    BY <2>1, ZenonT(60) DEF OnStreamClose, Die, StreamOK, StreamBegun, StreamRecords
  <2>2. CASE ~r.eof
    BY <2>2 DEF OnStreamClose, Die, StreamOK, StreamBegun, StreamRecords
  <2> QED
    BY <2>1, <2>2
<1>2. LifeOK(q) /\ FlushedOK(q)
  BY <1>1 DEF StreamOK, StreamBegun, LifeOK, FlushedOK
<1>3. EventsOK(q)
  BY <1>1 DEF StreamOK, StreamBegun, EventsOK
<1> QED
  BY <1>1, <1>2, <1>3 DEF StreamOK, StreamBegun

\* die() of a stream whose request failed.
LEMMA DieOK ==
  ASSUME NEW r, StreamBegun(r), r.life = "live", r.closed \/ "error" \in r.told
  PROVE  /\ StreamBegun(Die(r)) /\ Die(r).ng = r.ng /\ Die(r).evs = r.evs /\ Die(r).res = r.res
         /\ Die(r).dies = r.dies /\ Die(r).user = r.user /\ Die(r).told = r.told
         /\ r.eof => Die(r).life = "gone" /\ Die(r).closed = r.closed
         /\ ~r.eof => Die(r).life = "live" /\ Die(r).closed
         /\ Die(r).headersSent = r.headersSent
<1> DEFINE q == Die(r)
<1>1. /\ q \in StreamRecords /\ q.ng = r.ng /\ q.eof = r.eof /\ q.headersSent = r.headersSent
      /\ q.gotHeaders = r.gotHeaders /\ q.res = r.res /\ q.rx = r.rx /\ q.user = r.user
      /\ q.evs = r.evs /\ q.told = r.told /\ q.dies = r.dies
      /\ r.eof => q.life = "gone" /\ q.closed = r.closed
      /\ ~r.eof => q.life = r.life /\ q.closed
  BY DEF Die, StreamBegun, StreamRecords
<1> SUFFICES StreamBegun(q)
  BY <1>1
<1> HIDE DEF q
<1>2. LifeOK(q)
  BY <1>1 DEF StreamBegun, LifeOK
<1>3. EventsOK(q)
  BY <1>1 DEF StreamBegun, EventsOK
<1> QED
  BY <1>1, <1>2, <1>3 DEF StreamBegun

\* A request is told something: only an error can post a callback.
LEMMA TellRequestOK ==
  ASSUME NEW r, StreamOK(r), r.life # "none", NEW what \in {"cleared", "error"}
  PROVE  LET q == TellRequest(r, what)
         IN  /\ StreamOK(q) /\ q.ng = r.ng /\ q.evs = r.evs /\ q.res = r.res /\ q.life = r.life
             /\ q.user = r.user /\ q.closed = r.closed /\ q.told = r.told \cup {what}
             /\ q.dies = IF what = "error" /\ "onerror" \notin env THEN r.dies + 1 ELSE r.dies
<1> DEFINE q == TellRequest(r, what)
           d == IF what = "error" /\ "onerror" \notin env THEN r.dies + 1 ELSE r.dies
<1>0. d \in Nat /\ d >= r.dies /\ (what = "cleared" => d = r.dies)
  BY DEF StreamOK, StreamBegun, StreamRecords
<1> HIDE DEF d
<1>1. /\ q \in StreamRecords /\ q.ng = r.ng /\ q.eof = r.eof /\ q.headersSent = r.headersSent
      /\ q.gotHeaders = r.gotHeaders /\ q.res = r.res /\ q.rx = r.rx /\ q.user = r.user
      /\ q.evs = r.evs /\ q.told = r.told \cup {what} /\ q.life = r.life /\ q.closed = r.closed
      /\ q.dies = d
  <2>1. q = [r EXCEPT !.told = @ \cup {what}, !.dies = d]
    BY Zenon DEF TellRequest, d
  <2> HIDE DEF q
  <2> QED
    BY <1>0, <2>1 DEF StreamOK, StreamBegun, StreamRecords
<1> SUFFICES StreamOK(q)
  BY <1>1 DEF d
<1> HIDE DEF q
<1>2. LifeOK(q) /\ FlushedOK(q)
  BY <1>0, <1>1 DEF StreamOK, StreamBegun, StreamRecords, LifeOK, FlushedOK
<1>3. EventsOK(q)
  BY <1>1 DEF StreamOK, StreamBegun, EventsOK
<1> QED
  BY <1>1, <1>2, <1>3 DEF StreamOK, StreamBegun

\* flush() submits the request.
LEMMA FlushOK ==
  ASSUME NEW r, StreamBegun(r), r.life = "live", ~r.closed
  PROVE  /\ StreamOK(Flush(r)) /\ Flush(r).evs = r.evs /\ Flush(r).res = r.res
         /\ Flush(r).life = r.life /\ Flush(r).user = r.user /\ Flush(r).closed = r.closed
         /\ Flush(r).told = r.told /\ Flush(r).dies = r.dies
         /\ r.ng # "shut"
<1> DEFINE q == Flush(r)
<1>1. /\ q \in StreamRecords /\ q.eof = r.eof /\ q.closed = r.closed /\ q.life = r.life
      /\ q.gotHeaders = r.gotHeaders /\ q.res = r.res /\ q.rx = r.rx /\ q.user = r.user
      /\ q.evs = r.evs /\ q.told = r.told /\ q.dies = r.dies /\ q.headersSent
      /\ IF r.headersSent THEN q.ng = r.ng ELSE q.ng = "req"
  BY DEF Flush, StreamBegun, StreamRecords
<1>2. r.ng # "shut"
  BY DEF StreamBegun, LifeOK
<1> SUFFICES StreamOK(q)
  BY <1>1, <1>2
<1> HIDE DEF q
<1>3. LifeOK(q) /\ FlushedOK(q) /\ q.ng # "idle"
  BY <1>1, <1>2 DEF StreamBegun, LifeOK, FlushedOK
<1>4. EventsOK(q)
  BY <1>1 DEF StreamBegun, EventsOK
<1> QED
  BY <1>1, <1>3, <1>4 DEF StreamOK, StreamBegun

\* What a call on a stream leaves of the facts about it.
LEMMA SameEvents ==
  ASSUME NEW r, NEW q, q.evs = r.evs, q.res = r.res, q.dies = r.dies,
         r.ng = "shut" => q.ng = "shut", r.user = "ended" => q.user = "ended", WorkingOK(r)
  PROVE  WorkingOK(q)
  BY DEF WorkingOK

-----------------------------------------------------------------------------
(* Writing. *)

\* What can be sent depends on nghttp2's view of the streams only.
LEMMA SameSendable ==
  ASSUME NEW ss, NEW tt, \A s \in Streams : ss[s].ng = tt[s].ng
  PROVE  Sendable(ss) = Sendable(tt)
<1>1. Active(ss) = Active(tt)
  BY DEF Active
<1> QED
  BY <1>1 DEF Sendable, BelowLimit

\* Replacing one stream's record by a good one keeps all good and leaves the others alone.
LEMMA OneStreamOK ==
  ASSUME NEW ss, StreamsOK(ss), NEW s \in Streams, NEW r, StreamOK(r)
  PROVE  /\ StreamsOK([ss EXCEPT ![s] = r])
         /\ [ss EXCEPT ![s] = r][s] = r
         /\ \A t \in Streams \ {s} : [ss EXCEPT ![s] = r][t] = ss[t]
<1>1. ss \in [Streams -> StreamRecords] /\ r \in StreamRecords
  BY DEF StreamsOK, StreamOK, StreamBegun
<1>2. [ss EXCEPT ![s] = r] \in [Streams -> StreamRecords]
  BY <1>1
<1>3. \A t \in Streams : [ss EXCEPT ![s] = r][t] = IF t = s THEN r ELSE ss[t]
  BY <1>1
<1>4. \A t \in Streams : StreamOK([ss EXCEPT ![s] = r][t])
  BY <1>3 DEF StreamsOK
<1> QED
  BY <1>2, <1>3, <1>4 DEF StreamsOK

\* An outcome for the requests of S.
LEMMA TellAllOK ==
  ASSUME NEW ss, StreamsOK(ss), NEW S \in SUBSET Streams, \A s \in S : ss[s].life # "none",
         NEW what \in {"cleared", "error"}
  PROVE  /\ StreamsOK(TellAll(ss, S, what))
         /\ \A s \in Streams :
              LET q == TellAll(ss, S, what)[s]
              IN  /\ q.ng = ss[s].ng /\ q.evs = ss[s].evs /\ q.res = ss[s].res
                  /\ q.life = ss[s].life /\ q.user = ss[s].user /\ q.closed = ss[s].closed
                  /\ ss[s].told \subseteq q.told
                  /\ q.dies = IF s \in S /\ what = "error" /\ "onerror" \notin env
                              THEN ss[s].dies + 1 ELSE ss[s].dies
<1> DEFINE tt == TellAll(ss, S, what)
<1>1. \A s \in Streams : tt[s] = IF s \in S THEN TellRequest(ss[s], what) ELSE ss[s]
  BY DEF TellAll
<1>2. ASSUME NEW s \in Streams
      PROVE  /\ StreamOK(tt[s])
             /\ tt[s].ng = ss[s].ng /\ tt[s].evs = ss[s].evs /\ tt[s].res = ss[s].res
             /\ tt[s].life = ss[s].life /\ tt[s].user = ss[s].user /\ tt[s].closed = ss[s].closed
             /\ ss[s].told \subseteq tt[s].told
             /\ tt[s].dies = IF s \in S /\ what = "error" /\ "onerror" \notin env
                             THEN ss[s].dies + 1 ELSE ss[s].dies
  <2> HIDE DEF tt
  <2>1. StreamOK(ss[s])
    BY DEF StreamsOK
  <2>2. CASE s \in S
    <3> DEFINE r == ss[s]
               q == TellRequest(r, what)
    <3>1. tt[s] = q
      BY <1>1, <2>2
    <3>2. StreamOK(r) /\ r.life # "none"
      BY <2>1, <2>2
    <3> HIDE DEF r
    <3>3. /\ StreamOK(q) /\ q.ng = r.ng /\ q.evs = r.evs /\ q.res = r.res /\ q.life = r.life
          /\ q.user = r.user /\ q.closed = r.closed /\ q.told = r.told \cup {what}
          /\ q.dies = IF what = "error" /\ "onerror" \notin env THEN r.dies + 1 ELSE r.dies
      BY <3>2, TellRequestOK, Zenon
    <3> HIDE DEF q
    <3> QED
      BY <2>2, <3>1, <3>3 DEF r
  <2>3. CASE s \notin S
    <3>1. tt[s] = ss[s]
      BY <1>1, <2>3
    <3> QED
      BY <2>1, <2>3, <3>1
  <2> QED
    BY <2>2, <2>3
<1>3. tt \in [Streams -> StreamRecords]
  <2>1. \A s \in Streams : tt[s] \in StreamRecords
    BY <1>2 DEF StreamOK, StreamBegun
  <2> QED
    BY <1>1, <2>1 DEF TellAll
<1> HIDE DEF tt
<1>4. StreamsOK(tt)
  BY <1>2, <1>3 DEF StreamsOK
<1> QED
  BY <1>2, <1>4 DEF tt

\* The requests that wait keep waiting when their streams stay as they are.
LEMMA SameWaiting ==
  ASSUME NEW ss, NEW tt, NEW T \in SUBSET Streams, Waiting(ss, T),
         \A s \in Streams : /\ tt[s].dies = ss[s].dies
                            /\ ss[s].user = "ended" => tt[s].user = "ended"
  PROVE  Waiting(tt, T)
  BY DEF Waiting

\* What do_write() starts from.
Ready(ss, pend, fly) ==
  /\ StreamsOK(ss) /\ pend \subseteq Streams /\ fly \in BOOLEAN /\ (fly => out)
  /\ conn # "gone" => /\ \A s \in Streams : WorkingOK(ss[s])
                      /\ Waiting(ss, pend)
                      /\ fly => Waiting(ss, cbs) /\ cbs \cap pend = {}
  /\ conn = "gone" => ~fly /\ \A s \in Streams : GoneOK(ss[s])

\* do_write(), whatever the streams have become.
LEMMA DoWriteStep ==
  ASSUME SessionTypeOK, NEW ss, NEW pend, NEW fly, NEW gone \in BOOLEAN, Ready(ss, pend, fly),
         env' = env, goaway' = gone, DoWrite(ss, pend, fly, gone)
  PROVE  H2CIInv'
<1>1. CASE fly \/ conn # "open"
  <2>1. /\ str' = ss /\ pending' = pend /\ conn' = conn /\ misused' = misused
        /\ IF fly THEN out' = out /\ cbs' = cbs ELSE out' = FALSE /\ cbs' = {}
    BY <1>1 DEF DoWrite
  <2>2. SessionTypeOK'
    BY <2>1 DEF SessionTypeOK, Ready
  <2>3. Working'
    BY <2>1 DEF Working, Ready, Waiting
  <2>4. Gone'
    BY <2>1 DEF Gone, GoneOK, Ready
  <2>5. NothingSendable'
    BY <1>1, <2>1 DEF NothingSendable, Ready
  <2> QED
    BY <2>1, <2>2, <2>3, <2>4, <2>5 DEF H2CIInv, StreamsOK, Ready
<1>2. ASSUME ~fly, conn = "open", NEW s \in Sendable(ss), str' = [ss EXCEPT ![s].ng = "open"],
             out' = TRUE, cbs' = pend, pending' = {}, conn' = conn, misused' = misused
      PROVE  H2CIInv'
  <2> DEFINE r == ss[s]
             q == [r EXCEPT !.ng = "open"]
             tt == [ss EXCEPT ![s] = q]
  <2>1. s \in Streams /\ r.ng = "req" /\ StreamOK(r) /\ WorkingOK(r)
    BY <1>2 DEF Sendable, StreamsOK, Ready
  <2>2. str' = tt
    BY <1>2, <2>1 DEF StreamsOK, Ready
  <2>3. /\ q \in StreamRecords /\ q.ng = "open" /\ q.eof = r.eof /\ q.headersSent = r.headersSent
        /\ q.gotHeaders = r.gotHeaders /\ q.res = r.res /\ q.rx = r.rx /\ q.user = r.user
        /\ q.evs = r.evs /\ q.told = r.told /\ q.dies = r.dies
        /\ q.life = r.life /\ q.closed = r.closed
    BY <2>1 DEF StreamOK, StreamBegun, StreamRecords
  <2> HIDE DEF q, r
  <2>4. StreamOK(q)
    <3>1. LifeOK(q) /\ FlushedOK(q)
      BY <2>1, <2>3 DEF StreamOK, StreamBegun, LifeOK, FlushedOK
    <3>2. EventsOK(q)
      BY <2>1, <2>3 DEF StreamOK, StreamBegun, EventsOK
    <3> QED
      BY <2>3, <3>1, <3>2 DEF StreamOK, StreamBegun
  <2>5. StreamsOK(tt) /\ tt[s] = q /\ \A t \in Streams \ {s} : tt[t] = ss[t]
    BY <2>1, <2>4, OneStreamOK DEF Ready
  <2> HIDE DEF tt
  <2>6. WorkingOK(q)
    BY <2>1, <2>3 DEF WorkingOK
  <2>7. SessionTypeOK'
    BY <1>2 DEF SessionTypeOK, Ready
  <2>8. \A t \in Streams : tt[t].dies = ss[t].dies /\ tt[t].user = ss[t].user
    BY <2>3, <2>5 DEF r
  <2>9. Working'
    BY <1>2, <2>2, <2>5, <2>6, <2>8 DEF Working, Ready, Waiting
  <2> QED
    BY <1>2, <2>2, <2>5, <2>7, <2>9 DEF H2CIInv, Gone, NothingSendable, StreamsOK
<1>3. CASE /\ ~fly /\ conn = "open" /\ str' = Refused(ss)
           /\ misused' = misused \cup {s \in Sendable(ss) : ss[s].eof}
           /\ out' = TRUE /\ cbs' = pend /\ pending' = {}
           /\ conn' = IF RefusedLast(ss) THEN "stopped" ELSE conn
  <2>1. ASSUME NEW s \in Streams
        PROVE  /\ StreamOK(str'[s]) /\ WorkingOK(str'[s])
               /\ str'[s].dies = ss[s].dies /\ str'[s].user = ss[s].user
    <3>1. StreamOK(ss[s]) /\ WorkingOK(ss[s])
      BY <1>3 DEF Ready, StreamsOK
    <3>2. CASE s \in Sendable(ss)
      <4> DEFINE q == OnStreamClose(Die(ss[s]))
      <4>1. str'[s] = q
        BY <1>3, <3>2 DEF Refused
      <4>2. ss[s].life # "none"
        BY <3>1, <3>2 DEF Sendable, StreamOK, StreamBegun, LifeOK
      <4>3. /\ StreamOK(q) /\ q.ng = "shut" /\ q.evs = ss[s].evs /\ q.res = ss[s].res
            /\ q.dies = ss[s].dies /\ q.user = ss[s].user
        BY <3>1, <4>2, OnStreamCloseOK
      <4> HIDE DEF q
      <4> QED
        BY <3>1, <4>1, <4>3, SameEvents
    <3>3. CASE s \notin Sendable(ss)
      BY <1>3, <3>1, <3>3 DEF Refused
    <3> QED
      BY <3>2, <3>3
  <2>2. str' \in [Streams -> StreamRecords]
    <3>1. \A s \in Streams : str'[s] \in StreamRecords
      BY <2>1 DEF StreamOK, StreamBegun
    <3> QED
      BY <1>3, <3>1 DEF Refused
  <2>3. SessionTypeOK'
    BY <1>3 DEF SessionTypeOK, Ready, Sendable
  <2>4. Working'
    BY <1>3, <2>1 DEF Working, Ready, Waiting
  <2> QED
    BY <1>3, <2>1, <2>2, <2>3, <2>4 DEF H2CIInv, Gone, NothingSendable, StreamsOK
<1>4. ASSUME ~fly, conn = "open", Sendable(ss) = {}, NEW stops \in BOOLEAN,
             str' = IF stops THEN TellAll(ss, pend, "cleared") ELSE ss,
             pending' = IF stops THEN {} ELSE pend,
             conn' = IF stops THEN "stopped" ELSE conn,
             out' = FALSE, cbs' = {}, misused' = misused
      PROVE  H2CIInv'
  <2>1. SessionTypeOK'
    BY <1>4 DEF SessionTypeOK, Ready
  <2>2. CASE ~stops
    <3>1. Working' /\ Gone'
      BY <1>4, <2>2 DEF Working, Gone, Ready, Waiting
    <3>2. NothingSendable'
      BY <1>4, <2>2 DEF NothingSendable, Sendable, BelowLimit, Active
    <3> QED
      BY <1>4, <2>1, <2>2, <3>1, <3>2 DEF H2CIInv, StreamsOK, Ready
  <2>3. CASE stops
    <3>1. \A s \in pend : ss[s].life # "none"
      BY <1>4 DEF Ready, Waiting, StreamsOK, StreamOK, StreamBegun, LifeOK
    <3>2. /\ StreamsOK(str')
          /\ \A s \in Streams :
               /\ str'[s].ng = ss[s].ng /\ str'[s].evs = ss[s].evs /\ str'[s].res = ss[s].res
               /\ str'[s].user = ss[s].user /\ str'[s].dies = ss[s].dies
      BY <1>4, <2>3, <3>1, TellAllOK DEF Ready
    <3>3. \A s \in Streams : WorkingOK(str'[s])
      BY <1>4, <3>2, SameEvents DEF Ready
    <3>4. Working' /\ Gone' /\ NothingSendable'
      BY <1>4, <2>3, <3>3 DEF Working, Gone, NothingSendable, Waiting
    <3> QED
      BY <2>1, <3>2, <3>4 DEF H2CIInv, StreamsOK
  <2> QED
    BY <2>2, <2>3
<1>5. CASE ~fly /\ conn = "open"
  <2>1. CASE \E s \in Sendable(ss) : str' = [ss EXCEPT ![s].ng = "open"]
                 /\ out' = TRUE /\ cbs' = pend /\ pending' = {} /\ UNCHANGED <<conn, misused>>
    BY <1>2, <1>5, <2>1
  <2>2. CASE /\ Sendable(ss) = {} /\ out' = FALSE /\ cbs' = {} /\ misused' = misused
             /\ str' = IF ShouldStop(ss, gone) THEN TellAll(ss, pend, "cleared") ELSE ss
             /\ pending' = IF ShouldStop(ss, gone) THEN {} ELSE pend
             /\ conn' = IF ShouldStop(ss, gone) THEN "stopped" ELSE conn
    <3>1. ShouldStop(ss, gone) \in BOOLEAN
      BY DEF ShouldStop
    <3> QED
      BY <1>4, <1>5, <2>2, <3>1, Zenon
  <2> QED
    BY <1>3, <1>5, <2>1, <2>2, Zenon DEF DoWrite
<1> QED
  <2>1. (fly \/ conn # "open") \/ (~fly /\ conn = "open")
    BY DEF Ready
  <2> QED
    BY <1>1, <1>5, <2>1

\* do_write() as the callbacks of nghttp2 call it.
LEMMA WriteIfWantedStep ==
  ASSUME H2CIInv, conn # "gone", NEW ss, StreamsOK(ss), \A t \in Streams : WorkingOK(ss[t]),
         \A t \in Streams : ss[t].dies = str[t].dies /\ ss[t].user = str[t].user,
         NEW gone \in BOOLEAN, env' = env, goaway' = gone, WriteIfWanted(ss, gone)
  PROVE  H2CIInv'
<1>1. /\ SessionTypeOK /\ Waiting(ss, cbs) /\ Waiting(ss, pending) /\ cbs \cap pending = {}
  BY SameWaiting DEF H2CIInv, SessionTypeOK, Working
<1>2. CASE DoWrite(ss, pending, out, gone)
  <2>1. Ready(ss, pending, out)
    BY <1>1 DEF Ready, SessionTypeOK
  <2> QED
    BY <1>1, <1>2, <2>1, DoWriteStep
<1>3. CASE Sendable(ss) = {} /\ str' = ss /\ UNCHANGED <<conn, out, cbs, pending, misused>>
  <2>1. SessionTypeOK'
    BY <1>1, <1>3 DEF SessionTypeOK
  <2>2. Working' /\ Gone'
    BY <1>1, <1>3 DEF Working, Gone, Waiting
  <2>3. NothingSendable'
    BY <1>3 DEF NothingSendable, Sendable, BelowLimit, Active
  <2> QED
    BY <1>3, <2>1, <2>2, <2>3 DEF H2CIInv, StreamsOK
<1> QED
  BY <1>2, <1>3 DEF WriteIfWanted

\* The same, with a new record for one stream.
LEMMA MaybeWriteStep ==
  ASSUME H2CIInv, conn # "gone", NEW s \in Streams, NEW r, StreamOK(r), WorkingOK(r),
         r.dies = str[s].dies, r.user = str[s].user,
         env' = env, goaway' = goaway, MaybeWrite(s, r)
  PROVE  H2CIInv'
<1> DEFINE ss == [str EXCEPT ![s] = r]
<1>1. StreamsOK(ss) /\ ss[s] = r /\ \A t \in Streams \ {s} : ss[t] = str[t]
  <2>1. StreamsOK(str)
    BY DEF H2CIInv
  <2> QED
    BY <2>1, OneStreamOK
<1>2. WriteIfWanted(ss, goaway)
  BY Zenon DEF MaybeWrite
<1> HIDE DEF ss
<1>3. /\ \A t \in Streams : WorkingOK(ss[t])
      /\ \A t \in Streams : ss[t].dies = str[t].dies /\ ss[t].user = str[t].user
  BY <1>1 DEF H2CIInv, Working
<1>4. goaway \in BOOLEAN
  BY DEF H2CIInv, SessionTypeOK
<1> QED
  BY <1>1, <1>2, <1>3, <1>4, WriteIfWantedStep

\* A step that changes one stream, and not what nghttp2 sees of it.
LEMMA OneStreamStep ==
  ASSUME H2CIInv, NEW s \in Streams, NEW r, StreamOK(r), r.ng = str[s].ng,
         conn # "gone" => /\ WorkingOK(r)
                          /\ s \in cbs \cup pending => r.user = "ended" /\ r.dies = 0,
         conn = "gone" => GoneOK(r),
         NEW ss, ss = [str EXCEPT ![s] = r], str' = ss,
         misused' \subseteq Streams, misused' = {} => misused = {},
         UNCHANGED <<env, conn, out, cbs, pending, goaway>>
  PROVE  H2CIInv'
<1>1. StreamsOK(ss) /\ ss[s] = r /\ \A t \in Streams \ {s} : ss[t] = str[t]
  <2>1. StreamsOK(str) /\ str \in [Streams -> StreamRecords]
    BY DEF H2CIInv, StreamsOK
  <2>2. StreamsOK([str EXCEPT ![s] = r])
    BY <2>1, OneStreamOK
  <2>3. ss[s] = r /\ \A t \in Streams \ {s} : ss[t] = str[t]
    BY <2>1
  <2> QED
    BY <2>2, <2>3
<1>2. SessionTypeOK'
  BY DEF H2CIInv, SessionTypeOK
<1>3. Working'
  <2> SUFFICES ASSUME conn # "gone"
               PROVE  /\ \A t \in Streams : WorkingOK(ss[t])
                      /\ Waiting(ss, cbs) /\ Waiting(ss, pending) /\ cbs \cap pending = {}
    BY DEF Working, Waiting
  <2>1. Waiting(str, cbs) /\ Waiting(str, pending) /\ cbs \cap pending = {}
    BY DEF H2CIInv, Working
  <2>2. cbs \subseteq Streams /\ pending \subseteq Streams
    BY DEF H2CIInv, SessionTypeOK
  <2>3. \A t \in Streams : WorkingOK(ss[t])
    BY <1>1 DEF H2CIInv, Working
  <2> QED
    BY <1>1, <2>1, <2>2, <2>3 DEF Waiting
<1>4. Gone'
  BY <1>1 DEF H2CIInv, Gone, GoneOK
<1>5. NothingSendable'
  <2>1. \A t \in Streams : ss[t].ng = str[t].ng
    BY <1>1
  <2>2. Sendable(ss) = Sendable(str)
    BY <2>1, SameSendable
  <2>3. Sendable(str') = Sendable(ss)
    BY DEF Sendable, BelowLimit, Active
  <2> QED
    BY <2>2, <2>3 DEF H2CIInv, NothingSendable, Sane, Sendable, BelowLimit, Active
<1> QED
  BY <1>1, <1>2, <1>3, <1>4, <1>5 DEF H2CIInv, StreamsOK

\* flush() of stream s after its record became r.
LEMMA FlushAndWriteStep ==
  ASSUME H2CIInv, NEW s \in Streams, NEW r, StreamBegun(r), r.life = "live", r.ng = str[s].ng,
         conn # "gone" => /\ WorkingOK(r) /\ r.dies = str[s].dies
                          /\ str[s].user = "ended" => r.user = "ended",
         conn = "gone" => GoneOK(r),
         NEW pend, \/ pend = pending
                   \/ /\ pend = pending \cup {s} /\ ~r.closed
                      /\ conn # "gone" => r.user = "ended" /\ r.dies = 0 /\ s \notin cbs,
         env' = env, goaway' = goaway, FlushAndWrite(s, r, pend)
  PROVE  H2CIInv'
<1>0. SessionTypeOK /\ StreamsOK(str) /\ cbs \subseteq Streams /\ pending \subseteq Streams
  BY DEF H2CIInv, SessionTypeOK
<1>1. CASE r.closed
  <2>1. /\ str' = [str EXCEPT ![s] = r] /\ pending' = pending
        /\ UNCHANGED <<conn, out, cbs, misused>>
    BY <1>1 DEF FlushAndWrite
  <2>2. StreamOK(r)
    BY <1>1 DEF StreamOK, FlushedOK
  <2>3. conn # "gone" /\ s \in cbs \cup pending => r.user = "ended" /\ r.dies = 0
    BY DEF H2CIInv, Working, Waiting
  <2>4. misused' \subseteq Streams
    BY <2>1, <1>0 DEF SessionTypeOK
  <2> QED
    BY <2>1, <2>2, <2>3, <2>4, OneStreamStep
<1>2. CASE ~r.closed
  <2> DEFINE q == Flush(r)
             ss == [str EXCEPT ![s] = q]
  <2>1. DoWrite(ss, pend, out, goaway) /\ goaway \in BOOLEAN
    BY <1>2 DEF FlushAndWrite, H2CIInv, SessionTypeOK
  <2>2. /\ StreamOK(q) /\ q.evs = r.evs /\ q.res = r.res /\ q.life = r.life /\ q.user = r.user
        /\ q.closed = r.closed /\ q.told = r.told /\ q.dies = r.dies /\ r.ng # "shut"
    BY <1>2, FlushOK
  <2> HIDE DEF q
  <2>3. StreamsOK(ss) /\ ss[s] = q /\ \A t \in Streams \ {s} : ss[t] = str[t]
    BY <1>0, <2>2, OneStreamOK
  <2> HIDE DEF ss
  <2>4. conn # "gone" => WorkingOK(q)
    BY <2>2, SameEvents
  <2>5. conn = "gone" => GoneOK(q)
    BY <2>2 DEF GoneOK
  <2>6. conn # "gone" => Waiting(ss, pend) /\ Waiting(ss, cbs) /\ cbs \cap pend = {}
    <3> SUFFICES ASSUME conn # "gone"
                 PROVE  Waiting(ss, pend) /\ Waiting(ss, cbs) /\ cbs \cap pend = {}
      OBVIOUS
    <3>1. Waiting(str, cbs) /\ Waiting(str, pending) /\ cbs \cap pending = {}
      BY DEF H2CIInv, Working
    <3>2. \A t \in Streams : ss[t].dies = str[t].dies
                             /\ (str[t].user = "ended" => ss[t].user = "ended")
      BY <2>2, <2>3
    <3>3. Waiting(ss, cbs) /\ Waiting(ss, pending)
      BY <1>0, <3>1, <3>2, SameWaiting
    <3> QED
      BY <2>2, <2>3, <3>1, <3>3 DEF Waiting
  <2>7. Ready(ss, pend, out)
    <3>1. pend \subseteq Streams /\ out \in BOOLEAN
      BY <1>0 DEF SessionTypeOK
    <3>2. conn # "gone" => \A t \in Streams : WorkingOK(ss[t])
      BY <2>3, <2>4 DEF H2CIInv, Working
    <3>3. conn = "gone" => ~out /\ \A t \in Streams : GoneOK(ss[t])
      BY <2>3, <2>5 DEF H2CIInv, Gone
    <3> QED
      BY <2>3, <2>6, <3>1, <3>2, <3>3 DEF Ready
  <2> QED
    BY <1>0, <2>1, <2>7, DoWriteStep
<1> QED
  BY <1>1, <1>2

-----------------------------------------------------------------------------
(* Events of the peer. *)

\* A response that has no outcome reports something else.
LEMMA ReportOK ==
  ASSUME NEW r, StreamOK(r), WorkingOK(r), r.ng = "open",
         NEW x \in {"headers", "body", "trailer"}, r.evs = <<>> => x = "headers",
         Len(r.evs) + 1 <= MaxEvents,
         NEW q, q.evs = r.evs \o <<x>>, q.gotHeaders \in BOOLEAN, q.rx \in {"head", "body", "end"},
         q.evs \in Seq(Events) => q \in StreamRecords,
         q.ng = r.ng, q.eof = r.eof, q.headersSent = r.headersSent, q.res = r.res,
         q.user = r.user, q.told = r.told, q.dies = r.dies, q.life = r.life, q.closed = r.closed
  PROVE  /\ StreamOK(q) /\ WorkingOK(q) /\ q.evs # <<>> /\ Len(q.evs) = Len(r.evs) + 1
<1> DEFINE e == r.evs
<1>1. e \in Seq(Events) /\ Ordered(e) /\ NoOutcome(e) /\ r.res
  BY DEF StreamOK, StreamBegun, StreamRecords, EventsOK, WorkingOK
<1>2. x \in Events /\ x \notin Outcomes
  BY DEF Events, Outcomes
<1> HIDE DEF e
<1>3. LET w == e \o <<x>>
      IN  /\ w \in Seq(Events) /\ Ordered(w) /\ w # <<>> /\ Len(w) = Len(e) + 1
          /\ w[Len(w)] = x /\ (x \notin Outcomes => NoOutcome(w))
  <2>1. e = <<>> => x \in {"headers", "error"}
    BY DEF e
  <2> QED
    BY <1>1, <1>2, <2>1, Reported, Zenon
<1>4. /\ q.evs \in Seq(Events) /\ Ordered(q.evs) /\ q.evs # <<>> /\ Len(q.evs) = Len(r.evs) + 1
      /\ NoOutcome(q.evs)
  BY <1>2, <1>3, Zenon DEF e
<1>5. Len(q.evs) <= MaxEvents /\ Len(q.evs) <= MaxEvents + 1
  BY <1>1, <1>4, H2ClientAssumption DEF e
<1>6. LifeOK(q) /\ FlushedOK(q)
  BY DEF StreamOK, StreamBegun, LifeOK, FlushedOK
<1>7. EventsOK(q) /\ WorkingOK(q)
  BY <1>1, <1>4, <1>5 DEF EventsOK, WorkingOK
<1> QED
  BY <1>4, <1>6, <1>7 DEF StreamOK, StreamBegun

\* The response ends and nghttp2 closes the stream.
LEMMA EndedOK ==
  ASSUME NEW r, StreamOK(r), WorkingOK(r), r.ng = "open", r.life = "live", r.evs # <<>>,
         Len(r.evs) + 1 <= MaxEvents
  PROVE  LET q == OnStreamClose(OnResponseFinished(r))
         IN  StreamOK(q) /\ WorkingOK(q) /\ q.dies = r.dies /\ q.user = r.user
<1> DEFINE w == r.evs \o <<"finished">>
           q == OnStreamClose(OnResponseFinished(r))
<1>1. r.evs \in Seq(Events) /\ Ordered(r.evs) /\ NoOutcome(r.evs) /\ r.res /\ r \in StreamRecords
  BY DEF StreamOK, StreamBegun, StreamRecords, EventsOK, WorkingOK
<1>2. /\ w \in Seq(Events) /\ Ordered(w) /\ w # <<>> /\ Len(w) = Len(r.evs) + 1
      /\ w[Len(w)] = "finished"
  <2>1. "finished" \in Events
    BY DEF Events, Outcomes
  <2> QED
    BY <1>1, <2>1, Reported, Zenon
<1>3. Len(w) <= MaxEvents /\ Len(w) <= MaxEvents + 1 /\ Closing(w)
  BY <1>1, <1>2, H2ClientAssumption DEF Closing, Outcomes
<1>4. /\ q \in StreamRecords /\ q.ng = "shut" /\ q.eof = r.eof /\ q.headersSent = r.headersSent
      /\ q.gotHeaders = r.gotHeaders /\ ~q.res /\ q.rx = "end" /\ q.user = r.user
      /\ q.evs = w /\ q.told = r.told /\ q.dies = r.dies
      /\ r.eof => q.life = "gone" /\ q.closed = r.closed
      /\ ~r.eof => q.life = r.life /\ q.closed
  <2> DEFINE p == OnResponseFinished(r)
  <2>1. /\ p \in StreamRecords /\ p.ng = r.ng /\ p.eof = r.eof /\ p.headersSent = r.headersSent
        /\ p.gotHeaders = r.gotHeaders /\ ~p.res /\ p.rx = "end" /\ p.user = r.user
        /\ p.evs = w /\ p.told = r.told /\ p.dies = r.dies
        /\ p.life = r.life /\ p.closed = r.closed
    <3> HIDE DEF w
    <3>1. p = [[r EXCEPT !.evs = w] EXCEPT !.res = FALSE, !.rx = "end"]
      BY Zenon DEF OnResponseFinished, Report, w
    <3> HIDE DEF p
    <3> QED
      BY <1>1, <1>2, <3>1 DEF StreamRecords
  <2> HIDE DEF p, w
  <2>2. q = OnStreamClose(p)
    BY DEF p
  <2> HIDE DEF q
  <2>3. CASE r.eof
    BY <2>1, <2>2, <2>3 DEF OnStreamClose, Die, StreamRecords
  <2>4. CASE ~r.eof
    BY <2>1, <2>2, <2>4 DEF OnStreamClose, Die, StreamRecords
  <2> QED
    BY <2>3, <2>4
<1> HIDE DEF w, q
<1>5. LifeOK(q) /\ FlushedOK(q)
  BY <1>4 DEF StreamOK, StreamBegun, LifeOK, FlushedOK
<1>6. EventsOK(q) /\ WorkingOK(q)
  BY <1>2, <1>3, <1>4 DEF EventsOK, WorkingOK
<1> QED
  BY <1>4, <1>5, <1>6 DEF StreamOK, StreamBegun, q

\* stream_client::on_header and the frame callback keep the inductive invariant.
LEMMA RecvHeadersStep ==
  ASSUME H2CIInv, NEW s \in Streams, NEW kind \in {"interim", "final", "trailer"},
         NEW end \in BOOLEAN, RecvHeaders(s, kind, end)
  PROVE  H2CIInv'
<1> DEFINE r == str[s]
           a == AddHeader(r)
           c == [OnResponseHeaderComplete(a) EXCEPT !.rx = IF kind = "final" THEN "body" ELSE @]
<1>1. /\ conn # "gone" /\ r.ng = "open" /\ r.life = "live" /\ Len(r.evs) + 3 <= MaxEvents
      /\ MaybeWrite(s, Ended(c, end)) /\ env' = env /\ goaway' = goaway
  BY DEF RecvHeaders, Receiving, Room
<1>2. StreamOK(r) /\ WorkingOK(r) /\ r \in StreamRecords /\ r.evs \in Seq(Events)
  BY <1>1 DEF H2CIInv, StreamsOK, Working, StreamRecords
<1>3. Len(r.evs) \in Nat /\ MaxEvents \in Nat
  BY <1>2, H2ClientAssumption
<1> HIDE DEF r
<1>4. /\ StreamOK(a) /\ WorkingOK(a) /\ a.ng = "open" /\ a.life = "live"
      /\ a.dies = r.dies /\ a.user = r.user /\ Len(a.evs) \in Nat /\ Len(a.evs) <= Len(r.evs) + 1
  <2>1. CASE ~r.gotHeaders
    BY <1>1, <1>2, <1>3, <2>1 DEF AddHeader
  <2>2. CASE r.gotHeaders
    <3> DEFINE e == r.evs \o <<"trailer">>
    <3>1. a = [r EXCEPT !.evs = e]
      BY <2>2 DEF AddHeader, Report
    <3> HIDE DEF a, e
    <3>2. /\ a.evs = e /\ a.gotHeaders = r.gotHeaders /\ a.rx = r.rx /\ a.ng = r.ng
          /\ a.eof = r.eof /\ a.headersSent = r.headersSent /\ a.res = r.res /\ a.user = r.user
          /\ a.told = r.told /\ a.dies = r.dies /\ a.life = r.life /\ a.closed = r.closed
          /\ a.evs \in Seq(Events) => a \in StreamRecords
      BY <1>2, <3>1 DEF StreamRecords
    <3>3. /\ r.evs # <<>> /\ "trailer" \in {"headers", "body", "trailer"}
          /\ r.gotHeaders \in BOOLEAN /\ r.rx \in {"head", "body", "end"}
      BY <1>2, <2>2 DEF StreamOK, StreamBegun, EventsOK, StreamRecords
    <3>4. Len(r.evs) + 1 <= MaxEvents
      BY <1>1, <1>3
    <3>5. StreamOK(a) /\ WorkingOK(a) /\ Len(a.evs) = Len(r.evs) + 1
      BY <1>1, <1>2, <3>2, <3>3, <3>4, ReportOK DEF e
    <3> QED
      BY <1>1, <1>3, <3>2, <3>5
  <2> QED
    BY <2>1, <2>2
<1> HIDE DEF a
<1>5. /\ StreamOK(c) /\ WorkingOK(c) /\ c.evs # <<>> /\ Len(c.evs) = Len(a.evs) + 1
      /\ c.ng = "open" /\ c.life = "live" /\ c.dies = r.dies /\ c.user = r.user
  <2> DEFINE e == a.evs \o <<"headers">>
             x == IF kind = "final" THEN "body" ELSE a.rx
  <2>1. a \in StreamRecords /\ x \in {"head", "body", "end"}
    BY <1>4 DEF StreamOK, StreamBegun, StreamRecords
  <2> HIDE DEF e
  <2>2. c = [[[a EXCEPT !.evs = e] EXCEPT !.gotHeaders = TRUE] EXCEPT !.rx = IF kind = "final" THEN "body" ELSE @]
    BY DEF OnResponseHeaderComplete, Report, e
  <2> HIDE DEF c
  <2>3. /\ c.evs = e /\ c.gotHeaders /\ c.rx = x /\ c.ng = a.ng
        /\ c.eof = a.eof /\ c.headersSent = a.headersSent /\ c.res = a.res /\ c.user = a.user
        /\ c.told = a.told /\ c.dies = a.dies /\ c.life = a.life /\ c.closed = a.closed
        /\ c.evs \in Seq(Events) => c \in StreamRecords
    BY <2>1, <2>2 DEF StreamRecords
  <2>4. Len(a.evs) + 1 <= MaxEvents /\ "headers" \in {"headers", "body", "trailer"}
    BY <1>1, <1>3, <1>4
  <2>5. c.gotHeaders \in BOOLEAN /\ c.rx \in {"head", "body", "end"}
    BY <2>1, <2>3
  <2> HIDE DEF x
  <2>6. StreamOK(c) /\ WorkingOK(c) /\ c.evs # <<>> /\ Len(c.evs) = Len(a.evs) + 1
    BY <1>4, <2>3, <2>4, <2>5, ReportOK DEF e
  <2> QED
    BY <1>4, <2>3, <2>6
<1> HIDE DEF c
<1>6. Len(c.evs) + 1 <= MaxEvents
  BY <1>1, <1>3, <1>4, <1>5
<1>7. LET q == Ended(c, end) IN StreamOK(q) /\ WorkingOK(q) /\ q.dies = r.dies /\ q.user = r.user
  <2>1. CASE end
    BY <1>5, <1>6, <2>1, EndedOK DEF Ended
  <2>2. CASE ~end
    BY <1>5, <2>2 DEF Ended
  <2> QED
    BY <2>1, <2>2
<1> QED
  BY <1>1, <1>7, MaybeWriteStep DEF r

\* A received DATA frame (on_data_chunk_recv_callback) keeps the inductive invariant.
LEMMA RecvDataStep ==
  ASSUME H2CIInv, NEW s \in Streams, NEW end \in BOOLEAN, RecvData(s, end)
  PROVE  H2CIInv'
<1> DEFINE r == str[s]
           c == Report(r, <<"body">>)
<1>1. /\ conn # "gone" /\ r.ng = "open" /\ r.life = "live" /\ Len(r.evs) + 2 <= MaxEvents
      /\ r.rx = "body" /\ MaybeWrite(s, Ended(c, end)) /\ env' = env /\ goaway' = goaway
  <2>1. Len(r.evs) \in Nat /\ MaxEvents \in Nat
    BY H2ClientAssumption DEF H2CIInv, StreamsOK, StreamRecords
  <2>2. Len(r.evs) + (IF end THEN 2 ELSE 4) <= MaxEvents
    BY DEF RecvData, Room
  <2>3. Len(r.evs) + 2 <= MaxEvents
    <3> DEFINE n == Len(r.evs)
    <3> HIDE DEF n
    <3>1. n \in Nat /\ n + (IF end THEN 2 ELSE 4) <= MaxEvents
      BY <2>1, <2>2 DEF n
    <3>2. n + 2 <= MaxEvents
      BY <2>1, <3>1
    <3> QED
      BY <3>2 DEF n
  <2> QED
    BY <2>3 DEF RecvData, Receiving
<1>2. StreamOK(r) /\ WorkingOK(r) /\ r \in StreamRecords /\ r.evs \in Seq(Events)
  BY <1>1 DEF H2CIInv, StreamsOK, Working, StreamRecords
<1>3. Len(r.evs) \in Nat /\ MaxEvents \in Nat
  BY <1>2, H2ClientAssumption
<1> HIDE DEF r
<1>4. /\ StreamOK(c) /\ WorkingOK(c) /\ c.evs # <<>> /\ Len(c.evs) = Len(r.evs) + 1
      /\ c.ng = "open" /\ c.life = "live" /\ c.dies = r.dies /\ c.user = r.user
  <2> DEFINE e == r.evs \o <<"body">>
  <2>1. c = [r EXCEPT !.evs = e]
    BY DEF Report
  <2> HIDE DEF c, e
  <2>2. /\ c.evs = e /\ c.gotHeaders = r.gotHeaders /\ c.rx = r.rx /\ c.ng = r.ng
        /\ c.eof = r.eof /\ c.headersSent = r.headersSent /\ c.res = r.res /\ c.user = r.user
        /\ c.told = r.told /\ c.dies = r.dies /\ c.life = r.life /\ c.closed = r.closed
        /\ c.evs \in Seq(Events) => c \in StreamRecords
    BY <1>2, <2>1 DEF StreamRecords
  <2>3. /\ r.evs # <<>> /\ "body" \in {"headers", "body", "trailer"}
        /\ r.gotHeaders \in BOOLEAN /\ r.rx \in {"head", "body", "end"}
    BY <1>1, <1>2 DEF StreamOK, StreamBegun, EventsOK, StreamRecords
  <2>4. Len(r.evs) + 1 <= MaxEvents
    BY <1>1, <1>3
  <2>5. StreamOK(c) /\ WorkingOK(c) /\ c.evs # <<>> /\ Len(c.evs) = Len(r.evs) + 1
    BY <1>1, <1>2, <2>2, <2>3, <2>4, ReportOK DEF e
  <2> QED
    BY <1>1, <2>2, <2>5
<1> HIDE DEF c
<1>5. Len(c.evs) + 1 <= MaxEvents
  BY <1>1, <1>3, <1>4
<1>6. LET q == Ended(c, end) IN StreamOK(q) /\ WorkingOK(q) /\ q.dies = r.dies /\ q.user = r.user
  <2>1. CASE end
    BY <1>4, <1>5, <2>1, EndedOK DEF Ended
  <2>2. CASE ~end
    BY <1>4, <2>2 DEF Ended
  <2> QED
    BY <2>1, <2>2
<1> QED
  BY <1>1, <1>6, MaybeWriteStep DEF r

\* A stream the peer resets is closed, and the inductive invariant kept.
LEMMA RecvRstStep ==
  ASSUME H2CIInv, NEW s \in Streams, RecvRst(s)
  PROVE  H2CIInv'
<1> DEFINE q == OnStreamClose(str[s])
<1>1. /\ conn # "gone" /\ str[s].life = "live" /\ MaybeWrite(s, q) /\ env' = env /\ goaway' = goaway
  BY DEF RecvRst, Receiving
<1>2. StreamOK(str[s]) /\ WorkingOK(str[s])
  BY <1>1 DEF H2CIInv, StreamsOK, Working
<1>3. /\ StreamOK(q) /\ q.ng = "shut" /\ q.evs = str[s].evs /\ q.res = str[s].res
      /\ q.dies = str[s].dies /\ q.user = str[s].user
  BY <1>1, <1>2, OnStreamCloseOK
<1> HIDE DEF q
<1>4. WorkingOK(q)
  BY <1>2, <1>3, SameEvents
<1> QED
  BY <1>1, <1>3, <1>4, MaybeWriteStep

\* GOAWAY closes the streams the peer refuses and keeps the inductive invariant.
LEMMA RecvGoawayStep ==
  ASSUME H2CIInv, RecvGoaway
  PROVE  H2CIInv'
<1>1. conn # "gone" /\ goaway' = TRUE /\ env' = env
  BY DEF RecvGoaway
<1>2. PICK S \in SUBSET Active(str) :
        \E ss \in {[s \in Streams |-> IF s \in S THEN OnStreamClose(str[s]) ELSE str[s]]} :
          WriteIfWanted(ss, TRUE)
  BY DEF RecvGoaway
<1> DEFINE ss == [s \in Streams |-> IF s \in S THEN OnStreamClose(str[s]) ELSE str[s]]
<1>6. WriteIfWanted(ss, TRUE)
  BY <1>2
<1> HIDE DEF ss
<1>3. ASSUME NEW s \in Streams
      PROVE  /\ StreamOK(ss[s]) /\ WorkingOK(ss[s])
             /\ ss[s].dies = str[s].dies /\ ss[s].user = str[s].user
  <2>1. StreamOK(str[s]) /\ WorkingOK(str[s])
    BY <1>1 DEF H2CIInv, StreamsOK, Working
  <2>2. CASE s \in S
    <3> DEFINE q == OnStreamClose(str[s])
    <3>1. ss[s] = q
      BY <2>2 DEF ss
    <3>2. str[s].life # "none"
      BY <2>1, <2>2 DEF Active, StreamOK, StreamBegun, LifeOK
    <3>3. /\ StreamOK(q) /\ q.ng = "shut" /\ q.evs = str[s].evs /\ q.res = str[s].res
          /\ q.dies = str[s].dies /\ q.user = str[s].user
      BY <2>1, <3>2, OnStreamCloseOK
    <3> HIDE DEF q
    <3> QED
      BY <2>1, <3>1, <3>3, SameEvents
  <2>3. CASE s \notin S
    BY <2>1, <2>3 DEF ss
  <2> QED
    BY <2>2, <2>3
<1>4. ss \in [Streams -> StreamRecords]
  <2>1. \A s \in Streams : ss[s] \in StreamRecords
    BY <1>3 DEF StreamOK, StreamBegun
  <2> QED
    BY <2>1 DEF ss
<1>5. StreamsOK(ss)
  BY <1>3, <1>4 DEF StreamsOK
<1> QED
  BY <1>1, <1>3, <1>5, <1>6, WriteIfWantedStep

-----------------------------------------------------------------------------
(* The user. *)

\* A new transaction takes a stream no one has used, and keeps the inductive invariant.
LEMMA CreateTransactionStep ==
  ASSUME H2CIInv, NEW s \in Streams, CreateTransaction(s)
  PROVE  H2CIInv'
<1>1. /\ conn # "gone" /\ str[s].life = "none" /\ str' = [str EXCEPT ![s] = NewStream]
      /\ UNCHANGED <<env, conn, out, cbs, pending, goaway, misused>>
  BY DEF CreateTransaction
<1>2. str[s].ng = "idle" /\ str[s].user = "none"
  BY <1>1 DEF H2CIInv, StreamsOK, StreamOK, StreamBegun, LifeOK
<1>3. s \notin cbs \cup pending
  BY <1>1, <1>2 DEF H2CIInv, Working, Waiting
<1>4. misused' \subseteq Streams
  BY <1>1 DEF H2CIInv, SessionTypeOK
<1> QED
  BY <1>1, <1>2, <1>3, <1>4, NewStreamOK, OneStreamStep

\* headers() and body().
LEMMA HeadersStep ==
  ASSUME H2CIInv, NEW s \in Streams, Headers(s) \/ Body(s)
  PROVE  H2CIInv'
<1> DEFINE r == IF Headers(s) THEN [str[s] EXCEPT !.user = "headers"] ELSE str[s]
<1>1. /\ str[s].user \in {"begun", "headers"}
      /\ FlushAndWrite(s, r, pending) /\ env' = env /\ goaway' = goaway
  BY DEF Headers, Body, Calls
<1>2. StreamOK(str[s]) /\ str[s] \in StreamRecords
  BY DEF H2CIInv, StreamsOK
<1>3. str[s].life = "live"
  BY <1>1, <1>2 DEF StreamOK, StreamBegun, StreamRecords, LifeOK
<1>4. /\ r \in StreamRecords /\ r.user \in {"begun", "headers"}
      /\ r.life = str[s].life /\ r.ng = str[s].ng /\ r.closed = str[s].closed
      /\ r.headersSent = str[s].headersSent /\ r.gotHeaders = str[s].gotHeaders
      /\ r.res = str[s].res /\ r.rx = str[s].rx /\ r.evs = str[s].evs /\ r.eof = str[s].eof
      /\ r.told = str[s].told /\ r.dies = str[s].dies
  BY <1>1, <1>2 DEF StreamRecords, UserStages
<1> HIDE DEF r
<1>5. StreamBegun(r)
  <2>1. LifeOK(r)
    BY <1>1, <1>2, <1>3, <1>4 DEF StreamOK, StreamBegun, LifeOK
  <2>2. EventsOK(r)
    BY <1>2, <1>4 DEF StreamOK, StreamBegun, EventsOK
  <2> QED
    BY <1>2, <1>4, <2>1, <2>2 DEF StreamOK, StreamBegun
<1>6. conn # "gone" => WorkingOK(r)
  BY <1>1, <1>4, SameEvents DEF H2CIInv, Working
<1>7. conn = "gone" => GoneOK(r)
  BY <1>1, <1>4 DEF H2CIInv, Gone, GoneOK
<1>8. str[s].user # "ended"
  BY <1>1
<1> QED
  BY <1>1, <1>3, <1>4, <1>5, <1>6, <1>7, <1>8, FlushAndWriteStep

\* The end of the request, on an open or an already closed stream, keeps the inductive invariant.
LEMMA EndStep ==
  ASSUME H2CIInv, NEW s \in Streams, End(s)
  PROVE  H2CIInv'
<1> DEFINE r == [str[s] EXCEPT !.user = "ended", !.eof = TRUE]
<1>1. /\ str[s].user = "headers" /\ env' = env /\ goaway' = goaway
      /\ \/ /\ r.closed /\ str' = [str EXCEPT ![s] = Die(r)]
            /\ UNCHANGED <<conn, out, cbs, pending, misused>>
         \/ ~r.closed /\ FlushAndWrite(s, r, pending \cup {s})
  BY DEF End, Calls
<1>2. StreamOK(str[s]) /\ str[s] \in StreamRecords
  BY DEF H2CIInv, StreamsOK
<1>3. str[s].life = "live"
  BY <1>1, <1>2 DEF StreamOK, StreamBegun, StreamRecords, LifeOK
<1>4. /\ r \in StreamRecords /\ r.user = "ended" /\ r.eof
      /\ r.life = str[s].life /\ r.ng = str[s].ng /\ r.closed = str[s].closed
      /\ r.headersSent = str[s].headersSent /\ r.gotHeaders = str[s].gotHeaders
      /\ r.res = str[s].res /\ r.rx = str[s].rx /\ r.evs = str[s].evs
      /\ r.told = str[s].told /\ r.dies = str[s].dies
  BY <1>2 DEF StreamRecords, UserStages
<1> HIDE DEF r
<1>5. StreamBegun(r)
  <2>1. LifeOK(r)
    BY <1>1, <1>2, <1>3, <1>4 DEF StreamOK, StreamBegun, LifeOK
  <2>2. EventsOK(r)
    BY <1>2, <1>4 DEF StreamOK, StreamBegun, EventsOK
  <2> QED
    BY <1>2, <1>4, <2>1, <2>2 DEF StreamOK, StreamBegun
<1>6. conn # "gone" => WorkingOK(r) /\ r.dies = 0 /\ s \notin cbs /\ s \notin pending
  <2> SUFFICES ASSUME conn # "gone"
               PROVE  WorkingOK(r) /\ r.dies = 0 /\ s \notin cbs /\ s \notin pending
    OBVIOUS
  <2>1. WorkingOK(str[s])
    BY DEF H2CIInv, Working
  <2>2. WorkingOK(r)
    BY <1>4, <2>1, SameEvents
  <2>3. r.dies = 0
    BY <1>1, <1>2, <1>4, <2>1 DEF WorkingOK, StreamRecords
  <2> QED
    BY <1>1, <2>2, <2>3 DEF H2CIInv, Working, Waiting
<1>7. CASE /\ r.closed /\ str' = [str EXCEPT ![s] = Die(r)]
           /\ UNCHANGED <<conn, out, cbs, pending, misused>>
  <2> DEFINE q == Die(r)
  <2>1. /\ StreamBegun(q) /\ q.ng = r.ng /\ q.evs = r.evs /\ q.res = r.res
        /\ q.dies = r.dies /\ q.user = r.user /\ q.life = "gone" /\ q.closed = r.closed
    BY <1>3, <1>4, <1>5, <1>7, DieOK
  <2> HIDE DEF q
  <2>2. StreamOK(q)
    BY <1>7, <2>1 DEF StreamOK, FlushedOK
  <2>3. conn # "gone" => WorkingOK(q)
    BY <1>6, <2>1, SameEvents
  <2>4. conn = "gone" => GoneOK(q)
    BY <1>4, <2>1 DEF H2CIInv, Gone, GoneOK
  <2>5. misused' \subseteq Streams
    BY <1>7 DEF H2CIInv, SessionTypeOK
  <2>6. str' = [str EXCEPT ![s] = q]
    BY <1>7 DEF q
  <2> QED
    BY <1>1, <1>4, <1>6, <1>7, <2>1, <2>2, <2>3, <2>4, <2>5, <2>6, OneStreamStep
<1>8. CASE ~r.closed /\ FlushAndWrite(s, r, pending \cup {s})
  <2>1. conn = "gone" => GoneOK(r)
    BY <1>3, <1>4, <1>8 DEF H2CIInv, Gone, GoneOK
  <2> QED
    BY <1>1, <1>3, <1>4, <1>5, <1>6, <1>8, <2>1, FlushAndWriteStep
<1> QED
  BY <1>1, <1>7, <1>8

\* A posted error callback of a request runs.
LEMMA RunErrorStep ==
  ASSUME H2CIInv, NEW s \in Streams, RunError(s)
  PROVE  H2CIInv'
<1> DEFINE r == [str[s] EXCEPT !.dies = @ - 1]
           q == IF r.life = "gone" THEN r ELSE Die(r)
<1>1. /\ str[s].dies > 0 /\ str' = [str EXCEPT ![s] = q] /\ misused' \in {misused, misused \cup {s}}
      /\ UNCHANGED <<env, conn, out, cbs, pending, goaway>>
  BY DEF RunError
<1>2. StreamOK(str[s]) /\ str[s] \in StreamRecords
  BY DEF H2CIInv, StreamsOK
<1>3. /\ r \in StreamRecords /\ r.user = str[s].user /\ r.eof = str[s].eof
      /\ r.life = str[s].life /\ r.ng = str[s].ng /\ r.closed = str[s].closed
      /\ r.headersSent = str[s].headersSent /\ r.gotHeaders = str[s].gotHeaders
      /\ r.res = str[s].res /\ r.rx = str[s].rx /\ r.evs = str[s].evs
      /\ r.told = str[s].told /\ r.dies = str[s].dies - 1
  BY <1>1, <1>2 DEF StreamRecords
<1> HIDE DEF r
<1>4. StreamBegun(r) /\ FlushedOK(r) /\ "error" \in r.told /\ r.life # "none"
  <2>1. str[s].dies \in Nat
    BY <1>2 DEF StreamRecords
  <2>2. LifeOK(r) /\ FlushedOK(r) /\ "error" \in r.told /\ r.life # "none"
    BY <1>1, <1>2, <1>3, <2>1 DEF StreamOK, StreamBegun, LifeOK, FlushedOK
  <2>3. EventsOK(r)
    BY <1>2, <1>3 DEF StreamOK, StreamBegun, EventsOK
  <2> QED
    BY <1>2, <1>3, <2>2, <2>3 DEF StreamOK, StreamBegun
<1>5. /\ StreamOK(q) /\ q.ng = r.ng /\ q.evs = r.evs /\ q.res = r.res
      /\ q.dies = r.dies /\ q.user = r.user /\ q.told = r.told
      /\ q.life = "gone" \/ (q.life = "live" /\ q.closed /\ q.user # "ended" /\ str[s].life = "live")
  <2>1. CASE r.life = "gone"
    BY <1>4, <2>1 DEF StreamOK
  <2>2. CASE r.life # "gone"
    <3>1. r.life = "live"
      BY <1>3, <1>4, <2>2 DEF StreamRecords
    <3>2. /\ StreamBegun(Die(r)) /\ Die(r).ng = r.ng /\ Die(r).evs = r.evs /\ Die(r).res = r.res
          /\ Die(r).dies = r.dies /\ Die(r).user = r.user /\ Die(r).told = r.told
          /\ r.eof => Die(r).life = "gone" /\ Die(r).closed = r.closed
          /\ ~r.eof => Die(r).life = "live" /\ Die(r).closed
          /\ Die(r).headersSent = r.headersSent
      BY <1>4, <3>1, DieOK
    <3>3. FlushedOK(Die(r))
      BY <1>4, <3>2 DEF FlushedOK
    <3>4. ~r.eof => r.user # "ended"
      BY <1>4 DEF StreamBegun, LifeOK
    <3> QED
      BY <1>3, <2>2, <3>1, <3>2, <3>3, <3>4 DEF StreamOK
  <2> QED
    BY <2>1, <2>2
<1> HIDE DEF q
<1>6. str[s].dies \in Nat
  BY <1>2 DEF StreamRecords
<1>7. conn # "gone" => WorkingOK(q) /\ s \notin cbs \cup pending
  <2> SUFFICES ASSUME conn # "gone"
               PROVE  WorkingOK(q) /\ s \notin cbs \cup pending
    OBVIOUS
  <2>1. WorkingOK(str[s]) /\ Waiting(str, cbs) /\ Waiting(str, pending)
    BY DEF H2CIInv, Working
  <2> QED
    BY <1>1, <1>3, <1>5, <1>6, <2>1 DEF WorkingOK, Waiting
<1>8. conn = "gone" => GoneOK(q)
  <2> SUFFICES ASSUME conn = "gone"
               PROVE  GoneOK(q)
    OBVIOUS
  <2>1. GoneOK(str[s])
    BY DEF H2CIInv, Gone
  <2> QED
    BY <1>3, <1>5, <1>6, <2>1 DEF GoneOK
<1>9. misused' \subseteq Streams /\ (misused' = {} => misused = {})
  BY <1>1 DEF H2CIInv, SessionTypeOK
<1> QED
  BY <1>1, <1>3, <1>5, <1>7, <1>8, <1>9, OneStreamStep

-----------------------------------------------------------------------------
(* The connector. *)

\* The requests that wait have a stream.
LEMMA WaitingExist ==
  ASSUME StreamsOK(str), NEW T \in SUBSET Streams, Waiting(str, T)
  PROVE  \A s \in T : str[s].life # "none"
  BY DEF Waiting, StreamsOK, StreamOK, StreamBegun, LifeOK

\* A connector that stops changes nothing else, and keeps the inductive invariant.
LEMMA StopsStep ==
  ASSUME H2CIInv, conn = "open", conn' = "stopped",
         UNCHANGED <<env, str, out, cbs, pending, goaway, misused>>
  PROVE  H2CIInv'
<1>1. SessionTypeOK'
  BY DEF H2CIInv, SessionTypeOK
<1>2. Working' /\ Gone' /\ NothingSendable'
  BY DEF H2CIInv, Working, Waiting, Gone, NothingSendable
<1> QED
  BY <1>1, <1>2 DEF H2CIInv, StreamsOK

\* A completed write runs its callbacks, starts the next, and keeps the inductive invariant.
LEMMA WriteOkStep ==
  ASSUME H2CIInv, WriteOk
  PROVE  H2CIInv'
<1> DEFINE ss == TellAll(str, cbs, "cleared")
<1>1. out /\ DoWrite(ss, pending, FALSE, goaway) /\ env' = env /\ goaway' = goaway
  BY DEF WriteOk
<1>2. /\ SessionTypeOK /\ StreamsOK(str) /\ conn # "gone"
      /\ cbs \in SUBSET Streams /\ pending \in SUBSET Streams
      /\ Waiting(str, cbs) /\ Waiting(str, pending) /\ \A s \in Streams : WorkingOK(str[s])
  BY <1>1 DEF H2CIInv, SessionTypeOK, Working, Gone
<1>3. \A s \in cbs : str[s].life # "none"
  BY <1>2, WaitingExist
<1>4. /\ StreamsOK(ss)
      /\ \A s \in Streams :
           /\ ss[s].ng = str[s].ng /\ ss[s].evs = str[s].evs /\ ss[s].res = str[s].res
           /\ ss[s].user = str[s].user /\ ss[s].dies = str[s].dies
  BY <1>2, <1>3, TellAllOK
<1> HIDE DEF ss
<1>5. \A s \in Streams : WorkingOK(ss[s])
  BY <1>2, <1>4, SameEvents
<1>6. Waiting(ss, pending)
  BY <1>2, <1>4, SameWaiting
<1>7. Ready(ss, pending, FALSE)
  BY <1>2, <1>4, <1>5, <1>6 DEF Ready
<1>8. goaway \in BOOLEAN
  BY DEF H2CIInv, SessionTypeOK
<1> QED
  BY <1>1, <1>2, <1>7, <1>8, DoWriteStep

\* A failed write reports an error to each callback waiting for it, and keeps the invariant.
LEMMA WriteFailedStep ==
  ASSUME H2CIInv, WriteFailed
  PROVE  H2CIInv'
<1>1. /\ out /\ str' = TellAll(str, cbs, "error") /\ conn' = "stopped" /\ out' = FALSE
      /\ cbs' = {} /\ UNCHANGED <<env, pending, goaway, misused>>
  BY DEF WriteFailed
<1>2. /\ StreamsOK(str) /\ conn # "gone" /\ cbs \in SUBSET Streams /\ pending \in SUBSET Streams
      /\ Waiting(str, cbs) /\ Waiting(str, pending) /\ cbs \cap pending = {}
      /\ \A s \in Streams : WorkingOK(str[s])
  BY <1>1 DEF H2CIInv, SessionTypeOK, Working, Gone
<1>3. \A s \in cbs : str[s].life # "none"
  BY <1>2, WaitingExist
<1>4. /\ StreamsOK(str')
      /\ \A s \in Streams :
           /\ str'[s].ng = str[s].ng /\ str'[s].evs = str[s].evs /\ str'[s].res = str[s].res
           /\ str'[s].user = str[s].user
           /\ str'[s].dies = IF s \in cbs /\ "onerror" \notin env THEN str[s].dies + 1
                             ELSE str[s].dies
  BY <1>1, <1>2, <1>3, TellAllOK
<1>5. ASSUME NEW s \in Streams
      PROVE  WorkingOK(str'[s])
  <2>1. str[s].dies \in Nat
    BY <1>2 DEF StreamsOK, StreamRecords
  <2>2. s \in cbs => str[s].user = "ended" /\ str[s].dies = 0
    BY <1>2 DEF Waiting
  <2>3. /\ Len(str[s].evs) <= MaxEvents /\ (str[s].res => NoOutcome(str[s].evs))
        /\ ~str[s].res => str[s].ng = "shut"
        /\ str[s].dies <= 1 /\ (str[s].dies > 0 => str[s].user = "ended")
    BY <1>2 DEF WorkingOK
  <2>4. str'[s].dies <= 1 /\ (str'[s].dies > 0 => str'[s].user = "ended")
    BY <1>4, <2>1, <2>2, <2>3
  <2> QED
    BY <1>4, <2>3, <2>4 DEF WorkingOK
<1>6. \A s \in pending : str'[s].user = "ended" /\ str'[s].dies = 0
  BY <1>2, <1>4 DEF Waiting
<1>7. SessionTypeOK'
  BY <1>1 DEF H2CIInv, SessionTypeOK
<1>8. Working' /\ Gone' /\ NothingSendable'
  BY <1>1, <1>5, <1>6 DEF Working, Gone, NothingSendable, Waiting
<1> QED
  BY <1>4, <1>7, <1>8 DEF H2CIInv, StreamsOK

\* ~connector: everyone is told.
LEMMA OnConnectorNulledStep ==
  ASSUME H2CIInv, OnConnectorNulled
  PROVE  H2CIInv'
<1> DEFINE ss == TellAll(str, pending, "error")
<1>1. /\ conn = "stopped" /\ ~out /\ conn' = "gone"
      /\ str' = [s \in Streams |-> NotifyError(ss[s])]
      /\ UNCHANGED <<env, out, cbs, pending, goaway, misused>>
  BY DEF OnConnectorNulled
<1>2. /\ StreamsOK(str) /\ pending \in SUBSET Streams
      /\ Waiting(str, pending) /\ \A s \in Streams : WorkingOK(str[s])
  BY <1>1 DEF H2CIInv, SessionTypeOK, Working
<1>3. \A s \in pending : str[s].life # "none"
  BY <1>2, WaitingExist
<1>4. /\ StreamsOK(ss)
      /\ \A s \in Streams :
           /\ ss[s].ng = str[s].ng /\ ss[s].evs = str[s].evs /\ ss[s].res = str[s].res
           /\ ss[s].life = str[s].life /\ ss[s].user = str[s].user
           /\ ss[s].dies = IF s \in pending /\ "onerror" \notin env THEN str[s].dies + 1
                           ELSE str[s].dies
  BY <1>2, <1>3, TellAllOK
<1> HIDE DEF ss
<1>5. ASSUME NEW s \in Streams
      PROVE  StreamOK(str'[s]) /\ GoneOK(str'[s])
  <2> DEFINE r == ss[s]
             p == IF r.res THEN Report(r, <<"error">>) ELSE r
             q == TellRequest(p, "error")
  <2>1. /\ StreamOK(r) /\ r \in StreamRecords /\ Len(r.evs) <= MaxEvents
        /\ r.res => NoOutcome(r.evs)
    BY <1>2, <1>4 DEF StreamsOK, WorkingOK
  <2>2. r.dies \in Nat /\ r.dies <= 2
    <3>1. str[s].dies \in Nat /\ str[s].dies <= 1
      BY <1>2 DEF StreamsOK, StreamRecords, WorkingOK
    <3> QED
      BY <1>4, <3>1
  <2>3. CASE r.life # "live"
    <3>1. str'[s] = r
      BY <1>1, <2>3 DEF NotifyError
    <3> HIDE DEF r
    <3> QED
      BY <2>1, <2>2, <2>3, <3>1 DEF GoneOK
  <2>4. CASE r.life = "live"
    <3>1. str'[s] = q
      BY <1>1, <2>4 DEF NotifyError
    <3> HIDE DEF r
    <3>2. /\ StreamOK(p) /\ Closing(p.evs) /\ p.life = "live" /\ p.dies = r.dies
      <4>1. CASE ~r.res
        BY <2>1, <2>4, <4>1 DEF StreamOK, StreamBegun, EventsOK
      <4>2. CASE r.res
        <5> DEFINE e == r.evs
                   w == e \o <<"error">>
        <5>1. e \in Seq(Events) /\ Ordered(e) /\ NoOutcome(e) /\ "error" \in Events
          BY <2>1, <4>2 DEF StreamOK, StreamBegun, StreamRecords, EventsOK, Events, Outcomes
        <5> HIDE DEF e
        <5>2. /\ w \in Seq(Events) /\ Ordered(w) /\ w # <<>> /\ Len(w) = Len(e) + 1
              /\ w[Len(w)] = "error"
          BY <5>1, Reported, Zenon
        <5>3. p = [r EXCEPT !.evs = w]
          BY <4>2 DEF Report, e
        <5>4. Closing(w) /\ Len(w) <= MaxEvents + 1
          BY <2>1, <5>1, <5>2, H2ClientAssumption DEF Closing, Outcomes, e
        <5> HIDE DEF p, w
        <5>5. /\ p \in StreamRecords /\ p.ng = r.ng /\ p.eof = r.eof
              /\ p.headersSent = r.headersSent /\ p.gotHeaders = r.gotHeaders /\ p.res = r.res
              /\ p.rx = r.rx /\ p.user = r.user /\ p.evs = w /\ p.told = r.told
              /\ p.dies = r.dies /\ p.life = r.life /\ p.closed = r.closed
          BY <2>1, <5>2, <5>3 DEF StreamRecords
        <5>6. LifeOK(p) /\ FlushedOK(p)
          BY <2>1, <5>5 DEF StreamOK, StreamBegun, LifeOK, FlushedOK
        <5>7. EventsOK(p)
          BY <5>2, <5>4, <5>5 DEF EventsOK
        <5> QED
          BY <2>1, <2>4, <5>4, <5>5, <5>6, <5>7 DEF StreamOK, StreamBegun
      <4> QED
        BY <4>1, <4>2
    <3> HIDE DEF p
    <3>3. /\ StreamOK(q) /\ q.evs = p.evs /\ q.life = p.life /\ q.user = p.user
          /\ q.told = p.told \cup {"error"}
          /\ q.dies = IF "error" = "error" /\ "onerror" \notin env THEN p.dies + 1 ELSE p.dies
      <4>1. p.life # "none" /\ "error" \in {"cleared", "error"}
        BY <3>2
      <4> QED
        BY <3>2, <4>1, TellRequestOK, Zenon
    <3> HIDE DEF q
    <3>4. GoneOK(q)
      BY <2>2, <3>2, <3>3 DEF GoneOK
    <3> QED
      BY <3>1, <3>3, <3>4
  <2> QED
    BY <2>3, <2>4
<1>6. str' \in [Streams -> StreamRecords]
  <2>1. \A s \in Streams : str'[s] \in StreamRecords
    BY <1>5 DEF StreamOK, StreamBegun
  <2> QED
    BY <1>1, <2>1
<1>7. SessionTypeOK'
  BY <1>1 DEF H2CIInv, SessionTypeOK
<1>8. Gone'
  BY <1>1, <1>5 DEF Gone, GoneOK
<1>9. Working' /\ NothingSendable'
  BY <1>1 DEF Working, NothingSendable
<1> QED
  BY <1>5, <1>6, <1>7, <1>8, <1>9 DEF H2CIInv, StreamsOK

-----------------------------------------------------------------------------
(* The theorems. *)

\* The inductive invariant holds of a fresh session.
LEMMA InitOK ==
  ASSUME Init
  PROVE  H2CIInv
<1>1. StreamsOK(str) /\ \A s \in Streams : WorkingOK(str[s])
  BY NewStreamOK DEF Init, StreamsOK, StreamOK, StreamBegun
<1>2. SessionTypeOK
  BY DEF Init, SessionTypeOK
<1>3. Working /\ Gone /\ NothingSendable
  BY <1>1 DEF Init, Working, Waiting, Gone, NothingSendable
<1> QED
  BY <1>1, <1>2, <1>3 DEF H2CIInv

\* The inductive invariant of the client session holds for any transactions, any
\* limit of the peer and any combination of resets, GOAWAYs and failures.
THEOREM H2ClientInvariance == Spec => []H2CIInv
<1>1. Init => H2CIInv
  BY InitOK
<1>2. H2CIInv /\ [Next]_vars => H2CIInv'
  <2> SUFFICES ASSUME H2CIInv, [Next]_vars
               PROVE  H2CIInv'
    OBVIOUS
  <2>1. CASE UNCHANGED vars
    <3>1. SessionTypeOK' /\ StreamsOK(str')
      BY <2>1 DEF vars, H2CIInv, SessionTypeOK
    <3>2. Working' /\ Gone'
      BY <2>1 DEF vars, H2CIInv, Working, Waiting, Gone, GoneOK
    <3>3. NothingSendable'
      BY <2>1 DEF vars, H2CIInv, NothingSendable, Sane, Sendable, BelowLimit, Active
    <3> QED
      BY <3>1, <3>2, <3>3 DEF H2CIInv, StreamsOK
  <2>2. ASSUME NEW s \in Streams, CreateTransaction(s)
        PROVE  H2CIInv'
    BY <2>2, CreateTransactionStep
  <2>3. ASSUME NEW s \in Streams, Headers(s) \/ Body(s)
        PROVE  H2CIInv'
    BY <2>3, HeadersStep
  <2>4. ASSUME NEW s \in Streams, End(s)
        PROVE  H2CIInv'
    BY <2>4, EndStep
  <2>5. ASSUME NEW s \in Streams, RunError(s)
        PROVE  H2CIInv'
    BY <2>5, RunErrorStep
  <2>6. ASSUME NEW s \in Streams, NEW kind \in {"interim", "final", "trailer"},
               NEW end \in BOOLEAN, RecvHeaders(s, kind, end)
        PROVE  H2CIInv'
    BY <2>6, RecvHeadersStep
  <2>7. ASSUME NEW s \in Streams, NEW end \in BOOLEAN, RecvData(s, end)
        PROVE  H2CIInv'
    BY <2>7, RecvDataStep
  <2>8. ASSUME NEW s \in Streams, RecvRst(s)
        PROVE  H2CIInv'
    BY <2>8, RecvRstStep
  <2>9. CASE RecvGoaway
    BY <2>9, RecvGoawayStep
  <2>10. CASE ReadFailed \/ Close
    BY <2>10, StopsStep DEF ReadFailed, Close
  <2>11. CASE WriteOk
    BY <2>11, WriteOkStep
  <2>12. CASE WriteFailed
    BY <2>12, WriteFailedStep
  <2>13. CASE OnConnectorNulled
    BY <2>13, OnConnectorNulledStep
  <2> QED
    BY <2>1, <2>2, <2>3, <2>4, <2>5, <2>6, <2>7, <2>8, <2>9, <2>10, <2>11, <2>12, <2>13, Zenon
       DEF Next
<1> QED
  BY <1>1, <1>2, PTL DEF Spec

\* A stream is destroyed only when its user has ended the request, and a response
\* reports headers first, one outcome at most and nothing after it.
THEOREM H2ClientMembersSafe == Spec => []H2ClientInv
<1>1. H2CIInv => H2ClientInv
  <2> SUFFICES ASSUME H2CIInv
               PROVE  H2ClientInv
    OBVIOUS
  <2>1. \A s \in Streams : str[s].dies \in 0 .. 3
    <3> SUFFICES ASSUME NEW s \in Streams
                 PROVE  str[s].dies \in 0 .. 3
      OBVIOUS
    <3>1. str[s].dies \in Nat
      BY DEF H2CIInv, StreamsOK, StreamRecords
    <3>2. str[s].dies <= 3
      BY <3>1 DEF H2CIInv, Working, WorkingOK, Gone, GoneOK
    <3> QED
      BY <3>1, <3>2
  <2>2. TypeOK
    BY <2>1 DEF H2CIInv, SessionTypeOK, StreamsOK, StreamOK, StreamBegun, StreamRecords, EventsOK, TypeOK
  <2>3. DestroyedIsUnused
    BY DEF H2CIInv, StreamsOK, StreamOK, StreamBegun, LifeOK, DestroyedIsUnused
  <2>4. ResponseEventsInOrder
    <3> SUFFICES ASSUME NEW s \in Streams
                 PROVE  LET e == str[s].evs IN
                        /\ \A i \in DOMAIN e : e[i] \in Outcomes => i = Len(e)
                        /\ e # <<>> => Head(e) \in {"headers", "error"}
      BY DEF ResponseEventsInOrder
    <3> DEFINE e == str[s].evs
    <3>1. e \in Seq(Events) /\ Ordered(e)
      BY DEF H2CIInv, StreamsOK, StreamOK, StreamBegun, StreamRecords, EventsOK
    <3> HIDE DEF e
    <3>2. \A i \in DOMAIN e : e[i] \in Outcomes => i = Len(e)
      <4> SUFFICES ASSUME NEW i \in DOMAIN e, i # Len(e)
                   PROVE  e[i] \notin Outcomes
        OBVIOUS
      <4>1. i \in 1 .. Len(e) /\ Len(e) \in Nat
        BY <3>1
      <4>2. i < Len(e)
        BY <4>1
      <4> QED
        BY <3>1, <4>1, <4>2 DEF Ordered
    <3>3. e # <<>> => Head(e) = e[1]
      BY <3>1
    <3> QED
      BY <3>1, <3>2, <3>3 DEF Ordered, e
  <2> QED
    BY <2>2, <2>3, <2>4 DEF H2ClientInv
<1> QED
  BY <1>1, H2ClientInvariance, PTL

\* When the connector is gone every stream that still exists has reported an
\* outcome to its response and an error to its request, and the streams of ended
\* requests are destroyed once their error callbacks have run.
THEOREM H2ClientNobodyForgotten == Spec => []NobodyForgotten
<1>1. H2CIInv => NobodyForgotten
  <2> SUFFICES ASSUME H2CIInv
               PROVE  NobodyForgotten
    OBVIOUS
  <2>1. ASSUME conn = "gone", NEW s \in Streams, str[s].life = "live"
        PROVE  /\ str[s].evs # <<>> /\ Last(str[s].evs) \in Outcomes
               /\ "error" \in str[s].told
    BY <2>1 DEF H2CIInv, Gone, GoneOK, Closing, Last
  <2>2. ASSUME conn = "gone", "onerror" \notin env, NEW s \in Streams, str[s].user = "ended",
               str[s].dies = 0
        PROVE  str[s].life = "gone"
    BY <2>2 DEF H2CIInv, StreamsOK, StreamOK, StreamBegun, StreamRecords, LifeOK, Gone, GoneOK
  <2> QED
    BY <2>1, <2>2 DEF NobodyForgotten, StreamsDestroyed
<1> QED
  BY <1>1, H2ClientInvariance, PTL

\* A request with headers is handed to the peer as soon as its limit allows.
THEOREM H2ClientRequestIsSent == Spec => []RequestIsSent
<1>1. H2CIInv => RequestIsSent
  <2> SUFFICES ASSUME H2CIInv, Sane, conn = "open", ~out, ~goaway, NEW s \in Streams,
                      str[s].user \in {"headers", "ended"}, ~str[s].closed,
                      BelowLimit(str)
               PROVE  str[s].ng \in {"open", "shut"}
    BY DEF RequestIsSent
  <2>1. str[s].ng \in {"req", "open", "shut"}
    BY DEF H2CIInv, StreamsOK, StreamOK, StreamBegun, FlushedOK, StreamRecords
  <2>2. s \notin Sendable(str)
    BY DEF H2CIInv, NothingSendable
  <2> QED
    BY <2>1, <2>2 DEF Sendable
<1> QED
  BY <1>1, H2ClientInvariance, PTL
=============================================================================
