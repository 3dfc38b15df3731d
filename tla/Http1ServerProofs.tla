------------------------- MODULE Http1ServerProofs -------------------------
(***************************************************************************)
(* Proofs about a server side HTTP/1.x connection, for any number of       *)
(* pipelined requests and any circumstances.  The invariant of the         *)
(* connector is taken over from ConnectorProofs, whose lemmas about single *)
(* steps apply to the steps this handler takes.                            *)
(***************************************************************************)
EXTENDS Http1Server, ConnectorProofs

-----------------------------------------------------------------------------
(* The inductive invariant. *)

\* The parser runs inside the handler of a completed read, notify_local_content
\* inside a handler or a call that keeps the connector, and a connector that is
\* gone has left nothing pending.
Threads ==
  /\ mode # "idle" <=> rd = "running"
  /\ polling => ~Unreferenced /\ locals # <<>>
  /\ ~alive => rd = "none" /\ ~writing /\ ~armed /\ ~fired
  /\ user_close => "close" \in env

\* local_objects holds the latest requests in order, none of them serialised to
\* its end, and remote_objects at most the request the parser is inside of.
Queues ==
  /\ Len(locals) <= nreq
  /\ \A i \in 1 .. Len(locals) : locals[i] = nreq - Len(locals) + i
  /\ locals # <<>> => turn <= locals[1]
  /\ turn <= nreq + 1
  /\ \A i \in 1 .. Len(sent) : sent[i].id <= nreq
  /\ remotes = <<>> \/ (remotes = <<nreq>> /\ nreq > 0 /\ dec # "idle" /\ ~decoding_error)
  /\ ran \subseteq acked \cup nacked
  /\ ~alive /\ ~user_close => locals = <<>> /\ remotes = <<>> /\ pcc = {}

\* The events of a request the parser is inside of, by the state of the parser.
OpenEvents(d) ==
  CASE d = "begun"   -> {<<>>}
    [] d = "headers" -> {<<"headers">>}
    [] d = "body"    -> {<<"headers", "body">>}
    [] d = "trailer" -> {<<"headers", "trailer">>, <<"headers", "body", "trailer">>}
    [] OTHER         -> {}

\* The events of a request that is over.
ClosedEvents ==
  {<<"error">>,
   <<"headers", "error">>, <<"headers", "finished">>,
   <<"headers", "body", "error">>, <<"headers", "body", "finished">>,
   <<"headers", "trailer", "error">>, <<"headers", "trailer", "finished">>,
   <<"headers", "body", "trailer", "error">>, <<"headers", "body", "trailer", "finished">>}

Events ==
  \A id \in Ids :
    /\ id > nreq => req[id] = <<>> /\ resp[id] = FreshResponse
    /\ id <= nreq => req[id] \in IF remotes # <<>> /\ id = nreq THEN OpenEvents(dec)
                                 ELSE ClosedEvents

\* What a response can hold at each stage of its user.
StageOK(r) ==
  /\ r.stage \in {"none", "continued"} => r.hdr = "no" /\ ~r.body
  /\ r.stage = "none" => ~r.cont
  /\ r.stage = "headers" => ~r.body
  /\ r.stage \notin {"trailer", "ended"} => ~r.trl

Stage == \A id \in Ids : StageOK(resp[id])

\* A response whose user has ended it and of which nothing is left to encode.
Settled(r) == r.stage = "ended" /\ r.hdr = "no" /\ ~r.body /\ ~r.trl

\* A response that is in the hands of the handler or the connector.
Outstanding(id) == id \in InSeq(locals) \cup pcc \cup fb \cup Posted

Outcomes ==
  /\ \A i \in 1 .. Len(ends) : resp[ends[i]].stage = "ended"
  /\ \A i \in 1 .. Len(locals) : resp[locals[i]].ended =>
       resp[locals[i]].stage = "ended" \/ (stopped /\ "fail" \in env)
  /\ \A id \in fb \cup acked : Settled(resp[id])
  /\ \A id \in pcc : stopped \/ Settled(resp[id])
  /\ \A id \in Ids : "cleared" \in InSeq(resp[id].told) => id \in acked
  /\ "fail" \notin env => \A id \in Ids :
       /\ Len(resp[id].told) <= 1
       /\ resp[id].told # <<>> => ~Outstanding(id)
       /\ id <= nreq /\ resp[id].held /\ resp[id].told = <<>> => Outstanding(id)

\* The parts response r may still be given or hold: its share of five is never
\* exceeded.
Flag(b) == IF b THEN 1 ELSE 0

ToCome(stage) ==
  CASE stage = "none" -> 5 [] stage = "continued" -> 4 [] stage = "headers" -> 3
    [] stage = "body" -> 2 [] OTHER -> 1

Left(r) == ToCome(r.stage) + Flag(r.cont) + Flag(r.hdr # "no") + Flag(r.body) + Flag(r.trl)

Bounded ==
  /\ locals = <<>> => Len(sent) <= 5 * nreq
  /\ locals # <<>> => Len(sent) + Left(resp[locals[1]]) <= 5 * locals[1]

\* The byte submitted last, and whether it belongs to response id.
Last == sent[Len(sent)]

Touched(id) == sent # <<>> /\ Last.id = id

\* How far into response id the bytes submitted so far are.
PartState(p) ==
  CASE p = "C" -> "ZERO" [] p = "H" -> "HEADER" [] p = "B" -> "BODY" [] OTHER -> "TRAILER"

Progress(id) == IF Touched(id) THEN PartState(Last.part) ELSE "ZERO"

\* What is left of a response continues what was encoded of it.
Fits(st, r) ==
  /\ st = "ZERO" =>
       /\ r.hdr # "no" <=> r.stage \notin {"none", "continued"}
       /\ r.stage \in {"body", "trailer"} \/ r.trl => r.body
  /\ st # "ZERO" => r.hdr = "no" /\ r.stage \notin {"none", "continued"}
  /\ st = "HEADER" => (r.stage \in {"body", "trailer"} \/ r.trl => r.body)
  /\ st = "BODY" => ~r.body /\ r.stage # "headers"
  /\ st # "TRAILER" => (r.stage = "trailer" => r.trl)
  /\ st = "TRAILER" => ~r.body /\ ~r.trl /\ r.stage \in {"trailer", "ended"}

\* The handler has not failed or dropped a response behind the back of its peer.
Coherent == alive /\ (~stopped \/ Orderly)

Serial ==
  Coherent =>
    /\ \A i \in 1 .. Len(locals) : Fits(Progress(locals[i]), resp[locals[i]])
    /\ \A i \in 1 .. Len(locals) :
         resp[locals[i]].cont \/ resp[locals[i]].stage = "none" => ~Touched(locals[i])
    /\ ~stopped /\ sent # <<>> /\ (IF locals = <<>> THEN TRUE ELSE Last.id # locals[1])
         => Last.id \in Complete \cup missing
    /\ Touched(turn) => Last.part # "E"
    /\ ~Torso => enc.st = IF locals = <<>> THEN "ZERO" ELSE Progress(locals[1])

\* The bytes that can still reach the peer.
Reach == IF stopped THEN Len(wire) + Len(out) ELSE Len(sent)

Neighbours == {<<"C", "H">>, <<"H", "B">>, <<"H", "E">>, <<"B", "T">>, <<"B", "E">>, <<"T", "E">>}

Follows(a, b) ==
  IF a.id = b.id
  THEN <<a.part, b.part>> \in Neighbours
  ELSE a.id < b.id /\ b.part \in {"C", "H"} /\ a.id \in Complete \cup missing

Whole ==
  /\ Reach > 0 => sent[1].part \in {"C", "H"}
  /\ \A i \in 1 .. Reach - 1 : Follows(sent[i], sent[i + 1])

EncoderOK == Orderly /\ ~Torso => enc_ok

SrvIInv ==
  /\ TypeOK /\ ConnInv /\ Threads /\ Queues /\ Events /\ Stage /\ Outcomes
  /\ Bounded /\ Serial /\ Whole /\ EncoderOK

\* Nothing cancels the socket of a server connection while it is open.
Uncut == cut = {}

-----------------------------------------------------------------------------
(* Facts about the operators. *)

\* The elements of a sequence, by its positions.
LEMMA InSeqElement ==
  ASSUME NEW S, NEW s \in Seq(S)
  PROVE  \A x : x \in InSeq(s) <=> \E i \in 1 .. Len(s) : s[i] = x
<1>1. DOMAIN s = 1 .. Len(s)
  BY LenProperties
<1> QED
  BY <1>1 DEF InSeq

\* Neighbours within a shorter stretch are neighbours within a longer one.
LEMMA Shorter ==
  ASSUME NEW m \in Nat, NEW n \in Nat, m <= n
  PROVE  \A i \in 1 .. m - 1 : i \in 1 .. n - 1
OBVIOUS

\* A step that keeps the variables of the connector keeps its invariant.
LEMMA SameConnector ==
  ASSUME ConnInv, UNCHANGED connVars
  PROVE  ConnInv'
<1> USE DEF connVars, timerVars, writeVars
<1>1. (ConnTypeOK /\ Open /\ NothingInFlight)'
  BY DEF ConnInv, ConnTypeOK, Open, NothingInFlight
<1>2. (NoStuckBytes /\ DeadlineArmed)'
  BY DEF ConnInv, NoStuckBytes, DeadlineArmed, WriteDropped
<1>3. (Located /\ Feedbacks /\ Apart)'
  BY DEF ConnInv, Located, Feedbacks, Within, Apart
<1> QED
  BY <1>1, <1>2, <1>3 DEF ConnInv

\* A response has no more than five parts to come.
LEMMA LeftBound ==
  ASSUME NEW r \in Response
  PROVE  Left(r) \in Nat /\ Left(r) >= 1 /\ (StageOK(r) => Left(r) <= 5)
BY DEF Left, ToCome, Flag, StageOK, Response, Stages

\* What can still reach the peer stays well formed as it gets less.
LEMMA WholeShrinks ==
  ASSUME Whole, ConnInv, ConnInv', sent' = sent, Reach' <= Reach,
         Complete \cup missing \subseteq Complete' \cup missing'
  PROVE  Whole'
<1>1. Reach \in Nat /\ Reach' \in Nat /\ Reach' <= Reach
  BY LenProperties DEF Reach, ConnInv, ConnTypeOK
<1>2. \A i \in 1 .. Reach' - 1 : i \in 1 .. Reach - 1
  BY <1>1, Shorter, Zenon
<1>3. \A i \in 1 .. Reach' - 1 : Follows(sent[i], sent[i + 1])
  BY <1>2 DEF Whole
<1>4. \A i \in 1 .. Reach' - 1 : Follows(sent[i], sent[i + 1])'
  BY <1>3 DEF Follows
<1>5. Reach' > 0 => sent'[1].part \in {"C", "H"}
  BY <1>1 DEF Whole
<1> QED
  BY <1>4, <1>5 DEF Whole

\* With the connector unchanged, so is what can still reach the peer.
LEMMA SameWire ==
  ASSUME Whole, UNCHANGED connVars, missing \subseteq missing'
  PROVE  Whole'
<1>1. Reach' = Reach /\ sent' = sent /\ Complete \cup missing \subseteq Complete' \cup missing'
  BY DEF connVars, timerVars, writeVars, Reach, Complete
<1> QED
  BY <1>1 DEF Whole, Follows

-----------------------------------------------------------------------------
(* The user's calls and the closures of end(). *)

\* One response changes, and the loop may be entered.
LEMMA OneResponseStep ==
  ASSUME SrvIInv, NEW id \in Ids, id <= nreq, ~Unreferenced, NEW r \in Response,
         resp' = [resp EXCEPT ![id] = r],
         UNCHANGED <<connVars, locals, env, user_close, persistent, missing, decodeVars,
                     encodeVars, nreq, req, ran>>,
         polling' \in BOOLEAN, polling' => locals # <<>>,
         cur' \in Ids \cup {0}, ends' \in Seq(Ids),
         \A i \in 1 .. Len(ends') : resp'[ends'[i]].stage = "ended",
         r.told = resp[id].told, r.held => resp[id].held,
         r.ended => resp[id].ended \/ r.stage = "ended",
         resp[id].stage = "ended" => r.stage = "ended",
         Settled(resp[id]) => Settled(r),
         r.cont \/ r.stage = "none" => resp[id].cont \/ resp[id].stage = "none",
         StageOK(r), Left(r) <= Left(resp[id]),
         \A st \in {"ZERO", "HEADER", "BODY", "TRAILER"} : Fits(st, resp[id]) => Fits(st, r)
  PROVE  SrvIInv'
<1> USE DEF connVars, timerVars, writeVars, decodeVars, encodeVars
<1>t. TypeOK /\ ConnInv /\ Threads /\ Queues /\ Events /\ Stage /\ Outcomes
      /\ Bounded /\ Serial /\ Whole /\ EncoderOK
  BY DEF SrvIInv
<1>n. /\ resp \in [Ids -> Response] /\ nreq \in Nat /\ id \in Nat
      /\ locals \in Seq(Ids) /\ Len(locals) \in Nat
      /\ \A i \in 1 .. Len(locals) : locals[i] \in Ids
  BY <1>t, IdsAssumption, MaxReqAssumption, LenProperties, ElementOfSeq DEF TypeOK
<1>r. /\ resp'[id] = r
      /\ \A j \in Ids : j # id => resp'[j] = resp[j]
  BY <1>n
<1>1. TypeOK'
  BY <1>t DEF TypeOK, ConnTypeOK
<1>2. ConnInv'
  BY <1>t, SameConnector
<1>3. Threads'
  BY <1>t DEF Threads, Unreferenced
<1>4. Queues'
  BY <1>t DEF Queues
<1>5. Events'
  BY <1>t, <1>r, <1>n, IdsAssumption DEF Events
<1>6. Stage'
  BY <1>t, <1>r DEF Stage
<1>7. Outcomes'
  <2>1. \A j \in Ids : /\ resp'[j].told = resp[j].told
                       /\ resp'[j].ended => resp[j].ended \/ resp'[j].stage = "ended"
                       /\ resp'[j].held => resp[j].held
                       /\ resp[j].stage = "ended" => resp'[j].stage = "ended"
                       /\ Settled(resp[j]) => Settled(resp'[j])
    BY <1>r
  <2>2. \A j \in Ids : Outstanding(j)' <=> Outstanding(j)
    BY DEF Outstanding, Posted
  <2>3. fb \subseteq Ids /\ acked \subseteq Ids /\ pcc \subseteq Ids
    BY <1>t DEF TypeOK, ConnTypeOK
  <2> QED
    BY <1>t, <1>n, <2>1, <2>2, <2>3 DEF Outcomes
<1>8. Bounded'
  <2>1. locals # <<>> => locals[1] \in Ids
    BY <1>n, EmptySeq
  <2>2. \A j \in Ids : Left(resp'[j]) <= Left(resp[j])
    BY <1>r, <1>n DEF Left, ToCome, Flag
  <2>3. /\ sent' = sent /\ locals' = locals /\ nreq' = nreq
        /\ Len(sent) \in Nat
        /\ locals # <<>> => /\ Left(resp[locals[1]]) \in Nat /\ Left(resp'[locals[1]]) \in Nat
                           /\ locals[1] \in Nat
    BY <1>t, <1>n, <1>r, <2>1, LenProperties, IdsAssumption, LeftBound DEF TypeOK, ConnTypeOK
  <2> QED
    BY <1>t, <2>1, <2>2, <2>3 DEF Bounded
<1>9. Serial'
  <2>1. \A j \in Ids : /\ Progress(j)' = Progress(j)
                       /\ Progress(j) \in {"ZERO", "HEADER", "BODY", "TRAILER"}
                       /\ Touched(j)' <=> Touched(j)
    BY DEF Progress, PartState, Touched, Last
  <2>2. \A j \in Ids : \A st \in {"ZERO", "HEADER", "BODY", "TRAILER"} :
          Fits(st, resp[j]) => Fits(st, resp'[j])
    BY <1>r
  <2>3. \A j \in Ids : resp'[j].cont \/ resp'[j].stage = "none" =>
                         resp[j].cont \/ resp[j].stage = "none"
    BY <1>r
  <2>4. /\ Coherent' <=> Coherent
        /\ Torso' <=> Torso
        /\ Complete' = Complete
        /\ Touched(turn)' <=> Touched(turn)
    BY DEF Coherent, Orderly, Torso, Complete, Touched, Last
  <2>5. SUFFICES ASSUME Coherent PROVE Serial'
    BY <2>4 DEF Serial
  <2>6. /\ \A i \in 1 .. Len(locals) : Fits(Progress(locals[i]), resp'[locals[i]])
        /\ \A i \in 1 .. Len(locals) :
             resp'[locals[i]].cont \/ resp'[locals[i]].stage = "none" => ~Touched(locals[i])
    BY <1>t, <1>n, <2>1, <2>2, <2>3, <2>5 DEF Serial
  <2>7. locals # <<>> => locals[1] \in Ids
    BY <1>n, EmptySeq
  <2> QED
    BY <1>t, <1>n, <2>1, <2>4, <2>5, <2>6, <2>7 DEF Serial, Last
<1>10. Whole' /\ EncoderOK'
  BY <1>t, SameWire DEF EncoderOK, Orderly, Torso
<1> QED
  BY <1>1, <1>2, <1>3, <1>4, <1>5, <1>6, <1>7, <1>8, <1>9, <1>10 DEF SrvIInv

\* The user holds only responses that were handed to it.
LEMMA HeldIsCreated ==
  ASSUME SrvIInv, NEW id \in Ids, Held(id)
  PROVE  id <= nreq
<1>1. nreq \in Nat /\ id \in Nat
  BY IdsAssumption, MaxReqAssumption DEF SrvIInv, TypeOK
<1> QED
  BY <1>1 DEF SrvIInv, Events, Held, FreshResponse

\* headers(), body(), trailer(), send_continue(): each stores what the response
\* has to send and enters the loop.
LEMMA ContentSteps ==
  ASSUME SrvIInv, NEW id \in Ids,
         (\E c \in ConnHdr : Headers(id, c)) \/ Body(id) \/ Trailer(id) \/ SendContinue(id)
  PROVE  SrvIInv'
<1>t. /\ resp \in [Ids -> Response] /\ resp[id] \in Response /\ ends \in Seq(Ids)
      /\ StageOK(resp[id])
      /\ \A i \in 1 .. Len(ends) : ends[i] \in Ids /\ resp[ends[i]].stage = "ended"
  BY ElementOfSeq DEF SrvIInv, TypeOK, Stage, Outcomes
<1>h. Held(id)
  BY DEF Headers, Body, Trailer, SendContinue
<1>o. ~Unreferenced /\ resp[id].held /\ id <= nreq
  BY <1>h, HeldIsCreated DEF Held, UserTurn
<1>n. /\ polling' \in BOOLEAN /\ (polling' => locals # <<>>)
      /\ cur' \in Ids \cup {0}
      /\ ends' = ends
      /\ UNCHANGED <<connVars, locals, env, user_close, persistent, missing, decodeVars,
                     encodeVars, nreq, req, ran>>
  BY DEF Headers, Body, Trailer, SendContinue, Notify
<1> DEFINE Good(r) ==
      /\ r \in Response
      /\ r.told = resp[id].told /\ r.ended = resp[id].ended
      /\ resp[id].stage # "ended"
      /\ r.cont \/ r.stage = "none" => resp[id].cont \/ resp[id].stage = "none"
      /\ StageOK(r) /\ Left(r) <= Left(resp[id])
      /\ \A st \in {"ZERO", "HEADER", "BODY", "TRAILER"} : Fits(st, resp[id]) => Fits(st, r)
<1>g. ASSUME NEW r, Good(r), resp' = [resp EXCEPT ![id] = r] PROVE SrvIInv'
  <2>1. \A i \in 1 .. Len(ends') : resp'[ends'[i]].stage = "ended"
    BY <1>t, <1>n, <1>g
  <2>2. ~Settled(resp[id])
    BY <1>g DEF Settled
  <2> HIDE DEF Good
  <2>3. Good(r)
    BY <1>g
  <2>4. /\ r \in Response
        /\ r.told = resp[id].told /\ r.ended = resp[id].ended
        /\ resp[id].stage # "ended"
        /\ r.cont \/ r.stage = "none" => resp[id].cont \/ resp[id].stage = "none"
        /\ StageOK(r) /\ Left(r) <= Left(resp[id])
        /\ \A st \in {"ZERO", "HEADER", "BODY", "TRAILER"} : Fits(st, resp[id]) => Fits(st, r)
    BY <2>3 DEF Good
  <2> QED
    BY <1>t, <1>o, <1>n, <1>g, <2>1, <2>2, <2>4, OneResponseStep
<1>1. CASE (\E c \in ConnHdr : Headers(id, c))
  <2>0. PICK c \in ConnHdr : Headers(id, c)
    BY <1>1
  <2>c. c \in {"none", "keepalive", "close"}
    BY ConnHdrAssumption
  <2> DEFINE r == [resp[id] EXCEPT !.stage = "headers", !.hdr = c]
  <2>1. resp' = [resp EXCEPT ![id] = r] /\ resp[id].stage \in {"none", "continued"}
    BY <2>0, <1>t DEF Headers
  <2>2. /\ r \in Response /\ r.told = resp[id].told /\ r.ended = resp[id].ended
        /\ r.stage = "headers" /\ r.hdr = c /\ r.cont = resp[id].cont
        /\ r.body = resp[id].body /\ r.trl = resp[id].trl
    BY <1>t, <2>c DEF Response, Stages
  <2> HIDE DEF r
  <2>3. StageOK(r) /\ Left(r) <= Left(resp[id])
    BY <1>t, <2>1, <2>2, <2>c DEF StageOK, Left, ToCome, Flag
  <2>4. \A st \in {"ZERO", "HEADER", "BODY", "TRAILER"} : Fits(st, resp[id]) => Fits(st, r)
    BY <1>t, <2>1, <2>2, <2>c DEF StageOK, Fits
  <2>5. Good(r)
    BY <2>1, <2>2, <2>3, <2>4
  <2> QED
    BY <2>1, <2>5, <1>g
<1>2. CASE Body(id)
  <2> DEFINE r == [resp[id] EXCEPT !.stage = "body", !.body = TRUE]
  <2>1. resp' = [resp EXCEPT ![id] = r] /\ resp[id].stage = "headers"
    BY <1>2, <1>t DEF Body
  <2>2. /\ r \in Response /\ r.told = resp[id].told /\ r.ended = resp[id].ended
        /\ r.stage = "body" /\ r.hdr = resp[id].hdr /\ r.cont = resp[id].cont
        /\ r.body = TRUE /\ r.trl = resp[id].trl
    BY <1>t DEF Response, Stages
  <2> HIDE DEF r
  <2>3. StageOK(r) /\ Left(r) <= Left(resp[id])
    BY <1>t, <2>1, <2>2 DEF StageOK, Left, ToCome, Flag
  <2>4. \A st \in {"ZERO", "HEADER", "BODY", "TRAILER"} : Fits(st, resp[id]) => Fits(st, r)
    BY <1>t, <2>1, <2>2 DEF StageOK, Fits
  <2>5. Good(r)
    BY <2>1, <2>2, <2>3, <2>4
  <2> QED
    BY <2>1, <2>5, <1>g
<1>3. CASE Trailer(id)
  <2> DEFINE r == [resp[id] EXCEPT !.stage = "trailer", !.trl = TRUE]
  <2>1. resp' = [resp EXCEPT ![id] = r] /\ resp[id].stage = "body"
    BY <1>3, <1>t DEF Trailer
  <2>2. /\ r \in Response /\ r.told = resp[id].told /\ r.ended = resp[id].ended
        /\ r.stage = "trailer" /\ r.hdr = resp[id].hdr /\ r.cont = resp[id].cont
        /\ r.body = resp[id].body /\ r.trl = TRUE
    BY <1>t DEF Response, Stages
  <2> HIDE DEF r
  <2>3. StageOK(r) /\ Left(r) <= Left(resp[id])
    BY <1>t, <2>1, <2>2 DEF StageOK, Left, ToCome, Flag
  <2>4. \A st \in {"ZERO", "HEADER", "BODY", "TRAILER"} : Fits(st, resp[id]) => Fits(st, r)
    BY <1>t, <2>1, <2>2 DEF StageOK, Fits
  <2>5. Good(r)
    BY <2>1, <2>2, <2>3, <2>4
  <2> QED
    BY <2>1, <2>5, <1>g
<1>4. CASE SendContinue(id)
  <2> DEFINE r == [resp[id] EXCEPT !.stage = "continued", !.cont = TRUE]
  <2>1. resp' = [resp EXCEPT ![id] = r] /\ resp[id].stage = "none"
    BY <1>4, <1>t DEF SendContinue
  <2>2. /\ r \in Response /\ r.told = resp[id].told /\ r.ended = resp[id].ended
        /\ r.stage = "continued" /\ r.hdr = resp[id].hdr /\ r.cont = TRUE
        /\ r.body = resp[id].body /\ r.trl = resp[id].trl
    BY <1>t DEF Response, Stages
  <2> HIDE DEF r
  <2>3. StageOK(r) /\ Left(r) <= Left(resp[id])
    BY <1>t, <2>1, <2>2 DEF StageOK, Left, ToCome, Flag
  <2>4. \A st \in {"ZERO", "HEADER", "BODY", "TRAILER"} : Fits(st, resp[id]) => Fits(st, r)
    BY <1>t, <2>1, <2>2 DEF StageOK, Fits
  <2>5. Good(r)
    BY <2>1, <2>2, <2>3, <2>4
  <2> QED
    BY <2>1, <2>5, <1>g
<1> QED
  BY <1>1, <1>2, <1>3, <1>4

\* end() posts a closure; a response let go stays what it was.
LEMMA EndDropSteps ==
  ASSUME SrvIInv, NEW id \in Ids, End(id) \/ Drop(id)
  PROVE  SrvIInv'
<1>t. /\ resp \in [Ids -> Response] /\ resp[id] \in Response /\ ends \in Seq(Ids)
      /\ StageOK(resp[id]) /\ Len(ends) \in Nat
      /\ \A i \in 1 .. Len(ends) : ends[i] \in Ids /\ resp[ends[i]].stage = "ended"
      /\ polling \in BOOLEAN /\ cur \in Ids \cup {0}
  BY ElementOfSeq, LenProperties DEF SrvIInv, TypeOK, Stage, Outcomes
<1>h. Held(id) /\ ~polling
  BY DEF End, Drop, Held, UserTurn, Running
<1>o. ~Unreferenced /\ resp[id].held /\ id <= nreq
  BY <1>h, HeldIsCreated DEF Held, UserTurn
<1>n. /\ polling' = polling /\ cur' = cur
      /\ UNCHANGED <<connVars, locals, env, user_close, persistent, missing, decodeVars,
                     encodeVars, nreq, req, ran>>
  BY DEF End, Drop
<1>1. CASE End(id)
  <2> DEFINE r == [resp[id] EXCEPT !.stage = "ended"]
  <2>1. /\ resp' = [resp EXCEPT ![id] = r] /\ ends' = Append(ends, id)
        /\ resp[id].stage \in {"headers", "body", "trailer"}
    BY <1>1, <1>t DEF End
  <2>2. /\ r \in Response /\ r.told = resp[id].told /\ r.ended = resp[id].ended
        /\ r.stage = "ended" /\ r.hdr = resp[id].hdr /\ r.cont = resp[id].cont
        /\ r.body = resp[id].body /\ r.trl = resp[id].trl
    BY <1>t DEF Response, Stages
  <2> HIDE DEF r
  <2>3. StageOK(r) /\ Left(r) <= Left(resp[id])
    BY <1>t, <2>1, <2>2 DEF StageOK, Left, ToCome, Flag
  <2>4. \A st \in {"ZERO", "HEADER", "BODY", "TRAILER"} : Fits(st, resp[id]) => Fits(st, r)
    BY <1>t, <2>1, <2>2 DEF StageOK, Fits
  <2>5. /\ ends' \in Seq(Ids)
        /\ \A i \in 1 .. Len(ends') : resp'[ends'[i]].stage = "ended"
    <3>1. /\ ends' \in Seq(Ids) /\ Len(ends') = Len(ends) + 1
          /\ \A i \in 1 .. Len(ends) : ends'[i] = ends[i]
          /\ ends'[Len(ends) + 1] = id
      BY <1>t, <2>1, AppendProperties
    <3> QED
      BY <1>t, <2>1, <2>2, <3>1
  <2>6. ~Settled(resp[id])
    BY <2>1 DEF Settled
  <2> QED
    BY <1>t, <1>h, <1>o, <1>n, <2>1, <2>2, <2>3, <2>4, <2>5, <2>6, OneResponseStep
<1>2. CASE Drop(id)
  <2> DEFINE r == [resp[id] EXCEPT !.held = FALSE]
  <2>1. resp' = [resp EXCEPT ![id] = r] /\ ends' = ends
    BY <1>2, <1>t DEF Drop
  <2>2. /\ r \in Response /\ r.told = resp[id].told /\ r.ended = resp[id].ended
        /\ r.stage = resp[id].stage /\ r.hdr = resp[id].hdr /\ r.cont = resp[id].cont
        /\ r.body = resp[id].body /\ r.trl = resp[id].trl
    BY <1>t DEF Response, Stages
  <2> HIDE DEF r
  <2>3. StageOK(r) /\ Left(r) <= Left(resp[id])
    BY <1>t, <2>1, <2>2 DEF StageOK, Left, ToCome, Flag
  <2>4. \A st \in {"ZERO", "HEADER", "BODY", "TRAILER"} : Fits(st, resp[id]) => Fits(st, r)
    BY <2>2 DEF Fits
  <2>5. \A i \in 1 .. Len(ends') : resp'[ends'[i]].stage = "ended"
    BY <1>t, <2>1, <2>2
  <2>6. Settled(resp[id]) => Settled(r)
    BY <2>2 DEF Settled
  <2> QED
    BY <1>t, <1>h, <1>o, <1>n, <2>1, <2>2, <2>3, <2>4, <2>5, <2>6, OneResponseStep
<1> QED
  BY <1>1, <1>2

-----------------------------------------------------------------------------
(* Steps of the connector alone. *)

\* What a step of the connector may do to the handler: it brings bytes nearer to
\* the peer or gives them up, and it moves feedbacks on.  Completions take the
\* feedbacks of a write; only an open connector takes those that wait.
LEMMA ConnectorStep ==
  ASSUME SrvIInv, ConnInv', Threads', alive' => alive, ~alive' => ~alive \/ user_close,
         UNCHANGED <<sent, turn, env, locals, polling, cur, user_close, missing, remotes,
                     dec, decoding_error, crashed, encodeVars, userVars>>,
         mode' \in {"idle", "start", "callback", "parse"}, persistent' \in BOOLEAN,
         stopped => stopped', Reach' <= Reach,
         pcc' \subseteq pcc, acked \subseteq acked', nacked \subseteq nacked',
         Complete' = Complete,
         acked' \cup fb' \subseteq acked \cup fb \cup (IF stopped THEN {} ELSE pcc)
  PROVE  SrvIInv'
<1> USE DEF encodeVars, userVars
<1>t. TypeOK /\ ConnInv /\ Threads /\ Queues /\ Events /\ Stage /\ Outcomes
      /\ Bounded /\ Serial /\ Whole /\ EncoderOK
  BY DEF SrvIInv
<1>1. TypeOK'
  BY <1>t DEF TypeOK, ConnInv
<1>2. Queues'
  BY <1>t DEF Queues
<1>3. Events' /\ Stage' /\ Bounded' /\ EncoderOK'
  BY <1>t DEF Events, Stage, Bounded, EncoderOK, Orderly, Torso
<1>4. Outcomes'
  <2>1. \A id \in Ids : Outstanding(id)' <=> Outstanding(id)
    <3>1. pcc \cup fb \cup Posted = Complete \ ran
      BY <1>t DEF ConnInv, Apart, Queues, Posted, Complete
    <3>2. pcc' \cup fb' \cup Posted' = Complete' \ ran'
      BY <1>2 DEF ConnInv, Apart, Queues, Posted, Complete
    <3>3. InSeq(locals)' = InSeq(locals)
      BY DEF InSeq
    <3> QED
      BY <3>1, <3>2, <3>3 DEF Outstanding
  <2> QED
    BY <1>t, <2>1 DEF Outcomes
<1>5. Serial'
  <2>1. /\ Coherent' => Coherent
        /\ Torso' <=> Torso
        /\ Touched(turn)' <=> Touched(turn)
    BY DEF Coherent, Orderly, Torso, Touched, Last
  <2>2. \A id : Progress(id)' = Progress(id) /\ (Touched(id)' <=> Touched(id))
    BY DEF Progress, Touched, Last
  <2> QED
    BY <1>t, <2>1, <2>2 DEF Serial, Last
<1>6. Whole'
  BY <1>t, WholeShrinks
<1> QED
  BY <1>t, <1>1, <1>2, <1>3, <1>4, <1>5, <1>6 DEF SrvIInv

\* A stop leaves only the bytes of the write in flight on their way.
LEMMA ReachShrinks ==
  ASSUME ConnInv, UNCHANGED writeVars, stopped => stopped', stopped' \in BOOLEAN
  PROVE  Reach' <= Reach
<1>1. /\ Len(wire) \in Nat /\ Len(out) \in Nat /\ Len(ser) \in Nat /\ Len(sent) \in Nat
      /\ stopped \in BOOLEAN
  BY LenProperties DEF ConnInv, ConnTypeOK
<1>2. ~stopped => Len(sent) = Len(wire) + Len(out) + Len(ser)
  BY DEF ConnInv, Located
<1>3. wire' = wire /\ out' = out /\ sent' = sent
  BY DEF writeVars
<1> QED
  BY <1>1, <1>2, <1>3 DEF Reach

\* A step of the connector that leaves the bytes and the feedbacks alone.
LEMMA QuietConnectorStep ==
  ASSUME SrvIInv, ConnInv', Threads', UNCHANGED writeVars,
         UNCHANGED <<alive, env, locals, polling, cur, user_close, missing, remotes, dec,
                     decoding_error, crashed, encodeVars, userVars>>,
         mode' \in {"idle", "start", "callback", "parse"}, persistent' \in BOOLEAN,
         stopped => stopped'
  PROVE  SrvIInv'
<1>1. ConnInv
  BY DEF SrvIInv
<1>2. Reach' <= Reach
  BY <1>1, ReachShrinks DEF ConnInv, ConnTypeOK
<1>3. /\ UNCHANGED <<sent, turn>>
      /\ pcc' \subseteq pcc /\ acked \subseteq acked' /\ nacked \subseteq nacked'
      /\ Complete' = Complete
      /\ acked' \cup fb' \subseteq acked \cup fb \cup (IF stopped THEN {} ELSE pcc)
  BY DEF writeVars, Complete
<1> QED
  BY <1>2, <1>3, ConnectorStep

\* on_timeout(), set_persistent(), and the beginning and the end of on_read.
LEMMA QuietSteps ==
  ASSUME SrvIInv,
         (\E on \in BOOLEAN : OnTimeout(on) \/ SetPersistent(on)) \/ Read \/ ReadEnds
  PROVE  SrvIInv'
<1>t. TypeOK /\ ConnInv /\ Threads /\ polling \in BOOLEAN /\ Open
  BY DEF SrvIInv, TypeOK, ConnInv
<1>1. ASSUME NEW on \in BOOLEAN, OnTimeout(on) PROVE SrvIInv'
  <2>1. /\ ~stopped /\ SetTimeout(on) /\ UNCHANGED handlerVars /\ ~Unreferenced
    BY <1>1 DEF OnTimeout, UserTurn
  <2>2. ConnInv'
    <3>1. (Open /\ NoStuckBytes /\ DeadlineArmed)'
      BY <1>t, <2>1
      DEF SetTimeout, ConnInv, ConnTypeOK, Open, NoStuckBytes, DeadlineArmed, WriteDropped, writeVars
    <3> QED
      BY <1>t, <2>1, <3>1, QuietStep DEF SetTimeout, ConnInv, ConnTypeOK
  <2>3. Threads'
    BY <1>t, <2>1 DEF Threads, SetTimeout, Unreferenced, handlerVars, decodeVars, writeVars
  <2> QED
    BY <1>t, <2>1, <2>2, <2>3, QuietConnectorStep
    DEF SetTimeout, handlerVars, decodeVars, TypeOK
<1>2. ASSUME NEW on \in BOOLEAN, SetPersistent(on) PROVE SrvIInv'
  <2>1. /\ persistent' = on /\ ~polling
        /\ UNCHANGED <<connVars, locals, polling, cur, env, user_close, missing, decodeVars,
                       encodeVars, userVars>>
    BY <1>2 DEF SetPersistent, UserTurn, Running
  <2>2. ConnInv'
    BY <1>t, <2>1, SameConnector
  <2>3. Threads'
    BY <1>t, <2>1 DEF Threads, Unreferenced, decodeVars, connVars, timerVars, writeVars
  <2> QED
    BY <1>t, <2>1, <2>2, <2>3, QuietConnectorStep DEF connVars, decodeVars, TypeOK
<1>3. CASE Read
  <2>1. /\ ReadOk /\ mode' = "start" /\ mode = "idle" /\ ~polling
        /\ UNCHANGED <<locals, polling, cur, env, user_close, persistent, missing, remotes, dec,
                       decoding_error, crashed, encodeVars, userVars>>
    BY <1>3 DEF Read, HandlerTurn, Running
  <2>2. ConnInv'
    BY <1>t, <2>1, ReadSteps
  <2>3. Threads'
    BY <1>t, <2>1 DEF Threads, ReadOk, writeVars
  <2> QED
    BY <1>t, <2>1, <2>2, <2>3, QuietConnectorStep DEF ReadOk, TypeOK
<1>4. CASE ReadEnds
  <2>1. /\ ReadDone /\ mode' = "idle" /\ ~polling
        /\ UNCHANGED <<locals, polling, cur, env, user_close, persistent, missing, remotes, dec,
                       decoding_error, crashed, encodeVars, userVars>>
    BY <1>4 DEF ReadEnds, ParserTurn, Running
  <2>2. ConnInv'
    BY <1>t, <2>1, ReadSteps
  <2>3. Threads'
    BY <1>t, <2>1 DEF Threads, ReadDone, writeVars
  <2> QED
    BY <1>t, <2>1, <2>2, <2>3, QuietConnectorStep DEF ReadDone, TypeOK
<1> QED
  BY <1>1, <1>2, <1>3, <1>4

\* The completions and the timer.
LEMMA ConnectionStep ==
  ASSUME SrvIInv, Uncut, Connection
  PROVE  SrvIInv'
<1>t. TypeOK /\ ConnInv /\ Threads /\ polling \in BOOLEAN
  BY DEF SrvIInv, TypeOK
<1>h. /\ mode = "idle" /\ ~polling /\ rd # "running" /\ mode' = mode /\ persistent' = persistent
      /\ UNCHANGED <<env, locals, polling, cur, user_close, missing, remotes, dec,
                     decoding_error, crashed, encodeVars, userVars>>
      /\ mode' \in {"idle", "start", "callback", "parse"} /\ persistent' \in BOOLEAN
  BY <1>t DEF Connection, HandlerTurn, Running, LoopTurn, handlerVars, decodeVars, TypeOK
<1>1. CASE TimerExpires \/ RunTimer
  <2>1. ConnInv'
    BY <1>t, <1>1, TimerSteps
  <2>2. UNCHANGED <<alive, stopped, rd, writeVars>>
    BY <1>1 DEF TimerExpires, RunTimer
  <2>3. Threads'
    BY <1>t, <1>h, <1>1, <2>2 DEF Threads, TimerExpires, RunTimer, writeVars
  <2> QED
    BY <1>h, <2>1, <2>2, <2>3, QuietConnectorStep
<1>2. CASE ReadFailed \/ ReadCanceled
  <2>1. ConnInv'
    BY <1>t, <1>2, ReadSteps
  <2>2. /\ UNCHANGED <<alive, writeVars, fired>> /\ rd' = "none" /\ rd = "pending"
        /\ (stopped => stopped')
    BY <1>2 DEF ReadFailed, ReadCanceled, CancelAndStop
  <2>3. Threads'
    BY <1>t, <1>h, <1>2, <2>2 DEF Threads, writeVars
  <2> QED
    BY <1>h, <2>1, <2>2, <2>3, QuietConnectorStep
<1>3. CASE WriteOk
  <2>1. ConnInv'
    BY <1>t, <1>3, WriteOkStep
  <2>2. /\ UNCHANGED <<alive, stopped, rd, ttl, fired, turn, sent, nacked>> /\ writing
        /\ wire' = wire \o out
    BY <1>3 DEF WriteOk
  <2>3. Threads'
    BY <1>t, <1>h, <2>2 DEF Threads
  <2>4. Reach' <= Reach
    <3>1. /\ wire \in Seq(Item) /\ out \in Seq(Item) /\ Len(sent) \in Nat
          /\ Len(wire) \in Nat /\ Len(out) \in Nat /\ Len(wire') = Len(wire) + Len(out)
      BY <1>t, <2>2, LenProperties, ConcatProperties DEF ConnInv, ConnTypeOK
    <3>2. stopped => Len(out') = 0
      BY <1>3, EmptySeq DEF WriteOk
    <3> QED
      BY <2>2, <3>1, <3>2 DEF Reach
  <2>5. /\ pcc' \subseteq pcc /\ acked \subseteq acked' /\ nacked \subseteq nacked'
        /\ Complete' = Complete
        /\ acked' \cup fb' \subseteq acked \cup fb \cup (IF stopped THEN {} ELSE pcc)
    BY <1>3 DEF WriteOk, Complete
  <2> QED
    BY <1>h, <2>1, <2>2, <2>3, <2>4, <2>5, ConnectorStep
<1>4. ASSUME NEW n \in 0 .. Len(out), WriteFailed(n) \/ WriteCanceled(n) PROVE SrvIInv'
  <2>1. ConnInv'
    BY <1>t, <1>4, WriteAbortedStep DEF WriteAborted
  <2>2. /\ UNCHANGED <<alive, rd, fired, turn, sent, ser, pcc, acked>> /\ writing /\ stopped' = TRUE
        /\ wire' = wire \o SubSeq(out, 1, n) /\ out' = <<>> /\ fb' = {}
        /\ nacked' = nacked \cup fb
    BY <1>t, <1>4 DEF WriteFailed, WriteCanceled, CancelAndStop, Uncut, ConnInv, ConnTypeOK
  <2>3. Threads'
    BY <1>t, <1>h, <2>2 DEF Threads
  <2>4. Reach' <= Reach
    <3>1. Len(wire') = Len(wire) + n /\ Len(wire) + n <= Len(sent)
      BY <1>t, <2>2, Delivered
    <3>2. /\ Len(out') = 0 /\ Len(wire) \in Nat /\ Len(out) \in Nat /\ n \in Nat /\ n <= Len(out)
          /\ Len(sent) \in Nat
      BY <1>t, <2>2, EmptySeq, LenProperties DEF ConnInv, ConnTypeOK
    <3> QED
      BY <2>2, <3>1, <3>2 DEF Reach
  <2>5. /\ pcc' \subseteq pcc /\ acked \subseteq acked' /\ nacked \subseteq nacked'
        /\ Complete' = Complete
        /\ acked' \cup fb' \subseteq acked \cup fb \cup (IF stopped THEN {} ELSE pcc)
    BY <2>2 DEF Complete
  <2> QED
    BY <1>h, <2>1, <2>2, <2>3, <2>4, <2>5, ConnectorStep
<1> QED
  BY <1>1, <1>2, <1>3, <1>4 DEF Connection

\* The closure of end().
LEMMA RunEndStep ==
  ASSUME SrvIInv, RunEnd
  PROVE  SrvIInv'
<1>t. /\ resp \in [Ids -> Response] /\ ends \in Seq(Ids) /\ Len(ends) \in Nat
      /\ \A i \in 1 .. Len(ends) : ends[i] \in Ids /\ resp[ends[i]].stage = "ended"
      /\ Stage /\ Events
  BY ElementOfSeq, LenProperties DEF SrvIInv, TypeOK, Outcomes
<1>1. /\ ends # <<>> /\ ends' = Tail(ends) /\ ~Unreferenced
      /\ resp' = [resp EXCEPT ![Head(ends)].ended = TRUE]
      /\ polling' = (locals # <<>>)
      /\ cur' = IF locals # <<>> THEN Head(ends) ELSE 0
      /\ UNCHANGED <<connVars, locals, env, user_close, persistent, missing, decodeVars,
                     encodeVars, nreq, req, ran>>
  BY DEF RunEnd, HandlerTurn, LoopTurn
<1>2. /\ Len(ends) >= 1 /\ Head(ends) = ends[1] /\ Head(ends) \in Ids
      /\ Tail(ends) \in Seq(Ids) /\ Len(Tail(ends)) = Len(ends) - 1
      /\ \A i \in 1 .. Len(ends) - 1 : Tail(ends)[i] = ends[i + 1]
  BY <1>t, <1>1, EmptySeq, HeadTailProperties
<1> DEFINE id == Head(ends)
           r == [resp[id] EXCEPT !.ended = TRUE]
<1>3. /\ id \in Ids /\ resp[id].stage = "ended" /\ resp[id] \in Response
      /\ resp' = [resp EXCEPT ![id] = r]
  BY <1>t, <1>1, <1>2
<1>4. /\ r \in Response /\ r.told = resp[id].told /\ r.held = resp[id].held
      /\ r.stage = resp[id].stage /\ r.hdr = resp[id].hdr /\ r.cont = resp[id].cont
      /\ r.body = resp[id].body /\ r.trl = resp[id].trl
  BY <1>3 DEF Response, Stages
<1> HIDE DEF r, id
<1>5. id <= nreq
  <2>1. nreq \in Nat /\ id \in Nat
    BY <1>3, IdsAssumption, MaxReqAssumption DEF SrvIInv, TypeOK
  <2> QED
    BY <1>t, <1>3, <2>1 DEF Events, FreshResponse
<1>6. StageOK(r) /\ Left(r) <= Left(resp[id]) /\ (Settled(resp[id]) => Settled(r))
  BY <1>t, <1>3, <1>4 DEF Stage, StageOK, Left, ToCome, Flag, Settled
<1>7. \A st \in {"ZERO", "HEADER", "BODY", "TRAILER"} : Fits(st, resp[id]) => Fits(st, r)
  BY <1>4 DEF Fits
<1>8. /\ ends' \in Seq(Ids)
      /\ \A i \in 1 .. Len(ends') : resp'[ends'[i]].stage = "ended"
  <2>1. \A j \in Ids : resp'[j].stage = resp[j].stage
    BY <1>t, <1>3, <1>4
  <2>2. \A i \in 1 .. Len(ends') : i + 1 \in 1 .. Len(ends) /\ ends'[i] = ends[i + 1]
    BY <1>t, <1>1, <1>2
  <2> QED
    BY <1>t, <1>1, <1>2, <2>1, <2>2
<1>9. polling' \in BOOLEAN /\ (polling' => locals # <<>>) /\ cur' \in Ids \cup {0}
  BY <1>1, <1>2
<1> QED
  BY <1>1, <1>3, <1>4, <1>5, <1>6, <1>7, <1>8, <1>9, OneResponseStep

-----------------------------------------------------------------------------
(* The feedbacks posted by the connector. *)

\* The responses in local_objects come after all that were serialised to their
\* end.
LEMMA LocalsAndComplete ==
  ASSUME SrvIInv
  PROVE  /\ nreq \in Nat /\ nreq <= MaxReq /\ turn \in Nat /\ Len(locals) \in Nat
         /\ \A i \in 1 .. Len(locals) :
              locals[i] \in Ids /\ locals[i] \in Nat /\ turn <= locals[i] /\ locals[i] <= nreq
         /\ \A id \in InSeq(locals) : id \in Ids /\ turn <= id /\ id <= nreq
         /\ \A id \in Complete : id \in Ids /\ id < turn /\ id <= nreq /\ id \notin InSeq(locals)
<1>1. /\ nreq \in Nat /\ nreq <= MaxReq /\ turn \in Nat
      /\ locals \in Seq(Ids) /\ Len(locals) \in Nat
      /\ \A i \in 1 .. Len(locals) : locals[i] \in Ids /\ locals[i] \in Nat
  BY IdsAssumption, MaxReqAssumption, LenProperties, ElementOfSeq
  DEF SrvIInv, TypeOK, ConnTypeOK
<1>2. /\ Len(locals) <= nreq
      /\ \A i \in 1 .. Len(locals) : locals[i] = nreq - Len(locals) + i
      /\ locals # <<>> => turn <= locals[1]
      /\ turn <= nreq + 1
  BY DEF SrvIInv, Queues
<1>3. \A i \in 1 .. Len(locals) : turn <= locals[i] /\ locals[i] <= nreq
  <2> TAKE i \in 1 .. Len(locals)
  <2>1. locals # <<>> /\ 1 \in 1 .. Len(locals)
    BY <1>1, EmptySeq
  <2> QED
    BY <1>1, <1>2, <2>1
<1>4. \A id \in InSeq(locals) : id \in Ids /\ turn <= id /\ id <= nreq
  BY <1>1, <1>3, InSeqElement
<1>5. \A id \in Complete : id \in Ids /\ id < turn
  BY DEF SrvIInv, ConnInv, ConnTypeOK, Feedbacks, Complete
<1>6. \A id \in Ids : id \in Nat
  BY IdsAssumption
<1> QED
  BY <1>1, <1>2, <1>3, <1>4, <1>5, <1>6

\* cleared() and error() add one outcome and set ended.
LEMMA Telling ==
  ASSUME NEW r \in Response, NEW q, q = Failed(r) \/ q = Cleared(r)
  PROVE  /\ q \in Response /\ q.ended = TRUE /\ q.held = r.held /\ q.stage = r.stage
         /\ q.cont = r.cont /\ q.hdr = r.hdr /\ q.body = r.body /\ q.trl = r.trl
         /\ Len(q.told) = Len(r.told) + 1 /\ q.told # <<>>
         /\ "cleared" \in InSeq(q.told) => "cleared" \in InSeq(r.told) \/ q = Cleared(r)
<1> DEFINE S == {"cleared", "error"}
<1>1. r.told \in Seq(S) /\ Len(r.told) \in Nat
  BY LenProperties DEF Response
<1>2. PICK x \in S : /\ q = [r EXCEPT !.ended = TRUE, !.told = Append(r.told, x)]
                     /\ x = "cleared" => q = Cleared(r)
  BY DEF Failed, Cleared
<1>3. /\ Append(r.told, x) \in Seq(S) /\ Len(Append(r.told, x)) = Len(r.told) + 1
      /\ \A i \in 1 .. Len(r.told) : Append(r.told, x)[i] = r.told[i]
      /\ Append(r.told, x)[Len(r.told) + 1] = x
  BY <1>1, AppendProperties
<1>4. q.told = Append(r.told, x) /\ q.told \in Seq(S)
  BY <1>2, <1>3 DEF Response
<1>5. /\ q \in Response /\ q.ended = TRUE /\ q.held = r.held /\ q.stage = r.stage
      /\ q.cont = r.cont /\ q.hdr = r.hdr /\ q.body = r.body /\ q.trl = r.trl
  BY <1>2, <1>3 DEF Response
<1> HIDE DEF S
<1>6. q.told # <<>>
  <2>1. Len(q.told) # 0
    BY <1>1, <1>3, <1>4
  <2> QED
    BY <1>4, <2>1, EmptySeq
<1>7. "cleared" \in InSeq(q.told) => "cleared" \in InSeq(r.told) \/ q = Cleared(r)
  <2> SUFFICES ASSUME "cleared" \in InSeq(q.told), x # "cleared"
               PROVE  "cleared" \in InSeq(r.told)
    BY <1>2
  <2>1. PICK i \in 1 .. Len(q.told) : q.told[i] = "cleared"
    BY <1>4, InSeqElement
  <2>2. i \in 1 .. Len(r.told) /\ r.told[i] = "cleared"
    BY <1>1, <1>3, <1>4, <2>1
  <2> QED
    BY <1>1, <2>2, InSeqElement
<1> QED
  BY <1>3, <1>4, <1>5, <1>6, <1>7

\* error() reports something else than cleared().
LEMMA FailedNotCleared ==
  ASSUME NEW r \in Response
  PROVE  Failed(r) # Cleared(r)
<1>1. /\ Failed(r).told = Append(r.told, "error")
      /\ Cleared(r).told = Append(r.told, "cleared")
  BY DEF Failed, Cleared, Response
<1>2. r.told \in Seq({"cleared", "error"}) /\ Len(r.told) \in Nat
  BY LenProperties DEF Response
<1>3. Append(r.told, "error") # Append(r.told, "cleared")
  BY <1>2, AppendProperties
<1> QED
  BY <1>1, <1>3

\* What is left to encode does not depend on the outcome of a response.
LEMMA OutcomeOnly ==
  ASSUME NEW r, NEW q, q.stage = r.stage, q.cont = r.cont, q.hdr = r.hdr, q.body = r.body,
         q.trl = r.trl
  PROVE  /\ StageOK(q) <=> StageOK(r)
         /\ Settled(q) <=> Settled(r)
         /\ Left(q) = Left(r)
         /\ \A st : Fits(st, q) <=> Fits(st, r)
BY DEF StageOK, Settled, Left, Fits

\* A feedback runs: the response it is for is no longer outstanding.
LEMMA RunFeedbackStep ==
  ASSUME SrvIInv, NEW id \in Ids, RunFeedback(id)
  PROVE  SrvIInv'
<1> USE DEF connVars, timerVars, writeVars, decodeVars, encodeVars
<1>t. TypeOK /\ ConnInv /\ Threads /\ Queues /\ Events /\ Stage /\ Outcomes
      /\ Bounded /\ Serial /\ Whole /\ EncoderOK
  BY DEF SrvIInv
<1>a. /\ ran' = ran \cup {id} /\ id \in Posted /\ ~polling
      /\ resp' = [resp EXCEPT ![id] = IF id \in acked THEN Cleared(@) ELSE Failed(@)]
      /\ UNCHANGED <<connVars, locals, polling, cur, env, user_close, persistent, missing,
                     decodeVars, encodeVars, nreq, req, ends>>
  BY DEF RunFeedback, HandlerTurn, Running
<1>f. /\ nreq \in Nat /\ id \in Nat /\ id <= nreq /\ id \notin InSeq(locals)
      /\ resp \in [Ids -> Response] /\ resp[id] \in Response
      /\ locals \in Seq(Ids) /\ \A i \in 1 .. Len(locals) : locals[i] \in Ids /\ locals[i] # id
      /\ ends \in Seq(Ids) /\ \A i \in 1 .. Len(ends) : ends[i] \in Ids
      /\ fb \subseteq Ids /\ acked \subseteq Ids /\ pcc \subseteq Ids
  <2>1. id \in Complete
    BY <1>a DEF Posted, Complete
  <2> QED
    BY <1>t, <2>1, LocalsAndComplete, InSeqElement, IdsAssumption, ElementOfSeq
    DEF TypeOK, ConnTypeOK
<1> DEFINE q == IF id \in acked THEN Cleared(resp[id]) ELSE Failed(resp[id])
<1>q. /\ q \in Response /\ q.held = resp[id].held /\ q.stage = resp[id].stage
      /\ q.cont = resp[id].cont /\ q.hdr = resp[id].hdr /\ q.body = resp[id].body
      /\ q.trl = resp[id].trl
      /\ Len(q.told) = Len(resp[id].told) + 1 /\ q.told # <<>>
      /\ "cleared" \in InSeq(q.told) => "cleared" \in InSeq(resp[id].told) \/ id \in acked
  <2>1. CASE id \in acked
    BY <1>f, <2>1, Telling
  <2>2. CASE id \notin acked
    <3>1. q = Failed(resp[id])
      BY <2>2
    <3>2. q # Cleared(resp[id])
      BY <1>f, <3>1, FailedNotCleared
    <3> QED
      BY <1>f, <3>1, <3>2, Telling
  <2> QED
    BY <2>1, <2>2
<1>r. /\ resp' = [resp EXCEPT ![id] = q]
      /\ resp'[id] = q /\ \A j \in Ids : j # id => resp'[j] = resp[j]
  BY <1>a, <1>f
<1> HIDE DEF q
<1>1. TypeOK'
  BY <1>t, <1>a, <1>q, <1>r DEF TypeOK, ConnTypeOK
<1>2. ConnInv'
  BY <1>t, <1>a, SameConnector
<1>3. Threads'
  BY <1>t, <1>a DEF Threads
<1>4. Queues'
  BY <1>t, <1>a DEF Queues, Posted
<1>5. Events'
  <2>1. ASSUME NEW j \in Ids, j > nreq PROVE resp'[j] = resp[j]
    <3>1. j # id
      BY <1>f, <2>1
    <3> QED
      BY <1>r, <3>1
  <2>2. UNCHANGED <<nreq, req, remotes, dec>>
    BY <1>a
  <2> QED
    BY <1>t, <2>1, <2>2, Zenon DEF Events
<1>e. \A j \in Ids : /\ resp'[j].held = resp[j].held /\ resp'[j].stage = resp[j].stage
                     /\ resp'[j].cont = resp[j].cont /\ resp'[j].hdr = resp[j].hdr
                     /\ resp'[j].body = resp[j].body /\ resp'[j].trl = resp[j].trl
  BY <1>q, <1>r
<1>s. \A j \in Ids : /\ StageOK(resp'[j]) <=> StageOK(resp[j])
                     /\ Settled(resp'[j]) <=> Settled(resp[j])
                     /\ Left(resp'[j]) = Left(resp[j])
                     /\ \A st : Fits(st, resp'[j]) <=> Fits(st, resp[j])
  BY <1>e, OutcomeOnly
<1>6. Stage'
  BY <1>t, <1>s DEF Stage
<1>7. Outcomes'
  <2>1. /\ \A i \in 1 .. Len(ends') : resp'[ends'[i]].stage = "ended"
        /\ \A i \in 1 .. Len(locals') : resp'[locals'[i]].ended =>
             resp'[locals'[i]].stage = "ended" \/ (stopped' /\ "fail" \in env')
        /\ \A j \in fb' \cup acked' : Settled(resp'[j])
        /\ \A j \in pcc' : stopped' \/ Settled(resp'[j])
    BY <1>t, <1>a, <1>f, <1>r, <1>e, <1>s DEF Outcomes
  <2>2. \A j \in Ids : "cleared" \in InSeq(resp'[j].told) => j \in acked'
    BY <1>t, <1>a, <1>q, <1>r DEF Outcomes
  <2>3. ASSUME "fail" \notin env', NEW j \in Ids
        PROVE  /\ Len(resp'[j].told) <= 1
               /\ resp'[j].told # <<>> => ~Outstanding(j)'
               /\ j <= nreq' /\ resp'[j].held /\ resp'[j].told = <<>> => Outstanding(j)'
    <3>0. /\ Len(resp[j].told) <= 1
          /\ resp[j].told # <<>> => ~Outstanding(j)
          /\ j <= nreq /\ resp[j].held /\ resp[j].told = <<>> => Outstanding(j)
      BY <1>t, <1>a, <2>3 DEF Outcomes
    <3>1. CASE j = id
      <4>1. Outstanding(j) /\ ~Outstanding(j)'
        BY <1>t, <1>a, <1>f, <3>1 DEF Outstanding, Posted, ConnInv, Apart, InSeq
      <4>2. resp[j].told = <<>> /\ Len(resp[j].told) = 0
        BY <3>0, <4>1, EmptySeq
      <4>3. Len(resp'[j].told) = 1 /\ resp'[j].told # <<>>
        BY <1>q, <1>r, <3>1, <4>2
      <4> QED
        BY <4>1, <4>3
    <3>2. CASE j # id
      <4>1. Outstanding(j)' <=> Outstanding(j)
        BY <1>a, <3>2 DEF Outstanding, Posted, InSeq
      <4> QED
        BY <1>a, <1>r, <3>0, <3>2, <4>1
    <3> QED
      BY <3>1, <3>2
  <2> QED
    BY <2>1, <2>2, <2>3 DEF Outcomes
<1>8. Bounded'
  <2>1. locals # <<>> => locals[1] \in Ids
    BY <1>f, EmptySeq, LenProperties
  <2> QED
    BY <1>t, <1>a, <1>s, <2>1 DEF Bounded
<1>9. Serial'
  <2>1. \A j \in Ids : Progress(j)' = Progress(j) /\ (Touched(j)' <=> Touched(j))
    BY <1>a DEF Progress, Touched, Last
  <2>2. /\ Coherent' <=> Coherent
        /\ Torso' <=> Torso
        /\ Complete' = Complete
        /\ Touched(turn)' <=> Touched(turn)
        /\ Last' = Last
    BY <1>a DEF Coherent, Orderly, Torso, Complete, Touched, Last
  <2>3. locals # <<>> => locals[1] \in Ids
    BY <1>f, EmptySeq, LenProperties
  <2>4. SUFFICES ASSUME Coherent PROVE Serial'
    BY <2>2 DEF Serial
  <2>5. /\ \A i \in 1 .. Len(locals) : Fits(Progress(locals[i]), resp'[locals[i]])
        /\ \A i \in 1 .. Len(locals) :
             resp'[locals[i]].cont \/ resp'[locals[i]].stage = "none" => ~Touched(locals[i])
    BY <1>t, <1>f, <1>e, <1>s, <2>4 DEF Serial
  <2> QED
    BY <1>t, <1>a, <1>f, <2>1, <2>2, <2>3, <2>4, <2>5 DEF Serial
<1>10. Whole' /\ EncoderOK'
  BY <1>t, <1>a, SameWire DEF EncoderOK, Orderly, Torso
<1> QED
  BY <1>1, <1>2, <1>3, <1>4, <1>5, <1>6, <1>7, <1>8, <1>9, <1>10 DEF SrvIInv

-----------------------------------------------------------------------------
(* notify_all: the user closes, a response is missing, the connector is lost. *)

\* The events of a request.
EventNames == {"headers", "body", "trailer", "finished", "error"}

\* Appending one event to a short sequence of them.
LEMMA EventAppends ==
  /\ \A a, e \in EventNames : Append(<<a>>, e) = <<a, e>>
  /\ \A a, b, e \in EventNames : Append(<<a, b>>, e) = <<a, b, e>>
  /\ \A e \in EventNames : Append(<<"headers", "body", "trailer">>, e) =
                           <<"headers", "body", "trailer", e>>
<1>1. ASSUME NEW a \in EventNames, NEW e \in EventNames PROVE Append(<<a>>, e) = <<a, e>>
  <2>1. /\ <<a>> \in Seq(EventNames) /\ Len(<<a>>) = 1
        /\ <<a, e>> \in Seq(EventNames) /\ Len(<<a, e>>) = 2
    OBVIOUS
  <2>2. /\ Append(<<a>>, e) \in Seq(EventNames) /\ Len(Append(<<a>>, e)) = 2
        /\ \A i \in 1 .. 2 : Append(<<a>>, e)[i] = <<a, e>>[i]
    BY <2>1, AppendProperties
  <2> QED
    BY <2>1, <2>2, SeqEqual
<1>2. ASSUME NEW a \in EventNames, NEW b \in EventNames, NEW e \in EventNames
      PROVE  Append(<<a, b>>, e) = <<a, b, e>>
  <2>1. /\ <<a, b>> \in Seq(EventNames) /\ Len(<<a, b>>) = 2
        /\ <<a, b, e>> \in Seq(EventNames) /\ Len(<<a, b, e>>) = 3
    OBVIOUS
  <2>2. /\ Append(<<a, b>>, e) \in Seq(EventNames) /\ Len(Append(<<a, b>>, e)) = 3
        /\ \A i \in 1 .. 3 : Append(<<a, b>>, e)[i] = <<a, b, e>>[i]
    BY <2>1, AppendProperties
  <2> QED
    BY <2>1, <2>2, SeqEqual
<1>3. ASSUME NEW e \in EventNames
      PROVE  Append(<<"headers", "body", "trailer">>, e) = <<"headers", "body", "trailer", e>>
  <2> DEFINE s == <<"headers", "body", "trailer">>
             u == <<"headers", "body", "trailer", e>>
  <2>1. s \in Seq(EventNames) /\ Len(s) = 3 /\ u \in Seq(EventNames) /\ Len(u) = 4
    BY DEF EventNames
  <2>2. /\ Append(s, e) \in Seq(EventNames) /\ Len(Append(s, e)) = 4
        /\ \A i \in 1 .. 4 : Append(s, e)[i] = u[i]
    BY <2>1, AppendProperties
  <2> QED
    BY <2>1, <2>2, SeqEqual
<1> QED
  BY <1>1, <1>2, <1>3

\* A request the parser is inside of is not over, and what ends it leaves a
\* sequence of events that is complete.
LEMMA Closing ==
  ASSUME NEW d \in {"begun", "headers", "body", "trailer"}, NEW q \in OpenEvents(d)
  PROVE  /\ InSeq(q) \cap {"finished", "error"} = {}
         /\ Append(q, "error") \in ClosedEvents
         /\ d # "begun" => Append(q, "finished") \in ClosedEvents
<1>0. /\ "headers" \in EventNames /\ "body" \in EventNames /\ "trailer" \in EventNames
      /\ "finished" \in EventNames /\ "error" \in EventNames
  BY DEF EventNames
<1>1. CASE q = <<>>
  <2>1. InSeq(q) = {}
    BY <1>1 DEF InSeq
  <2>2. d = "begun"
    BY <1>1 DEF OpenEvents
  <2>3. Append(q, "error") = <<"error">>
    BY <1>1
  <2> QED
    BY <2>1, <2>2, <2>3 DEF ClosedEvents
<1>2. CASE q = <<"headers">>
  <2>1. InSeq(q) = {"headers"}
    BY <1>2 DEF InSeq
  <2>2. Append(<<"headers">>, "error") = <<"headers", "error">>
    BY <1>0, EventAppends, Zenon
  <2>3. Append(<<"headers">>, "finished") = <<"headers", "finished">>
    BY <1>0, EventAppends, Zenon
  <2>4. Append(q, "error") \in ClosedEvents /\ Append(q, "finished") \in ClosedEvents
    BY <1>2, <2>2, <2>3 DEF ClosedEvents
  <2> QED
    BY <2>1, <2>4
<1>3. CASE q = <<"headers", "body">>
  <2>1. InSeq(q) \subseteq {"headers", "body"}
    BY <1>3 DEF InSeq
  <2>2. Append(<<"headers", "body">>, "error") = <<"headers", "body", "error">>
    BY <1>0, EventAppends, Zenon
  <2>3. Append(<<"headers", "body">>, "finished") = <<"headers", "body", "finished">>
    BY <1>0, EventAppends, Zenon
  <2>4. Append(q, "error") \in ClosedEvents /\ Append(q, "finished") \in ClosedEvents
    BY <1>3, <2>2, <2>3 DEF ClosedEvents
  <2> QED
    BY <2>1, <2>4
<1>4. CASE q = <<"headers", "trailer">>
  <2>1. InSeq(q) \subseteq {"headers", "trailer"}
    BY <1>4 DEF InSeq
  <2>2. Append(<<"headers", "trailer">>, "error") = <<"headers", "trailer", "error">>
    BY <1>0, EventAppends, Zenon
  <2>3. Append(<<"headers", "trailer">>, "finished") = <<"headers", "trailer", "finished">>
    BY <1>0, EventAppends, Zenon
  <2>4. Append(q, "error") \in ClosedEvents /\ Append(q, "finished") \in ClosedEvents
    BY <1>4, <2>2, <2>3 DEF ClosedEvents
  <2> QED
    BY <2>1, <2>4
<1>5. CASE q = <<"headers", "body", "trailer">>
  <2>1. InSeq(q) \subseteq {"headers", "body", "trailer"}
    BY <1>5 DEF InSeq
  <2>2. Append(<<"headers", "body", "trailer">>, "error") =
          <<"headers", "body", "trailer", "error">>
    BY <1>0, EventAppends, Zenon
  <2>3. Append(<<"headers", "body", "trailer">>, "finished") =
          <<"headers", "body", "trailer", "finished">>
    BY <1>0, EventAppends, Zenon
  <2>4. Append(q, "error") \in ClosedEvents /\ Append(q, "finished") \in ClosedEvents
    BY <1>5, <2>2, <2>3 DEF ClosedEvents
  <2> QED
    BY <2>1, <2>4
<1> QED
  BY <1>1, <1>2, <1>3, <1>4, <1>5 DEF OpenEvents

\* Complete sequences of events are events.
LEMMA EventsAreTyped ==
  /\ ClosedEvents \subseteq Request
  /\ \A d \in {"idle", "begun", "headers", "body", "trailer"} : OpenEvents(d) \subseteq Request
<1>0. <<>> \in Request
  BY EmptySeq DEF Request
<1>1. ClosedEvents \subseteq Request
  BY DEF ClosedEvents, Request
<1>2. {<<"headers">>, <<"headers", "body">>, <<"headers", "trailer">>,
       <<"headers", "body", "trailer">>} \subseteq Request
  BY DEF Request
<1>3. \A d \in {"idle", "begun", "headers", "body", "trailer"} : OpenEvents(d) \subseteq Request
  BY <1>0, <1>2 DEF OpenEvents
<1> QED
  BY <1>1, <1>3

\* notify_all ends the request the parser is inside of, if there is one.
LEMMA NotifyEvents ==
  ASSUME SrvIInv,
         req' = [id \in Ids |-> IF id \in InSeq(remotes) THEN WithTerminal(id, "error")
                                                          ELSE req[id]]
  PROVE  \A id \in Ids : /\ id > nreq => req'[id] = <<>>
                         /\ id <= nreq => req'[id] \in ClosedEvents
<1>t. /\ Events /\ nreq \in Nat
      /\ dec \in {"idle", "begun", "headers", "body", "trailer"}
      /\ remotes = <<>> \/ (remotes = <<nreq>> /\ dec # "idle")
      /\ \A id \in Ids : id \in Nat
  BY IdsAssumption, MaxReqAssumption DEF SrvIInv, Queues, TypeOK
<1>1. CASE remotes = <<>>
  <2>1. InSeq(remotes) = {}
    BY <1>1 DEF InSeq
  <2> QED
    BY <1>t, <1>1, <2>1 DEF Events
<1>2. CASE remotes = <<nreq>> /\ dec # "idle"
  <2>1. InSeq(remotes) = {nreq} /\ remotes # <<>>
    BY <1>2 DEF InSeq
  <2>2. \A id \in Ids : id # nreq =>
          /\ id > nreq => req'[id] = <<>>
          /\ id <= nreq => req'[id] \in ClosedEvents
    BY <1>t, <2>1 DEF Events
  <2>3. nreq \in Ids => req'[nreq] \in ClosedEvents
    <3> SUFFICES ASSUME nreq \in Ids PROVE req'[nreq] \in ClosedEvents
      OBVIOUS
    <3>1. req[nreq] \in OpenEvents(dec)
      BY <1>t, <2>1 DEF Events
    <3>2. /\ InSeq(req[nreq]) \cap {"finished", "error"} = {}
          /\ Append(req[nreq], "error") \in ClosedEvents
      BY <1>t, <1>2, <3>1, Closing
    <3>3. req'[nreq] = Append(req[nreq], "error")
      BY <2>1, <3>2 DEF WithTerminal, Terminated
    <3> QED
      BY <3>2, <3>3
  <2>4. ~(nreq > nreq)
    BY <1>t
  <2> TAKE id \in Ids
  <2>5. CASE id = nreq
    BY <2>3, <2>4, <2>5, Zenon
  <2>6. CASE id # nreq
    BY <2>2, <2>6, Zenon
  <2> QED
    BY <2>5, <2>6
<1> QED
  BY <1>t, <1>1, <1>2

\* notify_all, with the feedbacks in more: everything the handler still has is
\* told and forgotten.  It leaves a connector that is stopped, or one whose next
\* response follows the one that is reported missing.
LEMMA NotifyAllStep ==
  ASSUME SrvIInv, ConnInv', Threads', NEW more, more = {} \/ more = pcc,
         NotifyAll(more),
         UNCHANGED <<sent, fb, acked, turn, env, persistent, dec, mode, decoding_error, crashed,
                     encodeVars, nreq, ends>>,
         ran' = ran \cup more, pcc' = pcc \ more, nacked' = nacked \cup more,
         stopped => stopped', Reach' <= Reach,
         polling' \in BOOLEAN, cur' \in Ids \cup {0}, user_close' \in BOOLEAN,
         missing' \subseteq Ids, missing \subseteq missing',
         ~alive' /\ ~user_close' => pcc' = {},
         Coherent' => Coherent /\ locals # <<>> /\ locals[1] \in missing'
  PROVE  SrvIInv'
<1> USE DEF encodeVars
<1>t. TypeOK /\ ConnInv /\ Threads /\ Queues /\ Events /\ Stage /\ Outcomes
      /\ Bounded /\ Serial /\ Whole /\ EncoderOK
  BY DEF SrvIInv
<1>l. /\ nreq \in Nat /\ nreq <= MaxReq /\ turn \in Nat /\ Len(locals) \in Nat
      /\ \A i \in 1 .. Len(locals) :
           locals[i] \in Ids /\ locals[i] \in Nat /\ turn <= locals[i] /\ locals[i] <= nreq
      /\ \A id \in InSeq(locals) : id \in Ids /\ turn <= id /\ id <= nreq
      /\ \A id \in Complete : id \in Ids /\ id < turn /\ id <= nreq /\ id \notin InSeq(locals)
  BY LocalsAndComplete
<1>f. /\ resp \in [Ids -> Response] /\ locals \in Seq(Ids)
      /\ ends \in Seq(Ids) /\ \A i \in 1 .. Len(ends) : ends[i] \in Ids
      /\ fb \subseteq Ids /\ acked \subseteq Ids /\ pcc \subseteq Ids
      /\ \A id \in Ids : id \in Nat
  BY <1>t, ElementOfSeq, IdsAssumption DEF TypeOK, ConnTypeOK
<1>a. /\ locals' = <<>> /\ remotes' = <<>>
      /\ resp' = [id \in Ids |-> IF id \in more \/ (id \in InSeq(locals) /\ Locks(id))
                                 THEN Failed(resp[id]) ELSE resp[id]]
      /\ req' = [id \in Ids |-> IF id \in InSeq(remotes) THEN WithTerminal(id, "error")
                                                          ELSE req[id]]
      /\ Len(locals') = 0 /\ InSeq(locals') = {}
  <2>1. Len(<<>>) = 0 /\ InSeq(<<>>) = {}
    BY EmptySeq DEF InSeq
  <2> QED
    BY <2>1 DEF NotifyAll
<1> DEFINE hit(id) == id \in more \/ (id \in InSeq(locals) /\ Locks(id))
<1>h. \A id \in Ids : hit(id) => Outstanding(id) /\ id <= nreq
  BY <1>l DEF Outstanding, Complete
<1>r. \A id \in Ids :
        /\ ~hit(id) => resp'[id] = resp[id]
        /\ hit(id) => resp'[id] = Failed(resp[id])
  BY <1>a
<1>k. \A id \in Ids : hit(id) <=> id \in more \/ (id \in InSeq(locals) /\ Locks(id))
  OBVIOUS
<1> HIDE DEF hit
<1>e. \A id \in Ids :
        /\ resp'[id] \in Response
        /\ resp'[id].held = resp[id].held /\ resp'[id].stage = resp[id].stage
        /\ resp'[id].cont = resp[id].cont /\ resp'[id].hdr = resp[id].hdr
        /\ resp'[id].body = resp[id].body /\ resp'[id].trl = resp[id].trl
        /\ "cleared" \in InSeq(resp'[id].told) => "cleared" \in InSeq(resp[id].told)
        /\ hit(id) => Len(resp'[id].told) = Len(resp[id].told) + 1 /\ resp'[id].told # <<>>
  <2> TAKE id \in Ids
  <2>1. resp[id] \in Response
    BY <1>f
  <2>2. CASE hit(id)
    <3>1. resp'[id] = Failed(resp[id])
      BY <1>r, <2>2
    <3> DEFINE q == Failed(resp[id])
    <3>2. /\ q \in Response /\ q.ended = TRUE /\ q.held = resp[id].held
          /\ q.stage = resp[id].stage /\ q.cont = resp[id].cont /\ q.hdr = resp[id].hdr
          /\ q.body = resp[id].body /\ q.trl = resp[id].trl
          /\ Len(q.told) = Len(resp[id].told) + 1 /\ q.told # <<>>
          /\ "cleared" \in InSeq(q.told) =>
               "cleared" \in InSeq(resp[id].told) \/ q = Cleared(resp[id])
      BY <2>1, Telling, ZenonT(60)
    <3>3. q # Cleared(resp[id])
      BY <2>1, FailedNotCleared, Zenon
    <3>4. resp'[id] = q
      BY <3>1
    <3> HIDE DEF q
    <3> QED
      BY <3>2, <3>3, <3>4, Zenon
  <2>3. CASE ~hit(id)
    BY <1>r, <2>1, <2>3
  <2> QED
    BY <2>2, <2>3
<1>s. \A id \in Ids : /\ StageOK(resp'[id]) <=> StageOK(resp[id])
                      /\ Settled(resp'[id]) <=> Settled(resp[id])
  BY <1>e, OutcomeOnly
<1>v. \A id \in Ids : /\ id > nreq => req'[id] = <<>>
                      /\ id <= nreq => req'[id] \in ClosedEvents
  BY <1>a, NotifyEvents
<1>1. TypeOK'
  <2>1. locals' \in Seq(Ids) /\ remotes' \in Seq(Ids)
    BY <1>a, EmptySeq
  <2>2. resp' \in [Ids -> Response]
    BY <1>a, <1>e
  <2>3. req' \in [Ids -> Request]
    <3>1. <<>> \in Request
      BY EmptySeq DEF Request
    <3>2. \A id \in Ids : req'[id] \in Request
      BY <1>f, <1>l, <1>v, <3>1, EventsAreTyped
    <3> QED
      BY <1>a, <3>2
  <2>4. ran' \subseteq Ids
    BY <1>t, <1>f DEF TypeOK
  <2> QED
    BY <1>t, <2>1, <2>2, <2>3, <2>4 DEF TypeOK, ConnInv
<1>2. Queues'
  BY <1>t, <1>a, <1>l DEF Queues
<1>3. Events'
  <2>1. \A id \in Ids : id > nreq => resp'[id] = FreshResponse
    BY <1>t, <1>h, <1>r, <1>f, <1>l DEF Events
  <2> QED
    BY <1>a, <1>v, <2>1 DEF Events
<1>4. Stage'
  BY <1>t, <1>s DEF Stage
<1>5. Outcomes'
  <2>1. /\ \A i \in 1 .. Len(ends') : resp'[ends'[i]].stage = "ended"
        /\ \A i \in 1 .. Len(locals') : resp'[locals'[i]].ended =>
             resp'[locals'[i]].stage = "ended" \/ (stopped' /\ "fail" \in env')
        /\ \A j \in fb' \cup acked' : Settled(resp'[j])
        /\ \A j \in pcc' : stopped' \/ Settled(resp'[j])
    BY <1>t, <1>a, <1>f, <1>e, <1>s DEF Outcomes
  <2>2. \A j \in Ids : "cleared" \in InSeq(resp'[j].told) => j \in acked'
    BY <1>t, <1>e DEF Outcomes
  <2>3. ASSUME "fail" \notin env', NEW j \in Ids
        PROVE  /\ Len(resp'[j].told) <= 1
               /\ resp'[j].told # <<>> => ~Outstanding(j)'
               /\ j <= nreq' /\ resp'[j].held /\ resp'[j].told = <<>> => Outstanding(j)'
    <3>0. /\ Len(resp[j].told) <= 1
          /\ resp[j].told # <<>> => ~Outstanding(j)
          /\ j <= nreq /\ resp[j].held /\ resp[j].told = <<>> => Outstanding(j)
      BY <1>t, <2>3 DEF Outcomes
    <3>1. CASE hit(j)
      <4>1. Outstanding(j)
        BY <1>h, <3>1
      <4>2. resp[j].told = <<>> /\ Len(resp[j].told) = 0
        BY <3>0, <4>1, EmptySeq
      <4>a. Len(resp'[j].told) = Len(resp[j].told) + 1 /\ resp'[j].told # <<>>
        BY <1>e, <3>1, Zenon
      <4>3. Len(resp'[j].told) = 1 /\ resp'[j].told # <<>>
        BY <4>a, <4>2
      <4>4. ~Outstanding(j)'
        <5>1. CASE j \in more
          BY <1>t, <1>a, <5>1 DEF Outstanding, Posted, ConnInv, Apart
        <5>2. CASE j \in InSeq(locals) /\ j \notin more
          <6>1. j \notin Complete
            BY <1>l, <5>2
          <6> QED
            BY <1>a, <5>2, <6>1 DEF Outstanding, Posted, Complete
        <5> QED
          BY <1>k, <3>1, <5>1, <5>2
      <4> QED
        BY <4>3, <4>4
    <3>2. CASE ~hit(j)
      <4>1. resp'[j] = resp[j]
        BY <1>r, <3>2
      <4>2. Outstanding(j)' => Outstanding(j)
        BY <1>a DEF Outstanding, Posted
      <4>3. Outstanding(j) /\ resp[j].held => Outstanding(j)'
        BY <1>a, <1>k, <3>2 DEF Outstanding, Posted, Locks
      <4> QED
        BY <3>0, <4>1, <4>2, <4>3
    <3> QED
      BY <3>1, <3>2
  <2> QED
    BY <2>1, <2>2, <2>3 DEF Outcomes
<1>6. Bounded'
  <2>1. Len(sent) \in Nat
    BY <1>t, LenProperties DEF ConnInv, ConnTypeOK
  <2>2. CASE locals = <<>>
    BY <1>t, <1>a, <2>2 DEF Bounded
  <2>3. CASE locals # <<>>
    <3>1. /\ locals[1] \in Ids /\ locals[1] \in Nat /\ locals[1] <= nreq
          /\ Left(resp[locals[1]]) \in Nat
      BY <1>f, <1>l, <2>3, EmptySeq, LeftBound
    <3>2. Len(sent) + Left(resp[locals[1]]) <= 5 * locals[1]
      BY <1>t, <2>3 DEF Bounded
    <3>3. Len(sent) <= 5 * nreq
      BY <1>l, <2>1, <3>1, <3>2
    <3> QED
      BY <1>a, <3>3 DEF Bounded
  <2> QED
    BY <2>2, <2>3
<1>c. Complete' = Complete
  BY DEF Complete
<1>7. Serial'
  <2> SUFFICES ASSUME Coherent' PROVE Serial'
    BY DEF Serial
  <2>1. Coherent /\ locals # <<>> /\ locals[1] \in missing'
    OBVIOUS
  <2>2. Last' = Last /\ (Touched(turn)' <=> Touched(turn)) /\ (Torso => Torso')
    BY DEF Last, Touched, Torso
  <2>3. (/\ \A i \in 1 .. Len(locals) : Fits(Progress(locals[i]), resp[locals[i]])
         /\ \A i \in 1 .. Len(locals) :
              resp[locals[i]].cont \/ resp[locals[i]].stage = "none" => ~Touched(locals[i]))'
    BY <1>a
  <2>4. ~stopped' /\ sent' # <<>> => Last' \in Item /\ Last'.id \in Complete' \cup missing'
    <3> SUFFICES ASSUME ~stopped', sent # <<>>
                 PROVE  Last \in Item /\ Last.id \in Complete \cup missing'
      BY <1>c, <2>2
    <3>1. Last \in Item
      <4>1. sent \in Seq(Item) /\ Len(sent) \in 1 .. Len(sent)
        BY <1>t, LenProperties, EmptySeq DEF ConnInv, ConnTypeOK
      <4> QED
        BY <4>1, ElementOfSeq DEF Last
    <3>2. CASE Last.id = locals[1]
      BY <2>1, <3>1, <3>2
    <3>3. CASE Last.id # locals[1]
      BY <1>t, <2>1, <3>1, <3>3 DEF Serial
    <3> QED
      BY <3>2, <3>3
  <2>5. ~Torso' => enc'.st = "ZERO"
    <3> SUFFICES ASSUME ~Torso' PROVE enc.st = "ZERO"
      OBVIOUS
    <3>1. ~Touched(locals[1])
      <4>1. sent # <<>> => Len(sent) \in 1 .. Len(sent)
        BY <1>t, LenProperties, EmptySeq DEF ConnInv, ConnTypeOK
      <4> QED
        BY <2>1, <4>1 DEF Torso, Touched, Last
    <3>2. Progress(locals[1]) = "ZERO"
      BY <3>1 DEF Progress
    <3> QED
      BY <1>t, <2>1, <2>2, <3>2 DEF Serial
  <2>6. Touched(turn)' => Last'.part # "E"
    BY <1>t, <2>1, <2>2 DEF Serial
  <2> QED
    BY <1>a, <2>3, <2>4, <2>5, <2>6 DEF Serial
<1>8. Whole'
  BY <1>t, <1>c, WholeShrinks
<1>9. EncoderOK'
  BY <1>t DEF EncoderOK, Orderly, Torso
<1> QED
  BY <1>1, <1>2, <1>3, <1>4, <1>5, <1>6, <1>7, <1>8, <1>9 DEF SrvIInv

\* close() stops the connector if it is still there.
LEMMA CloseStep ==
  ASSUME SrvIInv, Uncut, Close
  PROVE  SrvIInv'
<1>t. TypeOK /\ ConnInv /\ Threads /\ polling \in BOOLEAN /\ cur \in Ids \cup {0}
      /\ ConnTypeOK /\ Open /\ missing \subseteq Ids
  BY DEF SrvIInv, TypeOK, ConnInv
<1>a. /\ "close" \in env /\ user_close' = TRUE /\ ~polling /\ ~Unreferenced
      /\ ConnClose \/ (~alive /\ UNCHANGED connVars)
      /\ NotifyAll({})
      /\ UNCHANGED <<env, polling, cur, persistent, missing, dec, mode, decoding_error, crashed,
                     encodeVars, nreq, ends, ran>>
  BY DEF Close, UserTurn, Running
<1>1. ConnInv'
  <2>1. CASE ConnClose
    BY <1>t, <1>a, <2>1, ReadSteps DEF HandlerCloses
  <2>2. CASE ~alive /\ UNCHANGED connVars
    BY <1>t, <2>2, SameConnector
  <2> QED
    BY <1>a, <2>1, <2>2
<1>2. /\ UNCHANGED writeVars /\ stopped' = TRUE /\ alive' = alive /\ rd' = rd /\ fired' = fired
      /\ ~alive => armed' = armed
  BY <1>t, <1>a DEF ConnClose, Stop, connVars, timerVars, Open, ConnTypeOK, Uncut
<1>3. Threads'
  BY <1>t, <1>a, <1>2 DEF Threads, writeVars
<1>4. Reach' <= Reach
  BY <1>t, <1>2, ReachShrinks
<1>5. /\ ran' = ran \cup {} /\ pcc' = pcc \ {} /\ nacked' = nacked \cup {}
      /\ UNCHANGED <<sent, fb, acked, turn>>
  BY <1>a, <1>2 DEF writeVars
<1>6. ~Coherent'
  BY <1>a, <1>2 DEF Coherent, Orderly
<1> QED
  BY <1>t, <1>a, <1>1, <1>2, <1>3, <1>4, <1>5, <1>6, NotifyAllStep

\* The response at the front is gone: it is missing, and the others are told.
LEMMA PollExpiredStep ==
  ASSUME SrvIInv, PollExpired
  PROVE  SrvIInv'
<1>t. TypeOK /\ ConnInv /\ Threads /\ polling \in BOOLEAN /\ user_close \in BOOLEAN
      /\ missing \subseteq Ids /\ locals \in Seq(Ids) /\ ConnTypeOK
      /\ Queues
  BY DEF SrvIInv, TypeOK, ConnInv
<1>a. /\ polling /\ missing' = missing \cup {Head(locals)}
      /\ NotifyAll({})
      /\ polling' = FALSE /\ cur' = 0
      /\ UNCHANGED <<connVars, env, user_close, persistent, dec, mode, decoding_error, crashed,
                     encodeVars, nreq, ends, ran>>
  BY DEF PollExpired, StopPolling
<1>b. locals # <<>> /\ ~Unreferenced
  BY <1>t, <1>a DEF Threads
<1>c. Head(locals) = locals[1] /\ Head(locals) \in Ids
  BY <1>t, <1>b, HeadTailProperties
<1>1. ConnInv'
  BY <1>t, <1>a, SameConnector
<1>2. Threads'
  BY <1>t, <1>a DEF Threads, connVars, timerVars, writeVars
<1>3. /\ ran' = ran \cup {} /\ pcc' = pcc \ {} /\ nacked' = nacked \cup {}
      /\ UNCHANGED <<sent, fb, acked, turn, stopped, alive>>
      /\ ~alive' /\ ~user_close' => pcc' = {}
  BY <1>t, <1>a DEF connVars, timerVars, writeVars, Queues
<1>4. Reach' <= Reach
  BY <1>t, <1>a, ReachShrinks DEF connVars, ConnTypeOK
<1>5. Coherent' => Coherent /\ locals # <<>> /\ locals[1] \in missing'
  BY <1>a, <1>b, <1>c, <1>3 DEF Coherent, Orderly
<1> QED
  BY <1>t, <1>a, <1>c, <1>1, <1>2, <1>3, <1>4, <1>5, NotifyAllStep

\* The connector is gone: nothing more after a close by the user, an error to
\* everybody otherwise.
LEMMA OnConnectorNulledStep ==
  ASSUME SrvIInv, OnConnectorNulled
  PROVE  SrvIInv'
<1>t. TypeOK /\ ConnInv /\ Threads /\ polling \in BOOLEAN /\ user_close \in BOOLEAN
      /\ missing \subseteq Ids /\ ConnTypeOK /\ cur \in Ids \cup {0} /\ persistent \in BOOLEAN
      /\ mode \in {"idle", "start", "callback", "parse"} /\ acked \subseteq Ids
  BY DEF SrvIInv, TypeOK, ConnInv, ConnTypeOK
<1>a. /\ ~polling /\ mode = "idle" /\ Destroyed(~user_close)
      /\ UNCHANGED <<polling, cur, env, user_close, persistent, missing, dec, mode,
                     decoding_error, crashed, encodeVars, nreq, ends>>
  BY DEF OnConnectorNulled, Running
<1>b. /\ alive /\ rd = "none" /\ ~writing /\ ~armed /\ ~fired /\ alive' = FALSE
      /\ UNCHANGED <<stopped, rd, timerVars, writing, out, fb, ser, turn, wire, sent, acked>>
  BY <1>a DEF Destroyed, Unreferenced
<1>1. ConnInv'
  BY <1>t, <1>a, LosesConnectorStep DEF LosesConnector
<1>2. Threads'
  BY <1>t, <1>a, <1>b DEF Threads, timerVars
<1>3. Reach' <= Reach
  <2>1. Reach \in Nat /\ Reach' = Reach
    BY <1>t, <1>b, LenProperties DEF Reach, ConnTypeOK
  <2> QED
    BY <2>1
<1>4. CASE user_close
  <2>1. UNCHANGED <<req, resp, locals, remotes, ran, pcc, nacked>>
    BY <1>4, <1>a DEF OnConnectorNulled, Destroyed
  <2>2. /\ pcc' \subseteq pcc /\ acked \subseteq acked' /\ nacked \subseteq nacked'
        /\ Complete' = Complete
        /\ acked' \cup fb' \subseteq acked \cup fb \cup (IF stopped THEN {} ELSE pcc)
    BY <1>b, <2>1 DEF Complete
  <2> QED
    BY <1>t, <1>a, <1>b, <1>1, <1>2, <1>3, <1>4, <2>1, <2>2, ConnectorStep
    DEF userVars
<1>5. CASE ~user_close
  <2>1. /\ NotifyAll(pcc) /\ ran' = ran \cup pcc
        /\ nacked' = nacked \cup pcc /\ pcc' = {}
    BY <1>5, <1>a DEF OnConnectorNulled, Destroyed
  <2>2. pcc' = pcc \ pcc
    BY <2>1
  <2>3. ~Coherent'
    BY <1>b DEF Coherent
  <2> QED
    BY <1>t, <1>a, <1>b, <1>1, <1>2, <1>3, <2>1, <2>2, <2>3, NotifyAllStep
<1> QED
  BY <1>4, <1>5

-----------------------------------------------------------------------------
(* Decoding. *)

\* get_current() finds the request the parser is inside of exactly when
\* remote_objects is not empty.
LEMMA Current ==
  ASSUME SrvIInv
  PROVE  /\ NoCurrent <=> remotes = <<>>
         /\ remotes # <<>> =>
              /\ remotes = <<nreq>> /\ Head(remotes) = nreq /\ Tail(remotes) = <<>>
              /\ nreq \in Ids /\ ~decoding_error /\ dec # "idle"
              /\ req[nreq] \in OpenEvents(dec) /\ ~Terminated(nreq)
<1>t. /\ remotes = <<>> \/ (remotes = <<nreq>> /\ nreq > 0 /\ dec # "idle" /\ ~decoding_error)
      /\ nreq \in 0 .. MaxReq /\ dec \in {"idle", "begun", "headers", "body", "trailer"}
      /\ Events
  BY DEF SrvIInv, Queues, TypeOK
<1>1. CASE remotes = <<>>
  BY <1>1 DEF NoCurrent
<1>2. CASE remotes = <<nreq>> /\ nreq > 0 /\ dec # "idle" /\ ~decoding_error
  <2>1. remotes # <<>> /\ Head(remotes) = nreq /\ Tail(remotes) = <<>>
    BY <1>2
  <2>2. nreq \in Ids
    BY <1>t, <1>2, MaxReqAssumption
  <2>3. req[nreq] \in OpenEvents(dec)
    BY <1>t, <2>1, <2>2, MaxReqAssumption DEF Events
  <2>4. ~Terminated(nreq)
    BY <1>t, <1>2, <2>3, Closing DEF Terminated
  <2> QED
    BY <1>2, <2>1, <2>2, <2>3, <2>4 DEF NoCurrent
<1> QED
  BY <1>t, <1>1, <1>2

\* A parser event changes nothing but the events of requests and the state of
\* the decoder.
LEMMA DecoderStep ==
  ASSUME SrvIInv,
         UNCHANGED <<connVars, locals, polling, cur, env, user_close, missing, crashed,
                     encodeVars, nreq, resp, ends, ran>>,
         ParserTurn, mode' = "parse", persistent' \in BOOLEAN, decoding_error' \in BOOLEAN,
         dec' \in {"idle", "begun", "headers", "body", "trailer"},
         remotes' = <<>> \/ (remotes' = remotes /\ dec' # "idle" /\ ~decoding_error'),
         req' \in [Ids -> Request],
         \A id \in Ids :
           /\ id > nreq => req'[id] = <<>>
           /\ id <= nreq => req'[id] \in IF remotes' # <<>> /\ id = nreq THEN OpenEvents(dec')
                                         ELSE ClosedEvents
  PROVE  SrvIInv'
<1> USE DEF connVars, timerVars, writeVars, encodeVars
<1>t. TypeOK /\ ConnInv /\ Threads /\ Queues /\ Events /\ Stage /\ Outcomes
      /\ Bounded /\ Serial /\ Whole /\ EncoderOK
  BY DEF SrvIInv
<1>1. TypeOK'
  <2>1. remotes' \in Seq(Ids)
    BY <1>t, EmptySeq DEF TypeOK
  <2> QED
    BY <1>t, <2>1 DEF TypeOK, ConnTypeOK
<1>2. ConnInv'
  BY <1>t, SameConnector
<1>3. Threads'
  BY <1>t DEF Threads, ParserTurn, Unreferenced
<1>4. Queues'
  BY <1>t DEF Queues, Threads, ParserTurn
<1>5. Events' /\ Stage' /\ Bounded' /\ EncoderOK'
  BY <1>t DEF Events, Stage, Bounded, EncoderOK, Orderly, Torso
<1>6. Outcomes'
  <2>1. \A id \in Ids : Outstanding(id)' <=> Outstanding(id)
    BY DEF Outstanding, Posted, InSeq
  <2> QED
    BY <1>t, <2>1 DEF Outcomes
<1>7. Serial'
  <2>1. /\ Coherent' <=> Coherent
        /\ Torso' <=> Torso
        /\ Touched(turn)' <=> Touched(turn)
        /\ Complete' = Complete
    BY DEF Coherent, Orderly, Torso, Touched, Last, Complete
  <2>2. \A id : Progress(id)' = Progress(id) /\ (Touched(id)' <=> Touched(id))
    BY DEF Progress, Touched, Last
  <2> QED
    BY <1>t, <2>1, <2>2 DEF Serial, Last
<1>8. Whole'
  BY <1>t, SameWire
<1> QED
  BY <1>1, <1>2, <1>3, <1>4, <1>5, <1>6, <1>7, <1>8 DEF SrvIInv

\* One event more of the current request, or none when there is no current one.
LEMMA DecodedStep ==
  ASSUME SrvIInv, NEW from, NEW to \in {"idle", "headers", "body", "trailer"}, NEW event, NEW left,
         Decoded(from, to, event, left), persistent' \in BOOLEAN,
         from \subseteq {"begun", "headers", "body", "trailer"},
         \/ to = "idle" /\ event = "finished" /\ left = Tail(remotes) /\ "begun" \notin from
         \/ to # "idle" /\ event # "finished" /\ left = remotes /\
              \A d \in from : \A q \in OpenEvents(d) : Append(q, event) \in OpenEvents(to)
  PROVE  SrvIInv'
<1>a. /\ ParserTurn /\ dec \in from /\ dec' = to /\ mode' = "parse"
      /\ decoding_error' = (decoding_error \/ remotes = <<>>)
      /\ req' = IF NoCurrent THEN req
                ELSE [req EXCEPT ![Head(remotes)] =
                        IF event = "finished" THEN WithTerminal(Head(remotes), event)
                        ELSE Append(@, event)]
      /\ remotes' = IF NoCurrent THEN remotes ELSE left
      /\ UNCHANGED <<connVars, locals, polling, cur, env, user_close, missing, crashed,
                     encodeVars, nreq, resp, ends, ran>>
  BY DEF Decoded, CurrentError
<1>t. /\ Events /\ decoding_error \in BOOLEAN /\ req \in [Ids -> Request]
      /\ nreq \in Nat /\ \A id \in Ids : id \in Nat
      /\ dec \in {"begun", "headers", "body", "trailer"}
  BY <1>a, IdsAssumption, MaxReqAssumption DEF SrvIInv, TypeOK
<1>1. CASE remotes = <<>>
  <2>1. req' = req /\ remotes' = <<>>
    BY <1>1, <1>a, Current
  <2>2. \A id \in Ids : /\ id > nreq => req[id] = <<>>
                        /\ id <= nreq => req[id] \in ClosedEvents
    BY <1>t, <1>1 DEF Events
  <2> QED
    BY <1>a, <1>t, <2>1, <2>2, DecoderStep
<1>2. CASE remotes # <<>>
  <2>c. /\ ~NoCurrent /\ remotes = <<nreq>> /\ Head(remotes) = nreq /\ Tail(remotes) = <<>>
        /\ nreq \in Ids /\ ~decoding_error
        /\ req[nreq] \in OpenEvents(dec) /\ ~Terminated(nreq)
    BY <1>2, Current
  <2>1. req' = [req EXCEPT ![nreq] = Append(req[nreq], event)] /\ remotes' = left
    BY <1>a, <2>c DEF WithTerminal
  <2>2. /\ req'[nreq] = Append(req[nreq], event)
        /\ \A id \in Ids : id # nreq => req'[id] = req[id]
    BY <1>t, <2>c, <2>1
  <2>3. \A id \in Ids : id # nreq =>
          /\ id > nreq => req'[id] = <<>>
          /\ id <= nreq => req'[id] \in ClosedEvents
    BY <1>t, <2>2 DEF Events
  <2>4. ~(nreq > nreq)
    BY <1>t
  <2>5. CASE to = "idle" /\ event = "finished" /\ left = Tail(remotes) /\ "begun" \notin from
    <3>1. remotes' = <<>> /\ dec # "begun"
      BY <1>a, <2>1, <2>5, <2>c
    <3>2. req'[nreq] \in ClosedEvents
      BY <1>t, <2>2, <2>5, <2>c, <3>1, Closing
    <3>3. \A id \in Ids : /\ id > nreq => req'[id] = <<>>
                          /\ id <= nreq => req'[id] \in ClosedEvents
      BY <2>3, <2>4, <3>2
    <3>4. req' \in [Ids -> Request]
      BY <1>t, <2>1, <2>2, <3>2, EventsAreTyped
    <3> QED
      BY <1>a, <1>t, <3>1, <3>3, <3>4, DecoderStep
  <2>6. CASE to # "idle" /\ event # "finished" /\ left = remotes /\
              \A d \in from : \A q \in OpenEvents(d) : Append(q, event) \in OpenEvents(to)
    <3>1. remotes' = remotes /\ dec' # "idle" /\ ~decoding_error'
      BY <1>a, <1>2, <2>1, <2>6, <2>c
    <3>2. req'[nreq] \in OpenEvents(dec')
      BY <1>a, <2>2, <2>6, <2>c
    <3>3. \A id \in Ids :
            /\ id > nreq => req'[id] = <<>>
            /\ id <= nreq => req'[id] \in IF remotes' # <<>> /\ id = nreq THEN OpenEvents(dec')
                                          ELSE ClosedEvents
      BY <1>2, <2>3, <2>4, <3>1, <3>2
    <3>4. req' \in [Ids -> Request]
      <4>1. req'[nreq] \in Request
        BY <1>a, <3>2, EventsAreTyped
      <4> QED
        BY <1>t, <2>1, <2>2, <4>1
    <3> QED
      BY <1>a, <1>t, <3>1, <3>3, <3>4, DecoderStep
  <2> QED
    BY <2>5, <2>6
<1> QED
  BY <1>1, <1>2

\* Headers, body, trailer and end of the current request.
LEMMA DecodedSteps ==
  ASSUME SrvIInv,
         (\E keep \in BOOLEAN : DecodedHeaders(keep)) \/ DecodedBody
         \/ DecodedTrailer \/ DecodingEnd
  PROVE  SrvIInv'
<1>0. /\ "headers" \in EventNames /\ "body" \in EventNames /\ "trailer" \in EventNames
  BY DEF EventNames
<1>p. persistent \in BOOLEAN
  BY DEF SrvIInv, TypeOK
<1>1. ASSUME NEW keep \in BOOLEAN, DecodedHeaders(keep) PROVE SrvIInv'
  <2>1. /\ Decoded({"begun"}, "headers", "headers", remotes)
        /\ persistent' = (persistent /\ (keep \/ NoCurrent))
    BY <1>1 DEF DecodedHeaders
  <2>2. \A d \in {"begun"} : \A q \in OpenEvents(d) : Append(q, "headers") \in OpenEvents("headers")
    BY DEF OpenEvents
  <2>3. persistent' \in BOOLEAN
    BY <1>p, <2>1, Zenon DEF NoCurrent
  <2> QED
    BY <2>1, <2>2, <2>3, DecodedStep
<1>2. CASE DecodedBody
  <2>1. Decoded({"headers"}, "body", "body", remotes) /\ persistent' = persistent
    BY <1>2 DEF DecodedBody
  <2>2. Append(<<"headers">>, "body") = <<"headers", "body">>
    BY <1>0, EventAppends, Zenon
  <2>3. \A d \in {"headers"} : \A q \in OpenEvents(d) : Append(q, "body") \in OpenEvents("body")
    BY <2>2 DEF OpenEvents
  <2> QED
    BY <1>p, <2>1, <2>3, DecodedStep
<1>3. CASE DecodedTrailer
  <2>1. Decoded({"headers", "body"}, "trailer", "trailer", remotes) /\ persistent' = persistent
    BY <1>3 DEF DecodedTrailer
  <2>2. Append(<<"headers">>, "trailer") = <<"headers", "trailer">>
    BY <1>0, EventAppends, Zenon
  <2>3. Append(<<"headers", "body">>, "trailer") = <<"headers", "body", "trailer">>
    BY <1>0, EventAppends, Zenon
  <2>4. \A d \in {"headers", "body"} : \A q \in OpenEvents(d) :
          Append(q, "trailer") \in OpenEvents("trailer")
    BY <2>2, <2>3 DEF OpenEvents
  <2> QED
    BY <1>p, <2>1, <2>4, DecodedStep
<1>4. CASE DecodingEnd
  <2>1. /\ Decoded({"headers", "body", "trailer"}, "idle", "finished", Tail(remotes))
        /\ persistent' = persistent
    BY <1>4 DEF DecodingEnd
  <2> QED
    BY <1>p, <2>1, DecodedStep
<1> QED
  BY <1>1, <1>2, <1>3, <1>4

\* A new request and its response are handed to the user.
LEMMA DecodingStartStep ==
  ASSUME SrvIInv, DecodingStart
  PROVE  SrvIInv'
<1> USE DEF connVars, timerVars, writeVars, encodeVars
<1>t. TypeOK /\ ConnInv /\ Threads /\ Queues /\ Events /\ Stage /\ Outcomes
      /\ Bounded /\ Serial /\ Whole /\ EncoderOK
  BY DEF SrvIInv
<1> DEFINE n == nreq + 1
           r == [FreshResponse EXCEPT !.held = TRUE]
<1>a. /\ mode # "idle" /\ ~polling /\ dec = "idle" /\ nreq < MaxReq
      /\ dec' = "begun" /\ mode' = "callback" /\ decoding_error' = FALSE /\ nreq' = n
      /\ locals' = Append(locals, n) /\ remotes' = Append(remotes, n)
      /\ resp' = [resp EXCEPT ![n].held = TRUE]
      /\ UNCHANGED <<connVars, polling, cur, env, user_close, persistent, missing, crashed,
                     encodeVars, req, ends, ran>>
  BY DEF DecodingStart, ParserTurn, Running
<1>l. /\ nreq \in Nat /\ turn \in Nat /\ Len(locals) \in Nat
      /\ \A i \in 1 .. Len(locals) :
           locals[i] \in Ids /\ locals[i] \in Nat /\ turn <= locals[i] /\ locals[i] <= nreq
      /\ \A id \in Complete : id \in Ids /\ id < turn /\ id <= nreq /\ id \notin InSeq(locals)
  BY LocalsAndComplete
<1>f. /\ n \in Ids /\ n \in Nat /\ \A id \in Ids : id \in Nat
      /\ resp \in [Ids -> Response] /\ locals \in Seq(Ids)
      /\ ends \in Seq(Ids) /\ \A i \in 1 .. Len(ends) : ends[i] \in Ids
      /\ fb \subseteq Ids /\ acked \subseteq Ids /\ pcc \subseteq Ids
      /\ alive /\ remotes = <<>>
  <2>1. alive
    BY <1>t, <1>a DEF Threads
  <2>2. remotes = <<>>
    BY <1>t, <1>a DEF Queues
  <2>3. n \in Ids /\ n \in Nat /\ \A id \in Ids : id \in Nat
    <3>1. nreq < MaxReq /\ nreq \in Nat
      BY <1>a, <1>l
    <3> QED
      BY <3>1, MaxReqAssumption
  <2>4. /\ resp \in [Ids -> Response] /\ locals \in Seq(Ids) /\ ends \in Seq(Ids)
        /\ fb \subseteq Ids /\ acked \subseteq Ids /\ pcc \subseteq Ids
    BY <1>t DEF TypeOK, ConnTypeOK
  <2>5. \A i \in 1 .. Len(ends) : ends[i] \in Ids
    BY <2>4, ElementOfSeq
  <2> QED
    BY <2>1, <2>2, <2>3, <2>4, <2>5
<1>n. /\ req[n] = <<>> /\ resp[n] = FreshResponse
  BY <1>t, <1>f, <1>l DEF Events
<1>r. /\ resp' = [resp EXCEPT ![n] = r] /\ resp'[n] = r
      /\ \A id \in Ids : id # n => resp'[id] = resp[id]
  BY <1>a, <1>f, <1>n
<1>q. /\ r.held = TRUE /\ r.stage = "none" /\ r.cont = FALSE /\ r.hdr = "no" /\ r.body = FALSE
      /\ r.trl = FALSE /\ r.ended = FALSE /\ r.told = <<>>
      /\ r \in Response
  <2>1. <<>> \in Seq({"cleared", "error"})
    BY EmptySeq
  <2> QED
    BY <2>1 DEF FreshResponse, Response, Stages
<1> HIDE DEF r
<1>s. /\ locals' \in Seq(Ids) /\ Len(locals') = Len(locals) + 1
      /\ \A i \in 1 .. Len(locals) : locals'[i] = locals[i]
      /\ locals'[Len(locals) + 1] = n
      /\ locals' # <<>>
  BY <1>a, <1>f, AppendProperties
<1>m. remotes' = <<n>>
  BY <1>a, <1>f
<1>i. InSeq(locals') = InSeq(locals) \cup {n}
  <2>1. \A x : x \in InSeq(locals') <=> \E i \in 1 .. Len(locals') : locals'[i] = x
    BY <1>s, InSeqElement
  <2>2. \A x : x \in InSeq(locals) <=> \E i \in 1 .. Len(locals) : locals[i] = x
    BY <1>f, InSeqElement
  <2>3. \A x : x \in InSeq(locals') => x \in InSeq(locals) \cup {n}
    <3> SUFFICES ASSUME NEW x, x \in InSeq(locals'), x # n PROVE x \in InSeq(locals)
      OBVIOUS
    <3>1. PICK i \in 1 .. Len(locals') : locals'[i] = x
      BY <2>1
    <3>2. i \in 1 .. Len(locals)
      BY <1>l, <1>s, <3>1
    <3> QED
      BY <1>s, <2>2, <3>1, <3>2
  <2>4. \A x : x \in InSeq(locals) => x \in InSeq(locals')
    <3> SUFFICES ASSUME NEW x, x \in InSeq(locals) PROVE x \in InSeq(locals')
      OBVIOUS
    <3>1. PICK i \in 1 .. Len(locals) : locals[i] = x
      BY <2>2
    <3>2. i \in 1 .. Len(locals')
      BY <1>l, <1>s, <3>1
    <3> QED
      BY <1>s, <2>1, <3>1, <3>2
  <2>5. n \in InSeq(locals')
    <3>1. Len(locals) + 1 \in 1 .. Len(locals')
      BY <1>l, <1>s
    <3> QED
      BY <1>s, <2>1, <3>1
  <2> QED
    BY <2>3, <2>4, <2>5
<1>1. TypeOK'
  <2>1. remotes' \in Seq(Ids)
    BY <1>f, <1>m
  <2>2. nreq' \in 0 .. MaxReq
    BY <1>a, <1>l, <1>f, MaxReqAssumption
  <2>3. resp' \in [Ids -> Response]
    BY <1>f, <1>r, <1>q
  <2>4. ConnTypeOK'
    BY <1>t, <1>a DEF TypeOK, ConnTypeOK
  <2>5. /\ UNCHANGED <<polling, cur, env, user_close, persistent, missing, crashed, enc, enc_ok,
                       req, ends, ran>>
        /\ dec' = "begun" /\ mode' = "callback" /\ decoding_error' = FALSE
        /\ locals' \in Seq(Ids)
    BY <1>a, <1>s
  <2> QED
    BY <1>t, <2>1, <2>2, <2>3, <2>4, <2>5 DEF TypeOK
<1>2. ConnInv'
  BY <1>t, <1>a, SameConnector
<1>3. Threads'
  BY <1>t, <1>a, <1>f DEF Threads
<1>4. Queues'
  <2>1. \A i \in 1 .. Len(locals') : locals'[i] = nreq' - Len(locals') + i
    <3> TAKE i \in 1 .. Len(locals')
    <3>1. CASE i \in 1 .. Len(locals)
      BY <1>t, <1>a, <1>l, <1>s, <3>1 DEF Queues
    <3>2. CASE i = Len(locals) + 1
      BY <1>a, <1>l, <1>s, <3>2
    <3> QED
      BY <1>l, <1>s, <3>1, <3>2
  <2>2. turn <= locals'[1] /\ turn <= nreq' + 1 /\ Len(locals') <= nreq'
    <3>1. turn <= nreq + 1 /\ Len(locals) <= nreq
      BY <1>t DEF Queues
    <3>2. CASE Len(locals) = 0
      BY <1>a, <1>l, <1>s, <3>1, <3>2
    <3>3. CASE Len(locals) # 0
      BY <1>a, <1>l, <1>s, <3>1, <3>3
    <3> QED
      BY <3>2, <3>3
  <2>3. \A i \in 1 .. Len(sent') : sent'[i].id <= nreq'
    <3>1. \A i \in 1 .. Len(sent) : sent[i].id \in Nat /\ sent[i].id <= nreq
      <4>1. sent \in Seq(Item)
        BY <1>t DEF ConnInv, ConnTypeOK
      <4>2. \A i \in 1 .. Len(sent) : sent[i] \in Item
        BY <4>1, ElementOfSeq
      <4>3. \A i \in 1 .. Len(sent) : sent[i].id \in Nat
        BY <1>f, <4>2 DEF Item
      <4> QED
        BY <1>t, <4>3 DEF Queues
    <3> QED
      BY <1>a, <1>l, <3>1
  <2> QED
    BY <1>t, <1>a, <1>f, <1>m, <1>l, <2>1, <2>2, <2>3 DEF Queues
<1>5. Events'
  <2> SUFFICES ASSUME NEW id \in Ids
               PROVE  /\ id > n => req[id] = <<>> /\ resp'[id] = FreshResponse
                      /\ id <= n => req[id] \in IF id = n THEN OpenEvents("begun")
                                                ELSE ClosedEvents
    BY <1>a, <1>m DEF Events
  <2>1. CASE id = n
    BY <1>f, <1>n, <2>1 DEF OpenEvents
  <2>2. CASE id # n
    <3>1. /\ id > n => id > nreq
          /\ id <= n => id <= nreq
      BY <1>l, <1>f, <2>2
    <3> QED
      BY <1>t, <1>f, <1>r, <2>2, <3>1 DEF Events
  <2> QED
    BY <2>1, <2>2
<1>6. Stage'
  <2>1. StageOK(r)
    BY <1>q DEF StageOK
  <2> QED
    BY <1>t, <1>r, <2>1 DEF Stage
<1>7. Outcomes'
  <2>1. n \notin Complete
    BY <1>l, <1>f
  <2>2. \A i \in 1 .. Len(ends') : resp'[ends'[i]].stage = "ended"
    BY <1>t, <1>a, <1>f, <1>r, <1>n DEF Outcomes, FreshResponse
  <2>3. \A i \in 1 .. Len(locals') : resp'[locals'[i]].ended =>
             resp'[locals'[i]].stage = "ended" \/ (stopped' /\ "fail" \in env')
    <3> TAKE i \in 1 .. Len(locals')
    <3>1. CASE i \in 1 .. Len(locals)
      <4>1. locals'[i] = locals[i] /\ locals[i] \in Ids /\ locals[i] # n
        BY <1>l, <1>f, <1>s, <3>1
      <4> QED
        BY <1>t, <1>a, <1>r, <3>1, <4>1 DEF Outcomes
    <3>2. CASE i = Len(locals) + 1
      BY <1>r, <1>q, <1>s, <3>2
    <3> QED
      BY <1>l, <1>s, <3>1, <3>2
  <2>4. /\ \A j \in fb' \cup acked' : Settled(resp'[j])
        /\ \A j \in pcc' : stopped' \/ Settled(resp'[j])
    BY <1>t, <1>a, <1>f, <1>r, <2>1 DEF Outcomes, Complete
  <2>5. \A j \in Ids : "cleared" \in InSeq(resp'[j].told) => j \in acked'
    <3>1. InSeq(r.told) = {}
      BY <1>q DEF InSeq
    <3> QED
      BY <1>t, <1>a, <1>r, <3>1 DEF Outcomes
  <2>6. ASSUME "fail" \notin env', NEW j \in Ids
        PROVE  /\ Len(resp'[j].told) <= 1
               /\ resp'[j].told # <<>> => ~Outstanding(j)'
               /\ j <= nreq' /\ resp'[j].held /\ resp'[j].told = <<>> => Outstanding(j)'
    <3>0. /\ Len(resp[j].told) <= 1
          /\ resp[j].told # <<>> => ~Outstanding(j)
          /\ j <= nreq /\ resp[j].held /\ resp[j].told = <<>> => Outstanding(j)
      BY <1>t, <1>a, <2>6 DEF Outcomes
    <3>1. CASE j = n
      <4>1. Outstanding(j)'
        BY <1>i, <3>1 DEF Outstanding
      <4>2. resp'[j].told = <<>> /\ Len(resp'[j].told) = 0
        BY <1>r, <1>q, <3>1, EmptySeq
      <4> QED
        BY <4>1, <4>2
    <3>2. CASE j # n
      <4>1. Outstanding(j)' <=> Outstanding(j)
        BY <1>a, <1>i, <3>2 DEF Outstanding, Posted
      <4>2. resp'[j] = resp[j] /\ (j <= nreq' => j <= nreq)
        BY <1>a, <1>l, <1>f, <1>r, <3>2
      <4> QED
        BY <3>0, <4>1, <4>2
    <3> QED
      BY <3>1, <3>2
  <2> QED
    BY <2>2, <2>3, <2>4, <2>5, <2>6 DEF Outcomes
<1>8. Bounded'
  <2>1. Len(sent) \in Nat
    BY <1>t, LenProperties DEF ConnInv, ConnTypeOK
  <2>2. CASE locals = <<>>
    <3>1. locals'[1] = n
      BY <1>s, <2>2, EmptySeq
    <3>2. Len(sent) <= 5 * nreq /\ Left(r) = 5
      BY <1>t, <1>q, <2>2 DEF Bounded, Left, ToCome, Flag
    <3>3. Len(sent) + 5 <= 5 * n
      BY <1>l, <2>1, <3>2
    <3> QED
      BY <1>a, <1>r, <1>s, <3>1, <3>2, <3>3 DEF Bounded
  <2>3. CASE locals # <<>>
    <3>1. locals'[1] = locals[1] /\ locals[1] \in Ids /\ locals[1] # n
      BY <1>f, <1>l, <1>s, <2>3, EmptySeq
    <3> QED
      BY <1>t, <1>a, <1>r, <1>s, <2>3, <3>1 DEF Bounded
  <2> QED
    BY <2>2, <2>3
<1>9. Serial'
  <2>1. /\ Coherent' <=> Coherent
        /\ Torso' <=> Torso
        /\ Touched(turn)' <=> Touched(turn)
        /\ Complete' = Complete /\ Last' = Last
    BY <1>a DEF Coherent, Orderly, Torso, Touched, Last, Complete
  <2>2. \A id : Progress(id)' = Progress(id) /\ (Touched(id)' <=> Touched(id))
    BY <1>a DEF Progress, Touched, Last
  <2> SUFFICES ASSUME Coherent PROVE Serial'
    BY <2>1 DEF Serial
  <2>3. ~Touched(n) /\ Progress(n) = "ZERO"
    <3>1. sent # <<>> => Len(sent) \in 1 .. Len(sent)
      BY <1>t, LenProperties, EmptySeq DEF ConnInv, ConnTypeOK
    <3>2. sent # <<>> => Last.id <= nreq
      BY <1>t, <3>1 DEF Queues, Last
    <3>3. ~(n <= nreq)
      BY <1>l
    <3> QED
      BY <3>2, <3>3 DEF Touched, Progress
  <2>4. Fits("ZERO", r)
    BY <1>q DEF Fits
  <2>5. (/\ \A i \in 1 .. Len(locals) : Fits(Progress(locals[i]), resp[locals[i]])
         /\ \A i \in 1 .. Len(locals) :
              resp[locals[i]].cont \/ resp[locals[i]].stage = "none" => ~Touched(locals[i]))'
    <3> SUFFICES ASSUME NEW i \in 1 .. Len(locals')
                 PROVE  /\ Fits(Progress(locals'[i]), resp'[locals'[i]])
                        /\ resp'[locals'[i]].cont \/ resp'[locals'[i]].stage = "none"
                             => ~Touched(locals'[i])
      BY <1>a DEF Progress, Touched, Last
    <3>1. CASE i \in 1 .. Len(locals)
      <4>1. locals'[i] = locals[i] /\ locals[i] \in Ids /\ locals[i] # n
        BY <1>l, <1>f, <1>s, <3>1
      <4> QED
        BY <1>t, <1>r, <3>1, <4>1 DEF Serial
    <3>2. CASE i = Len(locals) + 1
      BY <1>r, <1>s, <2>3, <2>4, <3>2
    <3> QED
      BY <1>l, <1>s, <3>1, <3>2
  <2>6. ~stopped /\ sent # <<>> /\ Last.id # locals'[1] => Last.id \in Complete \cup missing
    <3>1. CASE locals = <<>>
      BY <1>t, <3>1 DEF Serial
    <3>2. CASE locals # <<>>
      <4>1. locals'[1] = locals[1]
        BY <1>f, <1>l, <1>s, <3>2, EmptySeq
      <4> QED
        BY <1>t, <3>2, <4>1 DEF Serial
    <3> QED
      BY <3>1, <3>2
  <2>7. ~Torso => enc.st = Progress(locals'[1])
    <3>1. CASE locals = <<>>
      <4>1. locals'[1] = n
        BY <1>s, <3>1, EmptySeq
      <4> QED
        BY <1>t, <2>3, <3>1, <4>1 DEF Serial
    <3>2. CASE locals # <<>>
      <4>1. locals'[1] = locals[1]
        BY <1>f, <1>l, <1>s, <3>2, EmptySeq
      <4> QED
        BY <1>t, <3>2, <4>1 DEF Serial
    <3> QED
      BY <3>1, <3>2
  <2>8. Progress(locals[1])' = Progress(locals'[1])
    BY <1>a DEF Progress, Touched, Last
  <2>9. Touched(turn) => Last.part # "E"
    BY <1>t DEF Serial
  <2> QED
    BY <1>a, <1>s, <2>1, <2>5, <2>6, <2>7, <2>8, <2>9 DEF Serial
<1>10. Whole' /\ EncoderOK'
  BY <1>t, <1>a, SameWire DEF EncoderOK, Orderly, Torso
<1> QED
  BY <1>1, <1>2, <1>3, <1>4, <1>5, <1>6, <1>7, <1>8, <1>9, <1>10 DEF SrvIInv

\* The next response has room for its five parts after those before it.
LEMMA RoomForOne ==
  ASSUME NEW s \in Nat, NEW h \in Nat, NEW k \in Nat, s <= 5 * h, k <= 5
  PROVE  s + k <= 5 * (h + 1)
OBVIOUS

\* local_objects without its first response.
LEMMA FrontRemoved ==
  ASSUME SrvIInv, locals # <<>>
  PROVE  /\ Tail(locals) \in Seq(Ids) /\ Len(Tail(locals)) = Len(locals) - 1 /\ Len(locals) >= 1
         /\ Head(locals) = locals[1] /\ locals[1] \in Ids /\ locals[1] \in Nat
         /\ \A i \in 1 .. Len(Tail(locals)) : Tail(locals)[i] = locals[i + 1]
         /\ \A i \in 1 .. Len(Tail(locals)) : Tail(locals)[i] # locals[1]
         /\ \A i \in 1 .. Len(Tail(locals)) : Tail(locals)[i] \in Ids /\ i + 1 \in 1 .. Len(locals)
         /\ InSeq(locals) = InSeq(Tail(locals)) \cup {locals[1]}
         /\ locals[1] \notin InSeq(Tail(locals))
         /\ Tail(locals) = <<>> => locals[1] = nreq
         /\ Tail(locals) # <<>> => Tail(locals)[1] = locals[1] + 1
<1>l. /\ nreq \in Nat /\ Len(locals) \in Nat
      /\ \A i \in 1 .. Len(locals) :
           locals[i] \in Ids /\ locals[i] \in Nat /\ locals[i] <= nreq
      /\ \A i \in 1 .. Len(locals) : locals[i] = nreq - Len(locals) + i
      /\ locals \in Seq(Ids)
  BY LocalsAndComplete DEF SrvIInv, Queues, TypeOK
<1>1. Len(locals) >= 1
  BY <1>l, EmptySeq
<1>2. /\ Tail(locals) \in Seq(Ids) /\ Len(Tail(locals)) = Len(locals) - 1
      /\ Head(locals) = locals[1]
      /\ \A i \in 1 .. Len(Tail(locals)) : Tail(locals)[i] = locals[i + 1]
  BY <1>l, HeadTailProperties
<1>3. /\ locals[1] \in Ids /\ locals[1] \in Nat /\ locals[1] = nreq - Len(locals) + 1
      /\ \A i \in 1 .. Len(Tail(locals)) : i + 1 \in 1 .. Len(locals)
  BY <1>l, <1>1, <1>2
<1>4. \A i \in 1 .. Len(Tail(locals)) : /\ Tail(locals)[i] # locals[1]
                                        /\ Tail(locals)[i] \in Ids
  BY <1>l, <1>1, <1>2, <1>3
<1>5. \A x : x \in InSeq(locals) <=> \E i \in 1 .. Len(locals) : locals[i] = x
  BY <1>l, InSeqElement
<1>6. \A x : x \in InSeq(Tail(locals)) <=>
        \E i \in 1 .. Len(Tail(locals)) : Tail(locals)[i] = x
  BY <1>2, InSeqElement
<1>7. locals[1] \notin InSeq(Tail(locals))
  BY <1>4, <1>6
<1>8. InSeq(locals) = InSeq(Tail(locals)) \cup {locals[1]}
  <2>1. ASSUME NEW x, x \in InSeq(locals), x # locals[1] PROVE x \in InSeq(Tail(locals))
    <3>1. PICK i \in 1 .. Len(locals) : locals[i] = x
      BY <1>5, <2>1
    <3>2. i # 1
      BY <2>1, <3>1
    <3>3. i - 1 \in 1 .. Len(Tail(locals)) /\ (i - 1) + 1 = i
      BY <1>l, <1>2, <3>1, <3>2
    <3>4. Tail(locals)[i - 1] = x
      BY <1>2, <3>1, <3>3
    <3> QED
      BY <1>6, <3>3, <3>4
  <2>2. ASSUME NEW x, x \in InSeq(Tail(locals)) PROVE x \in InSeq(locals)
    <3>1. PICK i \in 1 .. Len(Tail(locals)) : Tail(locals)[i] = x
      BY <1>6, <2>2
    <3> QED
      BY <1>2, <1>3, <1>5, <3>1
  <2>3. locals[1] \in InSeq(locals)
    <3>1. 1 \in 1 .. Len(locals)
      BY <1>l, <1>1
    <3> QED
      BY <1>5, <3>1
  <2> QED
    BY <2>1, <2>2, <2>3
<1>9. Tail(locals) = <<>> => locals[1] = nreq
  <2>1. Tail(locals) = <<>> => Len(Tail(locals)) = 0
    BY EmptySeq
  <2> QED
    BY <1>l, <1>2, <1>3, <2>1
<1>10. Tail(locals) # <<>> => Tail(locals)[1] = locals[1] + 1
  <2>1. Tail(locals) # <<>> => Len(Tail(locals)) # 0
    BY <1>2, EmptySeq
  <2> QED
    BY <1>l, <1>1, <1>2, <1>3, <2>1
<1> QED
  BY <1>1, <1>2, <1>3, <1>4, <1>7, <1>8, <1>9, <1>10

\* A malformed request: the current request fails, the last response fails, the
\* first one is removed, and the connector is stopped.
LEMMA DecodingFailureStep ==
  ASSUME SrvIInv, DecodingFailure
  PROVE  SrvIInv'
<1>t. TypeOK /\ ConnInv /\ Threads /\ Queues /\ Events /\ Stage /\ Outcomes
      /\ Bounded /\ Serial /\ Whole /\ EncoderOK
  BY DEF SrvIInv
<1>a. /\ "fail" \in env /\ mode # "idle" /\ ~polling
      /\ dec' = "idle" /\ mode' = "idle"
      /\ ReadRejected
      /\ decoding_error' = (decoding_error \/ remotes = <<>>)
      /\ UNCHANGED <<polling, cur, env, user_close, persistent, missing, encodeVars, nreq, ends,
                     ran>>
  BY DEF DecodingFailure, ParserTurn, Running, CurrentError
<1>c. /\ rd = "running" /\ rd' = "none" /\ stopped' = TRUE
      /\ armed' \in BOOLEAN /\ ttl' \in BOOLEAN
      /\ UNCHANGED <<alive, fired, cut, writeVars>>
  <2>1. armed \in BOOLEAN /\ ttl \in BOOLEAN /\ stopped \in BOOLEAN
    BY <1>t DEF TypeOK, ConnTypeOK
  <2> QED
    BY <1>a, <2>1 DEF ReadRejected, Stop
<1>f. /\ resp \in [Ids -> Response] /\ locals \in Seq(Ids) /\ req \in [Ids -> Request]
      /\ ends \in Seq(Ids) /\ \A i \in 1 .. Len(ends) : ends[i] \in Ids
      /\ fb \subseteq Ids /\ acked \subseteq Ids /\ pcc \subseteq Ids
      /\ \A id \in Ids : id \in Nat
      /\ alive /\ nreq \in Nat /\ Len(locals) \in Nat
      /\ \A i \in 1 .. Len(locals) : locals[i] \in Ids /\ locals[i] \in Nat /\ locals[i] <= nreq
  <2>1. alive
    BY <1>t, <1>c DEF Threads
  <2>2. /\ resp \in [Ids -> Response] /\ locals \in Seq(Ids) /\ req \in [Ids -> Request]
        /\ ends \in Seq(Ids)
        /\ fb \subseteq Ids /\ acked \subseteq Ids /\ pcc \subseteq Ids
    BY <1>t DEF TypeOK, ConnTypeOK
  <2>3. \A i \in 1 .. Len(ends) : ends[i] \in Ids
    BY <2>2, ElementOfSeq
  <2> QED
    BY <2>1, <2>2, <2>3, LocalsAndComplete, IdsAssumption
<1>e. /\ remotes' = <<>> /\ req' \in [Ids -> Request]
      /\ \A id \in Ids : /\ id > nreq => req'[id] = <<>>
                         /\ id <= nreq => req'[id] \in ClosedEvents
  <2>1. CASE remotes = <<>>
    <3>1. NoCurrent /\ req' = req /\ remotes' = remotes
      BY <2>1, Current DEF DecodingFailure
    <3> QED
      BY <1>t, <1>f, <2>1, <3>1 DEF Events
  <2>2. CASE remotes # <<>>
    <3>1. /\ ~NoCurrent /\ Head(remotes) = nreq /\ Tail(remotes) = <<>> /\ nreq \in Ids
          /\ req[nreq] \in OpenEvents(dec) /\ ~Terminated(nreq) /\ dec # "idle"
      BY <2>2, Current
    <3>2. req' = [req EXCEPT ![nreq] = Append(req[nreq], "error")] /\ remotes' = <<>>
      BY <3>1 DEF DecodingFailure, WithTerminal
    <3>3. dec \in {"begun", "headers", "body", "trailer"}
      BY <1>t, <3>1 DEF TypeOK
    <3>4. Append(req[nreq], "error") \in ClosedEvents
      BY <3>1, <3>3, Closing
    <3>5. /\ req'[nreq] = Append(req[nreq], "error")
          /\ \A id \in Ids : id # nreq => req'[id] = req[id]
      BY <1>f, <3>1, <3>2
    <3>6. req' \in [Ids -> Request]
      BY <1>f, <3>2, <3>4, EventsAreTyped
    <3>7. \A id \in Ids : id # nreq => /\ id > nreq => req[id] = <<>>
                                       /\ id <= nreq => req[id] \in ClosedEvents
      BY <1>t DEF Events
    <3> QED
      BY <1>f, <3>2, <3>4, <3>5, <3>6, <3>7
  <2> QED
    BY <2>1, <2>2
<1>r. /\ crashed' \in BOOLEAN
      /\ \/ resp' = resp
         \/ \E back \in Ids : back <= nreq /\ resp' = [resp EXCEPT ![back] = Failed(resp[back])]
      /\ locals' = locals \/ (locals # <<>> /\ locals' = Tail(locals))
  <2>1. CASE NoCurrent
    BY <1>t, <2>1 DEF DecodingFailure, TypeOK
  <2>2. CASE ~NoCurrent /\ locals = <<>>
    BY <2>2 DEF DecodingFailure
  <2>3. CASE ~NoCurrent /\ locals # <<>>
    <3>1. Len(locals) \in 1 .. Len(locals)
      BY <1>f, <2>3, EmptySeq
    <3>2. locals[Len(locals)] \in Ids /\ locals[Len(locals)] <= nreq
      BY <1>f, <3>1
    <3> QED
      BY <2>3, <3>2 DEF DecodingFailure
  <2> QED
    BY <2>1, <2>2, <2>3
<1>s. \A id \in Ids :
        /\ resp'[id] \in Response
        /\ id > nreq => resp'[id] = resp[id]
        /\ resp'[id].stage = resp[id].stage
        /\ StageOK(resp'[id]) <=> StageOK(resp[id])
        /\ Settled(resp'[id]) <=> Settled(resp[id])
        /\ Left(resp'[id]) = Left(resp[id])
        /\ "cleared" \in InSeq(resp'[id].told) => "cleared" \in InSeq(resp[id].told)
  <2> SUFFICES ASSUME NEW id \in Ids,
                      resp'[id] = resp[id] \/ (id <= nreq /\ resp'[id] = Failed(resp[id]))
               PROVE  /\ resp'[id] \in Response
                      /\ id > nreq => resp'[id] = resp[id]
                      /\ resp'[id].stage = resp[id].stage
                      /\ StageOK(resp'[id]) <=> StageOK(resp[id])
                      /\ Settled(resp'[id]) <=> Settled(resp[id])
                      /\ Left(resp'[id]) = Left(resp[id])
                      /\ "cleared" \in InSeq(resp'[id].told) => "cleared" \in InSeq(resp[id].told)
    <3>1. \A id \in Ids : resp'[id] = resp[id] \/ (id <= nreq /\ resp'[id] = Failed(resp[id]))
      BY <1>f, <1>r
    <3> QED
      BY <3>1
  <2>1. CASE resp'[id] = resp[id]
    BY <1>f, <2>1
  <2>2. CASE id <= nreq /\ resp'[id] = Failed(resp[id])
    <3> DEFINE r == resp[id]
               q == resp'[id]
    <3>1. r \in Response /\ q = Failed(r) /\ q # Cleared(r)
      BY <1>f, <2>2, FailedNotCleared
    <3> HIDE DEF r, q
    <3>2. /\ q \in Response /\ q.stage = r.stage
          /\ q.cont = r.cont /\ q.hdr = r.hdr /\ q.body = r.body /\ q.trl = r.trl
          /\ "cleared" \in InSeq(q.told) => "cleared" \in InSeq(r.told)
      BY <3>1, Telling
    <3>3. /\ StageOK(q) <=> StageOK(r)
          /\ Settled(q) <=> Settled(r)
          /\ Left(q) = Left(r)
      BY <3>2, OutcomeOnly
    <3>4. ~(id > nreq)
      BY <1>f, <2>2
    <3> QED
      BY <3>2, <3>3, <3>4 DEF r, q
  <2> QED
    BY <2>1, <2>2
<1>p. /\ locals' \in Seq(Ids) /\ Len(locals') <= Len(locals) /\ Len(locals') \in Nat
      /\ \A i \in 1 .. Len(locals') : locals'[i] = nreq - Len(locals') + i
      /\ locals' # <<>> => turn <= locals'[1]
      /\ \A i \in 1 .. Len(locals') : locals'[i] \in Ids
  <2>0. /\ \A i \in 1 .. Len(locals) : locals[i] = nreq - Len(locals) + i
        /\ locals # <<>> => turn <= locals[1]
        /\ turn \in Nat
    BY <1>t DEF Queues, ConnInv, ConnTypeOK
  <2>1. CASE locals' = locals
    BY <1>f, <2>0, <2>1
  <2>2. CASE locals # <<>> /\ locals' = Tail(locals)
    <3>1. /\ Tail(locals) \in Seq(Ids) /\ Len(Tail(locals)) = Len(locals) - 1 /\ Len(locals) >= 1
          /\ \A i \in 1 .. Len(Tail(locals)) : Tail(locals)[i] = locals[i + 1]
          /\ \A i \in 1 .. Len(Tail(locals)) : Tail(locals)[i] \in Ids /\ i + 1 \in 1 .. Len(locals)
          /\ locals[1] \in Nat
          /\ Tail(locals) # <<>> => Tail(locals)[1] = locals[1] + 1
      BY <2>2, FrontRemoved
    <3>2. Tail(locals) # <<>> => turn <= Tail(locals)[1]
      BY <2>0, <2>2, <3>1
    <3>3. \A i \in 1 .. Len(Tail(locals)) : Tail(locals)[i] = nreq - Len(Tail(locals)) + i
      BY <1>f, <2>0, <3>1
    <3> QED
      BY <1>f, <2>2, <3>1, <3>2, <3>3
  <2> QED
    BY <1>r, <2>1, <2>2
<1>1. TypeOK'
  <2>1. ConnTypeOK'
    BY <1>t, <1>c DEF TypeOK, ConnTypeOK, writeVars
  <2>2. resp' \in [Ids -> Response]
    <3>1. CASE resp' = resp
      BY <1>f, <3>1
    <3>2. CASE \E back \in Ids : resp' = [resp EXCEPT ![back] = Failed(resp[back])]
      BY <1>f, <1>s, <3>2
    <3> QED
      BY <1>r, <3>1, <3>2
  <2>3. decoding_error' \in BOOLEAN /\ remotes' \in Seq(Ids)
    <3>1. <<>> \in Seq(Ids)
      BY EmptySeq
    <3>2. decoding_error \in BOOLEAN
      BY <1>t DEF TypeOK
    <3> QED
      BY <1>a, <1>e, <3>1, <3>2
  <2> QED
    BY <1>t, <1>a, <1>e, <1>r, <1>p, <2>1, <2>2, <2>3 DEF TypeOK, encodeVars
<1>2. ConnInv'
  BY <1>t, <1>a, ReadSteps
<1>3. Threads'
  BY <1>t, <1>a, <1>c, <1>f DEF Threads
<1>4. Queues'
  <2>1. UNCHANGED <<nreq, turn, sent, acked, nacked, alive, user_close, ran, pcc>>
    BY <1>a, <1>c DEF writeVars
  <2>2. Len(locals') <= nreq'
    BY <1>t, <1>f, <1>p, <2>1 DEF Queues
  <2>3. remotes' = <<>> \/ (remotes' = <<nreq'>> /\ nreq' > 0 /\ dec' # "idle" /\ ~decoding_error')
    BY <1>e
  <2> QED
    BY <1>t, <1>f, <1>p, <2>1, <2>2, <2>3 DEF Queues
<1>5. Events' /\ Stage'
  BY <1>t, <1>a, <1>e, <1>s DEF Events, Stage
<1>6. Outcomes'
  <2>1. stopped' /\ "fail" \in env'
    BY <1>a, <1>c
  <2>2. \A i \in 1 .. Len(ends') : resp'[ends'[i]].stage = "ended"
    BY <1>t, <1>a, <1>f, <1>s DEF Outcomes
  <2>3. /\ \A j \in fb' \cup acked' : Settled(resp'[j])
        /\ \A j \in Ids : "cleared" \in InSeq(resp'[j].told) => j \in acked'
    BY <1>t, <1>c, <1>f, <1>s DEF Outcomes, writeVars
  <2> QED
    BY <2>1, <2>2, <2>3 DEF Outcomes
<1>7. Bounded'
  <2>0. Len(sent) \in Nat /\ sent' = sent /\ nreq' = nreq
    BY <1>t, <1>a, <1>c, LenProperties DEF ConnInv, ConnTypeOK, writeVars
  <2>1. \A id \in Ids : Left(resp'[id]) = Left(resp[id]) /\ Left(resp[id]) \in Nat
                        /\ Left(resp[id]) <= 5 /\ Left(resp[id]) >= 1
    BY <1>t, <1>f, <1>s, LeftBound DEF Stage
  <2>2. CASE locals' = locals
    <3>1. locals # <<>> => locals[1] \in Ids
      BY <1>f, EmptySeq
    <3> QED
      BY <1>t, <2>0, <2>1, <2>2, <3>1 DEF Bounded
  <2>3. CASE locals # <<>> /\ locals' = Tail(locals)
    <3>1. /\ locals[1] \in Ids /\ locals[1] \in Nat
          /\ Tail(locals) = <<>> => locals[1] = nreq
          /\ Tail(locals) # <<>> => Tail(locals)[1] = locals[1] + 1
      BY <2>3, FrontRemoved
    <3>2. Len(sent) + Left(resp[locals[1]]) <= 5 * locals[1]
      BY <1>t, <2>3 DEF Bounded
    <3>3. Len(sent) <= 5 * locals[1]
      BY <2>0, <2>1, <3>1, <3>2
    <3>4. CASE Tail(locals) = <<>>
      BY <2>0, <2>3, <3>1, <3>3, <3>4 DEF Bounded
    <3>5. CASE Tail(locals) # <<>>
      <4>1. Tail(locals)[1] \in Ids
        BY <1>p, <2>3, <3>5, EmptySeq
      <4>2. Left(resp'[Tail(locals)[1]]) \in Nat /\ Left(resp'[Tail(locals)[1]]) <= 5
        BY <2>1, <4>1
      <4>3. Len(sent) + Left(resp'[Tail(locals)[1]]) <= 5 * Tail(locals)[1]
        BY <2>0, <3>1, <3>3, <3>5, <4>2, RoomForOne
      <4> QED
        BY <2>0, <2>3, <3>5, <4>3 DEF Bounded
    <3> QED
      BY <3>4, <3>5
  <2> QED
    BY <1>r, <2>2, <2>3
<1>8. Serial' /\ EncoderOK'
  BY <1>a, <1>c DEF Serial, Coherent, Orderly, EncoderOK
<1>9. Whole'
  <2>1. Reach' <= Reach
    BY <1>t, <1>c, ReachShrinks
  <2>2. sent' = sent /\ Complete \cup missing \subseteq Complete' \cup missing'
    BY <1>a, <1>c DEF Complete, writeVars
  <2> QED
    BY <1>t, <1>2, <2>1, <2>2, WholeShrinks
<1> QED
  BY <1>1, <1>2, <1>3, <1>4, <1>5, <1>6, <1>7, <1>8, <1>9 DEF SrvIInv

-----------------------------------------------------------------------------
(* What notify_local_content encodes. *)

\* The number of parts get_state() reports before the end of message, and the
\* part at each position.
Content(r) == Flag(r.hdr # "no") + Flag(r.body) + Flag(r.trl)

PartAt(r, i) ==
  IF i <= Flag(r.hdr # "no") THEN "H"
  ELSE IF i <= Flag(r.hdr # "no") + Flag(r.body) THEN "B"
  ELSE IF i <= Content(r) THEN "T" ELSE "E"

\* The parts that have bytes: the end of message has none when it is not chunked.
Kept(r, ch) ==
  IF r.ended /\ ~ch THEN SubSeq(Encoded(r), 1, Len(Encoded(r)) - 1) ELSE Encoded(r)

\* The parts of a response, position by position.
LEMMA EncodedProperties ==
  ASSUME NEW r \in Response
  PROVE  /\ Encoded(r) \in Seq(Part)
         /\ Content(r) \in Nat
         /\ Len(Encoded(r)) = Content(r) + Flag(r.ended)
         /\ \A i \in 1 .. Len(Encoded(r)) : Encoded(r)[i] = PartAt(r, i)
<1> DEFINE h == IF r.hdr # "no" THEN <<"H">> ELSE <<>>
           b == IF r.body THEN <<"B">> ELSE <<>>
           t == IF r.trl THEN <<"T">> ELSE <<>>
           e == IF r.ended THEN <<"E">> ELSE <<>>
<1>0. <<>> \in Seq(Part) /\ Len(<<>>) = 0
  BY EmptySeq
<1>b. r.body \in BOOLEAN /\ r.trl \in BOOLEAN /\ r.ended \in BOOLEAN
  BY DEF Response
<1>1. /\ h \in Seq(Part) /\ Len(h) = Flag(r.hdr # "no") /\ \A i \in 1 .. Len(h) : h[i] = "H"
      /\ Flag(r.hdr # "no") \in {0, 1}
  <2>1. CASE r.hdr # "no"
    BY <2>1 DEF Part, Flag
  <2>2. CASE r.hdr = "no"
    BY <1>0, <2>2 DEF Flag
  <2> QED
    BY <2>1, <2>2
<1>2. /\ b \in Seq(Part) /\ Len(b) = Flag(r.body) /\ \A i \in 1 .. Len(b) : b[i] = "B"
      /\ Flag(r.body) \in {0, 1}
  <2>1. CASE r.body
    BY <2>1 DEF Part, Flag
  <2>2. CASE ~r.body
    BY <1>0, <2>2 DEF Flag
  <2> QED
    BY <2>1, <2>2
<1>3. /\ t \in Seq(Part) /\ Len(t) = Flag(r.trl) /\ \A i \in 1 .. Len(t) : t[i] = "T"
      /\ Flag(r.trl) \in {0, 1}
  <2>1. CASE r.trl
    BY <2>1 DEF Part, Flag
  <2>2. CASE ~r.trl
    BY <1>0, <2>2 DEF Flag
  <2> QED
    BY <2>1, <2>2
<1>4. /\ e \in Seq(Part) /\ Len(e) = Flag(r.ended) /\ \A i \in 1 .. Len(e) : e[i] = "E"
      /\ Flag(r.ended) \in {0, 1}
  <2>1. CASE r.ended
    BY <2>1 DEF Part, Flag
  <2>2. CASE ~r.ended
    BY <1>0, <2>2 DEF Flag
  <2> QED
    BY <2>1, <2>2
<1>5. Encoded(r) = ((h \o b) \o t) \o e
  BY DEF Encoded
<1> HIDE DEF h, b, t, e
<1>6. /\ h \o b \in Seq(Part) /\ Len(h \o b) = Len(h) + Len(b)
      /\ \A i \in 1 .. Len(h) + Len(b) :
           (h \o b)[i] = IF i <= Len(h) THEN h[i] ELSE b[i - Len(h)]
  BY <1>1, <1>2, ConcatProperties, Zenon
<1> DEFINE hb == h \o b
<1>7. hb \in Seq(Part)
  BY <1>6
<1>8. \A i \in 1 .. Len(hb) : hb[i] = IF i <= Len(h) THEN "H" ELSE "B"
  BY <1>1, <1>2, <1>6
<1>9. Len(hb) = Len(h) + Len(b) /\ Encoded(r) = (hb \o t) \o e
  BY <1>5, <1>6
<1> HIDE DEF hb
<1>10. /\ hb \o t \in Seq(Part) /\ Len(hb \o t) = Len(hb) + Len(t)
       /\ \A i \in 1 .. Len(hb) + Len(t) :
            (hb \o t)[i] = IF i <= Len(hb) THEN hb[i] ELSE t[i - Len(hb)]
  BY <1>3, <1>7, ConcatProperties, Zenon
<1> DEFINE hbt == hb \o t
<1>11. hbt \in Seq(Part)
  BY <1>10
<1>12. \A i \in 1 .. Len(hbt) : hbt[i] = IF i <= Len(h) THEN "H"
                                       ELSE IF i <= Len(hb) THEN "B" ELSE "T"
  BY <1>1, <1>2, <1>3, <1>8, <1>9, <1>10
<1>13. Len(hbt) = Len(hb) + Len(t) /\ Encoded(r) = hbt \o e
  BY <1>9, <1>10
<1> HIDE DEF hbt
<1>14. /\ hbt \o e \in Seq(Part) /\ Len(hbt \o e) = Len(hbt) + Len(e)
       /\ \A i \in 1 .. Len(hbt) + Len(e) :
            (hbt \o e)[i] = IF i <= Len(hbt) THEN hbt[i] ELSE e[i - Len(hbt)]
  BY <1>4, <1>11, ConcatProperties, Zenon
<1>15. \A i \in 1 .. Len(hbt \o e) : (hbt \o e)[i] = IF i <= Len(h) THEN "H"
                                                  ELSE IF i <= Len(hb) THEN "B"
                                                  ELSE IF i <= Len(hbt) THEN "T" ELSE "E"
  <2> SUFFICES ASSUME NEW i \in 1 .. Len(hbt \o e)
               PROVE  (hbt \o e)[i] = IF i <= Len(h) THEN "H"
                                     ELSE IF i <= Len(hb) THEN "B"
                                     ELSE IF i <= Len(hbt) THEN "T" ELSE "E"
    OBVIOUS
  <2>0. /\ Len(h) \in Nat /\ Len(b) \in Nat /\ Len(t) \in Nat /\ Len(e) \in Nat
        /\ Len(hb) \in Nat /\ Len(hbt) \in Nat /\ Len(h) <= Len(hb) /\ Len(hb) <= Len(hbt)
    <3>1. /\ Len(h) \in {0, 1} /\ Len(b) \in {0, 1} /\ Len(t) \in {0, 1} /\ Len(e) \in {0, 1}
      BY <1>1, <1>2, <1>3, <1>4
    <3> QED
      BY <3>1, <1>9, <1>13
  <2>1. CASE i <= Len(hbt)
    BY <1>12, <1>14, <2>0, <2>1
  <2>2. CASE ~(i <= Len(hbt))
    <3>1. i - Len(hbt) \in 1 .. Len(e)
      BY <1>14, <2>0, <2>2
    <3> QED
      BY <1>4, <1>14, <2>0, <2>2, <3>1
  <2> QED
    BY <2>1, <2>2
<1>16. /\ Len(h) = Flag(r.hdr # "no") /\ Len(hb) = Flag(r.hdr # "no") + Flag(r.body)
       /\ Len(hbt) = Content(r) /\ Content(r) \in Nat
  BY <1>1, <1>2, <1>3, <1>9, <1>13 DEF Content
<1> QED
  BY <1>4, <1>13, <1>14, <1>15, <1>16 DEF PartAt

\* Two sequences with the same elements are the same.
LEMMA SameSequence ==
  ASSUME NEW S, NEW s \in Seq(S), NEW t \in Seq(S), Len(s) = Len(t),
         \A i \in 1 .. Len(s) : s[i] = t[i]
  PROVE  s = t
BY SeqEqual

\* The parts of a response are one of the runs the connector is used with.
LEMMA EncodedIsRun ==
  ASSUME NEW r
  PROVE  Encoded(r) \in ServerRuns
<1> DEFINE H == {<<>>, <<"H">>}
           B == {<<>>, <<"B">>}
           T == {<<>>, <<"T">>}
           E == {<<>>, <<"E">>}
<1>1. PICK h \in H : h = IF r.hdr # "no" THEN <<"H">> ELSE <<>>
  OBVIOUS
<1>2. PICK b \in B : b = IF r.body THEN <<"B">> ELSE <<>>
  OBVIOUS
<1>3. PICK t \in T : t = IF r.trl THEN <<"T">> ELSE <<>>
  OBVIOUS
<1>4. PICK e \in E : e = IF r.ended THEN <<"E">> ELSE <<>>
  OBVIOUS
<1>5. Encoded(r) = h \o b \o t \o e
  BY <1>1, <1>2, <1>3, <1>4 DEF Encoded
<1> DEFINE runs == {a \o b1 \o c \o d : a \in H, b1 \in B, c \in T, d \in E}
<1>6. runs \subseteq ServerRuns
  BY DEF ServerRuns
<1> HIDE DEF H, B, T, E
<1>7. h \o b \o t \o e \in runs
  OBVIOUS
<1> HIDE DEF runs
<1> QED
  BY <1>5, <1>6, <1>7

\* What of a response is submitted, and how the end of message shows in it.
LEMMA KeptProperties ==
  ASSUME NEW r \in Response, NEW ch \in BOOLEAN
  PROVE  /\ Kept(r, ch) \in Seq(Part)
         /\ Len(Kept(r, ch)) = Content(r) + Flag(r.ended /\ ch)
         /\ \A i \in 1 .. Len(Kept(r, ch)) : Kept(r, ch)[i] = PartAt(r, i)
         /\ Kept(r, ch) \in ServerRuns
         /\ Encoded(r) # <<>> => r.ended \/ Kept(r, ch) # <<>>
         /\ (Encoded(r) = <<"E">>) <=> r.ended /\ (Kept(r, ch) = <<>> \/ Kept(r, ch) = <<"E">>)
<1> DEFINE all == Encoded(r)
           c == Content(r)
<1>1. /\ all \in Seq(Part) /\ c \in Nat /\ Len(all) = c + Flag(r.ended)
      /\ \A i \in 1 .. Len(all) : all[i] = PartAt(r, i)
  BY EncodedProperties
<1>b. r.ended \in BOOLEAN
  BY DEF Response
<1>e. PartAt(r, c + 1) = "E" /\ \A i \in 1 .. c : PartAt(r, i) # "E"
  BY DEF PartAt, Content, Flag
<1>r. all \in ServerRuns
  BY EncodedIsRun
<1>s. \A s \in Seq(Part) : (s = <<>> <=> Len(s) = 0) /\ (s = <<"E">> <=> Len(s) = 1 /\ s[1] = "E")
  <2> TAKE s \in Seq(Part)
  <2>1. s = <<>> <=> Len(s) = 0
    BY EmptySeq
  <2>2. s = <<"E">> => Len(s) = 1 /\ s[1] = "E"
    OBVIOUS
  <2>3. ASSUME Len(s) = 1, s[1] = "E" PROVE s = <<"E">>
    <3>1. <<"E">> \in Seq(Part) /\ Len(<<"E">>) = 1 /\ <<"E">>[1] = "E"
      BY DEF Part
    <3> DEFINE u == <<"E">>
    <3>2. u \in Seq(Part) /\ Len(s) = Len(u) /\ \A i \in 1 .. Len(s) : s[i] = u[i]
      BY <2>3, <3>1
    <3> HIDE DEF u
    <3>3. s = u
      BY <3>2, SameSequence
    <3> QED
      BY <3>3 DEF u
  <2> QED
    BY <2>1, <2>2, <2>3
<1> HIDE DEF all, c
<1>2. CASE r.ended /\ ~ch
  <2> DEFINE k == SubSeq(all, 1, Len(all) - 1)
  <2>0. Kept(r, ch) = k /\ Flag(r.ended) = 1 /\ Flag(r.ended /\ ch) = 0
    BY <1>2 DEF Kept, Flag, all
  <2>1. Len(all) = c + 1 /\ Len(all) - 1 \in Nat /\ Len(all) - 1 <= Len(all)
    BY <1>1, <2>0
  <2>2. /\ k \in Seq(Part) /\ Len(k) = c
        /\ \A i \in 1 .. Len(k) : k[i] = all[i]
    <3>1. \A i \in 1 .. Len(all) - 1 : all[i] \in Part
      BY <1>1, <2>1, ElementOfSeq
    <3>2. /\ k \in Seq(Part)
          /\ Len(k) = IF 1 <= Len(all) - 1 THEN Len(all) - 1 - 1 + 1 ELSE 0
          /\ \A i \in 1 .. Len(all) - 1 - 1 + 1 : k[i] = all[1 + i - 1]
      <4>1. 1 \in Int /\ Len(all) - 1 \in Int /\ \A i \in 1 .. Len(all) - 1 : all[i] \in Part
        BY <2>1, <3>1
      <4> QED
        BY <1>1, <4>1, SubSeqProperties
    <3> QED
      BY <1>1, <2>1, <3>2
  <2> HIDE DEF k
  <2>3. k \in ServerRuns
    <3> DEFINE r0 == [r EXCEPT !.ended = FALSE]
    <3>1. /\ r0 \in Response /\ r0.hdr = r.hdr /\ r0.body = r.body /\ r0.trl = r.trl
          /\ r0.ended = FALSE
      BY DEF Response
    <3> HIDE DEF r0
    <3>2. /\ Content(r0) = c /\ Flag(r0.ended) = 0
          /\ \A i \in 1 .. c : PartAt(r0, i) = PartAt(r, i)
      BY <3>1 DEF Content, PartAt, Flag, c
    <3>3. /\ Encoded(r0) \in Seq(Part) /\ Len(Encoded(r0)) = c
          /\ \A i \in 1 .. c : Encoded(r0)[i] = PartAt(r, i)
      BY <1>1, <3>1, <3>2, EncodedProperties
    <3>4. Len(k) = Len(Encoded(r0)) /\ \A i \in 1 .. Len(k) : k[i] = Encoded(r0)[i]
      BY <1>1, <2>1, <2>2, <3>3
    <3>5. k = Encoded(r0)
      BY <2>2, <3>3, <3>4, SameSequence
    <3> QED
      BY <3>5, EncodedIsRun
  <2>4. \A i \in 1 .. Len(k) : k[i] = PartAt(r, i)
    BY <1>1, <2>1, <2>2
  <2>5. (all = <<"E">>) <=> c = 0
    <3>1. all = <<"E">> <=> Len(all) = 1 /\ all[1] = "E"
      BY <1>1, <1>s
    <3>2. c = 0 => all[1] = "E"
      BY <1>1, <1>e, <2>1 DEF c
    <3> QED
      BY <1>1, <2>1, <3>1, <3>2
  <2>6. (k = <<>> \/ k = <<"E">>) <=> c = 0
    <3>1. /\ k = <<>> <=> c = 0
          /\ k = <<"E">> <=> c = 1 /\ k[1] = "E"
      BY <2>2, <1>s
    <3>2. c = 1 => k[1] # "E"
      BY <1>e, <2>2, <2>4 DEF c
    <3> QED
      BY <3>1, <3>2
  <2>7. Len(k) = Content(r) + Flag(r.ended /\ ch)
    BY <1>1, <2>0, <2>2 DEF c
  <2> QED
    BY <1>2, <2>0, <2>2, <2>3, <2>4, <2>5, <2>6, <2>7 DEF all
<1>3. CASE ~(r.ended /\ ~ch)
  <2>1. Kept(r, ch) = all
    BY <1>3 DEF Kept, all
  <2>2. Flag(r.ended /\ ch) = Flag(r.ended)
    BY <1>3, <1>b DEF Flag
  <2>3. (all = <<"E">>) <=> r.ended /\ (all = <<>> \/ all = <<"E">>)
    <3>1. all = <<>> <=> Len(all) = 0
      BY <1>1, <1>s
    <3>2. all = <<"E">> <=> Len(all) = 1 /\ all[1] = "E"
      BY <1>1, <1>s
    <3>3. r.ended => Len(all) # 0
      BY <1>1 DEF Flag
    <3>4. ~r.ended /\ Len(all) = 1 => all[1] # "E"
      BY <1>1, <1>e DEF Flag, c
    <3> QED
      BY <1>b, <3>1, <3>2, <3>3, <3>4
  <2> QED
    BY <1>1, <1>r, <2>1, <2>2, <2>3 DEF all, c
<1> QED
  BY <1>2, <1>3

\* The response after everything it had was encoded.
Emptied(r) == [r EXCEPT !.hdr = "no", !.body = FALSE, !.trl = FALSE]

\* What is encoded of a response continues what was encoded of it before, and
\* what the user may still add continues that.
LEMMA PartsFit ==
  ASSUME NEW r \in Response, StageOK(r), NEW st \in {"ZERO", "HEADER", "BODY", "TRAILER"},
         Fits(st, r), r.ended => r.stage = "ended",
         NEW n \in 1 .. Content(r) + Flag(r.ended)
  PROVE  /\ \A i \in 1 .. n - 1 : <<PartAt(r, i), PartAt(r, i + 1)>> \in Neighbours
         /\ st = "ZERO" => PartAt(r, 1) = "H"
         /\ st = "HEADER" => PartAt(r, 1) \in {"B", "E"}
         /\ st = "BODY" => PartAt(r, 1) \in {"T", "E"}
         /\ st = "TRAILER" => PartAt(r, 1) = "E"
         /\ \A i \in 1 .. n :
              Accepts(IF i = 1 THEN st ELSE After(PartAt(r, i - 1)), PartAt(r, i))
<1> DEFINE h == Flag(r.hdr # "no")
           b == Flag(r.body)
           t == Flag(r.trl)
           e == Flag(r.ended)
<1>1. /\ h \in {0, 1} /\ b \in {0, 1} /\ t \in {0, 1} /\ e \in {0, 1}
      /\ h = 1 <=> r.hdr # "no"
      /\ b = 1 <=> r.body
      /\ t = 1 <=> r.trl
      /\ e = 1 <=> r.ended
      /\ Content(r) = h + b + t
  BY DEF Flag, Content, Response
<1>2. /\ r.stage \in Stages
      /\ b = 1 => r.stage \notin {"none", "continued", "headers"}
      /\ t = 1 => r.stage \in {"trailer", "ended"}
      /\ e = 1 => r.stage = "ended"
      /\ st = "ZERO" => (h = 1 <=> r.stage \notin {"none", "continued"})
      /\ st \in {"ZERO", "HEADER"} => (t = 1 => b = 1)
      /\ st # "ZERO" => h = 0
      /\ st \in {"BODY", "TRAILER"} => b = 0
      /\ st = "TRAILER" => t = 0
  BY <1>1 DEF StageOK, Fits, Response
<1>3. /\ st = "ZERO" => h = 1 /\ (t = 1 => b = 1)
      /\ st = "HEADER" => h = 0 /\ (t = 1 => b = 1)
      /\ st = "BODY" => h = 0 /\ b = 0
      /\ st = "TRAILER" => h = 0 /\ b = 0 /\ t = 0
  BY <1>1, <1>2 DEF Stages
<1>4. \A i \in 1 .. n : PartAt(r, i) = IF i <= h THEN "H" ELSE IF i <= h + b THEN "B"
                                       ELSE IF i <= h + b + t THEN "T" ELSE "E"
  BY <1>1 DEF PartAt
<1>5. n \in Nat /\ 1 <= n /\ n <= h + b + t + e
  BY <1>1
<1> HIDE DEF h, b, t, e
<1>6. \A i \in 1 .. n - 1 : <<PartAt(r, i), PartAt(r, i + 1)>> \in Neighbours
  <2> SUFFICES ASSUME NEW i \in 1 .. n - 1
               PROVE  <<PartAt(r, i), PartAt(r, i + 1)>> \in Neighbours
    OBVIOUS
  <2>1. i \in 1 .. n /\ i + 1 \in 1 .. n
    BY <1>5
  <2>2. \/ PartAt(r, i) = "H" /\ PartAt(r, i + 1) = "B"
        \/ PartAt(r, i) = "H" /\ PartAt(r, i + 1) = "E"
        \/ PartAt(r, i) = "B" /\ PartAt(r, i + 1) = "T"
        \/ PartAt(r, i) = "B" /\ PartAt(r, i + 1) = "E"
        \/ PartAt(r, i) = "T" /\ PartAt(r, i + 1) = "E"
    BY <1>1, <1>3, <1>4, <1>5, <2>1
  <2> QED
    BY <2>2 DEF Neighbours
<1>7. /\ st = "ZERO" => PartAt(r, 1) = "H"
      /\ st = "HEADER" => PartAt(r, 1) \in {"B", "E"}
      /\ st = "BODY" => PartAt(r, 1) \in {"T", "E"}
      /\ st = "TRAILER" => PartAt(r, 1) = "E"
  <2>1. 1 \in 1 .. n
    BY <1>5
  <2> QED
    BY <1>1, <1>3, <1>4, <1>5, <2>1
<1>8. ASSUME NEW i \in 1 .. n
      PROVE  Accepts(IF i = 1 THEN st ELSE After(PartAt(r, i - 1)), PartAt(r, i))
  <2>1. CASE i = 1
    BY <1>7, <2>1 DEF Accepts
  <2>2. CASE i # 1
    <3>1. i - 1 \in 1 .. n - 1 /\ (i - 1) + 1 = i
      BY <1>5, <2>2
    <3>2. <<PartAt(r, i - 1), PartAt(r, i)>> \in Neighbours
      BY <1>6, <3>1
    <3>3. PartAt(r, i - 1) # "C"
      BY DEF PartAt
    <3>4. Accepts(After(PartAt(r, i - 1)), PartAt(r, i))
      BY <3>2, <3>3 DEF Neighbours, Accepts, After
    <3> QED
      BY <2>2, <3>4
  <2> QED
    BY <2>1, <2>2
<1> QED
  BY <1>6, <1>7, <1>8

\* After a response was encoded without its end, the encoder is where the last
\* part left it and the rest of the response fits.
LEMMA EmptiedFits ==
  ASSUME NEW r \in Response, StageOK(r), NEW st \in {"ZERO", "HEADER", "BODY", "TRAILER"},
         Fits(st, r), ~r.ended, NEW n, n = Content(r), n # 0
  PROVE  /\ PartAt(r, n) \in {"H", "B", "T"}
         /\ After(PartAt(r, n)) = PartState(PartAt(r, n))
         /\ Fits(PartState(PartAt(r, n)), Emptied(r))
         /\ r.stage # "none"
<1> DEFINE q == Emptied(r)
<1>1. /\ q \in Response /\ q.stage = r.stage /\ q.hdr = "no" /\ ~q.body /\ ~q.trl
      /\ r.body \in BOOLEAN /\ r.trl \in BOOLEAN /\ r.stage \in Stages
  BY DEF Emptied, Response
<1> HIDE DEF q
<1>2. \/ r.trl /\ PartAt(r, n) = "T"
      \/ ~r.trl /\ r.body /\ PartAt(r, n) = "B"
      \/ ~r.trl /\ ~r.body /\ r.hdr # "no" /\ PartAt(r, n) = "H"
  BY <1>1 DEF PartAt, Content, Flag
<1>3. CASE r.trl /\ PartAt(r, n) = "T"
  BY <1>1, <1>3 DEF StageOK, Fits, PartState, After, q
<1>4. CASE ~r.trl /\ r.body /\ PartAt(r, n) = "B"
  BY <1>1, <1>4 DEF StageOK, Fits, PartState, After, q
<1>5. CASE ~r.trl /\ ~r.body /\ r.hdr # "no" /\ PartAt(r, n) = "H"
  BY <1>1, <1>5 DEF StageOK, Fits, PartState, After, q
<1> QED
  BY <1>2, <1>3, <1>4, <1>5

-----------------------------------------------------------------------------
(* notify_local_content: one iteration. *)

\* Every submitted byte is at the peer, in flight or waiting, and what can still
\* reach the peer was submitted.
LEMMA ReachBound ==
  ASSUME ConnInv
  PROVE  /\ Reach \in Nat /\ Reach <= Len(sent) /\ Len(sent) \in Nat
         /\ ~stopped => Reach = Len(sent)
<1>1. /\ Len(wire) \in Nat /\ Len(out) \in Nat /\ Len(ser) \in Nat /\ Len(sent) \in Nat
      /\ stopped \in BOOLEAN /\ writing \in BOOLEAN
  BY LenProperties DEF ConnInv, ConnTypeOK
<1>2. ~writing => Len(out) = 0
  BY EmptySeq DEF ConnInv, NothingInFlight
<1>3. Len(wire) <= Len(sent) /\ (writing => Len(sent) = Len(wire) + Len(out) + Len(ser))
  BY DEF ConnInv, Located
<1> QED
  BY <1>1, <1>2, <1>3 DEF Reach

\* What a submission does to the bytes and to the feedbacks.
LEMMA Submitted ==
  ASSUME ConnInv, NEW id \in Ids, NEW parts \in Seq(Part), NEW ending \in BOOLEAN,
         NEW only \in BOOLEAN, Submit(id, parts, ending, only)
  PROVE  /\ Len(sent') = Len(sent) + Len(parts) /\ Len(parts) \in Nat /\ Len(sent) \in Nat
         /\ \A i \in 1 .. Len(sent) : sent'[i] = sent[i]
         /\ \A i \in 1 .. Len(parts) : sent'[Len(sent) + i].id = id
         /\ \A i \in 1 .. Len(parts) : sent'[Len(sent) + i].part = parts[i]
         /\ turn' = (IF ending THEN id + 1 ELSE id)
         /\ UNCHANGED <<alive, stopped, rd, ttl, fired, wire, nacked>>
         /\ Complete' = Complete \cup (IF ending THEN {id} ELSE {})
         /\ acked \subseteq acked'
         /\ fb' \cup acked' \subseteq fb \cup acked \cup
              (IF stopped THEN {} ELSE pcc \cup (IF ending THEN {id} ELSE {}))
         /\ pcc' \subseteq pcc \cup (IF ending THEN {id} ELSE {})
         /\ stopped => out' = out
         /\ ~Unreferenced => ~Unreferenced'
         /\ ~alive => UNCHANGED <<writing, armed>>
<1> DEFINE new   == Bytes(id, parts)
           mine  == IF ending THEN {id} ELSE {}
           first == IF new = <<>> THEN ser ELSE Append(ser, Head(new))
           rest  == IF new = <<>> THEN <<>> ELSE Tail(new)
           now   == IF only THEN pcc \cup mine ELSE pcc
           later == IF only THEN {} ELSE mine
<1>1. /\ turn' = IF ending THEN id + 1 ELSE id
      /\ sent' = sent \o new
      /\ UNCHANGED <<alive, stopped, rd, ttl, fired, wire, nacked>>
      /\ \/ /\ ~CanWrite
            /\ ser' = ser \o new
            /\ pcc' = pcc \cup mine
            /\ UNCHANGED <<armed, writing, out, fb, acked>>
         \/ /\ CanWrite /\ first = <<>>
            /\ armed' = Renewed(armed)
            /\ acked' = acked \cup now
            /\ ser' = <<>> /\ pcc' = later
            /\ UNCHANGED <<writing, out, fb>>
         \/ /\ CanWrite /\ first # <<>>
            /\ armed' = Renewed(armed)
            /\ writing' = TRUE /\ out' = first /\ fb' = now
            /\ ser' = rest /\ pcc' = later
            /\ UNCHANGED acked
  BY DEF Submit
<1>2. /\ new \in Seq(Item) /\ Len(new) = Len(parts) /\ Len(parts) \in Nat
      /\ \A i \in 1 .. Len(parts) : new[i].id = id
      /\ \A i \in 1 .. Len(parts) : new[i].part = parts[i]
  BY BytesProperties, LenProperties DEF Bytes
<1>3. sent \in Seq(Item) /\ Len(sent) \in Nat
  BY LenProperties DEF ConnInv, ConnTypeOK
<1>4. /\ CanWrite => fb = {} /\ ~stopped /\ alive
      /\ armed \in BOOLEAN /\ ttl \in BOOLEAN /\ stopped \in BOOLEAN
      /\ now \cup later = pcc \cup mine
  BY DEF ConnInv, ConnTypeOK, CanWrite, NothingInFlight
<1>w. \/ /\ ~CanWrite /\ pcc' = pcc \cup mine
         /\ UNCHANGED <<armed, writing, out, fb, acked>>
      \/ /\ CanWrite /\ armed' = Renewed(armed) /\ acked' = acked \cup now /\ pcc' = later
         /\ UNCHANGED <<writing, out, fb>>
      \/ /\ CanWrite /\ armed' = Renewed(armed) /\ writing' = TRUE /\ fb' = now /\ pcc' = later
         /\ UNCHANGED acked
  BY <1>1
<1> HIDE DEF new, first, rest
<1>5. /\ Len(sent') = Len(sent) + Len(new)
      /\ \A i \in 1 .. Len(sent) + Len(new) :
           sent'[i] = IF i <= Len(sent) THEN sent[i] ELSE new[i - Len(sent)]
  <2>1. sent' = sent \o new /\ sent \in Seq(Item) /\ new \in Seq(Item)
    BY <1>1, <1>2, <1>3
  <2> QED
    BY <2>1, ConcatProperties, Zenon
<1>6. \A i \in 1 .. Len(sent) : sent'[i] = sent[i]
  BY <1>2, <1>3, <1>5
<1>7. \A i \in 1 .. Len(parts) : sent'[Len(sent) + i] = new[i]
  <2> TAKE i \in 1 .. Len(parts)
  <2> DEFINE j == Len(sent) + i
  <2>1. j \in 1 .. Len(sent) + Len(new) /\ ~(j <= Len(sent)) /\ j - Len(sent) = i
    BY <1>2, <1>3
  <2> HIDE DEF j
  <2>2. sent'[j] = new[i]
    BY <1>5, <2>1
  <2> QED
    BY <2>2 DEF j
<1>8. /\ Complete' = Complete \cup mine
      /\ acked \subseteq acked'
      /\ fb' \cup acked' \subseteq fb \cup acked \cup (IF stopped THEN {} ELSE pcc \cup mine)
      /\ pcc' \subseteq pcc \cup mine
      /\ stopped => out' = out
  <2>1. CASE /\ ~CanWrite /\ pcc' = pcc \cup mine
             /\ UNCHANGED <<armed, writing, out, fb, acked>>
    BY <1>1, <2>1 DEF Complete
  <2>2. CASE /\ CanWrite /\ acked' = acked \cup now /\ pcc' = later
             /\ UNCHANGED <<writing, out, fb>>
    BY <1>1, <1>4, <2>2 DEF Complete
  <2>3. CASE /\ CanWrite /\ fb' = now /\ pcc' = later
             /\ UNCHANGED acked
    BY <1>1, <1>4, <2>3 DEF Complete
  <2> QED
    BY <1>w, <2>1, <2>2, <2>3
<1>9. /\ ~Unreferenced => ~Unreferenced'
      /\ ~alive => UNCHANGED <<writing, armed>>
  BY <1>1, <1>4, <1>w DEF Unreferenced, Renewed
<1>10. turn' = (IF ending THEN id + 1 ELSE id)
       /\ UNCHANGED <<alive, stopped, rd, ttl, fired, wire, nacked>>
  BY <1>1
<1> QED
  BY <1>2, <1>3, <1>5, <1>6, <1>7, <1>8, <1>9, <1>10

\* One submission for the front response, which becomes q.  What it has to give
\* for the invariant to survive: its share of bytes is kept, the parts continue
\* what was sent of it, and the encoder is where the last part leaves it.
LEMMA PolledStep ==
  ASSUME SrvIInv, Uncut, polling, NEW id \in Ids, id = locals[1], NEW parts \in Seq(Part),
         NEW ending \in BOOLEAN, NEW only \in BOOLEAN, Submit(id, parts, ending, only),
         ending \/ parts # <<>>, only <=> ending /\ (parts = <<>> \/ parts = <<"E">>),
         NEW q \in Response, resp' = [resp EXCEPT ![id] = q],
         q.told = resp[id].told, q.held = resp[id].held, q.stage = resp[id].stage,
         q.ended = resp[id].ended, StageOK(q),
         locals' = (IF ending THEN Tail(locals) ELSE locals),
         polling' \in BOOLEAN, polling' => locals' # <<>>, cur' \in Ids \cup {0},
         persistent' \in BOOLEAN, enc_ok' \in BOOLEAN,
         enc' \in [st : {"ZERO", "HEADER", "BODY", "TRAILER"}, chunked : BOOLEAN],
         UNCHANGED <<env, user_close, missing, decodeVars, nreq, req, ends, ran>>,
         Len(parts) + (IF ending THEN 0 ELSE Left(q)) <= Left(resp[id]),
         ending => stopped \/ Settled(q),
         Coherent /\ ~stopped =>
           /\ \A i \in 1 .. Len(parts) - 1 : <<parts[i], parts[i + 1]>> \in Neighbours
           /\ parts # <<>> => IF Touched(id) THEN <<Last.part, parts[1]>> \in Neighbours
                              ELSE parts[1] \in {"C", "H"},
         Coherent /\ ~ending =>
           /\ parts[Len(parts)] # "E" /\ Fits(PartState(parts[Len(parts)]), q)
           /\ ~q.cont /\ q.stage # "none" /\ enc'.st = PartState(parts[Len(parts)]),
         Coherent /\ ending => enc'.st = "ZERO",
         Orderly /\ ~Torso => enc_ok'
  PROVE  SrvIInv'
<1> USE DEF decodeVars
<1>t. TypeOK /\ ConnInv /\ Threads /\ Queues /\ Events /\ Stage /\ Outcomes
      /\ Bounded /\ Serial /\ Whole /\ EncoderOK
  BY DEF SrvIInv
<1>l. /\ nreq \in Nat /\ turn \in Nat /\ Len(locals) \in Nat
      /\ \A i \in 1 .. Len(locals) :
           locals[i] \in Ids /\ locals[i] \in Nat /\ turn <= locals[i] /\ locals[i] <= nreq
      /\ \A j \in Complete : j \in Ids /\ j < turn /\ j <= nreq /\ j \notin InSeq(locals)
  BY LocalsAndComplete
<1>p. locals # <<>> /\ ~Unreferenced /\ (~alive => user_close)
  BY <1>t DEF Threads, Queues
<1>v. /\ Tail(locals) \in Seq(Ids) /\ Len(Tail(locals)) = Len(locals) - 1 /\ Len(locals) >= 1
      /\ id \in Nat
      /\ \A i \in 1 .. Len(Tail(locals)) : Tail(locals)[i] = locals[i + 1]
      /\ \A i \in 1 .. Len(Tail(locals)) : Tail(locals)[i] # id
      /\ \A i \in 1 .. Len(Tail(locals)) : Tail(locals)[i] \in Ids /\ i + 1 \in 1 .. Len(locals)
      /\ InSeq(locals) = InSeq(Tail(locals)) \cup {id}
      /\ id \notin InSeq(Tail(locals))
      /\ Tail(locals) = <<>> => id = nreq
      /\ Tail(locals) # <<>> => Tail(locals)[1] = id + 1
  BY <1>p, FrontRemoved
<1>i. turn <= id /\ id <= nreq /\ id >= turn
  <2>1. 1 \in 1 .. Len(locals)
    BY <1>l, <1>v
  <2>2. turn <= id /\ id <= nreq
    BY <1>l, <2>1
  <2> QED
    BY <2>2, <1>l, <1>v
<1>o. \A i \in 1 .. Len(locals) : i # 1 => locals[i] > id /\ locals[i] # id
  <2>1. \A i \in 1 .. Len(locals) : locals[i] = nreq - Len(locals) + i
    BY <1>t DEF Queues
  <2>2. 1 \in 1 .. Len(locals) /\ Len(locals) \in Nat /\ nreq \in Nat
    BY <1>l, <1>v
  <2>3. id = nreq - Len(locals) + 1
    BY <2>1, <2>2
  <2> QED
    BY <2>1, <2>2, <2>3
<1>f. /\ resp \in [Ids -> Response] /\ locals \in Seq(Ids)
      /\ ends \in Seq(Ids) /\ \A i \in 1 .. Len(ends) : ends[i] \in Ids
      /\ fb \subseteq Ids /\ acked \subseteq Ids /\ pcc \subseteq Ids
      /\ \A j \in Ids : j \in Nat
  BY <1>t, ElementOfSeq, IdsAssumption DEF TypeOK, ConnTypeOK
<1>r. /\ resp'[id] = q
      /\ \A j \in Ids : j # id => resp'[j] = resp[j]
  BY <1>f
<1>s. /\ Len(sent') = Len(sent) + Len(parts) /\ Len(parts) \in Nat /\ Len(sent) \in Nat
      /\ \A i \in 1 .. Len(sent) : sent'[i] = sent[i]
      /\ \A i \in 1 .. Len(parts) : sent'[Len(sent) + i].id = id
      /\ \A i \in 1 .. Len(parts) : sent'[Len(sent) + i].part = parts[i]
      /\ turn' = (IF ending THEN id + 1 ELSE id)
      /\ UNCHANGED <<alive, stopped, rd, ttl, fired, wire, nacked>>
      /\ Complete' = Complete \cup (IF ending THEN {id} ELSE {})
      /\ acked \subseteq acked'
      /\ fb' \cup acked' \subseteq fb \cup acked \cup
           (IF stopped THEN {} ELSE pcc \cup (IF ending THEN {id} ELSE {}))
      /\ pcc' \subseteq pcc \cup (IF ending THEN {id} ELSE {})
      /\ stopped => out' = out
      /\ ~Unreferenced => ~Unreferenced'
      /\ ~alive => UNCHANGED <<writing, armed>>
  BY <1>t, Submitted
<1>c. ConnInv'
  BY <1>t, <1>i, SubmitStep
<1>n. id \notin Complete
  <2>1. id \in InSeq(locals)
    BY <1>v
  <2> QED
    BY <1>l, <2>1
<1>1. TypeOK'
  <2>1. resp' \in [Ids -> Response]
    BY <1>f
  <2>2. locals' \in Seq(Ids)
    BY <1>f, <1>v
  <2> QED
    BY <1>t, <1>c, <2>1, <2>2 DEF TypeOK, ConnInv
<1>2. Threads'
  BY <1>t, <1>p, <1>s DEF Threads
<1>3. Queues'
  <2>1. \A i \in 1 .. Len(locals') : locals'[i] = nreq' - Len(locals') + i
    <3>1. CASE ~ending
      BY <1>t, <3>1 DEF Queues
    <3>2. CASE ending
      BY <1>t, <1>l, <1>v, <3>2 DEF Queues
    <3> QED
      BY <3>1, <3>2
  <2>2. /\ Len(locals') <= nreq' /\ turn' <= nreq' + 1
        /\ locals' # <<>> => turn' <= locals'[1]
    <3>0. Len(locals) <= nreq
      BY <1>t DEF Queues
    <3>d. /\ turn' = (IF ending THEN id + 1 ELSE id) /\ nreq' = nreq
          /\ id \in Nat /\ id <= nreq /\ nreq \in Nat /\ Len(locals) \in Nat
          /\ Len(Tail(locals)) = Len(locals) - 1
          /\ Tail(locals) # <<>> => Tail(locals)[1] = id + 1
      BY <1>l, <1>v, <1>i, <1>s
    <3>1. CASE ~ending
      BY <3>0, <3>1, <3>d
    <3>2. CASE ending
      BY <3>0, <3>2, <3>d
    <3> QED
      BY <3>1, <3>2
  <2>3. ASSUME NEW i \in 1 .. Len(sent') PROVE sent'[i].id <= nreq'
    <3>1. CASE i \in 1 .. Len(sent)
      BY <1>t, <1>s, <3>1 DEF Queues
    <3>2. CASE i \notin 1 .. Len(sent)
      <4>1. i - Len(sent) \in 1 .. Len(parts) /\ Len(sent) + (i - Len(sent)) = i
        BY <1>s, <3>2
      <4> QED
        BY <1>i, <1>s, <4>1
    <3> QED
      BY <3>1, <3>2
  <2>4. /\ ran' \subseteq acked' \cup nacked'
        /\ alive' \/ user_close'
        /\ remotes' = <<>> \/ (remotes' = <<nreq'>> /\ nreq' > 0 /\ dec' # "idle"
                               /\ ~decoding_error')
    BY <1>t, <1>s, <1>p DEF Queues
  <2> QED
    BY <2>1, <2>2, <2>3, <2>4 DEF Queues
<1>4. Events'
  <2>1. ~(id > nreq)
    BY <1>l, <1>i, <1>v
  <2> QED
    BY <1>t, <1>r, <2>1 DEF Events
<1>5. Stage'
  BY <1>t, <1>r DEF Stage
<1>6. Outcomes'
  <2>1. \A j \in Ids : /\ resp'[j].told = resp[j].told /\ resp'[j].held = resp[j].held
                       /\ resp'[j].ended = resp[j].ended /\ resp'[j].stage = resp[j].stage
    BY <1>r
  <2>2. \A j \in Ids : Outstanding(j)' <=> Outstanding(j)
    <3>1. pcc \cup fb \cup Posted = Complete \ ran
      BY <1>t DEF ConnInv, Apart, Queues, Posted, Complete
    <3>2. pcc' \cup fb' \cup Posted' = Complete' \ ran'
      BY <1>c, <1>3 DEF ConnInv, Apart, Queues, Posted, Complete
    <3>3. id \notin ran
      BY <1>t, <1>n DEF Queues, Complete
    <3>4. CASE ~ending
      <4>1. InSeq(locals)' = InSeq(locals)
        BY <3>4 DEF InSeq
      <4> QED
        BY <1>s, <3>1, <3>2, <3>4, <4>1 DEF Outstanding
    <3>5. CASE ending
      <4>1. InSeq(locals)' = InSeq(Tail(locals))
        BY <3>5 DEF InSeq
      <4>2. /\ Complete' = Complete \cup {id} /\ ran' = ran
            /\ InSeq(locals) = InSeq(Tail(locals)) \cup {id}
        BY <1>s, <1>v, <3>5
      <4>3. InSeq(Tail(locals)) \cup ((Complete \cup {id}) \ ran) =
              InSeq(locals) \cup (Complete \ ran)
        BY <3>3, <4>2
      <4>4. \A j : Outstanding(j)' <=> j \in InSeq(Tail(locals)) \cup (Complete' \ ran')
        BY <3>2, <4>1 DEF Outstanding
      <4>5. \A j : Outstanding(j) <=> j \in InSeq(locals) \cup (Complete \ ran)
        BY <3>1 DEF Outstanding
      <4> QED
        BY <4>2, <4>3, <4>4, <4>5
    <3> QED
      BY <3>4, <3>5
  <2>3. /\ \A j \in fb' \cup acked' : Settled(resp'[j])
        /\ \A j \in pcc' : stopped' \/ Settled(resp'[j])
    <3>1. \A j \in fb \cup acked : j # id /\ Settled(resp'[j])
      BY <1>t, <1>f, <1>n, <1>r DEF Outcomes, Complete
    <3>2. \A j \in pcc : j # id /\ (stopped \/ Settled(resp'[j]))
      BY <1>t, <1>f, <1>n, <1>r DEF Outcomes, Complete
    <3> QED
      BY <1>s, <1>r, <3>1, <3>2
  <2>4. \A i \in 1 .. Len(locals') : resp'[locals'[i]].ended =>
          resp'[locals'[i]].stage = "ended" \/ (stopped' /\ "fail" \in env')
    <3>0. \A i \in 1 .. Len(locals) : resp'[locals[i]].ended =>
            resp'[locals[i]].stage = "ended" \/ (stopped' /\ "fail" \in env')
      BY <1>t, <1>l, <1>s, <2>1 DEF Outcomes
    <3>1. CASE ~ending
      BY <3>0, <3>1
    <3>2. CASE ending
      BY <1>v, <3>0, <3>2
    <3> QED
      BY <3>1, <3>2
  <2>5. \A i \in 1 .. Len(ends') : resp'[ends'[i]].stage = "ended"
    BY <1>t, <1>f, <2>1 DEF Outcomes
  <2>6. \A j \in Ids : "cleared" \in InSeq(resp'[j].told) => j \in acked'
    BY <1>t, <1>s, <2>1 DEF Outcomes
  <2>7. "fail" \notin env' => \A j \in Ids :
          /\ Len(resp'[j].told) <= 1
          /\ resp'[j].told # <<>> => ~Outstanding(j)'
          /\ j <= nreq' /\ resp'[j].held /\ resp'[j].told = <<>> => Outstanding(j)'
    BY <1>t, <2>1, <2>2 DEF Outcomes
  <2> QED
    BY <2>3, <2>4, <2>5, <2>6, <2>7 DEF Outcomes
<1>7. Bounded'
  <2>1. /\ Left(resp[id]) \in Nat /\ Left(q) \in Nat
        /\ Len(sent) + Left(resp[id]) <= 5 * id
    BY <1>t, <1>f, <1>p, LeftBound DEF Bounded
  <2>2. CASE ~ending
    <3>1. Len(sent') + Left(q) <= 5 * id
      BY <1>s, <1>v, <2>1, <2>2
    <3> QED
      BY <1>p, <1>r, <2>2, <3>1 DEF Bounded
  <2>3. CASE ending
    <3>1. Len(sent') <= 5 * id /\ Len(sent') \in Nat
      BY <1>s, <1>v, <2>1, <2>3
    <3>2. CASE Tail(locals) = <<>>
      BY <1>v, <2>3, <3>1, <3>2 DEF Bounded
    <3>3. CASE Tail(locals) # <<>>
      <4> DEFINE k == Tail(locals)[1]
      <4>1. k = id + 1 /\ k \in Ids /\ k # id
        <5>1. 1 \in 1 .. Len(Tail(locals))
          BY <1>v, <1>l, <3>3, EmptySeq
        <5> QED
          BY <1>v, <3>3, <5>1
      <4>2. Left(resp'[k]) \in Nat /\ Left(resp'[k]) <= 5
        BY <1>t, <1>f, <1>r, <4>1, LeftBound DEF Stage
      <4>3. Len(sent') + Left(resp'[k]) <= 5 * k
        BY <1>v, <3>1, <4>1, <4>2, RoomForOne
      <4> QED
        BY <2>3, <3>3, <4>3 DEF Bounded
    <3> QED
      BY <3>2, <3>3
  <2> QED
    BY <2>2, <2>3
<1>8. EncoderOK'
  <2>1. Torso => Torso'
    <3> SUFFICES ASSUME Torso PROVE Torso'
      OBVIOUS
    <3>1. PICK j \in missing, i \in 1 .. Len(sent) : sent[i].id = j
      BY DEF Torso
    <3>2. i \in 1 .. Len(sent') /\ sent'[i].id = j
      BY <1>s, <3>1
    <3> QED
      BY <3>1, <3>2 DEF Torso
  <2> QED
    BY <1>t, <2>1 DEF EncoderOK, Orderly
<1>k. /\ sent # <<>> => Last.id <= id /\ Last.id \in Nat /\ Len(sent) \in 1 .. Len(sent)
      /\ sent # <<>> => Last.id <= turn
  <2> SUFFICES ASSUME sent # <<>>
               PROVE  /\ Last.id <= id /\ Last.id \in Nat /\ Len(sent) \in 1 .. Len(sent)
                      /\ Last.id <= turn
    OBVIOUS
  <2>1. sent \in Seq(Item) /\ Len(sent) \in 1 .. Len(sent)
    BY <1>t, LenProperties, EmptySeq DEF ConnInv, ConnTypeOK
  <2>2. sent[Len(sent)] \in Item
    BY <2>1, ElementOfSeq
  <2>3. Last.id \in Nat /\ Last.id <= turn
    BY <1>t, <1>f, <2>1, <2>2 DEF Last, Item, ConnInv, Feedbacks
  <2> QED
    BY <1>i, <1>l, <1>v, <2>1, <2>3
<1>m. /\ parts # <<>> => /\ sent' # <<>> /\ Last'.id = id /\ Last'.part = parts[Len(parts)]
      /\ parts = <<>> => (sent' # <<>> <=> sent # <<>>) /\ (sent # <<>> => Last' = Last)
  <2>e. sent \in Seq(Item) /\ sent' \in Seq(Item)
    BY <1>t, <1>c DEF ConnInv, ConnTypeOK
  <2>1. CASE parts # <<>>
    <3>1. Len(parts) \in 1 .. Len(parts) /\ Len(sent') # 0
      BY <1>s, <2>1, EmptySeq
    <3>2. sent' # <<>>
      BY <3>1, EmptySeq
    <3>3. Last' = sent'[Len(sent) + Len(parts)]
      BY <1>s DEF Last
    <3> QED
      BY <1>s, <2>1, <3>1, <3>2, <3>3
  <2>2. CASE parts = <<>>
    <3>1. Len(parts) = 0
      BY <2>2, EmptySeq
    <3>2. Len(sent') = Len(sent)
      BY <1>s, <3>1
    <3>3. sent' # <<>> <=> sent # <<>>
      BY <2>e, <3>2, EmptySeq
    <3>4. sent # <<>> => Last' = Last
      BY <1>k, <1>s, <3>2 DEF Last
    <3> QED
      BY <2>2, <3>3, <3>4
  <2> QED
    BY <2>1, <2>2
<1>9. Serial'
  <2>0. (Coherent' <=> Coherent) /\ (~Torso' => ~Torso)
    <3>1. Torso => Torso'
      <4> SUFFICES ASSUME Torso PROVE Torso'
        OBVIOUS
      <4>1. PICK j \in missing, i \in 1 .. Len(sent) : sent[i].id = j
        BY DEF Torso
      <4>2. i \in 1 .. Len(sent') /\ sent'[i].id = j
        BY <1>s, <4>1
      <4> QED
        BY <4>1, <4>2 DEF Torso
    <3> QED
      BY <1>s, <3>1 DEF Coherent, Orderly
  <2> SUFFICES ASSUME Coherent, Coherent' PROVE Serial'
    BY <2>0 DEF Serial
  \* The responses behind the front one are untouched.
  <2>1. ASSUME NEW j \in Ids, j > id
        PROVE  ~Touched(j) /\ Progress(j) = "ZERO" /\ ~Touched(j)' /\ Progress(j)' = "ZERO"
    <3>1. /\ sent # <<>> => Last.id # j
          /\ sent' # <<>> => Last'.id # j
      <4>1. j \in Nat /\ id \in Nat /\ ~(j <= id)
        BY <1>f, <1>v, <2>1
      <4>2. sent # <<>> => Last.id # j
        BY <1>k, <4>1
      <4>3. CASE parts # <<>>
        BY <1>m, <4>1, <4>2, <4>3
      <4>4. CASE parts = <<>>
        BY <1>m, <4>2, <4>4
      <4> QED
        BY <4>2, <4>3, <4>4
    <3> QED
      BY <3>1 DEF Touched, Progress
  <2>2. ASSUME ~ending PROVE Touched(id)' /\ Progress(id)' = PartState(parts[Len(parts)])
    BY <1>m, <2>2 DEF Touched, Progress
  <2>3. ASSUME NEW i \in 1 .. Len(locals')
        PROVE  (/\ Fits(Progress(locals[i]), resp[locals[i]])
                /\ resp[locals[i]].cont \/ resp[locals[i]].stage = "none" => ~Touched(locals[i]))'
    <3>1. PICK j : j = locals'[i]
      OBVIOUS
    <3>2. Progress(locals[i])' = Progress(j)' /\ (Touched(locals[i])' <=> Touched(j)')
      BY <3>1 DEF Progress, Touched, Last
    <3>3. /\ j \in Ids
          /\ (j = id /\ ~ending) \/ (j > id /\ \E k \in 1 .. Len(locals) : j = locals[k])
      <4>1. CASE ~ending
        <5>1. j \in Ids /\ j = locals[i] /\ i \in 1 .. Len(locals)
          BY <1>l, <2>3, <3>1, <4>1
        <5>2. i = 1 \/ j > id
          BY <1>o, <5>1
        <5> QED
          BY <4>1, <5>1, <5>2
      <4>2. CASE ending
        <5>1. j \in Ids /\ j = locals[i + 1] /\ i + 1 \in 1 .. Len(locals) /\ i + 1 # 1
          BY <1>v, <1>l, <2>3, <3>1, <4>2
        <5>2. j > id
          BY <1>o, <5>1
        <5> QED
          BY <5>1, <5>2
      <4> QED
        BY <4>1, <4>2
    <3>4. CASE j = id /\ ~ending
      <4>1. Fits(PartState(parts[Len(parts)]), q) /\ ~q.cont /\ q.stage # "none"
        BY <3>4
      <4>2. Progress(j)' = PartState(parts[Len(parts)])
        BY <2>2, <3>4
      <4> QED
        BY <1>r, <3>1, <3>2, <3>4, <4>1, <4>2
    <3>5. CASE j > id /\ \E k \in 1 .. Len(locals) : j = locals[k]
      <4>1. PICK k \in 1 .. Len(locals) : j = locals[k]
        BY <3>5
      <4>2. Fits(Progress(locals[k]), resp[locals[k]])
        BY <1>t DEF Serial
      <4>3. Fits("ZERO", resp[j])
        BY <2>1, <3>3, <3>5, <4>1, <4>2
      <4>4. resp'[j] = resp[j]
        BY <1>f, <1>r, <1>v, <3>3, <3>5
      <4> QED
        BY <2>1, <3>1, <3>2, <3>3, <3>5, <4>3, <4>4
    <3> QED
      BY <3>3, <3>4, <3>5
  <2>4. /\ ending /\ Tail(locals) # <<>> => Tail(locals)[1] \in Ids /\ Tail(locals)[1] > id
        /\ ~ending => locals'[1] = id /\ locals' # <<>>
    <3>1. Tail(locals) # <<>> => 1 \in 1 .. Len(Tail(locals))
      BY <1>v, <1>l, EmptySeq
    <3> QED
      BY <1>v, <1>p, <3>1
  <2>5. (~stopped /\ sent # <<>> /\ (IF locals = <<>> THEN TRUE ELSE Last.id # locals[1])
           => Last.id \in Complete \cup missing)'
    <3>1. CASE ~ending
      BY <1>m, <2>4, <3>1
    <3>2. CASE ending
      <4>1. CASE parts # <<>>
        BY <1>m, <1>s, <3>2, <4>1
      <4>2. CASE parts = <<>>
        <5> SUFFICES ASSUME ~stopped, sent # <<>>, Last.id # id
                     PROVE  Last.id \in Complete \cup missing
          BY <1>m, <1>s, <3>2, <4>2
        <5> QED
          BY <1>t, <1>p DEF Serial
      <4> QED
        BY <4>1, <4>2
    <3> QED
      BY <3>1, <3>2
  <2>6. (Touched(turn) => Last.part # "E")'
    <3>1. CASE ~ending
      BY <1>m, <3>1
    <3>2. CASE ending
      <4>1. sent' # <<>> => Last'.id \in Nat /\ Last'.id <= id
        BY <1>k, <1>m, <1>v
      <4>2. ~Touched(turn)'
        BY <1>s, <1>v, <3>2, <4>1 DEF Touched
      <4> QED
        BY <4>2
    <3> QED
      BY <3>1, <3>2
  <2>7. (~Torso => enc.st = IF locals = <<>> THEN "ZERO" ELSE Progress(locals[1]))'
    <3>1. CASE ~ending
      <4>1. Progress(locals[1])' = Progress(id)'
        BY <2>4, <3>1 DEF Progress, Touched, Last
      <4> QED
        BY <2>2, <2>4, <3>1, <4>1
    <3>2. CASE ending
      <4>1. ASSUME Tail(locals) # <<>> PROVE Progress(locals[1])' = "ZERO"
        <5>1. PICK j : j = Tail(locals)[1]
          OBVIOUS
        <5>2. Progress(j)' = "ZERO"
          BY <2>1, <2>4, <3>2, <4>1, <5>1
        <5>3. Progress(locals[1])' = Progress(j)'
          BY <3>2, <5>1 DEF Progress, Touched, Last
        <5> QED
          BY <5>2, <5>3
      <4> QED
        BY <3>2, <4>1
    <3> QED
      BY <3>1, <3>2
  <2> QED
    BY <2>3, <2>5, <2>6, <2>7 DEF Serial
<1>10. Whole'
  <2>0. /\ Reach \in Nat /\ Reach <= Len(sent) /\ (~stopped => Reach = Len(sent))
        /\ Reach' \in Nat /\ (~stopped => Reach' = Len(sent'))
    <3>1. Reach \in Nat /\ Reach <= Len(sent) /\ (~stopped => Reach = Len(sent))
      BY <1>t, ReachBound
    <3>2. Len(sent') \in Nat /\ Len(wire') \in Nat /\ Len(out') \in Nat
      BY <1>c, LenProperties DEF ConnInv, ConnTypeOK
    <3> QED
      BY <1>s, <3>1, <3>2 DEF Reach
  <2>1. ASSUME NEW i \in 1 .. Reach - 1 PROVE Follows(sent[i], sent[i + 1])'
    <3>1. i \in 1 .. Len(sent) /\ i + 1 \in 1 .. Len(sent)
      BY <1>s, <2>0
    <3>2. sent'[i] = sent[i] /\ sent'[i + 1] = sent[i + 1]
      BY <1>s, <3>1
    <3>3. Follows(sent[i], sent[i + 1])
      BY <1>t, <2>1 DEF Whole
    <3> QED
      BY <1>s, <3>2, <3>3 DEF Follows
  <2>2. Reach > 0 => sent'[1].part \in {"C", "H"}
    <3>1. Reach > 0 => 1 \in 1 .. Len(sent)
      BY <1>s, <2>0
    <3> QED
      BY <1>t, <1>s, <3>1 DEF Whole
  <2>3. CASE stopped
    <3>1. Reach' = Reach
      BY <1>s, <2>3 DEF Reach
    <3> QED
      BY <2>1, <2>2, <3>1 DEF Whole
  <2>4. CASE ~stopped
    <3>c. Coherent
      BY <1>t, <2>4 DEF Coherent, ConnInv, Open, Uncut
    <3>0. Coherent /\ Reach = Len(sent) /\ Reach' = Len(sent) + Len(parts)
      BY <1>t, <1>s, <2>0, <2>4, <3>c
    <3>e. parts # <<>> <=> Len(parts) > 0
      BY <1>s, EmptySeq
    <3>f. sent # <<>> <=> Len(sent) > 0
      BY <1>t, <1>s, EmptySeq DEF ConnInv, ConnTypeOK
    <3>1. Reach' > 0 => sent'[1].part \in {"C", "H"}
      <4>1. CASE Len(sent) > 0
        BY <2>2, <3>0, <4>1
      <4>2. CASE Len(sent) = 0 /\ Len(parts) > 0
        <5>1. ~Touched(id) /\ parts # <<>>
          BY <3>e, <3>f, <4>2 DEF Touched
        <5>2. parts[1] \in {"C", "H"}
          BY <2>4, <3>0, <5>1
        <5>3. 1 \in 1 .. Len(parts) /\ Len(sent) + 1 = 1
          BY <1>s, <4>2
        <5> QED
          BY <1>s, <5>2, <5>3
      <4> QED
        BY <1>s, <3>0, <4>1, <4>2
    <3>2. ASSUME NEW i \in 1 .. Reach' - 1 PROVE Follows(sent[i], sent[i + 1])'
      <4>1. CASE i < Len(sent)
        BY <1>s, <2>1, <3>0, <4>1
      <4>2. CASE i = Len(sent)
        <5>0. sent # <<>> /\ parts # <<>> /\ 1 \in 1 .. Len(parts) /\ Len(sent) \in 1 .. Len(sent)
          BY <1>s, <3>0, <3>e, <3>f, <3>2, <4>2
        <5>1. sent'[i] = Last /\ sent'[i + 1].id = id /\ sent'[i + 1].part = parts[1]
          BY <1>s, <4>2, <5>0 DEF Last
        <5>2. CASE Touched(id)
          <6>1. Last.id = id /\ <<Last.part, parts[1]>> \in Neighbours
            BY <2>4, <3>0, <5>0, <5>2 DEF Touched
          <6> QED
            BY <5>1, <6>1 DEF Follows
        <5>3. CASE ~Touched(id)
          <6>1. Last.id # id /\ parts[1] \in {"C", "H"}
            BY <2>4, <3>0, <5>0, <5>3 DEF Touched
          <6>2. Last.id < id
            BY <1>k, <1>v, <5>0, <6>1
          <6>3. Last.id \in Complete \cup missing
            BY <1>t, <1>p, <2>4, <3>0, <5>0, <6>1 DEF Serial
          <6> QED
            BY <1>s, <5>1, <6>1, <6>2, <6>3 DEF Follows
        <5> QED
          BY <5>2, <5>3
      <4>3. CASE i > Len(sent)
        <5> DEFINE k == i - Len(sent)
        <5>1. /\ k \in 1 .. Len(parts) - 1 /\ k \in 1 .. Len(parts) /\ k + 1 \in 1 .. Len(parts)
              /\ Len(sent) + k = i /\ Len(sent) + (k + 1) = i + 1
          BY <1>s, <3>0, <3>2, <4>3
        <5> HIDE DEF k
        <5>2. /\ sent'[i].id = id /\ sent'[i].part = parts[k]
              /\ sent'[i + 1].id = id /\ sent'[i + 1].part = parts[k + 1]
          BY <1>s, <5>1
        <5>3. <<parts[k], parts[k + 1]>> \in Neighbours
          BY <2>4, <3>0, <5>1
        <5> QED
          BY <5>2, <5>3 DEF Follows
      <4> QED
        BY <1>s, <3>0, <4>1, <4>2, <4>3
    <3> QED
      BY <3>1, <3>2 DEF Whole
  <2> QED
    BY <2>3, <2>4
<1> QED
  BY <1>c, <1>1, <1>2, <1>3, <1>4, <1>5, <1>6, <1>7, <1>8, <1>9, <1>10 DEF SrvIInv

\* The front response of the loop, and what the invariant says of it.
LEMMA FrontResponse ==
  ASSUME SrvIInv, polling, NEW id, id = Head(locals)
  PROVE  /\ id = locals[1] /\ id \in Ids /\ id \in Nat /\ id <= nreq /\ locals # <<>>
         /\ resp[id] \in Response /\ StageOK(resp[id]) /\ ~Unreferenced
         /\ resp[id].ended => resp[id].stage = "ended" \/ (stopped /\ "fail" \in env)
         /\ Progress(id) \in {"ZERO", "HEADER", "BODY", "TRAILER"}
         /\ Orderly => Coherent
         /\ Coherent => /\ Fits(Progress(id), resp[id])
                        /\ resp[id].cont \/ resp[id].stage = "none" => ~Touched(id)
                        /\ Touched(id) => Last.part \in {"C", "H", "B", "T"}
                        /\ ~Torso => enc.st = Progress(id)
<1>t. TypeOK /\ ConnInv /\ Threads /\ Queues /\ Stage /\ Outcomes /\ Serial
  BY DEF SrvIInv
<1>1. locals # <<>> /\ ~Unreferenced /\ (~alive => user_close) /\ (user_close => "close" \in env)
  BY <1>t DEF Threads, Queues
<1>2. id = locals[1] /\ id \in Ids /\ id \in Nat
  BY <1>1, FrontRemoved
<1>3. 1 \in 1 .. Len(locals) /\ turn <= id /\ id <= nreq /\ turn \in Nat
  <2>1. 1 \in 1 .. Len(locals)
    BY <1>1, FrontRemoved, LocalsAndComplete
  <2> QED
    BY <1>2, <2>1, LocalsAndComplete
<1>4. /\ resp[id] \in Response /\ StageOK(resp[id])
      /\ resp[id].ended => resp[id].stage = "ended" \/ (stopped /\ "fail" \in env)
  BY <1>t, <1>2, <1>3 DEF TypeOK, Stage, Outcomes
<1>5. Progress(id) \in {"ZERO", "HEADER", "BODY", "TRAILER"}
  BY DEF Progress, PartState
<1>6. Orderly => Coherent
  <2>1. alive \in BOOLEAN
    BY <1>t DEF ConnInv, ConnTypeOK
  <2> QED
    BY <1>1, <2>1 DEF Orderly, Coherent
<1>7. ASSUME Coherent
      PROVE  /\ Fits(Progress(id), resp[id])
             /\ resp[id].cont \/ resp[id].stage = "none" => ~Touched(id)
             /\ ~Torso => enc.st = Progress(id)
  BY <1>t, <1>1, <1>2, <1>3, <1>7 DEF Serial
<1>8. ASSUME Coherent, Touched(id)
      PROVE  Last.part \in {"C", "H", "B", "T"}
  <2>1. sent \in Seq(Item) /\ Len(sent) \in 1 .. Len(sent)
    BY <1>t, <1>8, LenProperties, EmptySeq DEF ConnInv, ConnTypeOK, Touched
  <2>2. Last \in Item
    BY <2>1, ElementOfSeq DEF Last
  <2>3. Last.id <= turn /\ Last.id = id
    BY <1>t, <1>8, <2>1 DEF ConnInv, Feedbacks, Last, Touched
  <2>4. id = turn
    BY <1>2, <1>3, <2>3
  <2>5. Last.part # "E"
    BY <1>t, <1>8, <2>4 DEF Serial
  <2> QED
    BY <2>2, <2>5 DEF Item, Part
<1> QED
  BY <1>1, <1>2, <1>3, <1>4, <1>5, <1>6, <1>7, <1>8

\* The interim response goes out before anything else of its response.
LEMMA PollContinueStep ==
  ASSUME SrvIInv, Uncut, PollContinue
  PROVE  SrvIInv'
<1> DEFINE id == Head(locals)
           r == resp[id]
           q == [r EXCEPT !.cont = FALSE]
           parts == <<"C">>
<1>0. /\ polling /\ r.cont
      /\ resp' = [resp EXCEPT ![id].cont = FALSE]
      /\ Submit(id, parts, FALSE, FALSE)
      /\ enc' = [st |-> "ZERO", chunked |-> FALSE]
      /\ enc_ok' = (enc_ok /\ enc.st = "ZERO")
      /\ polling' = FALSE /\ cur' = 0
      /\ UNCHANGED <<locals, env, user_close, persistent, missing, decodeVars, nreq, req, ends,
                     ran>>
  BY DEF PollContinue, StopPolling
<1>1. /\ id = locals[1] /\ id \in Ids /\ id \in Nat /\ id <= nreq /\ locals # <<>>
      /\ r \in Response /\ StageOK(r) /\ ~Unreferenced
      /\ Progress(id) \in {"ZERO", "HEADER", "BODY", "TRAILER"}
      /\ Orderly => Coherent
      /\ Coherent => /\ Fits(Progress(id), r)
                     /\ r.cont \/ r.stage = "none" => ~Touched(id)
                     /\ ~Torso => enc.st = Progress(id)
  BY <1>0, FrontResponse
<1>2. resp \in [Ids -> Response] /\ persistent \in BOOLEAN /\ enc_ok \in BOOLEAN /\ EncoderOK
  BY DEF SrvIInv, TypeOK
<1>3. resp' = [resp EXCEPT ![id] = q]
  BY <1>0, <1>1, <1>2
<1> HIDE DEF id, r
<1>4. /\ q \in Response /\ q.told = r.told /\ q.held = r.held /\ q.stage = r.stage
      /\ q.ended = r.ended /\ q.hdr = r.hdr /\ q.body = r.body /\ q.trl = r.trl /\ q.cont = FALSE
  BY <1>1 DEF Response
<1> HIDE DEF q
<1>5. StageOK(q) /\ 1 + Left(q) <= Left(r) /\ q.stage # "none"
  BY <1>0, <1>1, <1>4 DEF StageOK, Left, ToCome, Flag
<1>6. parts \in Seq(Part) /\ Len(parts) = 1 /\ parts[1] = "C" /\ parts # <<>>
  BY DEF Part
<1>7. Coherent => ~Touched(id) /\ Progress(id) = "ZERO" /\ Fits("ZERO", q)
  <2>1. Coherent => ~Touched(id)
    BY <1>0, <1>1
  <2>2. Coherent => Progress(id) = "ZERO"
    BY <2>1 DEF Progress
  <2>3. Coherent => Fits("ZERO", r)
    BY <1>1, <2>2
  <2> QED
    BY <1>4, <2>1, <2>2, <2>3 DEF Fits
<1>8. PartState("C") = "ZERO"
  BY DEF PartState
<1> HIDE DEF parts
<1>9. /\ enc' \in [st : {"ZERO", "HEADER", "BODY", "TRAILER"}, chunked : BOOLEAN]
      /\ enc_ok' \in BOOLEAN /\ enc'.st = "ZERO" /\ persistent' \in BOOLEAN
      /\ Orderly /\ ~Torso => enc_ok'
  <2>1. Orderly /\ ~Torso => enc_ok /\ enc.st = "ZERO"
    BY <1>1, <1>2, <1>7 DEF EncoderOK
  <2> QED
    BY <1>0, <1>2, <2>1
<1>10. /\ Coherent /\ ~stopped =>
            /\ \A i \in 1 .. Len(parts) - 1 : <<parts[i], parts[i + 1]>> \in Neighbours
            /\ parts # <<>> => IF Touched(id) THEN <<Last.part, parts[1]>> \in Neighbours
                               ELSE parts[1] \in {"C", "H"}
       /\ Coherent =>
            /\ parts[Len(parts)] # "E" /\ Fits(PartState(parts[Len(parts)]), q)
            /\ ~q.cont /\ q.stage # "none" /\ enc'.st = PartState(parts[Len(parts)])
  BY <1>4, <1>5, <1>6, <1>7, <1>8, <1>9
<1>11. resp[id] = r /\ Len(parts) + Left(q) <= Left(r)
  BY <1>5, <1>6 DEF r
<1> QED
  BY <1>0, <1>1, <1>3, <1>4, <1>5, <1>6, <1>9, <1>10, <1>11, PolledStep

\* Everything the front response has is encoded; if it has ended it leaves.
LEMMA PollFrontStep ==
  ASSUME SrvIInv, Uncut, PollFront
  PROVE  SrvIInv'
<1> DEFINE id == Head(locals)
           r == resp[id]
           q == Emptied(r)
           ch == IF r.hdr # "no" THEN id \in Chunked ELSE enc.chunked
           all == Encoded(r)
           parts == Kept(r, ch)
<1>0. /\ polling /\ ~r.cont
      /\ resp' = [resp EXCEPT ![id].hdr = "no", ![id].body = FALSE, ![id].trl = FALSE]
      /\ persistent' = IF r.hdr \in {"keepalive", "close"} THEN r.hdr = "keepalive" ELSE persistent
      /\ IF all = <<>> THEN UNCHANGED <<connVars, encodeVars>>
         ELSE /\ Submit(id, parts, r.ended, all = <<"E">>)
              /\ enc' = [st |-> After(all[Len(all)]), chunked |-> ch]
              /\ enc_ok' = (enc_ok /\ \A i \in DOMAIN all :
                              Accepts(IF i = 1 THEN enc.st ELSE After(all[i - 1]), all[i]))
      /\ locals' = (IF r.ended THEN Tail(locals) ELSE locals)
      /\ polling' = (r.ended /\ Len(locals) > 1)
      /\ cur' = IF polling' THEN cur ELSE 0
      /\ UNCHANGED <<env, user_close, missing, decodeVars, nreq, req, ends, ran>>
  BY DEF PollFront, Drain, FrontEnded, Kept
<1>1. /\ id = locals[1] /\ id \in Ids /\ id \in Nat /\ id <= nreq /\ locals # <<>>
      /\ r \in Response /\ StageOK(r) /\ ~Unreferenced
      /\ r.ended => r.stage = "ended" \/ (stopped /\ "fail" \in env)
      /\ Progress(id) \in {"ZERO", "HEADER", "BODY", "TRAILER"}
      /\ Orderly => Coherent
      /\ Coherent => /\ Fits(Progress(id), r)
                     /\ r.cont \/ r.stage = "none" => ~Touched(id)
                     /\ Touched(id) => Last.part \in {"C", "H", "B", "T"}
                     /\ ~Torso => enc.st = Progress(id)
  BY <1>0, FrontResponse
<1>2. /\ resp \in [Ids -> Response] /\ persistent \in BOOLEAN /\ enc_ok \in BOOLEAN /\ EncoderOK
      /\ enc.chunked \in BOOLEAN /\ ends \in Seq(Ids) /\ cur \in Ids \cup {0}
      /\ \A i \in 1 .. Len(ends) : ends[i] \in Ids /\ resp[ends[i]].stage = "ended"
  <2>1. /\ resp \in [Ids -> Response] /\ persistent \in BOOLEAN /\ enc_ok \in BOOLEAN /\ EncoderOK
        /\ enc.chunked \in BOOLEAN /\ ends \in Seq(Ids) /\ cur \in Ids \cup {0} /\ Outcomes
    BY DEF SrvIInv, TypeOK
  <2>2. \A i \in 1 .. Len(ends) : ends[i] \in Ids
    BY <2>1, ElementOfSeq
  <2> QED
    BY <2>1, <2>2 DEF Outcomes
<1>3. resp' = [resp EXCEPT ![id] = q] /\ resp[id] = r
  BY <1>0, <1>1, <1>2 DEF Emptied
<1>c. ch \in BOOLEAN
  <2>1. (id \in Chunked) \in BOOLEAN
    OBVIOUS
  <2> QED
    BY <1>2, <2>1
<1>b. /\ r.ended \in BOOLEAN /\ r.body \in BOOLEAN /\ r.trl \in BOOLEAN /\ r.cont \in BOOLEAN
      /\ r.held \in BOOLEAN
  BY <1>1 DEF Response
<1>p. /\ persistent' \in BOOLEAN /\ polling' \in BOOLEAN /\ cur' \in Ids \cup {0}
      /\ polling' => r.ended /\ locals' # <<>>
  <2>1. persistent' \in BOOLEAN /\ polling' \in BOOLEAN /\ cur' \in Ids \cup {0}
    BY <1>0, <1>2, <1>b
  <2>2. polling' => Tail(locals) # <<>>
    <3>1. Len(Tail(locals)) = Len(locals) - 1 /\ Tail(locals) \in Seq(Ids) /\ Len(locals) \in Nat
      BY <1>1, FrontRemoved, LocalsAndComplete
    <3> SUFFICES ASSUME polling' PROVE Tail(locals) # <<>>
      OBVIOUS
    <3>2. Len(locals) > 1
      BY <1>0
    <3>3. Len(Tail(locals)) # 0
      <4> DEFINE l == Len(locals)
                 t == Len(Tail(locals))
      <4>1. t = l - 1 /\ l \in Nat /\ l > 1
        BY <3>1, <3>2
      <4> HIDE DEF l, t
      <4>2. t # 0
        BY <4>1
      <4> QED
        BY <4>2 DEF t
    <3> QED
      BY <3>3, EmptySeq
  <2> QED
    BY <1>0, <2>1, <2>2
<1> HIDE DEF id, r, ch
<1>4. /\ q \in Response /\ q.told = r.told /\ q.held = r.held /\ q.stage = r.stage
      /\ q.ended = r.ended /\ q.hdr = "no" /\ q.body = FALSE /\ q.trl = FALSE /\ q.cont = r.cont
  BY <1>1 DEF Response, Emptied
<1>5. StageOK(q)
  BY <1>1, <1>4 DEF StageOK
<1>e. /\ all \in Seq(Part) /\ Content(r) \in Nat /\ Len(all) = Content(r) + Flag(r.ended)
      /\ \A i \in 1 .. Len(all) : all[i] = PartAt(r, i)
      /\ DOMAIN all = 1 .. Len(all)
  BY <1>1, EncodedProperties, LenProperties
<1>k. /\ parts \in Seq(Part)
      /\ Len(parts) = Content(r) + Flag(r.ended /\ ch)
      /\ \A i \in 1 .. Len(parts) : parts[i] = PartAt(r, i)
      /\ all # <<>> => r.ended \/ parts # <<>>
      /\ (all = <<"E">>) <=> r.ended /\ (parts = <<>> \/ parts = <<"E">>)
  BY <1>1, <1>c, KeptProperties
<1>s. (all = <<>> <=> Len(all) = 0) /\ (parts = <<>> <=> Len(parts) = 0)
  BY <1>e, <1>k, EmptySeq
<1> HIDE DEF q, all, parts
<1>6. CASE all = <<>>
  <2>1. Content(r) = 0 /\ ~r.ended
    BY <1>6, <1>e, <1>s, <1>b DEF Flag
  <2>2. r.hdr = "no" /\ ~r.body /\ ~r.trl
    BY <1>b, <2>1 DEF Content, Flag
  <2>3. /\ UNCHANGED <<connVars, encodeVars>> /\ locals' = locals /\ persistent' = persistent
        /\ ~polling'
    BY <1>0, <1>6, <1>b, <2>1, <2>2
  <2>4. /\ Left(q) <= Left(r)
        /\ \A st \in {"ZERO", "HEADER", "BODY", "TRAILER"} : Fits(st, r) => Fits(st, q)
        /\ Settled(r) => Settled(q)
    <3>1. Left(q) = Left(r) /\ Left(r) \in Nat
      BY <1>1, <1>4, <2>2, LeftBound DEF Left, Flag
    <3>2. \A st : Fits(st, r) => Fits(st, q)
      BY <1>4, <2>2 DEF Fits
    <3>3. Settled(r) => Settled(q)
      BY <1>4 DEF Settled
    <3> QED
      BY <3>1, <3>2, <3>3
  <2>5. ends' = ends /\ \A i \in 1 .. Len(ends') : resp'[ends'[i]].stage = "ended"
    <3>1. \A j \in Ids : resp'[j].stage = resp[j].stage
      BY <1>2, <1>3, <1>4
    <3> QED
      BY <1>0, <1>2, <3>1
  <2>6. UNCHANGED <<connVars, locals, env, user_close, persistent, missing, decodeVars,
                    encodeVars, nreq, req, ran>>
    BY <1>0, <2>3
  <2>7. /\ q.told = resp[id].told /\ (q.held => resp[id].held)
        /\ q.ended => resp[id].ended \/ q.stage = "ended"
        /\ resp[id].stage = "ended" => q.stage = "ended"
        /\ Settled(resp[id]) => Settled(q)
        /\ q.cont \/ q.stage = "none" => resp[id].cont \/ resp[id].stage = "none"
        /\ Left(q) <= Left(resp[id])
        /\ \A st \in {"ZERO", "HEADER", "BODY", "TRAILER"} : Fits(st, resp[id]) => Fits(st, q)
    BY <1>3, <1>4, <2>4
  <2>8. ends' \in Seq(Ids) /\ polling' \in BOOLEAN /\ (polling' => locals # <<>>)
    BY <1>2, <1>p, <2>3, <2>5
  <2> QED
    BY <1>1, <1>3, <1>4, <1>5, <1>p, <2>5, <2>6, <2>7, <2>8, OneResponseStep
<1>7. CASE all # <<>>
  <2> DEFINE n == Len(all)
  <2>1. /\ n \in 1 .. Content(r) + Flag(r.ended) /\ n \in Nat /\ n >= 1
        /\ Len(parts) \in Nat /\ Len(parts) <= n
    BY <1>7, <1>e, <1>k, <1>s, <1>b DEF Flag
  <2>2. /\ Submit(id, parts, r.ended, all = <<"E">>)
        /\ enc' = [st |-> After(all[n]), chunked |-> ch]
        /\ enc_ok' = (enc_ok /\ \A i \in DOMAIN all :
                        Accepts(IF i = 1 THEN enc.st ELSE After(all[i - 1]), all[i]))
    BY <1>0, <1>7
  <2> HIDE DEF n
  <2>3. all[n] = PartAt(r, n)
    BY <1>e, <2>1 DEF n
  <2>4. /\ r.ended => n = Content(r) + 1 /\ all[n] = "E"
        /\ ~r.ended => n = Content(r) /\ n # 0 /\ Len(parts) = n
    <3>1. r.ended => n = Content(r) + 1 /\ PartAt(r, n) = "E"
      BY <1>e DEF n, PartAt, Content, Flag
    <3>2. ~r.ended => n = Content(r) /\ n # 0 /\ Len(parts) = n
      BY <1>e, <1>k, <2>1 DEF n, Flag
    <3> QED
      BY <2>3, <3>1, <3>2
  <2>5. /\ enc' \in [st : {"ZERO", "HEADER", "BODY", "TRAILER"}, chunked : BOOLEAN]
        /\ enc'.st = After(all[n]) /\ enc_ok' \in BOOLEAN
    <3>1. PartAt(r, n) \in {"H", "B", "T", "E"}
      BY DEF PartAt
    <3>2. After(all[n]) \in {"ZERO", "HEADER", "BODY", "TRAILER"}
      BY <2>3, <3>1 DEF After
    <3>3. enc_ok' \in BOOLEAN
      BY <1>2, <2>2
    <3> QED
      BY <1>c, <2>2, <3>2, <3>3
  <2>6. Len(parts) + (IF r.ended THEN 0 ELSE Left(q)) <= Left(r)
    <3>1. /\ Left(r) = ToCome(r.stage) + Flag(r.cont) + Content(r)
          /\ Left(q) = ToCome(r.stage) + Flag(r.cont)
          /\ ToCome(r.stage) \in Nat /\ ToCome(r.stage) >= 1 /\ Flag(r.cont) \in Nat
      BY <1>4, <1>b DEF Left, Content, ToCome, Flag
    <3>2. Len(parts) <= Content(r) + 1
      BY <1>e, <1>k DEF Flag
    <3>3. CASE r.ended
      BY <1>e, <2>1, <3>1, <3>2, <3>3
    <3>4. CASE ~r.ended
      BY <1>e, <2>4, <3>1, <3>4
    <3> QED
      BY <1>b, <3>3, <3>4
  <2>7. r.ended => stopped \/ Settled(q)
    BY <1>1, <1>4 DEF Settled
  <2>8. ASSUME Coherent, ~stopped
        PROVE  /\ \A i \in 1 .. Len(parts) - 1 : <<parts[i], parts[i + 1]>> \in Neighbours
               /\ parts # <<>> => IF Touched(id) THEN <<Last.part, parts[1]>> \in Neighbours
                                  ELSE parts[1] \in {"C", "H"}
    <3> DEFINE st == Progress(id)
    <3>1. /\ \A i \in 1 .. n - 1 : <<PartAt(r, i), PartAt(r, i + 1)>> \in Neighbours
          /\ st = "ZERO" => PartAt(r, 1) = "H"
          /\ st = "HEADER" => PartAt(r, 1) \in {"B", "E"}
          /\ st = "BODY" => PartAt(r, 1) \in {"T", "E"}
          /\ st = "TRAILER" => PartAt(r, 1) = "E"
      <4>1. /\ Fits(st, r) /\ (r.ended => r.stage = "ended")
            /\ st \in {"ZERO", "HEADER", "BODY", "TRAILER"}
        BY <1>1, <2>8
      <4> HIDE DEF st
      <4> QED
        BY <1>1, <2>1, <4>1, PartsFit
    <3>2. \A i \in 1 .. Len(parts) - 1 : <<parts[i], parts[i + 1]>> \in Neighbours
      <4>1. \A i \in 1 .. Len(parts) - 1 :
              i \in 1 .. n - 1 /\ i \in 1 .. Len(parts) /\ i + 1 \in 1 .. Len(parts)
        BY <2>1
      <4> QED
        BY <1>k, <3>1, <4>1
    <3>3. ASSUME parts # <<>>
          PROVE  IF Touched(id) THEN <<Last.part, parts[1]>> \in Neighbours
                 ELSE parts[1] \in {"C", "H"}
      <4>1. 1 \in 1 .. Len(parts)
        BY <1>s, <2>1, <3>3
      <4>2. parts[1] = PartAt(r, 1)
        BY <1>k, <4>1
      <4>3. CASE ~Touched(id)
        BY <3>1, <4>2, <4>3 DEF Progress
      <4>4. CASE Touched(id)
        <5>1. Last.part \in {"C", "H", "B", "T"} /\ st = PartState(Last.part)
          BY <1>1, <2>8, <4>4 DEF Progress
        <5> HIDE DEF st
        <5>2. <<Last.part, parts[1]>> \in Neighbours
          BY <3>1, <4>2, <5>1 DEF PartState, Neighbours
        <5> QED
          BY <4>4, <5>2
      <4> QED
        BY <4>3, <4>4
    <3> QED
      BY <3>2, <3>3
  <2>9. ASSUME Coherent, ~r.ended
        PROVE  /\ parts[Len(parts)] # "E" /\ Fits(PartState(parts[Len(parts)]), q)
               /\ ~q.cont /\ q.stage # "none" /\ enc'.st = PartState(parts[Len(parts)])
    <3>1. /\ PartAt(r, n) \in {"H", "B", "T"} /\ After(PartAt(r, n)) = PartState(PartAt(r, n))
          /\ Fits(PartState(PartAt(r, n)), Emptied(r)) /\ r.stage # "none"
      BY <1>1, <2>4, <2>9, EmptiedFits
    <3>2. parts[Len(parts)] = PartAt(r, n)
      BY <1>k, <2>1, <2>4, <2>9
    <3> QED
      BY <1>0, <1>4, <2>3, <2>5, <3>1, <3>2 DEF q
  <2>10. r.ended => enc'.st = "ZERO"
    BY <2>4, <2>5 DEF After
  <2>11. Orderly /\ ~Torso => enc_ok'
    <3> SUFFICES ASSUME Orderly, ~Torso PROVE enc_ok'
      OBVIOUS
    <3>1. /\ Coherent /\ enc_ok /\ enc.st = Progress(id) /\ Fits(Progress(id), r)
          /\ r.ended => r.stage = "ended"
      BY <1>1, <1>2 DEF EncoderOK, Orderly
    <3>2. \A i \in 1 .. n :
            Accepts(IF i = 1 THEN enc.st ELSE After(PartAt(r, i - 1)), PartAt(r, i))
      BY <1>1, <2>1, <3>1, PartsFit
    <3>3. ASSUME NEW i \in DOMAIN all
          PROVE  Accepts(IF i = 1 THEN enc.st ELSE After(all[i - 1]), all[i])
      <4>1. i \in 1 .. n /\ all[i] = PartAt(r, i)
        BY <1>e, <3>3 DEF n
      <4>2. i # 1 => all[i - 1] = PartAt(r, i - 1)
        <5>1. i # 1 => i - 1 \in 1 .. Len(all)
          BY <1>e, <3>3
        <5> QED
          BY <1>e, <5>1
      <4>3. CASE i = 1
        BY <3>2, <4>1, <4>3
      <4>4. CASE i # 1
        BY <3>2, <4>1, <4>2, <4>4
      <4> QED
        BY <4>3, <4>4
    <3> QED
      BY <2>2, <3>1, <3>3
  <2>12. (all = <<"E">>) \in BOOLEAN /\ (r.ended \/ parts # <<>>)
    BY <1>7, <1>k
  <2> DEFINE only == all = <<"E">>
             ending == r.ended
  <2>13. /\ only \in BOOLEAN /\ ending \in BOOLEAN /\ Submit(id, parts, ending, only)
         /\ only <=> ending /\ (parts = <<>> \/ parts = <<"E">>)
         /\ ending \/ parts # <<>>
         /\ ending => stopped \/ Settled(q)
    BY <1>b, <1>k, <2>2, <2>7, <2>12
  <2>14. /\ Coherent /\ ~stopped =>
              /\ \A i \in 1 .. Len(parts) - 1 : <<parts[i], parts[i + 1]>> \in Neighbours
              /\ parts # <<>> => IF Touched(id) THEN <<Last.part, parts[1]>> \in Neighbours
                                 ELSE parts[1] \in {"C", "H"}
         /\ Coherent /\ ~ending =>
              /\ parts[Len(parts)] # "E" /\ Fits(PartState(parts[Len(parts)]), q)
              /\ ~q.cont /\ q.stage # "none" /\ enc'.st = PartState(parts[Len(parts)])
         /\ Coherent /\ ending => enc'.st = "ZERO"
    BY <2>8, <2>9, <2>10
  <2>15. /\ q.told = resp[id].told /\ q.held = resp[id].held /\ q.stage = resp[id].stage
         /\ q.ended = resp[id].ended
         /\ Len(parts) + (IF ending THEN 0 ELSE Left(q)) <= Left(resp[id])
    BY <1>3, <1>4, <2>6
  <2>16. /\ polling /\ locals' = (IF ending THEN Tail(locals) ELSE locals)
         /\ UNCHANGED <<env, user_close, missing, decodeVars, nreq, req, ends, ran>>
    BY <1>0
  <2>17. /\ id \in Ids /\ id = locals[1] /\ parts \in Seq(Part)
         /\ q \in Response /\ StageOK(q) /\ resp' = [resp EXCEPT ![id] = q]
         /\ polling' \in BOOLEAN /\ (polling' => locals' # <<>>) /\ cur' \in Ids \cup {0}
         /\ persistent' \in BOOLEAN
    BY <1>1, <1>3, <1>4, <1>5, <1>k, <1>p
  <2> HIDE DEF only, ending
  <2> QED
    BY <2>5, <2>11, <2>13, <2>14, <2>15, <2>16, <2>17, PolledStep, ZenonT(60)
<1> QED
  BY <1>6, <1>7

-----------------------------------------------------------------------------
(* The invariant, and the properties that follow from it. *)

\* A new connection satisfies the invariant.
LEMMA InitialState ==
  ASSUME Init
  PROVE  SrvIInv
<1>e. /\ Len(<<>>) = 0 /\ <<>> \in Seq(Ids) /\ <<>> \in Seq(Item)
      /\ <<>> \in Seq({"cleared", "error"})
      /\ <<>> \in Seq({"headers", "body", "trailer", "finished", "error"})
  BY EmptySeq
<1>i. /\ ConnInit /\ env \in Envs /\ locals = <<>> /\ remotes = <<>> /\ nreq = 0
      /\ dec = "idle" /\ mode = "idle" /\ polling = FALSE /\ cur = 0
      /\ user_close = FALSE /\ decoding_error = FALSE /\ persistent = TRUE
      /\ enc = [st |-> "ZERO", chunked |-> FALSE] /\ enc_ok = TRUE
      /\ ends = <<>> /\ ran = {} /\ missing = {} /\ crashed = FALSE
  BY DEF Init
<1>c. ConnInv
  <2>1. ConnTypeOK
    BY <1>e, <1>i DEF ConnInit, ConnTypeOK
  <2>2. Open /\ NothingInFlight /\ NoStuckBytes /\ DeadlineArmed /\ Apart
    BY <1>i DEF ConnInit, Open, NothingInFlight, NoStuckBytes, DeadlineArmed, Apart
  <2>3. Located /\ Feedbacks
    BY <1>e, <1>i DEF ConnInit, Located, Feedbacks
  <2> QED
    BY <2>1, <2>2, <2>3 DEF ConnInv
<1>n. /\ MaxReq \in Nat /\ (\A id \in Ids : id \in Nat /\ id >= 1)
      /\ alive /\ ~stopped /\ sent = <<>> /\ turn = 0 /\ rd = "pending" /\ pcc = {}
      /\ fb = {} /\ acked = {} /\ nacked = {}
  BY <1>i, IdsAssumption, MaxReqAssumption DEF ConnInit
<1>r. /\ FreshResponse \in Response /\ StageOK(FreshResponse)
      /\ FreshResponse.stage = "none" /\ ~FreshResponse.held /\ Len(FreshResponse.told) = 0
  <2>1. FreshResponse \in Response
    BY <1>e DEF FreshResponse, Response, Stages
  <2>2. StageOK(FreshResponse) /\ FreshResponse.stage = "none" /\ ~FreshResponse.held
    BY DEF FreshResponse, StageOK
  <2>3. Len(FreshResponse.told) = 0
    BY <1>e DEF FreshResponse
  <2> QED
    BY <2>1, <2>2, <2>3
<1>f. resp \in [Ids -> Response] /\ req \in [Ids -> Request]
  BY <1>e, <1>r DEF Init, Request
<1>y. \A id \in Ids : req[id] = <<>>
  BY Zenon DEF Init
<1>x. \A id \in Ids : resp[id] = FreshResponse
  BY Zenon DEF Init
<1>1. TypeOK
  <2>2. ConnTypeOK
    BY <1>c DEF ConnInv
  <2> QED
    <3>1. /\ locals \in Seq(Ids) /\ remotes \in Seq(Ids) /\ ends \in Seq(Ids)
          /\ nreq \in 0 .. MaxReq
      BY <1>e, <1>i, <1>n
    <3> QED
      BY <1>f, <1>i, <2>2, <3>1 DEF TypeOK
<1>2. Threads
  BY <1>i, <1>n DEF Threads
<1>3. Queues
  BY <1>e, <1>i, <1>n DEF Queues
<1>4. Events
  <2>1. \A id \in Ids : ~(id <= nreq)
    <3>1. nreq = 0
      BY <1>i
    <3> QED
      BY <3>1, IdsAssumption, MaxReqAssumption
  <2> QED
    BY <1>x, <1>y, <2>1, Zenon DEF Events
<1>5. Stage
  BY <1>r, <1>x, Zenon DEF Stage
<1>6. Outcomes
  <2>1. \A id \in Ids : Len(resp[id].told) = 0 /\ resp[id].told = <<>>
    <3>1. FreshResponse.told = <<>>
      BY DEF FreshResponse
    <3> QED
      BY <1>r, <1>x, <3>1, Zenon
  <2>2. InSeq(<<>>) = {}
    <3>1. \A x : x \in InSeq(<<>>) <=> \E i \in 1 .. Len(<<>>) : <<>>[i] = x
      BY <1>e, InSeqElement
    <3> QED
      BY <1>e, <3>1
  <2> QED
    BY <1>e, <1>i, <1>n, <2>1, <2>2 DEF Outcomes
<1>7. Bounded /\ Serial /\ Whole /\ EncoderOK
  BY <1>e, <1>i, <1>n DEF Bounded, Serial, Whole, EncoderOK, Reach, Touched
<1> QED
  BY <1>1, <1>2, <1>3, <1>4, <1>5, <1>6, <1>7, <1>c DEF SrvIInv

\* The connector's actions never add to cut by themselves.
LEMMA NeverCut == Spec => []Uncut
<1>1. Init => Uncut
  BY DEF Init, Uncut
<1>2. Uncut /\ [Next]_vars => Uncut'
  <2> SUFFICES ASSUME Uncut, [Next]_vars PROVE Uncut'
    OBVIOUS
  <2> USE DEF Uncut
  <2>0. UNCHANGED connVars => Uncut'
    BY DEF connVars, timerVars
  <2>1. CASE User
    <3>1. ASSUME NEW id \in Ids,
                 \/ \E c \in ConnHdr : Headers(id, c)
                 \/ Body(id) \/ Trailer(id) \/ SendContinue(id) \/ End(id) \/ Drop(id)
          PROVE  UNCHANGED connVars
      BY <3>1 DEF Headers, Body, Trailer, SendContinue, End, Drop, Notify
    <3>2. CASE Close
      BY <2>0, <3>2 DEF Close, ConnClose
    <3>3. ASSUME NEW on \in BOOLEAN, OnTimeout(on) PROVE Uncut'
      BY <3>3 DEF OnTimeout, SetTimeout
    <3>4. ASSUME NEW on \in BOOLEAN, SetPersistent(on) PROVE UNCHANGED connVars
      BY <3>4 DEF SetPersistent
    <3> QED
      BY <2>0, <2>1, <3>1, <3>2, <3>3, <3>4 DEF User
  <2>2. CASE Posts
    BY <2>0, <2>2 DEF Posts, RunEnd, RunFeedback
  <2>3. CASE Poll
    <3>1. ASSUME NEW id, NEW parts, NEW ending, NEW only, Submit(id, parts, ending, only) PROVE Uncut'
      BY <3>1 DEF Submit
    <3>2. CASE PollExpired
      BY <2>0, <3>2 DEF PollExpired
    <3>3. CASE PollContinue
      BY <3>1, <3>3 DEF PollContinue
    <3>4. CASE PollFront
      BY <2>0, <3>1, <3>4 DEF PollFront, Drain
    <3> QED
      BY <2>3, <3>2, <3>3, <3>4 DEF Poll
  <2>4. CASE Decode
    <3>1. CASE DecodingStart
      BY <2>0, <3>1 DEF DecodingStart
    <3>2. CASE (\E keep \in BOOLEAN : DecodedHeaders(keep)) \/ DecodedBody \/ DecodedTrailer
               \/ DecodingEnd
      BY <2>0, <3>2 DEF DecodedHeaders, DecodedBody, DecodedTrailer, DecodingEnd, Decoded
    <3>3. CASE DecodingFailure
      BY <3>3 DEF DecodingFailure, ReadRejected
    <3> QED
      BY <2>4, <3>1, <3>2, <3>3 DEF Decode
  <2>5. CASE Read \/ ReadEnds
    BY <2>5 DEF Read, ReadEnds, ReadOk, ReadDone
  <2>6. CASE Connection
    BY <2>6 DEF Connection, ReadFailed, ReadCanceled, WriteOk, WriteFailed, WriteCanceled,
                TimerExpires, RunTimer
  <2>7. CASE OnConnectorNulled
    BY <2>7 DEF OnConnectorNulled, Destroyed, timerVars
  <2>8. CASE UNCHANGED vars
    BY <2>0, <2>8 DEF vars
  <2> QED
    BY <2>1, <2>2, <2>3, <2>4, <2>5, <2>6, <2>7, <2>8 DEF Next
<1> QED BY <1>1, <1>2, PTL DEF Spec

\* SrvIInv holds in every state of a server connection: whatever the peer, the
\* kernel, the timer, the user and the parser do in whatever order, and for any
\* number of pipelined requests.
THEOREM Http1Invariance == Spec => []SrvIInv
<1>1. Init => SrvIInv
  BY InitialState
<1>2. SrvIInv /\ Uncut /\ [Next]_vars => SrvIInv'
  <2> SUFFICES ASSUME SrvIInv, Uncut, [Next]_vars PROVE SrvIInv'
    OBVIOUS
  <2>1. CASE User
    <3>1. ASSUME NEW id \in Ids, \E c \in ConnHdr : Headers(id, c) PROVE SrvIInv'
      BY <3>1, ContentSteps
    <3>2. ASSUME NEW id \in Ids, Body(id) \/ Trailer(id) \/ SendContinue(id) PROVE SrvIInv'
      BY <3>2, ContentSteps
    <3>3. ASSUME NEW id \in Ids, End(id) \/ Drop(id) PROVE SrvIInv'
      BY <3>3, EndDropSteps
    <3>4. CASE Close
      BY <3>4, CloseStep
    <3>5. CASE \E on \in BOOLEAN : OnTimeout(on) \/ SetPersistent(on)
      BY <3>5, QuietSteps
    <3> QED
      BY <2>1, <3>1, <3>2, <3>3, <3>4, <3>5 DEF User
  <2>2. CASE Posts
    BY <2>2, RunEndStep, RunFeedbackStep DEF Posts
  <2>3. CASE Poll
    BY <2>3, PollExpiredStep, PollContinueStep, PollFrontStep DEF Poll
  <2>4. CASE Decode
    BY <2>4, DecodingStartStep, DecodedSteps, DecodingFailureStep DEF Decode
  <2>5. CASE Read \/ ReadEnds
    BY <2>5, QuietSteps
  <2>6. CASE Connection
    BY <2>6, ConnectionStep
  <2>7. CASE OnConnectorNulled
    BY <2>7, OnConnectorNulledStep
  <2>8. CASE UNCHANGED vars
    <3> USE DEF vars, handlerVars, userVars, decodeVars, encodeVars, connVars, timerVars, writeVars
    <3>1. TypeOK' /\ ConnInv'
      BY <2>8, SameConnector DEF SrvIInv, TypeOK, ConnTypeOK
    <3>2. Threads' /\ Queues' /\ Events' /\ Stage'
      BY <2>8 DEF SrvIInv, Threads, Queues, Events, Stage, Unreferenced
    <3>3. Outcomes' /\ Bounded'
      BY <2>8 DEF SrvIInv, Outcomes, Bounded, Outstanding, Posted
    <3>4. Serial' /\ Whole' /\ EncoderOK'
      BY <2>8, SameWire
      DEF SrvIInv, Serial, EncoderOK, Coherent, Orderly, Torso, Complete, Touched, Progress, Last
    <3> QED
      BY <3>1, <3>2, <3>3, <3>4 DEF SrvIInv
  <2> QED
    BY <2>1, <2>2, <2>3, <2>4, <2>5, <2>6, <2>7, <2>8 DEF Next
<1> QED
  BY <1>1, <1>2, NeverCut, PTL DEF Spec

\* What reaches the peer of a server connection is a sequence of whole responses
\* in request order, and the assertions of the encoder hold, whatever the order
\* in which the user answers and whatever happens to the connection.
THEOREM Http1ResponsesWhole == Spec => []ResponsesWhole
<1>1. SrvIInv => ResponsesWhole
  <2> SUFFICES ASSUME SrvIInv PROVE ResponsesWhole
    OBVIOUS
  <2>1. TypeOK /\ ConnInv /\ Located /\ Whole /\ EncoderOK
    BY DEF SrvIInv, ConnInv
  <2>2. /\ wire \in Seq(Item) /\ Len(wire) \in Nat /\ Len(out) \in Nat /\ Len(sent) \in Nat
        /\ stopped \in BOOLEAN
    BY <2>1, LenProperties DEF ConnInv, ConnTypeOK
  <2>3. Len(wire) <= Reach /\ Reach \in Nat
    BY <2>1, <2>2 DEF Reach, Located
  <2>4. \A i \in 1 .. Len(wire) : wire[i] = sent[i]
    BY <2>1 DEF Located
  <2>5. wire # <<>> => wire[1].part \in {"C", "H"}
    <3>1. wire # <<>> => Len(wire) >= 1
      BY <2>2, EmptySeq
    <3>2. wire # <<>> => Reach > 0 /\ wire[1] = sent[1]
      BY <2>2, <2>3, <2>4, <3>1
    <3> QED
      BY <2>1, <3>2 DEF Whole
  <2>6. ASSUME NEW i \in 1 .. Len(wire) - 1 PROVE Follows(wire[i], wire[i + 1])
    <3>1. i \in 1 .. Len(wire) /\ i + 1 \in 1 .. Len(wire) /\ i \in 1 .. Reach - 1
      BY <2>2, <2>3
    <3>2. wire[i] = sent[i] /\ wire[i + 1] = sent[i + 1] /\ Follows(sent[i], sent[i + 1])
      BY <2>1, <2>4, <3>1 DEF Whole
    <3> QED
      BY <3>2
  <2> QED
    BY <2>1, <2>5, <2>6 DEF ResponsesWhole, Follows, Neighbours, EncoderOK
<1> QED
  BY <1>1, Http1Invariance, PTL

\* A response reported as written was ended by its user and is with the peer
\* from its first byte to its last.
THEOREM Http1ClearedIsDelivered == Spec => []ClearedIsDelivered
<1>1. SrvIInv => ClearedIsDelivered
  <2> SUFFICES ASSUME SrvIInv, NEW id \in Ids, "cleared" \in InSeq(resp[id].told)
               PROVE  /\ Settled(resp[id])
                      /\ \A i \in 1 .. Len(sent) : sent[i].id = id => i <= Len(wire)
    BY DEF ClearedIsDelivered, Settled
  <2>1. id \in acked /\ Settled(resp[id])
    BY DEF SrvIInv, Outcomes
  <2>2. Within(id, Len(wire))
    BY <2>1 DEF SrvIInv, ConnInv, Feedbacks
  <2> QED
    BY <2>1, <2>2 DEF Within
<1> QED
  BY <1>1, Http1Invariance, PTL

\* The connector's feedbacks and notify_all never report on the same response
\* twice.
THEOREM Http1OneOutcome == Spec => []OneOutcome
<1>1. SrvIInv => OneOutcome
  <2> SUFFICES ASSUME SrvIInv, "fail" \notin env, NEW id \in Ids PROVE Len(resp[id].told) <= 1
    BY Zenon DEF OneOutcome
  <2> QED
    BY DEF SrvIInv, Outcomes
<1> QED
  BY <1>1, Http1Invariance, PTL

\* What a sequence of the events of one request looks like.
InOrder(s) ==
  \A i \in DOMAIN s :
    /\ s[i] \in {"finished", "error"} => i = Len(s)
    /\ s[i] \in {"body", "trailer", "finished"} => s[1] = "headers"
    /\ s[i] = "body" => i = 2
    /\ s[i] = "headers" => i = 1

\* The events of a request are in order, and those of one that is over end it.
LEMMA EventsInOrder ==
  /\ \A s \in ClosedEvents : InOrder(s) /\ InSeq(s) \cap {"finished", "error"} # {}
  /\ \A d \in {"begun", "headers", "body", "trailer"} : \A s \in OpenEvents(d) : InOrder(s)
<1>1. ASSUME NEW s \in ClosedEvents
      PROVE  InOrder(s) /\ Len(s) \in DOMAIN s /\ s[Len(s)] \in {"finished", "error"}
  <2>1. CASE s = <<"error">>
    BY <2>1 DEF InOrder
  <2>2. CASE s = <<"headers", "error">>
    BY <2>2 DEF InOrder
  <2>3. CASE s = <<"headers", "finished">>
    BY <2>3 DEF InOrder
  <2>4. CASE s = <<"headers", "body", "error">>
    BY <2>4 DEF InOrder
  <2>5. CASE s = <<"headers", "body", "finished">>
    BY <2>5 DEF InOrder
  <2>6. CASE s = <<"headers", "trailer", "error">>
    BY <2>6 DEF InOrder
  <2>7. CASE s = <<"headers", "trailer", "finished">>
    BY <2>7 DEF InOrder
  <2>8. CASE s = <<"headers", "body", "trailer", "error">>
    BY <2>8 DEF InOrder
  <2>9. CASE s = <<"headers", "body", "trailer", "finished">>
    BY <2>9 DEF InOrder
  <2> QED
    BY <1>1, <2>1, <2>2, <2>3, <2>4, <2>5, <2>6, <2>7, <2>8, <2>9 DEF ClosedEvents
<1>2. \A s \in ClosedEvents : InSeq(s) \cap {"finished", "error"} # {}
  BY <1>1 DEF InSeq
<1>3. ASSUME NEW d \in {"begun", "headers", "body", "trailer"}, NEW s \in OpenEvents(d)
      PROVE  InOrder(s)
  BY <1>3 DEF OpenEvents, InOrder
<1> QED
  BY <1>1, <1>2, <1>3

\* The parser callbacks report the events of every request in order and end each
\* request exactly once, even when close(), a missing response or a lost
\* connector empties remote_objects between two of them.
THEOREM Http1RequestEventsInOrder == Spec => []RequestEventsInOrder
<1>1. SrvIInv => RequestEventsInOrder
  <2> SUFFICES ASSUME SrvIInv, NEW id \in 1 .. nreq
               PROVE  (dec = "idle" \/ id < nreq => Terminated(id)) /\ InOrder(req[id])
    BY DEF RequestEventsInOrder, InOrder
  <2>1. /\ id \in Ids /\ id \in Nat /\ id <= nreq /\ nreq \in Nat
        /\ dec \in {"idle", "begun", "headers", "body", "trailer"}
    BY MaxReqAssumption DEF SrvIInv, TypeOK
  <2>2. remotes = <<>> \/ dec # "idle"
    BY DEF SrvIInv, Queues
  <2>3. req[id] \in IF remotes # <<>> /\ id = nreq THEN OpenEvents(dec) ELSE ClosedEvents
    BY <2>1 DEF SrvIInv, Events
  <2>4. CASE remotes # <<>> /\ id = nreq
    <3>1. dec \in {"begun", "headers", "body", "trailer"} /\ ~(id < nreq)
      BY <2>1, <2>2, <2>4
    <3>2. InOrder(req[id])
      BY <2>3, <2>4, <3>1, EventsInOrder
    <3> QED
      BY <2>4, <3>1, <3>2
  <2>5. CASE ~(remotes # <<>> /\ id = nreq)
    BY <2>3, <2>5, EventsInOrder, Zenon DEF Terminated
  <2> QED
    BY <2>4, <2>5
<1> QED
  BY <1>1, Http1Invariance, PTL

\* When the connection is gone, nobody waits for it: every request is over and
\* every response the user holds was reported, those in local_objects and those
\* in pending_clear_callbacks alike.
THEOREM Http1NobodyForgotten == Spec => []NobodyForgotten
<1>1. SrvIInv => NobodyForgotten
  <2> SUFFICES ASSUME SrvIInv, Orderly, Quiet, NEW id \in 1 .. nreq
               PROVE  Terminated(id) /\ (resp[id].held => resp[id].told # <<>>)
    BY DEF NobodyForgotten
  <2>1. id \in Ids /\ id \in Nat /\ id <= nreq
    BY MaxReqAssumption DEF SrvIInv, TypeOK
  <2>2. ~alive /\ ~user_close /\ ~writing /\ "fail" \notin env
    BY DEF SrvIInv, Threads, Quiet, Orderly
  <2>3. locals = <<>> /\ remotes = <<>> /\ pcc = {} /\ fb = {} /\ Posted = {}
    BY <2>2 DEF SrvIInv, ConnInv, NothingInFlight, Queues, Quiet
  <2>4. req[id] \in ClosedEvents
    BY <2>1, <2>3 DEF SrvIInv, Events
  <2>5. Terminated(id)
    BY <2>4, EventsInOrder, Zenon DEF Terminated
  <2>6. InSeq(locals) = {}
    BY <2>3 DEF InSeq
  <2>7. ~Outstanding(id)
    BY <2>3, <2>6 DEF Outstanding
  <2>8. resp[id].held /\ resp[id].told = <<>> => Outstanding(id)
    BY <2>1, <2>2 DEF SrvIInv, Outcomes
  <2> QED
    BY <2>5, <2>7, <2>8
<1> QED
  BY <1>1, Http1Invariance, PTL

-----------------------------------------------------------------------------
(* The handler uses its connector as ConnectorSpec allows. *)

\* The actions of the connector are the ones of the connector this handler uses.
LEMMA SameActions ==
  /\ TimerExpires => Conn!TimerExpires
  /\ RunTimer => Conn!RunTimer
  /\ \A on \in BOOLEAN : SetTimeout(on) => Conn!SetTimeout(on)
  /\ ReadOk => Conn!ReadOk
  /\ ReadDone => Conn!ReadDone
  /\ ReadRejected => Conn!ReadRejected
  /\ ReadFailed => Conn!ReadFailed
  /\ ReadCanceled => Conn!ReadCanceled
  /\ WriteOk => Conn!WriteOk
  /\ \A n \in 0 .. Len(out) : WriteFailed(n) => Conn!WriteFailed(n)
  /\ \A n \in 0 .. Len(out) : WriteCanceled(n) => Conn!WriteCanceled(n)
  /\ ConnClose => Conn!ConnClose
  /\ \A notify \in BOOLEAN : Destroyed(notify) => Conn!Destroyed(notify)
  /\ Conn!Unreferenced <=> Unreferenced
<1> USE DEF connVars, timerVars, writeVars, Conn!connVars, Conn!timerVars, Conn!writeVars,
            Unreferenced, Conn!Unreferenced, LoopTurn, Conn!LoopTurn, Renewed, Conn!Renewed
<1>1. Conn!Unreferenced <=> Unreferenced
  OBVIOUS
<1>2. (TimerExpires => Conn!TimerExpires) /\ (RunTimer => Conn!RunTimer)
  BY DEF TimerExpires, Conn!TimerExpires, RunTimer, Conn!RunTimer
<1>3. \A on \in BOOLEAN : SetTimeout(on) => Conn!SetTimeout(on)
  BY DEF SetTimeout, Conn!SetTimeout
<1>4. (ReadOk => Conn!ReadOk) /\ (ReadDone => Conn!ReadDone)
  BY DEF ReadOk, Conn!ReadOk, ReadDone, Conn!ReadDone
<1>5. (ReadRejected => Conn!ReadRejected) /\ (ConnClose => Conn!ConnClose)
  BY DEF ReadRejected, Conn!ReadRejected, ConnClose, Conn!ConnClose, Stop, Conn!Stop
<1>6. (ReadFailed => Conn!ReadFailed) /\ (ReadCanceled => Conn!ReadCanceled)
  BY DEF ReadFailed, Conn!ReadFailed, ReadCanceled, Conn!ReadCanceled,
         CancelAndStop, Conn!CancelAndStop
<1>7. WriteOk => Conn!WriteOk
  BY DEF WriteOk, Conn!WriteOk
<1>8. \A n \in 0 .. Len(out) : /\ WriteFailed(n) => Conn!WriteFailed(n)
                               /\ WriteCanceled(n) => Conn!WriteCanceled(n)
  BY DEF WriteFailed, Conn!WriteFailed, WriteCanceled, Conn!WriteCanceled,
         CancelAndStop, Conn!CancelAndStop
<1>9. \A notify \in BOOLEAN : Destroyed(notify) => Conn!Destroyed(notify)
  BY DEF Destroyed, Conn!Destroyed
<1> QED
  BY <1>1, <1>2, <1>3, <1>4, <1>5, <1>6, <1>7, <1>8, <1>9

\* A submission for the front response is one the connector is used with: the
\* response is next, its parts are a run, and its share of bytes is kept.
LEMMA SubmissionIsAllowed ==
  ASSUME SrvIInv, polling, NEW id, id = Head(locals), NEW parts \in ServerRuns,
         NEW ending \in BOOLEAN, NEW only \in BOOLEAN, Submit(id, parts, ending, only),
         ending \/ parts # <<>>, only <=> ending /\ (parts = <<>> \/ parts = <<"E">>),
         Len(parts) \in Nat, Len(parts) <= Left(resp[id])
  PROVE  Conn!HandlerSubmits
<1>1. /\ id = locals[1] /\ id \in Ids /\ id \in Nat /\ id <= nreq /\ locals # <<>> /\ ~Unreferenced
      /\ resp[id] \in Response
  BY FrontResponse
<1>2. /\ nreq \in Nat /\ nreq <= MaxReq /\ MaxReq \in Nat /\ turn \in Nat
      /\ turn <= id /\ Len(sent) \in Nat
  <2>1. turn <= locals[1] /\ sent \in Seq(Item)
    BY <1>1 DEF SrvIInv, Queues, ConnInv, ConnTypeOK
  <2> QED
    BY <1>1, <2>1, LocalsAndComplete, MaxReqAssumption, LenProperties
<1>3. Len(sent) + Left(resp[id]) <= 5 * id /\ Left(resp[id]) \in Nat
  BY <1>1, LeftBound DEF SrvIInv, Bounded
<1>4. Len(sent) + Len(parts) <= 5 * MaxReq
  <2> DEFINE s == Len(sent)
             p == Len(parts)
             l == Left(resp[id])
  <2>1. /\ s \in Nat /\ p \in Nat /\ l \in Nat /\ id \in Nat /\ MaxReq \in Nat
        /\ p <= l /\ s + l <= 5 * id
    BY <1>1, <1>2, <1>3
  <2>2. id <= MaxReq
    BY <1>1, <1>2
  <2> HIDE DEF s, p, l
  <2>3. s + p <= 5 * MaxReq
    BY <2>1, <2>2
  <2> QED
    BY <2>3 DEF s, p
<1>5. id >= turn
  BY <1>1, <1>2
<1>6. Submit(id, parts, ending, ending /\ (parts = <<>> \/ parts = <<"E">>))
  <2>1. only = (ending /\ (parts = <<>> \/ parts = <<"E">>))
    OBVIOUS
  <2> QED
    BY <2>1, Zenon
<1>7. Conn!Submit(id, parts, ending, ending /\ (parts = <<>> \/ parts = <<"E">>))
  BY <1>6 DEF Submit, Conn!Submit, Bytes, Conn!Bytes, CanWrite, Conn!CanWrite, Renewed, Conn!Renewed
<1> QED
  BY <1>1, <1>4, <1>5, <1>7, SameActions, Zenon DEF Conn!HandlerSubmits

\* Each iteration of the loop submits what the connector is used with, or nothing.
LEMMA PollSubmits ==
  ASSUME SrvIInv, Poll
  PROVE  Conn!HandlerSubmits \/ UNCHANGED connVars
<1>1. CASE PollExpired
  BY <1>1 DEF PollExpired
<1>2. CASE PollContinue
  <2> DEFINE id == Head(locals)
             parts == <<"C">>
  <2>1. polling /\ resp[id].cont /\ Submit(id, parts, FALSE, FALSE)
    BY <1>2 DEF PollContinue
  <2>2. resp[id] \in Response
    BY <2>1, FrontResponse
  <2> HIDE DEF id
  <2>3. Left(resp[id]) \in Nat /\ 1 <= Left(resp[id])
    BY <2>2, LeftBound
  <2>4. parts \in ServerRuns /\ parts # <<>> /\ Len(parts) = 1
    BY DEF ServerRuns
  <2> HIDE DEF parts
  <2>5. id = Head(locals) /\ Len(parts) \in Nat /\ Len(parts) <= Left(resp[id])
    BY <2>3, <2>4 DEF id
  <2>6. Conn!HandlerSubmits
    BY <2>1, <2>4, <2>5, SubmissionIsAllowed
  <2> QED
    BY <2>6
<1>3. CASE PollFront
  <2> DEFINE id == Head(locals)
             r == resp[id]
             ch == IF r.hdr # "no" THEN id \in Chunked ELSE enc.chunked
             all == Encoded(r)
             parts == Kept(r, ch)
             only == all = <<"E">>
             ending == r.ended
  <2>1. polling /\ (all = <<>> => UNCHANGED connVars)
        /\ (all # <<>> => Submit(id, parts, ending, only))
    BY <1>3 DEF PollFront, Drain, Kept
  <2>2. r \in Response /\ ending \in BOOLEAN
    BY <2>1, FrontResponse DEF Response
  <2>3. ch \in BOOLEAN /\ only \in BOOLEAN
    <3>1. (id \in Chunked) \in BOOLEAN /\ enc.chunked \in BOOLEAN
      BY DEF SrvIInv, TypeOK
    <3> QED
      BY <3>1
  <2> HIDE DEF ch
  <2>4. /\ parts \in Seq(Part) /\ parts \in ServerRuns
        /\ Len(parts) = Content(r) + Flag(ending /\ ch)
        /\ all # <<>> => ending \/ parts # <<>>
        /\ only <=> ending /\ (parts = <<>> \/ parts = <<"E">>)
    BY <2>2, <2>3, KeptProperties
  <2>5. Len(parts) \in Nat /\ Len(parts) <= Left(r)
    <3>1. /\ Left(r) = ToCome(r.stage) + Flag(r.cont) + Content(r)
          /\ ToCome(r.stage) \in Nat /\ ToCome(r.stage) >= 1 /\ Flag(r.cont) \in Nat
          /\ Content(r) \in Nat
      BY <2>2 DEF Left, Content, ToCome, Flag, Response
    <3>2. Flag(ending /\ ch) \in {0, 1}
      BY DEF Flag
    <3> HIDE DEF id, r, parts, ending
    <3> QED
      BY <2>4, <3>1, <3>2
  <2>6. id = Head(locals) /\ resp[id] = r
    OBVIOUS
  <2> HIDE DEF id, r, parts, ending, all, only
  <2>7. all # <<>> => Conn!HandlerSubmits
    BY <2>1, <2>2, <2>3, <2>4, <2>5, <2>6, SubmissionIsAllowed
  <2> QED
    BY <2>1, <2>7
<1> QED
  BY <1>1, <1>2, <1>3 DEF Poll

\* Every step of a server connection is, seen from its connector, a step of the
\* most general handler: it submits in request order, nothing for a response
\* after its end and no more than the bound.  Whatever is proved of the connector
\* therefore holds under this handler.
THEOREM Http1UsesConnector == Spec => UsesConnector
<1>1. Init => Conn!ConnInit
  BY DEF Init, ConnInit, Conn!ConnInit
<1>2. SrvIInv /\ [Next]_vars => [Conn!ConnNext]_(Conn!connVars)
  <2> SUFFICES ASSUME SrvIInv, [Next]_vars PROVE Conn!ConnNext \/ UNCHANGED connVars
    BY DEF connVars, timerVars, writeVars, Conn!connVars, Conn!timerVars, Conn!writeVars
  <2>1. CASE User
    <3>1. ASSUME NEW id \in Ids,
                 \/ \E c \in ConnHdr : Headers(id, c)
                 \/ Body(id) \/ Trailer(id) \/ SendContinue(id) \/ End(id) \/ Drop(id)
          PROVE  UNCHANGED connVars
      BY <3>1 DEF Headers, Body, Trailer, SendContinue, End, Drop, Notify
    <3>2. CASE Close
      BY <3>2, SameActions DEF Close, UserTurn, Conn!ConnNext, Conn!HandlerCloses
    <3>3. ASSUME NEW on \in BOOLEAN, OnTimeout(on) PROVE Conn!ConnNext
      <4>1. ~Unreferenced /\ ~stopped /\ SetTimeout(on)
        BY <3>3 DEF OnTimeout, UserTurn
      <4> QED
        BY <4>1, SameActions DEF Conn!ConnNext, Conn!UserSetsTimeout
    <3>4. ASSUME NEW on \in BOOLEAN, SetPersistent(on) PROVE UNCHANGED connVars
      BY <3>4 DEF SetPersistent
    <3> QED
      BY <2>1, <3>1, <3>2, <3>3, <3>4 DEF User
  <2>2. CASE Posts
    BY <2>2 DEF Posts, RunEnd, RunFeedback
  <2>3. CASE Poll
    BY <2>3, PollSubmits DEF Conn!ConnNext
  <2>4. CASE Decode
    <3>1. CASE DecodingStart
      BY <3>1 DEF DecodingStart
    <3>2. CASE (\E keep \in BOOLEAN : DecodedHeaders(keep)) \/ DecodedBody \/ DecodedTrailer
               \/ DecodingEnd
      BY <3>2 DEF DecodedHeaders, DecodedBody, DecodedTrailer, DecodingEnd, Decoded
    <3>3. CASE DecodingFailure
      BY <3>3, SameActions DEF DecodingFailure, Conn!ConnNext
    <3> QED
      BY <2>4, <3>1, <3>2, <3>3 DEF Decode
  <2>5. CASE Read \/ ReadEnds
    BY <2>5, SameActions DEF Read, ReadEnds, Conn!ConnNext
  <2>6. CASE Connection
    BY <2>6, SameActions DEF Connection, Conn!ConnNext, Conn!WriteAborted
  <2>7. CASE OnConnectorNulled
    <3>1. Destroyed(~user_close) /\ (~user_close) \in BOOLEAN
      BY <2>7 DEF OnConnectorNulled
    <3>2. Conn!Destroyed(~user_close)
      BY <3>1, SameActions
    <3> QED
      BY <3>1, <3>2 DEF Conn!ConnNext, Conn!LosesConnector
  <2>8. CASE UNCHANGED vars
    BY <2>8 DEF vars
  <2> QED
    BY <2>1, <2>2, <2>3, <2>4, <2>5, <2>6, <2>7, <2>8 DEF Next
<1> QED
  BY <1>1, <1>2, Http1Invariance, PTL DEF Spec, UsesConnector, Conn!ConnSpec
=============================================================================
