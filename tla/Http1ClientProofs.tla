------------------------- MODULE Http1ClientProofs -------------------------
(***************************************************************************)
(* The client side HTTP/1 handler for any number of transactions and of    *)
(* messages: H1CInv is inductive and implies RequestsWhole,                *)
(* AnswersAreMatched, ClearedIsDelivered and NobodyForgotten.              *)
(***************************************************************************)
EXTENDS Http1Client, SequenceTheorems, TLAPS

-----------------------------------------------------------------------------
(* The inductive invariant. *)

\* The numbers in a list grow.
Sorted(s) == \A i, j \in DOMAIN s : i < j => s[i] < s[j]

Created(n) == q[n].stage # "none"

\* The two lists hold created requests in the order of their creation.
ListsOK ==
  /\ Sorted(locals) /\ Sorted(remotes)
  /\ \A n \in ToSet(locals) \cup ToSet(remotes) : Created(n)
  /\ \A m, n \in Ids : m < n /\ Created(n) => Created(m)

\* A loop that polls has a front request.  Unless on_request_sent calls into the
\* handler there is one loop, and the request that has just been completed is in
\* front of the list while it is called, and only then in the list.
LoopOK ==
  /\ polling # <<>> /\ ~clearing => locals # <<>>
  /\ clearing => polling # <<>>
  /\ "nested" \notin env =>
       /\ Len(polling) <= 1
       /\ clearing => locals # <<>> /\ q[Head(locals)].eom
       /\ \A n \in ToSet(locals) : q[n].eom => clearing /\ n = Head(locals)

\* What the flags of a request say about its stage.
RequestOK(n) ==
  /\ ~Created(n) => q[n] = NewRequest
  /\ q[n].h => q[n].stage \in {"headers", "body", "ended"}
  /\ q[n].b => q[n].stage \in {"body", "ended"}
  /\ q[n].e <=> q[n].stage = "ended"
  /\ q[n].eom => q[n].stage = "ended" /\ ~q[n].h /\ ~q[n].b
  /\ q[n].self => q[n].stage = "ended"
  /\ "drop" \notin env /\ Created(n) => q[n].held

\* Request n has no bytes in s.
NoneOf(n, s) == \A i \in DOMAIN s : s[i][1] # n

\* A request waiting for its feedback has no more bytes to come, and those it had
\* are in the write that carries the feedback or before it.
WriterOK ==
  /\ ~flying => fly = <<>> /\ cbs = {}
  /\ \A n \in pcc \cup cbs : q[n].eom
  /\ \A n \in cbs : NoneOf(n, ser)
  /\ \A n \in Ids : "cleared" \in q[n].told => q[n].eom /\ NoneOf(n, ser) /\ NoneOf(n, fly)
  /\ "cancel" \notin env => cut = {}

\* Nothing more of request n will be sent.
Over(n) == q[n].stage = "ended" \/ (Created(n) /\ ~q[n].held)

\* The bytes sent come from the front request and from requests that are over.
SentBefore ==
  \A p \in ToSet(Sent) :
    \/ locals # <<>> /\ p[1] = Head(locals)
    \/ Over(p[1]) /\ \A n \in ToSet(locals) : p[1] < n

\* Which bytes of a request in the list have been sent.
SentOf(n) ==
  /\ q[n].stage \in {"headers", "body", "ended"} => q[n].h \/ <<n, "H">> \in ToSet(Sent)
  /\ q[n].h \/ q[n].stage = "begun" => NoneOf(n, Sent)
  /\ q[n].b \/ q[n].stage \in {"begun", "headers"} => <<n, "B">> \notin ToSet(Sent)
  /\ ~q[n].eom => <<n, "E">> \notin ToSet(Sent)

\* Nothing was left out before the requests in the list.
SentAll == Plain => \A m \in Ids : Created(m) => m \in ToSet(locals) \/ <<m, "H">> \in ToSet(Sent)

\* Neighbours in the bytes sent.
Follows(p, r) ==
  \/ p[1] < r[1] /\ Over(p[1])
  \/ p[1] = r[1] /\ Rank(p[2]) < Rank(r[2])

\* The i-th byte sent comes after the headers of its request and, if no request is
\* lost, after those of the requests before.
Preceded(i) ==
  /\ Created(Sent[i][1])
  /\ \E j \in 1 .. i : Sent[j] = <<Sent[i][1], "H">>
  /\ Plain => \A m \in Ids : m < Sent[i][1] => \E j \in 1 .. i : Sent[j] = <<m, "H">>

Whole ==
  /\ \A i \in 1 .. Len(Sent) - 1 : Follows(Sent[i], Sent[i + 1])
  /\ \A i \in 1 .. Len(Sent) : Preceded(i)

\* No call from on_request_sent, and no cancelled write on an open connector.
Gentle == env \cap {"nested", "cancel"} = {}

SentOK ==
  Gentle =>
    /\ Whole
    /\ conn = "open" => SentBefore /\ SentAll /\ \A n \in ToSet(locals) : SentOf(n)

\* Who has not been told an outcome is still in a list where it will be.
TellOK ==
  /\ ~user_close /\ env \cap {"bad", "nested"} = {} =>
       \A n \in Ids : Created(n) /\ q[n].told = {} =>
         n \in ToSet(locals) \cup pcc \cup cbs \/ (~q[n].held /\ q[n].stage # "ended")
  /\ \A n \in Ids : q[n].eom /\ q[n].told = {} => n \in pcc \cup cbs
  /\ \A n \in ToSet(locals) : q[n].stage = "ended" /\ q[n].told = {} => q[n].self
  /\ user_close => \A n \in ToSet(remotes) : q[n].late
  /\ conn = "gone" => ~flying /\ ~reading
  /\ conn = "gone" /\ ~user_close => locals = <<>> /\ remotes = <<>> /\ pcc = {}

Final == Outcomes \cup {"continue"}

EventsOf(n) ==
  /\ ~Created(n) => evs[n] = <<>>
  /\ n \in ToSet(remotes) => \A i \in DOMAIN evs[n] : evs[n][i].ev \in {"headers", "body"}
  /\ Created(n) /\ n \notin ToSet(remotes) => evs[n] # <<>> /\ evs[n][Len(evs[n])].ev \in Final
  /\ \A i \in DOMAIN evs[n] : evs[n][i].ev \in Final => i = Len(evs[n])
  /\ "drop" \notin env /\ ~q[n].late =>
       \A i \in DOMAIN evs[n] : evs[n][i].ev \in {"body", "finished"} => evs[n][1].ev = "headers"

\* Reads bring what the responses in the list wait for.
Matching == reading /\ ~user_close

\* The message being received, and the response that gets it.
RecvOK ==
  /\ msg.kind = "none" => msg = NoMsg
  /\ errs \in 0 .. 1
  /\ msg # NoMsg /\ ~decoding_error => errs = 0
  /\ Matching /\ "drop" \notin env /\ msg # NoMsg /\ ~decoding_error =>
       /\ remotes # <<>>
       /\ managing_continue <=> msg.kind = "interim"
       /\ msg.kind # "interim" => evs[Head(remotes)] # <<>>

\* As long as the peer only answers: the responses still to come are those after
\* the last answer, or from it on while it is being received.
MatchOK ==
  Plain =>
    /\ \A n \in Ids : ~q[n].late => \A i \in DOMAIN evs[n] : evs[n][i].of = n
    /\ Matching =>
         /\ answered \in Ids => Created(answered)
         /\ msg # NoMsg => /\ msg.kind = "answer" /\ msg.of = answered /\ ~decoding_error
                           /\ answered \in Ids
         /\ \A n \in Ids : Created(n) =>
              (n \in ToSet(remotes) <=> n > answered \/ (msg # NoMsg /\ n = answered))

H1CInv ==
  /\ TypeOK /\ ListsOK /\ LoopOK /\ WriterOK /\ SentOK /\ TellOK /\ RecvOK /\ MatchOK
  /\ \A n \in Ids : RequestOK(n) /\ EventsOf(n)

-----------------------------------------------------------------------------
(* Lists and the bytes sent. *)

\* Taking the front off a list in order.
LEMMA TailFacts ==
  ASSUME NEW s \in Seq(Ids), s # <<>>, Sorted(s)
  PROVE  /\ Tail(s) \in Seq(Ids) /\ Sorted(Tail(s))
         /\ Head(s) \in Ids /\ Head(s) \in ToSet(s)
         /\ ToSet(Tail(s)) = ToSet(s) \ {Head(s)}
         /\ \A n \in ToSet(Tail(s)) : Head(s) < n
         /\ \A n \in ToSet(s) : n \in Ids
<1> USE DEF ToSet, Sorted, Ids
<1> USE H1ClientAssumption
<1>1. /\ Len(s) \in Nat /\ Len(s) > 0 /\ DOMAIN s = 1 .. Len(s) /\ Head(s) = s[1]
      /\ Tail(s) \in Seq(Ids) /\ Len(Tail(s)) = Len(s) - 1
      /\ \A i \in 1 .. Len(s) - 1 : Tail(s)[i] = s[i + 1]
      /\ DOMAIN Tail(s) = 1 .. Len(s) - 1
      /\ \A i \in 1 .. Len(s) : s[i] \in Ids
  OBVIOUS
<1>2. \A i \in 1 .. Len(s) : i # 1 => s[i] = Tail(s)[i - 1] /\ i - 1 \in 1 .. Len(s) - 1
  BY <1>1
<1>3. Sorted(Tail(s))
  BY <1>1
<1>4. \A n \in ToSet(Tail(s)) : Head(s) < n /\ n \in ToSet(s)
  <2> SUFFICES ASSUME NEW i \in 1 .. Len(s) - 1
               PROVE  Head(s) < Tail(s)[i] /\ Tail(s)[i] \in ToSet(s)
    BY <1>1
  <2>1. i + 1 \in 1 .. Len(s) /\ 1 \in 1 .. Len(s) /\ 1 < i + 1 /\ Tail(s)[i] = s[i + 1]
    BY <1>1
  <2> QED BY <2>1, <1>1
<1>5. \A n \in ToSet(s) : n # Head(s) => n \in ToSet(Tail(s))
  <2> SUFFICES ASSUME NEW i \in 1 .. Len(s), s[i] # Head(s)
               PROVE  s[i] \in ToSet(Tail(s))
    BY <1>1
  <2>1. i # 1
    BY <1>1
  <2> QED BY <2>1, <1>1, <1>2
<1>6. \A n \in ToSet(s) : n \in Ids
  BY <1>1
<1>7. Head(s) \in ToSet(s) /\ Head(s) \in Ids
  BY <1>1
<1> HIDE DEF ToSet, Sorted
<1>8. \A n \in ToSet(Tail(s)) : n # Head(s)
  <2> SUFFICES ASSUME Head(s) \in ToSet(Tail(s)) PROVE FALSE
    OBVIOUS
  <2>1. Head(s) < Head(s)
    BY <1>4
  <2> QED BY <2>1, <1>7
<1>9. ToSet(Tail(s)) = ToSet(s) \ {Head(s)}
  BY <1>4, <1>5, <1>8
<1> QED BY <1>1, <1>3, <1>4, <1>6, <1>7, <1>9

\* Adding at the end of a list in order.
LEMMA AppendFacts ==
  ASSUME NEW s \in Seq(Ids), NEW n \in Ids
  PROVE  /\ Append(s, n) \in Seq(Ids) /\ ToSet(Append(s, n)) = ToSet(s) \cup {n}
         /\ Append(s, n) # <<>>
         /\ Head(Append(s, n)) = IF s = <<>> THEN n ELSE Head(s)
         /\ Sorted(s) /\ (\A m \in ToSet(s) : m < n) => Sorted(Append(s, n))
<1> USE DEF ToSet, Sorted, Ids
<1> USE H1ClientAssumption
<1> DEFINE t == Append(s, n)
<1>1. /\ t \in Seq(Ids) /\ Len(t) = Len(s) + 1 /\ Len(s) \in Nat
      /\ DOMAIN s = 1 .. Len(s) /\ DOMAIN t = 1 .. Len(s) + 1
      /\ t[Len(s) + 1] = n /\ \A i \in 1 .. Len(s) : t[i] = s[i]
  OBVIOUS
<1>2. ToSet(t) = ToSet(s) \cup {n}
  <2>1. \A m \in ToSet(t) : m \in ToSet(s) \cup {n}
    BY <1>1
  <2>2. \A m \in ToSet(s) \cup {n} : m \in ToSet(t)
    BY <1>1
  <2> HIDE DEF ToSet
  <2> QED BY <2>1, <2>2
<1>3. t # <<>> /\ Head(t) = IF s = <<>> THEN n ELSE Head(s)
  <2>1. t # <<>> /\ Head(t) = t[1]
    BY <1>1
  <2>2. CASE s = <<>>
    BY <2>1, <2>2, <1>1
  <2>3. CASE s # <<>>
    <3>1. 1 \in 1 .. Len(s) /\ Head(s) = s[1]
      BY <2>3, <1>1
    <3> QED BY <2>1, <2>3, <3>1, <1>1
  <2> QED BY <2>2, <2>3
<1>4. Sorted(s) /\ (\A m \in ToSet(s) : m < n) => Sorted(t)
  BY <1>1
<1> QED BY <1>1, <1>2, <1>3, <1>4

\* The bytes of a sequence and of one more.
LEMMA AppendPiece ==
  ASSUME NEW s \in Seq(Pieces), NEW x \in Pieces
  PROVE  /\ Append(s, x) \in Seq(Pieces) /\ ToSet(Append(s, x)) = ToSet(s) \cup {x}
         /\ \A m \in Ids : NoneOf(m, s) /\ m # x[1] => NoneOf(m, Append(s, x))
<1> DEFINE t == Append(s, x)
<1>1. /\ t \in Seq(Pieces) /\ Len(t) = Len(s) + 1 /\ Len(s) \in Nat
      /\ DOMAIN s = 1 .. Len(s) /\ DOMAIN t = 1 .. Len(s) + 1
      /\ t[Len(s) + 1] = x /\ \A i \in 1 .. Len(s) : t[i] = s[i]
  OBVIOUS
<1>2. \A p \in ToSet(t) : p \in ToSet(s) \cup {x}
  BY <1>1 DEF ToSet
<1>3. \A p \in ToSet(s) \cup {x} : p \in ToSet(t)
  BY <1>1 DEF ToSet
<1>4. \A m \in Ids : NoneOf(m, s) /\ m # x[1] => NoneOf(m, t)
  BY <1>1 DEF NoneOf
<1> QED BY <1>1, <1>2, <1>3, <1>4

\* Concatenation, index by index.
LEMMA ConcatFacts ==
  ASSUME NEW s \in Seq(Pieces), NEW t \in Seq(Pieces)
  PROVE  /\ s \o t \in Seq(Pieces) /\ Len(s \o t) = Len(s) + Len(t)
         /\ \A i \in 1 .. Len(s) : (s \o t)[i] = s[i]
         /\ s \o <<>> = s /\ <<>> \o t = t
  OBVIOUS

\* Concatenation is associative, for the provers.
LEMMA ConcatAssoc ==
  ASSUME NEW a \in Seq(Pieces), NEW b \in Seq(Pieces), NEW c \in Seq(Pieces)
  PROVE  (a \o b) \o c = a \o (b \o c)
  OBVIOUS

\* A piece added to the last of two sequences is added to both.
LEMMA ConcatAppend ==
  ASSUME NEW a \in Seq(Pieces), NEW b \in Seq(Pieces), NEW x \in Pieces
  PROVE  a \o Append(b, x) = Append(a \o b, x)
  OBVIOUS
-----------------------------------------------------------------------------
(* What a step leaves alone. *)

\* A step that neither receives nor creates keeps what is known of the responses.
LEMMA ResponsesKept ==
  ASSUME H1CInv, UNCHANGED <<env, remotes, evs, recvVars>>,
         \A n \in Ids : /\ q'[n].stage # "none" <=> q[n].stage # "none"
                        /\ q'[n].late = q[n].late,
         reading' => reading, user_close => user_close'
  PROVE  RecvOK' /\ MatchOK' /\ \A n \in Ids : EventsOf(n)'
<1> USE DEF recvVars
<1>0. Matching' => Matching
  BY DEF Matching
<1>1. \A n \in Ids : EventsOf(n)'
  BY DEF H1CInv, EventsOf, Created
<1>2. RecvOK'
  BY <1>0 DEF H1CInv, RecvOK
<1>3. MatchOK'
  BY <1>0 DEF H1CInv, MatchOK, Plain, Created
<1> QED BY <1>1, <1>2, <1>3

\* Everything that Sent speaks of has been created, and is a piece.
LEMMA SentType ==
  ASSUME H1CInv
  PROVE  /\ Sent \in Seq(Pieces) /\ Len(Sent) \in Nat /\ DOMAIN Sent = 1 .. Len(Sent)
         /\ \A i \in 1 .. Len(Sent) : Sent[i] \in Pieces /\ Sent[i][1] \in Ids
         /\ \A p \in ToSet(Sent) : p \in Pieces /\ p[1] \in Ids
         /\ Gentle => \A p \in ToSet(Sent) : Created(p[1])
<1>1. Sent \in Seq(Pieces)
  BY ConcatFacts DEF H1CInv, TypeOK, Sent
<1>2. Len(Sent) \in Nat /\ DOMAIN Sent = 1 .. Len(Sent)
  BY <1>1
<1>3. \A i \in 1 .. Len(Sent) : Sent[i] \in Pieces
  BY <1>1
<1>4. \A p \in Pieces : p[1] \in Ids
  BY DEF Pieces
<1>5. \A p \in ToSet(Sent) : \E i \in 1 .. Len(Sent) : p = Sent[i]
  BY <1>2 DEF ToSet
<1>6. Gentle => \A i \in 1 .. Len(Sent) : Created(Sent[i][1])
  BY DEF H1CInv, SentOK, Whole, Preceded
<1> HIDE DEF Gentle, Created
<1> QED BY <1>1, <1>2, <1>3, <1>4, <1>5, <1>6

(***************************************************************************)
(* What has been sent is cut short, at most, and requests only get closer  *)
(* to their end: it stays whole.                                           *)
(***************************************************************************)
LEMMA WholePrefix ==
  ASSUME H1CInv, Gentle, env' = env, Len(Sent') \in 0 .. Len(Sent),
         \A i \in 1 .. Len(Sent') : Sent'[i] = Sent[i],
         \A n \in Ids : (Over(n) => Over(n)') /\ (Created(n) => Created(n)')
  PROVE  Whole'
<1> DEFINE k == Len(Sent')
<1>1. /\ Len(Sent) \in Nat /\ k \in Nat /\ k <= Len(Sent)
      /\ \A i \in 1 .. Len(Sent) : Sent[i][1] \in Ids
  BY SentType
<1>2. Whole /\ (Plain' <=> Plain)
  BY DEF H1CInv, SentOK, Plain
<1> HIDE DEF k
<1>3. \A i \in 1 .. k - 1 : Follows(Sent[i], Sent[i + 1])'
  <2> SUFFICES ASSUME NEW i \in 1 .. k - 1 PROVE Follows(Sent[i], Sent[i + 1])'
    OBVIOUS
  <2>1. /\ i \in 1 .. Len(Sent) - 1 /\ i \in 1 .. Len(Sent)
        /\ i \in 1 .. k /\ i + 1 \in 1 .. k
    BY <1>1
  <2>2. Sent'[i] = Sent[i] /\ Sent'[i + 1] = Sent[i + 1]
    BY <2>1 DEF k
  <2>3. Follows(Sent[i], Sent[i + 1])
    BY <2>1, <1>2 DEF Whole
  <2> QED BY <2>1, <2>2, <2>3, <1>1 DEF Follows
<1>4. \A i \in 1 .. k : Preceded(i)'
  <2> SUFFICES ASSUME NEW i \in 1 .. k PROVE Preceded(i)'
    OBVIOUS
  <2>1. i \in 1 .. Len(Sent) /\ \A j \in 1 .. i : j \in 1 .. k
    BY <1>1
  <2>2. /\ Sent'[i] = Sent[i] /\ \A j \in 1 .. i : Sent'[j] = Sent[j]
    BY <2>1 DEF k
  <2>3. Preceded(i)
    BY <2>1, <1>2 DEF Whole
  <2>4. Created(Sent[i][1])'
    BY <2>1, <2>2, <2>3, <1>1 DEF Preceded
  <2>5. \E j \in 1 .. i : Sent'[j] = <<Sent'[i][1], "H">>
    BY <2>2, <2>3 DEF Preceded
  <2>6. Plain => \A m \in Ids : m < Sent'[i][1] => \E j \in 1 .. i : Sent'[j] = <<m, "H">>
    BY <2>2, <2>3 DEF Preceded
  <2> QED BY <2>4, <2>5, <2>6, <1>2 DEF Preceded
<1> QED BY <1>3, <1>4 DEF Whole, k

\* A connection that is not open any more: no condition but wholeness is left.
LEMMA SentCut ==
  ASSUME H1CInv, env' = env, conn' # "open", Len(Sent') \in 0 .. Len(Sent),
         \A i \in 1 .. Len(Sent') : Sent'[i] = Sent[i],
         \A n \in Ids : (Over(n) => Over(n)') /\ (Created(n) => Created(n)')
  PROVE  SentOK'
<1>1. Gentle' <=> Gentle
  BY DEF Gentle
<1> QED BY <1>1, WholePrefix DEF SentOK

\* Stopping keeps what was sent; what waits will not be.
LEMMA SentStopped ==
  ASSUME H1CInv, UNCHANGED <<env, wire, fly>>, conn' # "open",
         \A n \in Ids : (Over(n) => Over(n)') /\ (Created(n) => Created(n)')
  PROVE  SentOK'
<1>1. wire \in Seq(Pieces) /\ fly \in Seq(Pieces) /\ ser \in Seq(Pieces)
  BY DEF H1CInv, TypeOK
<1>2. Sent' = wire \o fly /\ wire \o fly \in Seq(Pieces)
  BY <1>1, ConcatFacts DEF Sent
<1>3. /\ Len(Sent') \in 0 .. Len(Sent) /\ \A i \in 1 .. Len(Sent') : Sent'[i] = Sent[i]
  <2>1. CASE conn # "open"
    <3>1. Sent = wire \o fly
      BY <2>1 DEF Sent
    <3>2. Len(Sent) \in Nat
      BY <3>1, <1>2
    <3>3. Sent' = Sent
      BY <3>1, <1>2
    <3> QED BY <3>2, <3>3
  <2>2. CASE conn = "open"
    <3>1. Sent = (wire \o fly) \o ser
      BY <2>2 DEF Sent
    <3>2. /\ Len(Sent) = Len(wire \o fly) + Len(ser) /\ Len(wire \o fly) \in Nat
          /\ Len(ser) \in Nat /\ \A i \in 1 .. Len(wire \o fly) : Sent[i] = (wire \o fly)[i]
      BY <3>1, <1>1, <1>2, ConcatFacts
    <3> QED BY <3>2, <1>2
  <2> QED BY <2>1, <2>2
<1> QED BY <1>3, SentCut

\* The bytes stay, so they stay whole.
LEMMA WholeKept ==
  ASSUME H1CInv, Gentle, env' = env, Sent' = Sent,
         \A n \in Ids : (Over(n) => Over(n)') /\ (Created(n) => Created(n)')
  PROVE  Whole'
<1>1. Len(Sent') \in 0 .. Len(Sent) /\ \A i \in 1 .. Len(Sent') : Sent'[i] = Sent[i]
  BY SentType
<1> QED BY <1>1, WholePrefix

\* The bytes stay, and requests only get closer to their end.
LEMMA SentKept ==
  ASSUME H1CInv, UNCHANGED <<env, conn, locals>>, Sent' = Sent,
         \A n \in Ids : (Over(n) => Over(n)') /\ (Created(n) <=> Created(n)'),
         Gentle /\ conn = "open" => \A n \in ToSet(locals) : SentOf(n)'
  PROVE  SentOK'
<1>1. Gentle' <=> Gentle
  BY DEF Gentle
<1>2. Gentle => Whole'
  BY WholeKept
<1>3. ASSUME Gentle, conn = "open" PROVE SentBefore'
  <2> SUFFICES ASSUME NEW p \in ToSet(Sent)
               PROVE  \/ locals # <<>> /\ p[1] = Head(locals)
                      \/ Over(p[1])' /\ \A n \in ToSet(locals) : p[1] < n
    BY DEF SentBefore
  <2>1. p[1] \in Ids
    BY SentType
  <2> QED BY <2>1, <1>3 DEF H1CInv, SentOK, SentBefore
<1>4. ASSUME Gentle, conn = "open" PROVE SentAll'
  <2>1. SentAll
    BY <1>4 DEF H1CInv, SentOK
  <2> QED BY <2>1 DEF SentAll, Plain
<1> QED BY <1>1, <1>2, <1>3, <1>4 DEF SentOK

\* What a received byte does not touch: the requests and their bytes.
LEMMA RequestsKept ==
  ASSUME H1CInv, UNCHANGED <<env, locals, q, connVars, user_close, loopVars>>,
         ToSet(remotes') \subseteq ToSet(remotes),
         conn = "gone" => remotes' = remotes
  PROVE  LoopOK' /\ WriterOK' /\ SentOK' /\ TellOK' /\ \A n \in Ids : RequestOK(n)'
<1> USE DEF connVars, loopVars
<1>1. WriterOK' /\ \A n \in Ids : RequestOK(n)'
  BY DEF H1CInv, WriterOK, NoneOf, RequestOK, Created
<1>2. Sent' = Sent
  BY DEF Sent
<1>3. SentOK'
  <2>1. \A n \in Ids : (Over(n) => Over(n)') /\ (Created(n) <=> Created(n)')
    BY DEF Over, Created
  <2>2. Gentle /\ conn = "open" => \A n \in ToSet(locals) : SentOf(n)'
    BY <1>2 DEF H1CInv, SentOK, SentOf, NoneOf
  <2> QED BY <2>1, <2>2, <1>2, SentKept
<1>4. TellOK'
  BY DEF H1CInv, TellOK, Created
<1>5. LoopOK'
  BY DEF H1CInv, LoopOK
<1> QED BY <1>1, <1>3, <1>4, <1>5

\* notify_local_content returns into on_request_sent, or to the caller.
LEMMA LoopEndsFacts ==
  ASSUME H1CInv, polling # <<>>, LoopEnds
  PROVE  /\ polling' \in Seq(Ids) /\ clearing' \in BOOLEAN
         /\ clearing' <=> polling' # <<>>
         /\ "nested" \notin env => ~clearing' /\ Len(polling') <= 1
<1>1. polling \in Seq(Ids) /\ ("nested" \notin env => Len(polling) <= 1)
  BY DEF H1CInv, TypeOK, LoopOK
<1> DEFINE k == Len(polling)
           t == SubSeq(polling, 1, k - 1)
<1>2. k \in Nat /\ k > 0
  BY <1>1
<1>3. polling' = t /\ clearing' \in BOOLEAN /\ (clearing' <=> k > 1)
  <2>1. polling' = t /\ clearing' = (k > 1)
    BY Zenon DEF LoopEnds, Front
  <2> HIDE DEF k, t
  <2>2. (k > 1) \in BOOLEAN
    OBVIOUS
  <2>3. clearing' <=> k > 1
    BY <2>1
  <2> QED BY <2>1, <2>2, <2>3, Zenon
<1>4. t \in Seq(Ids) /\ Len(t) = k - 1
  <2>1. 1 \in 1 .. k + 1 /\ k - 1 \in 0 .. k
    BY <1>2
  <2>2. t \in Seq(Ids) /\ Len(t) = IF 1 <= k - 1 THEN k - 1 - 1 + 1 ELSE 0
    BY <2>1, <1>1, SubSeqProperties
  <2> HIDE DEF k, t
  <2>3. CASE 1 <= k - 1
    BY <2>2, <2>3, <1>2
  <2>4. CASE ~(1 <= k - 1)
    BY <2>2, <2>4, <1>2
  <2> QED BY <2>3, <2>4
<1> HIDE DEF k
<1>5. t # <<>> <=> k > 1
  <2>1. t # <<>> <=> Len(t) > 0
    BY <1>4
  <2> QED BY <2>1, <1>2, <1>4
<1>6. "nested" \notin env => ~(k > 1) /\ Len(t) <= 1
  <2>1. "nested" \notin env => k <= 1
    BY <1>1 DEF k
  <2> QED BY <2>1, <1>2, <1>4
<1> HIDE DEF t
<1> QED BY <1>3, <1>4, <1>5, <1>6

-----------------------------------------------------------------------------
(* Telling outcomes, and do_write. *)

\* Telling an outcome changes nothing else but self.
LEMMA ToldFacts ==
  ASSUME NEW r \in Requests, NEW what \in {"cleared", "error"}
  PROVE  /\ Told(r, what) \in Requests
         /\ Told(r, what).stage = r.stage /\ Told(r, what).held = r.held
         /\ Told(r, what).h = r.h /\ Told(r, what).b = r.b /\ Told(r, what).e = r.e
         /\ Told(r, what).eom = r.eom
         /\ Told(r, what).late = r.late /\ ~Told(r, what).self
         /\ Told(r, what).told = r.told \cup {what} /\ Told(r, what).told # {}
<1>1. what \in Told(r, what).told
  BY DEF Told, Requests
<1> QED BY <1>1 DEF Told, Requests

\* Telling an outcome to the requests of S changes nothing of the others.
LEMMA TellFacts ==
  ASSUME NEW qq \in [Ids -> Requests], NEW S, NEW what \in {"cleared", "error"}
  PROVE  /\ TellRequests(qq, S, what) \in [Ids -> Requests]
         /\ \A n \in Ids : LET r == TellRequests(qq, S, what)[n] IN
              /\ r.stage = qq[n].stage /\ r.held = qq[n].held
              /\ r.h = qq[n].h /\ r.b = qq[n].b /\ r.e = qq[n].e /\ r.eom = qq[n].eom
              /\ r.late = qq[n].late
              /\ n \notin S => r = qq[n]
              /\ n \in S => ~r.self /\ r.told = qq[n].told \cup {what} /\ r.told # {}
  BY ToldFacts DEF TellRequests

\* What do_write makes of the requests qq, the bytes s and the feedbacks p.
WriteEffect(qq, s, p) ==
  /\ q' \in [Ids -> Requests] /\ ser' \in Seq(Pieces) /\ fly' \in Seq(Pieces)
  /\ pcc' \subseteq Ids /\ cbs' \subseteq Ids /\ flying' \in BOOLEAN
  /\ ~flying' => fly' = <<>> /\ cbs' = {}
  /\ conn = "gone" => flying' = flying
  /\ pcc' \cup cbs' \subseteq p \cup cbs
  /\ \A n \in cbs' : NoneOf(n, ser') \/ (n \in cbs /\ ser' = s)
  /\ IF conn = "open" THEN wire \o fly' \o ser' = wire \o fly \o s ELSE fly' = fly

RequestEffect(qq, s, p, n) ==
  /\ q'[n].stage = qq[n].stage /\ q'[n].held = qq[n].held
  /\ q'[n].h = qq[n].h /\ q'[n].b = qq[n].b /\ q'[n].e = qq[n].e /\ q'[n].eom = qq[n].eom
  /\ q'[n].late = qq[n].late /\ (q'[n].self => qq[n].self)
  /\ n \notin p => q'[n] = qq[n]
  /\ q'[n] = qq[n] \/ q'[n].told # {}
  /\ "cleared" \in q'[n].told =>
       "cleared" \in qq[n].told \/ (n \in p /\ ser' = <<>> /\ fly' = <<>>)
  /\ q'[n].told = {} => qq[n].told = {}
  /\ n \in p \cup cbs => n \in pcc' \cup cbs' \/ q'[n].told # {}
  /\ NoneOf(n, s) /\ NoneOf(n, fly) => NoneOf(n, ser') /\ NoneOf(n, fly')

\* The three outcomes of do_write, seen by the requests, the feedbacks and the bytes.
LEMMA DoWriteFacts ==
  ASSUME H1CInv, NEW qq \in [Ids -> Requests], NEW s \in Seq(Pieces), NEW p \in SUBSET Ids,
         DoWrite(qq, s, p, flying)
  PROVE  WriteEffect(qq, s, p) /\ \A n \in Ids : RequestEffect(qq, s, p, n)
<1> USE DEF WriteEffect, RequestEffect
<1>1. /\ wire \in Seq(Pieces) /\ fly \in Seq(Pieces) /\ cbs \subseteq Ids /\ flying \in BOOLEAN
      /\ ~flying => fly = <<>> /\ cbs = {}
      /\ conn = "gone" => ~flying
  BY DEF H1CInv, TypeOK, WriterOK, TellOK
<1>2. CASE /\ flying \/ conn # "open"
           /\ q' = qq /\ ser' = s /\ pcc' = p /\ UNCHANGED <<fly, cbs, flying>>
  BY <1>1, <1>2
<1>3. \A n \in Ids : NoneOf(n, <<>>)
  BY DEF NoneOf
<1>4. <<>> \in Seq(Pieces)
  OBVIOUS
<1>5. CASE /\ ~flying /\ conn = "open" /\ s = <<>>
           /\ q' = TellRequests(qq, p, "cleared")
           /\ ser' = <<>> /\ pcc' = {} /\ fly' = <<>> /\ cbs' = {} /\ flying' = FALSE
  <2>1. wire \o fly' \o ser' = wire \o fly \o s
    BY <1>1, <1>5
  <2>2. q' \in [Ids -> Requests]
    BY <1>5, TellFacts
  <2>3. \A n \in Ids :
          /\ q'[n].stage = qq[n].stage /\ q'[n].held = qq[n].held
          /\ q'[n].h = qq[n].h /\ q'[n].b = qq[n].b /\ q'[n].e = qq[n].e /\ q'[n].eom = qq[n].eom
          /\ q'[n].late = qq[n].late
          /\ n \notin p => q'[n] = qq[n]
          /\ n \in p => ~q'[n].self /\ q'[n].told # {}
    BY <1>5, TellFacts
  <2> QED BY <1>1, <1>3, <1>4, <1>5, <2>1, <2>2, <2>3
<1>6. CASE /\ ~flying /\ conn = "open" /\ s # <<>>
           /\ q' = qq
           /\ ser' = <<>> /\ pcc' = {} /\ fly' = s /\ cbs' = p /\ flying' = TRUE
  <2>1. wire \o fly' \o ser' = wire \o fly \o s
    <3>1. wire \o s \in Seq(Pieces) /\ (wire \o s) \o <<>> = wire \o s /\ wire \o <<>> = wire
      BY <1>1, ConcatFacts
    <3> QED BY <3>1, <1>1, <1>6
  <2> QED BY <1>1, <1>3, <1>4, <1>6, <2>1
<1> QED BY <1>2, <1>5, <1>6 DEF DoWrite

-----------------------------------------------------------------------------
(* notify_local_content. *)

\* Whole, for any sequence of pieces.
WholeBytes(s) ==
  /\ \A i \in 1 .. Len(s) - 1 : Follows(s[i], s[i + 1])
  /\ \A i \in 1 .. Len(s) :
       /\ Created(s[i][1])
       /\ \E j \in 1 .. i : s[j] = <<s[i][1], "H">>
       /\ Plain => \A m \in Ids : m < s[i][1] => \E j \in 1 .. i : s[j] = <<m, "H">>

\* What one more piece of the front request makes of the bytes sent.
LEMMA SentGrows ==
  ASSUME H1CInv, Gentle, conn = "open", locals # <<>>, NEW part \in {"H", "B", "E"},
         GetState(q[FrontRequest]) = part, ~q[FrontRequest].eom,
         NEW s, s = Append(Sent, <<FrontRequest, part>>)
  PROVE  WholeBytes(s)
<1> DEFINE f == FrontRequest
<1> USE DEF FrontRequest
<1>1. /\ f \in Ids /\ f \in ToSet(locals) /\ Sent \in Seq(Pieces) /\ RequestOK(f) /\ SentOf(f)
      /\ q[f] \in Requests /\ Created(f) /\ Whole /\ SentBefore /\ SentAll
  BY TailFacts, SentType DEF H1CInv, TypeOK, ListsOK, SentOK
<1>2. <<f, part>> \in Pieces
  BY <1>1 DEF Pieces
<1>3. /\ Len(Sent) \in Nat /\ Len(s) = Len(Sent) + 1 /\ s[Len(Sent) + 1] = <<f, part>>
      /\ \A i \in 1 .. Len(Sent) : s[i] = Sent[i] /\ Sent[i] \in Pieces /\ Sent[i] \in ToSet(Sent)
  BY <1>1, <1>2 DEF ToSet
<1>4. \A i \in 1 .. Len(s) - 1 : Follows(s[i], s[i + 1])
  <2>0. Len(s) - 1 = Len(Sent)
    BY <1>3
  <2> SUFFICES ASSUME NEW i \in 1 .. Len(Sent) PROVE Follows(s[i], s[i + 1])
    BY <2>0
  <2>1. CASE i < Len(Sent)
    <3>1. i \in 1 .. Len(Sent) - 1 /\ i + 1 \in 1 .. Len(Sent)
      BY <2>1, <1>3
    <3> QED BY <3>1, <1>1, <1>3 DEF Whole
  <2>2. CASE i = Len(Sent)
    <3> DEFINE p == Sent[i]
    <3>1. s[i] = p /\ s[i + 1] = <<f, part>> /\ p \in ToSet(Sent) /\ p \in Pieces
      BY <2>2, <1>3
    <3>2. p[1] = f \/ (Over(p[1]) /\ p[1] < f)
      BY <3>1, <1>1 DEF SentBefore
    <3>3. p[1] \in Ids /\ p[2] \in {"H", "B", "E"} /\ p = <<p[1], p[2]>>
      BY <3>1 DEF Pieces
    <3>4. CASE p[1] = f
      <4>1. ~NoneOf(f, Sent)
        BY <3>4, <1>1 DEF NoneOf
      <4>2. part # "H" /\ (part = "B" => q[f].b)
        BY <4>1, <1>1 DEF SentOf, GetState
      <4>3. p[2] # "E" /\ (part = "B" => p[2] # "B")
        BY <3>1, <3>3, <3>4, <4>2, <1>1 DEF SentOf
      <4>4. Rank(p[2]) < Rank(part)
        BY <4>2, <4>3, <3>3 DEF Rank
      <4> QED BY <4>4, <3>1, <3>4 DEF Follows
    <3>5. CASE Over(p[1]) /\ p[1] < f
      BY <3>1, <3>5 DEF Follows
    <3> QED BY <3>2, <3>4, <3>5
  <2> QED BY <2>1, <2>2, <1>3
<1>5. ASSUME NEW i \in 1 .. Len(s)
      PROVE  /\ Created(s[i][1])
             /\ \E j \in 1 .. i : s[j] = <<s[i][1], "H">>
             /\ Plain => \A m \in Ids : m < s[i][1] => \E j \in 1 .. i : s[j] = <<m, "H">>
  <2>1. CASE i \in 1 .. Len(Sent)
    <3>1. Preceded(i)
      BY <2>1, <1>1 DEF Whole
    <3>2. \A j \in 1 .. i : j \in 1 .. Len(Sent)
      BY <2>1, <1>3
    <3>3. s[i] = Sent[i] /\ \A j \in 1 .. i : s[j] = Sent[j]
      BY <3>2, <2>1, <1>3
    <3> QED BY <3>1, <3>3 DEF Preceded
  <2>2. CASE i = Len(Sent) + 1
    <3>1. s[i] = <<f, part>> /\ s[i][1] = f
      BY <2>2, <1>3
    <3>4. ASSUME NEW m \in Ids, <<m, "H">> \in ToSet(Sent)
          PROVE  \E j \in 1 .. i : s[j] = <<m, "H">>
      <4>1. DOMAIN Sent = 1 .. Len(Sent)
        BY <1>1
      <4>2. PICK j \in 1 .. Len(Sent) : Sent[j] = <<m, "H">>
        BY <4>1, <3>4 DEF ToSet
      <4>3. j \in 1 .. i /\ s[j] = <<m, "H">>
        BY <4>2, <2>2, <1>3
      <4> QED BY <4>3
    <3>2. ASSUME part = "H" PROVE \E j \in 1 .. i : s[j] = <<f, "H">>
      <4>1. i \in 1 .. i
        BY <2>2, <1>3
      <4> QED BY <3>1, <3>2, <4>1
    <3>3. ASSUME part # "H" PROVE \E j \in 1 .. i : s[j] = <<f, "H">>
      <4>1. ~q[f].h /\ q[f].stage \in {"headers", "body", "ended"}
        BY <3>3, <1>1 DEF GetState, RequestOK
      <4>2. <<f, "H">> \in ToSet(Sent)
        BY <4>1, <1>1 DEF SentOf
      <4> QED BY <4>2, <3>4, <1>1
    <3>5. ASSUME Plain, NEW m \in Ids, m < f PROVE <<m, "H">> \in ToSet(Sent)
      <4>1. Created(m)
        BY <3>5, <1>1 DEF H1CInv, ListsOK
      <4>2. m \notin ToSet(locals)
        <5>1. \A n \in ToSet(locals) : n = f \/ f < n
          BY TailFacts DEF H1CInv, TypeOK, ListsOK
        <5>2. \A n \in Ids : n \in Int
          BY DEF Ids
        <5> QED BY <5>1, <5>2, <3>5, <1>1
      <4> QED BY <4>1, <4>2, <3>5, <1>1 DEF SentAll
    <3>6. \E j \in 1 .. i : s[j] = <<f, "H">>
      BY <3>2, <3>3
    <3>7. Plain => \A m \in Ids : m < f => \E j \in 1 .. i : s[j] = <<m, "H">>
      BY <3>4, <3>5
    <3> QED BY <3>1, <3>6, <3>7, <1>1
  <2>3. i \in 1 .. Len(Sent) \/ i = Len(Sent) + 1
    BY <1>1, <1>3
  <2> HIDE DEF Created, Plain
  <2> QED BY <2>1, <2>2, <2>3, Zenon
<1> QED BY <1>4, <1>5 DEF WholeBytes

\* The bytes sent after the front request was polled.
LEMMA SentPolled ==
  ASSUME H1CInv, conn = "open", UNCHANGED <<env, conn, locals>>, locals # <<>>,
         NEW part \in {"H", "B", "E"}, GetState(q[FrontRequest]) = part,
         \/ ~q[FrontRequest].eom /\ Sent' = Append(Sent, <<FrontRequest, part>>)
         \/ part = "E" /\ Sent' = Sent,
         \A n \in Ids : /\ q'[n].stage = q[n].stage /\ q'[n].held = q[n].held
                        /\ n # FrontRequest => /\ q'[n].h = q[n].h /\ q'[n].b = q[n].b
                                               /\ q'[n].eom = q[n].eom,
         ~q'[FrontRequest].h, q'[FrontRequest].b <=> q[FrontRequest].b /\ part # "B",
         part = "E" => q'[FrontRequest].eom
  PROVE  SentOK'
<1>0. CASE ~Gentle
  BY <1>0 DEF SentOK, Gentle
<1>1. CASE Gentle
  <2> DEFINE f == FrontRequest
             x == <<f, part>>
  <2> USE DEF FrontRequest
  <2>1. /\ f \in Ids /\ f \in ToSet(locals) /\ Sent \in Seq(Pieces) /\ RequestOK(f) /\ SentOf(f)
        /\ q[f] \in Requests /\ Whole /\ SentBefore /\ SentAll
        /\ \A n \in ToSet(locals) : n \in Ids
    BY <1>1, TailFacts, SentType DEF H1CInv, TypeOK, ListsOK, SentOK
  <2>2. x \in Pieces
    BY <2>1 DEF Pieces
  <2>3. /\ Sent' \in Seq(Pieces) /\ ToSet(Sent) \subseteq ToSet(Sent')
        /\ ToSet(Sent') \subseteq ToSet(Sent) \cup {x}
        /\ part # "E" => x \in ToSet(Sent')
        /\ \A n \in Ids : NoneOf(n, Sent) /\ n # f => NoneOf(n, Sent')
    <3>1. x[1] = f /\ ToSet(Append(Sent, x)) = ToSet(Sent) \cup {x}
      BY <2>1, <2>2, AppendPiece
    <3>2. CASE Sent' = Append(Sent, x)
      BY <3>1, <3>2, <2>1, <2>2, AppendPiece
    <3>3. CASE part = "E" /\ Sent' = Sent
      BY <3>3, <2>1
    <3> QED BY <3>2, <3>3
  <2>4. \A n \in Ids : (Over(n)' <=> Over(n)) /\ (Created(n)' <=> Created(n))
    BY DEF Over, Created
  <2>5. Whole'
    <3>1. CASE Sent' = Sent
      BY <3>1, <2>4, <1>1, WholeKept
    <3>2. CASE ~q[f].eom /\ Sent' = Append(Sent, x)
      <4>1. /\ \A i \in 1 .. Len(Sent') - 1 : Follows(Sent'[i], Sent'[i + 1])
            /\ \A i \in 1 .. Len(Sent') :
                 /\ Created(Sent'[i][1])
                 /\ \E j \in 1 .. i : Sent'[j] = <<Sent'[i][1], "H">>
                 /\ Plain => \A m \in Ids : m < Sent'[i][1] =>
                                              \E j \in 1 .. i : Sent'[j] = <<m, "H">>
        <5>1. WholeBytes(Sent')
          BY <3>2, <1>1, SentGrows
        <5> QED BY <5>1 DEF WholeBytes
      <4>2. Len(Sent') \in Nat /\ \A i \in 1 .. Len(Sent') : Sent'[i][1] \in Ids
        <5>1. Len(Sent') \in Nat /\ \A i \in 1 .. Len(Sent') : Sent'[i] \in Pieces
          BY <2>3
        <5> QED BY <5>1 DEF Pieces
      <4>3. \A i \in 1 .. Len(Sent') - 1 : Follows(Sent[i], Sent[i + 1])'
        <5> SUFFICES ASSUME NEW i \in 1 .. Len(Sent') - 1 PROVE Follows(Sent[i], Sent[i + 1])'
          OBVIOUS
        <5>1. Sent'[i][1] \in Ids
          BY <4>2
        <5> QED BY <5>1, <4>1, <2>4 DEF Follows
      <4>4. \A i \in 1 .. Len(Sent') : Preceded(i)'
        <5> SUFFICES ASSUME NEW i \in 1 .. Len(Sent') PROVE Preceded(i)'
          OBVIOUS
        <5>1. Created(Sent[i][1])' /\ (Plain' <=> Plain)
          BY <4>1, <4>2, <2>4 DEF Plain
        <5> QED BY <5>1, <4>1 DEF Preceded
      <4> QED BY <4>3, <4>4 DEF Whole
    <3> QED BY <3>1, <3>2
  <2>6. SentBefore'
    <3> SUFFICES ASSUME NEW p \in ToSet(Sent'), p[1] # f
                 PROVE  Over(p[1])' /\ \A n \in ToSet(locals) : p[1] < n
      BY DEF SentBefore
    <3>1. p \in ToSet(Sent)
      BY <2>3
    <3>2. p[1] \in Ids
      BY <3>1, SentType
    <3> QED BY <3>1, <3>2, <2>1, <2>4 DEF SentBefore
  <2>7. \A n \in ToSet(locals) : SentOf(n)'
    <3> SUFFICES ASSUME NEW n \in ToSet(locals) PROVE SentOf(n)'
      OBVIOUS
    <3>1. n \in Ids /\ SentOf(n)
      BY <1>1, <2>1 DEF H1CInv, SentOK
    <3>2. CASE n # f
      <4>1. \A w \in {"H", "B", "E"} : <<n, w>> \in ToSet(Sent') => <<n, w>> \in ToSet(Sent)
        BY <3>2, <2>3
      <4> QED BY <3>1, <3>2, <4>1, <2>3 DEF SentOf
    <3>3. CASE n = f
      <4>1. q[f].stage \in {"headers", "body", "ended"} /\ (part = "H" <=> q[f].h)
        BY <3>1, <3>3, <2>1 DEF GetState, RequestOK, Requests
      <4>2. <<f, "H">> \in ToSet(Sent')
        BY <4>1, <3>1, <3>3, <2>1, <2>3 DEF SentOf
      <4>3. ~q'[f].eom => <<f, "E">> \notin ToSet(Sent')
        <5>1. ASSUME ~q'[f].eom PROVE part # "E" /\ ~q[f].eom
          <6>1. part # "E"
            BY <5>1
          <6>2. ~q[f].eom
            BY <6>1, <2>1 DEF GetState, RequestOK
          <6> QED BY <6>1, <6>2
        <5> QED BY <5>1, <3>1, <3>3, <2>1, <2>3 DEF SentOf
      <4>4. part = "B" => q[f].stage \in {"body", "ended"}
        BY <2>1 DEF GetState, RequestOK
      <4>5. part = "H" => <<f, "B">> \notin ToSet(Sent)
        BY <2>1, <4>1 DEF SentOf, NoneOf, ToSet
      <4>6. q'[f].b \/ q'[f].stage \in {"begun", "headers"} => <<f, "B">> \notin ToSet(Sent')
        BY <4>1, <4>4, <4>5, <3>1, <3>3, <2>1, <2>3 DEF SentOf
      <4> QED BY <4>1, <4>2, <4>3, <4>6, <3>3, <2>1 DEF SentOf
    <3> QED BY <3>2, <3>3
  <2>8. SentAll'
    BY <2>1, <2>3, <2>4 DEF SentAll, Plain
  <2> QED BY <2>5, <2>6, <2>7, <2>8 DEF SentOK
<1> QED BY <1>0, <1>1

\* The front request f hands over headers, body or end.
LEMMA PolledStep ==
  ASSUME H1CInv, NEW part \in {"H", "B", "E"}, Polls(part), NEW f, f = FrontRequest,
         NEW qq \in [Ids -> Requests],
         \A n \in Ids : /\ qq[n].stage = q[n].stage /\ qq[n].held = q[n].held
                        /\ qq[n].e = q[n].e /\ qq[n].late = q[n].late
                        /\ qq[n].self = q[n].self /\ qq[n].told = q[n].told
                        /\ n # f => qq[n] = q[n],
         ~qq[f].h, qq[f].b <=> q[f].b /\ part # "B",
         qq[f].eom <=> q[f].eom \/ part = "E",
         NEW s, (~q[f].eom /\ s = Append(ser, <<f, part>>)) \/ (part = "E" /\ s = ser),
         NEW p, p = IF part = "E" THEN pcc \cup {f} ELSE pcc,
         DoWrite(qq, s, p, flying),
         clearing' \in BOOLEAN, clearing' <=> part = "E", broken' \in BOOLEAN,
         UNCHANGED <<locals, remotes, evs, myself, polling>>, PollFrame
  PROVE  H1CInv'
<1> DEFINE x == <<f, part>>
<1>1. /\ locals # <<>> /\ polling # <<>> /\ ~clearing /\ GetState(q[f]) = part
      /\ UNCHANGED <<env, wire, conn, reading, cut, recvVars, user_close, timers>>
  BY DEF Polls, PollFrame, H1CInv, LoopOK
<1>2. /\ f \in Ids /\ f \in ToSet(locals) /\ RequestOK(f) /\ Created(f)
      /\ q \in [Ids -> Requests] /\ q[f] \in Requests
      /\ \A n \in ToSet(locals) : n \in Ids
      /\ ser \in Seq(Pieces) /\ fly \in Seq(Pieces) /\ wire \in Seq(Pieces)
      /\ pcc \subseteq Ids /\ cbs \subseteq Ids
  BY <1>1, TailFacts DEF H1CInv, TypeOK, ListsOK, FrontRequest
<1>3. x \in Pieces /\ x[1] = f
  BY <1>2 DEF Pieces
<1>4. /\ s \in Seq(Pieces)
      /\ \A n \in Ids : NoneOf(n, ser) /\ (n # f \/ q[n].eom) => NoneOf(n, s)
  <2>1. CASE ~q[f].eom /\ s = Append(ser, x)
    BY <2>1, <1>2, <1>3, AppendPiece
  <2>2. CASE s = ser
    BY <2>2, <1>2
  <2> QED BY <2>1, <2>2
<1>5. p \in SUBSET Ids
  BY <1>2
<1>6. WriteEffect(qq, s, p) /\ \A n \in Ids : RequestEffect(qq, s, p, n)
  BY <1>4, <1>5, DoWriteFacts
<1>7. /\ q' \in [Ids -> Requests] /\ ser' \in Seq(Pieces) /\ fly' \in Seq(Pieces)
      /\ pcc' \subseteq Ids /\ cbs' \subseteq Ids /\ flying' \in BOOLEAN
      /\ ~flying' => fly' = <<>> /\ cbs' = {}
      /\ conn = "gone" => flying' = flying
      /\ pcc' \cup cbs' \subseteq p \cup cbs
      /\ \A n \in cbs' : NoneOf(n, ser') \/ (n \in cbs /\ ser' = s)
      /\ IF conn = "open" THEN wire \o fly' \o ser' = wire \o fly \o s ELSE fly' = fly
  BY <1>6 DEF WriteEffect
<1>8. ASSUME NEW n \in Ids
      PROVE  /\ q'[n].stage = q[n].stage /\ q'[n].held = q[n].held
             /\ q'[n].h = qq[n].h /\ q'[n].b = qq[n].b /\ q'[n].e = q[n].e
             /\ q'[n].eom = qq[n].eom /\ (q[n].eom => q'[n].eom)
             /\ q'[n].late = q[n].late /\ (q'[n].self => q[n].self)
             /\ n \notin p => q'[n] = qq[n]
             /\ q'[n] = qq[n] \/ q'[n].told # {}
             /\ "cleared" \in q'[n].told =>
                  "cleared" \in q[n].told \/ (n \in p /\ ser' = <<>> /\ fly' = <<>>)
             /\ q'[n].told = {} => q[n].told = {}
             /\ n \in p \cup cbs => n \in pcc' \cup cbs' \/ q'[n].told # {}
             /\ NoneOf(n, s) /\ NoneOf(n, fly) => NoneOf(n, ser') /\ NoneOf(n, fly')
  BY <1>6 DEF RequestEffect
<1>9. TypeOK'
  BY <1>1, <1>7 DEF H1CInv, TypeOK, recvVars
<1>10. \A n \in Ids : Created(n)' <=> Created(n)
  BY <1>8 DEF Created
<1>11. ListsOK'
  <2>1. ToSet(remotes) \subseteq Ids
    BY DEF H1CInv, TypeOK, ToSet
  <2>2. \A n \in ToSet(locals) \cup ToSet(remotes) : Created(n)'
    BY <2>1, <1>2, <1>10 DEF H1CInv, ListsOK
  <2> QED BY <2>2, <1>10 DEF H1CInv, ListsOK
<1>12. ASSUME NEW n \in Ids PROVE RequestOK(n)'
  <2>1. RequestOK(n)
    BY DEF H1CInv
  <2>2. CASE n = f
    <3>1. part = "E" => q[f].e /\ ~q[f].h /\ ~q[f].b
      BY <1>1 DEF GetState
    <3> QED BY <2>1, <2>2, <3>1, <1>1, <1>2, <1>8 DEF RequestOK, Created
  <2>3. CASE n # f
    <3>1. ~Created(n) => n \notin p
      <4>1. n \in pcc => q[n].eom
        BY DEF H1CInv, WriterOK
      <4> QED BY <4>1, <2>1, <2>3 DEF RequestOK, Created
    <3> QED BY <2>1, <2>3, <3>1, <1>1, <1>8 DEF RequestOK, Created
  <2> QED BY <2>2, <2>3
<1>13. LoopOK'
  <2>1. ASSUME "nested" \notin env
        PROVE  /\ Len(polling) <= 1
               /\ part = "E" => q'[f].eom
               /\ \A n \in ToSet(locals) : q'[n].eom => part = "E" /\ n = f
    <3>1. Len(polling) <= 1 /\ \A n \in ToSet(locals) : ~q[n].eom
      BY <2>1, <1>1 DEF H1CInv, LoopOK
    <3> QED BY <3>1, <1>2, <1>8
  <2>2. f = Head(locals)
    BY DEF FrontRequest
  <2> QED BY <2>1, <2>2, <1>1 DEF LoopOK
<1>14. WriterOK'
  <2>1. \A n \in pcc' \cup cbs' : q'[n].eom
    <3> SUFFICES ASSUME NEW n \in pcc' \cup cbs' PROVE q'[n].eom
      OBVIOUS
    <3>1. n \in p \cup cbs /\ n \in Ids
      BY <1>7
    <3>2. CASE part = "E" /\ n = f
      BY <3>2, <1>2, <1>8
    <3>3. CASE n \in pcc \cup cbs
      BY <3>1, <3>3, <1>8 DEF H1CInv, WriterOK
    <3> QED BY <3>1, <3>2, <3>3
  <2>2. \A n \in cbs' : NoneOf(n, ser')
    <3> SUFFICES ASSUME NEW n \in cbs, ser' = s PROVE NoneOf(n, s)
      BY <1>7
    <3>1. NoneOf(n, ser) /\ q[n].eom
      BY DEF H1CInv, WriterOK
    <3> QED BY <3>1, <1>2, <1>4
  <2>3. ASSUME NEW n \in Ids, "cleared" \in q'[n].told
        PROVE  q'[n].eom /\ NoneOf(n, ser') /\ NoneOf(n, fly')
    <3>1. CASE "cleared" \in q[n].told
      <4>1. q[n].eom /\ NoneOf(n, ser) /\ NoneOf(n, fly)
        BY <3>1 DEF H1CInv, WriterOK
      <4>2. NoneOf(n, s)
        BY <4>1, <1>4
      <4> QED BY <4>1, <4>2, <1>8
    <3>2. CASE n \in p /\ ser' = <<>> /\ fly' = <<>>
      <4>1. q'[n].eom
        <5>1. CASE part = "E" /\ n = f
          BY <5>1, <1>8
        <5>2. CASE n \in pcc
          BY <5>2, <1>8 DEF H1CInv, WriterOK
        <5> QED BY <3>2, <5>1, <5>2
      <4>2. NoneOf(n, ser') /\ NoneOf(n, fly')
        BY <3>2 DEF NoneOf
      <4> QED BY <4>1, <4>2
    <3> QED BY <2>3, <3>1, <3>2, <1>8
  <2>4. "cancel" \notin env' => cut' = {}
    BY <1>1 DEF H1CInv, WriterOK
  <2> QED BY <2>1, <2>2, <2>3, <2>4, <1>7 DEF WriterOK
<1>15. SentOK'
  <2>1. \A n \in Ids : Over(n) => Over(n)'
    BY <1>8 DEF Over, Created
  <2>2. CASE conn # "open"
    BY <2>1, <2>2, <1>1, <1>7, <1>10, SentStopped
  <2>3. CASE conn = "open"
    <3>1. Sent' = wire \o fly \o s /\ Sent = wire \o fly \o ser /\ wire \o fly \in Seq(Pieces)
      BY <2>3, <1>1, <1>2, <1>7, ConcatFacts DEF Sent
    <3>2. (~q[f].eom /\ Sent' = Append(Sent, x)) \/ (part = "E" /\ Sent' = Sent)
      <4>1. CASE ~q[f].eom /\ s = Append(ser, x)
        BY <4>1, <3>1, <1>2, <1>3, ConcatAppend
      <4>2. CASE part = "E" /\ s = ser
        BY <4>2, <3>1
      <4> QED BY <4>1, <4>2
    <3>3. /\ \A n \in Ids : /\ q'[n].stage = q[n].stage /\ q'[n].held = q[n].held
                            /\ n # f => /\ q'[n].h = q[n].h /\ q'[n].b = q[n].b
                                        /\ q'[n].eom = q[n].eom
          /\ ~q'[f].h /\ (q'[f].b <=> q[f].b /\ part # "B") /\ (part = "E" => q'[f].eom)
      BY <1>2, <1>8
    <3> QED BY <2>3, <3>2, <3>3, <1>1, SentPolled
  <2> QED BY <2>2, <2>3
<1>16. TellOK'
  <2>1. ASSUME ~user_close, env \cap {"bad", "nested"} = {}, NEW n \in Ids, Created(n)',
               q'[n].told = {}
        PROVE  \/ n \in ToSet(locals) \cup pcc' \cup cbs'
               \/ ~q'[n].held /\ q'[n].stage # "ended"
    <3>1. Created(n) /\ q[n].told = {}
      BY <2>1, <1>8, <1>10
    <3>2. n \in ToSet(locals) \cup pcc \cup cbs \/ (~q[n].held /\ q[n].stage # "ended")
      BY <2>1, <3>1 DEF H1CInv, TellOK
    <3> QED BY <2>1, <3>2, <1>8
  <2>2. ASSUME NEW n \in ToSet(locals), q'[n].stage = "ended", q'[n].told = {}
        PROVE  q'[n].self
    <3>1. n \in Ids /\ q'[n] = qq[n]
      BY <2>2, <1>2, <1>8
    <3> QED BY <2>2, <3>1, <1>8 DEF H1CInv, TellOK
  <2>6. ASSUME NEW n \in Ids, q'[n].eom, q'[n].told = {} PROVE n \in pcc' \cup cbs'
    <3>1. n \in p \cup cbs
      <4>1. CASE part = "E" /\ n = f
        BY <4>1
      <4>2. CASE q[n].eom
        BY <2>6, <4>2, <1>8 DEF H1CInv, TellOK
      <4> QED BY <2>6, <4>1, <4>2, <1>8
    <3> QED BY <2>6, <3>1, <1>8
  <2>3. conn = "gone" /\ ~user_close => FALSE
    BY <1>1 DEF H1CInv, TellOK
  <2>4. user_close => \A n \in ToSet(remotes) : q'[n].late
    <3>1. ToSet(remotes) \subseteq Ids
      BY DEF H1CInv, TypeOK, ToSet
    <3> QED BY <3>1, <1>8 DEF H1CInv, TellOK
  <2>5. conn = "gone" => ~flying' /\ ~reading
    BY <1>7 DEF H1CInv, TellOK
  <2> QED BY <2>1, <2>2, <2>3, <2>4, <2>5, <2>6, <1>1 DEF TellOK
<1>17. RecvOK' /\ MatchOK' /\ \A n \in Ids : EventsOf(n)'
  BY <1>1, <1>8, ResponsesKept
<1> QED BY <1>9, <1>11, <1>12, <1>13, <1>14, <1>15, <1>16, <1>17 DEF H1CInv

\* The front request hands over its headers.
LEMMA PollHeadersStep ==
  ASSUME H1CInv, PollHeaders
  PROVE  H1CInv'
<1> DEFINE f == FrontRequest
           qq == [q EXCEPT ![f].h = FALSE]
<1>1. q \in [Ids -> Requests] /\ f \in Ids /\ GetState(q[f]) = "H" /\ RequestOK(f)
  BY TailFacts DEF PollHeaders, Polls, H1CInv, TypeOK, ListsOK, LoopOK, FrontRequest
<1>2. [q[f] EXCEPT !.h = FALSE] \in Requests
  BY <1>1 DEF Requests
<1>3. /\ qq \in [Ids -> Requests] /\ ~qq[f].h /\ qq[f].b = q[f].b /\ qq[f].eom = q[f].eom
      /\ \A n \in Ids : /\ qq[n].stage = q[n].stage /\ qq[n].held = q[n].held
                        /\ qq[n].e = q[n].e /\ qq[n].late = q[n].late
                        /\ qq[n].self = q[n].self /\ qq[n].told = q[n].told
                        /\ n # f => qq[n] = q[n]
  BY <1>1, <1>2 DEF Requests
<1> HIDE DEF qq, f
<1>4. f = FrontRequest /\ qq = [q EXCEPT ![f].h = FALSE]
  BY DEF qq, f
<1>5. ~q[f].eom
  BY <1>1 DEF GetState, RequestOK
<1>6. clearing' = FALSE /\ UNCHANGED <<locals, remotes, evs, myself, polling>> /\ PollFrame
  BY DEF PollHeaders, Polls, loopVars, H1CInv, TypeOK
<1>7. broken' \in BOOLEAN
  BY DEF PollHeaders, H1CInv, TypeOK
<1>8. /\ qq[f].b <=> q[f].b /\ "H" # "B"
      /\ qq[f].eom <=> q[f].eom \/ "H" = "E"
  BY <1>3
<1>9. Polls("H") /\ DoWrite(qq, Append(ser, <<f, "H">>), pcc, flying)
  BY <1>4 DEF PollHeaders
<1> QED BY <1>3, <1>4, <1>5, <1>6, <1>7, <1>8, <1>9, PolledStep

\* The front request hands over its body.
LEMMA PollBodyStep ==
  ASSUME H1CInv, PollBody
  PROVE  H1CInv'
<1> DEFINE f == FrontRequest
           qq == [q EXCEPT ![f].b = FALSE]
<1>1. q \in [Ids -> Requests] /\ f \in Ids /\ GetState(q[f]) = "B" /\ RequestOK(f)
  BY TailFacts DEF PollBody, Polls, H1CInv, TypeOK, ListsOK, LoopOK, FrontRequest
<1>2. [q[f] EXCEPT !.b = FALSE] \in Requests /\ ~q[f].h
  BY <1>1 DEF Requests, GetState
<1>3. /\ qq \in [Ids -> Requests] /\ ~qq[f].h /\ ~qq[f].b /\ qq[f].eom = q[f].eom
      /\ \A n \in Ids : /\ qq[n].stage = q[n].stage /\ qq[n].held = q[n].held
                        /\ qq[n].e = q[n].e /\ qq[n].late = q[n].late
                        /\ qq[n].self = q[n].self /\ qq[n].told = q[n].told
                        /\ n # f => qq[n] = q[n]
  BY <1>1, <1>2 DEF Requests
<1> HIDE DEF qq, f
<1>4. f = FrontRequest /\ qq = [q EXCEPT ![f].b = FALSE]
  BY DEF qq, f
<1>5. ~q[f].eom
  BY <1>1 DEF GetState, RequestOK
<1>6. clearing' = FALSE /\ UNCHANGED <<locals, remotes, evs, myself, polling>> /\ PollFrame
  BY DEF PollBody, Polls, loopVars, H1CInv, TypeOK
<1>7. broken' \in BOOLEAN
  BY DEF PollBody, H1CInv, TypeOK
<1> QED BY <1>3, <1>4, <1>5, <1>6, <1>7, PolledStep DEF PollBody

\* The front request hands over its end, and on_request_sent is called.
LEMMA PollEndStep ==
  ASSUME H1CInv, PollEnd
  PROVE  H1CInv'
<1> DEFINE f == FrontRequest
           qq == [q EXCEPT ![f].eom = TRUE]
           s == IF f \in Chunked /\ ~q[f].eom THEN Append(ser, <<f, "E">>) ELSE ser
<1>1. q \in [Ids -> Requests] /\ f \in Ids /\ GetState(q[f]) = "E" /\ q[f].eom \in BOOLEAN
  <2>1. q \in [Ids -> Requests] /\ f \in Ids /\ GetState(q[f]) = "E"
    BY TailFacts DEF PollEnd, Polls, H1CInv, TypeOK, ListsOK, LoopOK, FrontRequest
  <2> QED BY <2>1 DEF Requests
<1>2. [q[f] EXCEPT !.eom = TRUE] \in Requests /\ ~q[f].h /\ ~q[f].b
  BY <1>1 DEF Requests, GetState
<1>3. /\ qq \in [Ids -> Requests] /\ ~qq[f].h /\ ~qq[f].b /\ qq[f].eom
      /\ \A n \in Ids : /\ qq[n].stage = q[n].stage /\ qq[n].held = q[n].held
                        /\ qq[n].e = q[n].e /\ qq[n].late = q[n].late
                        /\ qq[n].self = q[n].self /\ qq[n].told = q[n].told
                        /\ n # f => qq[n] = q[n]
  BY <1>1, <1>2 DEF Requests
<1>4. DoWrite(qq, s, pcc \cup {f}, flying)
  BY Zenon DEF PollEnd
<1>5. (~q[f].eom /\ s = Append(ser, <<f, "E">>)) \/ s = ser
  OBVIOUS
<1>6. /\ clearing' = TRUE /\ UNCHANGED <<locals, remotes, evs, myself, polling>> /\ PollFrame
      /\ Polls("E")
  BY DEF PollEnd
<1>7. broken' \in BOOLEAN
  BY <1>1 DEF PollEnd
<1>8. f = FrontRequest
  BY DEF f
<1> HIDE DEF qq, f, s
<1> QED BY <1>2, <1>3, <1>4, <1>5, <1>6, <1>7, <1>8, PolledStep

\* on_request_sent returns, and whatever request is in front is removed: the one that
\* was sent, unless the user called into the handler.
LEMMA ClearedReturnsStep ==
  ASSUME H1CInv, ClearedReturns
  PROVE  H1CInv'
<1>1. /\ clearing /\ polling # <<>> /\ broken' \in BOOLEAN
      /\ UNCHANGED <<env, remotes, q, evs, connVars, recvVars, user_close, myself, timers>>
  <2>1. clearing /\ polling # <<>>
    BY DEF ClearedReturns, H1CInv, LoopOK
  <2>2. broken' \in BOOLEAN
    BY DEF ClearedReturns
  <2>3. UNCHANGED <<env, remotes, q, evs, connVars, recvVars, user_close, myself, timers>>
    BY DEF ClearedReturns, PollFrame, connVars
  <2> QED BY <2>1, <2>2, <2>3
<1>2. locals \in Seq(Ids) /\ Sorted(locals) /\ ToSet(locals) \subseteq Ids
  BY DEF H1CInv, TypeOK, ListsOK, ToSet
<1>3. /\ locals' \in Seq(Ids) /\ Sorted(locals') /\ ToSet(locals') \subseteq ToSet(locals)
      /\ locals # <<>> => /\ ToSet(locals') = ToSet(locals) \ {Head(locals)}
                          /\ Head(locals) \in ToSet(locals)
                          /\ \A n \in ToSet(locals') : Head(locals) < n
  <2>1. CASE locals = <<>>
    <3>1. locals' = locals
      BY <2>1 DEF ClearedReturns
    <3> QED BY <2>1, <3>1, <1>2
  <2>2. CASE locals # <<>>
    <3>1. locals' = Tail(locals)
      BY <2>2 DEF ClearedReturns
    <3> QED BY <2>2, <3>1, <1>2, TailFacts
  <2> QED BY <2>1, <2>2
<1>4. /\ polling' \in Seq(Ids) /\ clearing' \in BOOLEAN
      /\ polling' # <<>> /\ ~clearing' => locals' # <<>>
      /\ clearing' => polling' # <<>>
      /\ "nested" \notin env => ~clearing' /\ Len(polling') <= 1
  <2>1. CASE locals' = <<>>
    <3>1. LoopEnds
      BY <2>1 DEF ClearedReturns
    <3> QED BY <3>1, <1>1, LoopEndsFacts
  <2>2. CASE locals' # <<>>
    <3>1. clearing' = FALSE /\ polling' = polling
      BY <2>2 DEF ClearedReturns
    <3> QED BY <2>2, <3>1 DEF H1CInv, TypeOK, LoopOK
  <2> QED BY <2>1, <2>2
<1>5. TypeOK'
  <2>1. locals' \in Seq(Ids) /\ polling' \in Seq(Ids) /\ clearing' \in BOOLEAN
    BY <1>3, <1>4
  <2> QED BY <2>1, <1>1 DEF H1CInv, TypeOK, connVars, recvVars
<1>6. ListsOK'
  BY <1>1, <1>3 DEF H1CInv, ListsOK, Created
<1>7. LoopOK'
  <2>1. "nested" \notin env => \A n \in ToSet(locals') : ~q[n].eom
    <3> SUFFICES ASSUME "nested" \notin env, NEW n \in ToSet(locals'), q[n].eom PROVE FALSE
      OBVIOUS
    <3>1. locals # <<>> /\ n \in ToSet(locals) /\ n = Head(locals)
      BY <1>1, <1>3 DEF H1CInv, LoopOK
    <3> QED BY <3>1, <1>3
  <2> QED BY <2>1, <1>1, <1>4 DEF LoopOK
<1>8. WriterOK' /\ \A n \in Ids : RequestOK(n)'
  BY <1>1 DEF connVars, H1CInv, WriterOK, NoneOf, RequestOK, Created
\* Without calls from on_request_sent the request that goes is the one that was sent.
<1>9. ASSUME "nested" \notin env
      PROVE  locals # <<>> /\ Head(locals) \in Ids /\ q[Head(locals)].eom
  BY <1>9, <1>1, <1>2, <1>3 DEF H1CInv, LoopOK
<1>10. SentOK'
  <2>1. \A n \in Ids : (Over(n)' <=> Over(n)) /\ (Created(n)' <=> Created(n))
    BY <1>1 DEF Over, Created
  <2>2. CASE conn # "open"
    BY <2>1, <2>2, <1>1, SentStopped DEF connVars
  <2>3. CASE ~Gentle
    BY <2>3, <1>1 DEF SentOK, Gentle
  <2>4. CASE Gentle /\ conn = "open"
    <3> DEFINE f == Head(locals)
    <3>0. "nested" \notin env
      BY <2>4 DEF Gentle
    <3>1. /\ locals # <<>> /\ f \in Ids /\ f \in ToSet(locals) /\ q[f].stage = "ended"
          /\ ~q[f].h /\ SentBefore /\ SentAll /\ SentOf(f)
      BY <3>0, <2>4, <1>3, <1>9 DEF H1CInv, RequestOK, SentOK
    <3>2. Sent' = Sent
      BY <1>1 DEF Sent, connVars
    <3>3. SentBefore'
      <4> SUFFICES ASSUME NEW p \in ToSet(Sent)
                   PROVE  Over(p[1])' /\ \A n \in ToSet(locals') : p[1] < n
        BY <3>2 DEF SentBefore
      <4>1. p[1] \in Ids
        BY SentType
      <4>2. Over(p[1]) /\ \A n \in ToSet(locals') : p[1] < n
        BY <3>1, <1>3 DEF SentBefore, Over
      <4> QED BY <4>1, <4>2, <2>1
    <3>4. SentAll'
      <4>1. <<f, "H">> \in ToSet(Sent)
        BY <3>1 DEF SentOf
      <4> QED BY <4>1, <3>1, <3>2, <2>1, <1>1, <1>3 DEF SentAll, Plain
    <3>5. \A n \in ToSet(locals') : SentOf(n)'
      <4>1. \A n \in ToSet(locals') : SentOf(n)
        BY <2>4, <1>3 DEF H1CInv, SentOK
      <4> QED BY <4>1, <3>2, <1>1 DEF SentOf, NoneOf
    <3>6. Whole'
      BY <3>2, <2>1, <2>4, <1>1, WholeKept
    <3> QED BY <3>3, <3>4, <3>5, <3>6 DEF SentOK
  <2> QED BY <2>2, <2>3, <2>4
<1>11. TellOK'
  <2> USE DEF connVars
  <2>1. ASSUME ~user_close, env \cap {"bad", "nested"} = {}, NEW n \in Ids, Created(n),
               q[n].told = {}
        PROVE  n \in ToSet(locals') \cup pcc \cup cbs \/ (~q[n].held /\ q[n].stage # "ended")
    <3>1. n \in ToSet(locals) \cup pcc \cup cbs \/ (~q[n].held /\ q[n].stage # "ended")
      BY <2>1 DEF H1CInv, TellOK
    <3>2. locals # <<>> /\ q[Head(locals)].eom
      BY <2>1, <1>9
    <3>3. CASE n = Head(locals)
      BY <2>1, <3>2, <3>3 DEF H1CInv, TellOK
    <3> QED BY <3>1, <3>2, <3>3, <1>3
  <2>2. conn = "gone" /\ ~user_close => locals' = <<>>
    BY DEF ClearedReturns, H1CInv, TellOK
  <2> QED BY <2>1, <2>2, <1>1, <1>3 DEF H1CInv, TellOK, Created
<1>12. RecvOK' /\ MatchOK' /\ \A n \in Ids : EventsOf(n)'
  BY <1>1, ResponsesKept DEF connVars
<1> QED BY <1>5, <1>6, <1>7, <1>8, <1>10, <1>11, <1>12 DEF H1CInv

\* Nothing to serialise: the loop ends.
LEMMA PollPendingStep ==
  ASSUME H1CInv, PollPending
  PROVE  H1CInv'
<1>1. /\ polling # <<>> /\ ~clearing /\ LoopEnds
      /\ UNCHANGED <<env, locals, remotes, q, evs, connVars, recvVars, user_close, myself, timers,
                     broken>>
  BY DEF PollPending, Polls, PollFrame, connVars
<1>2. /\ polling' \in Seq(Ids) /\ clearing' \in BOOLEAN /\ (clearing' <=> polling' # <<>>)
      /\ "nested" \notin env => ~clearing' /\ Len(polling') <= 1
  BY <1>1, LoopEndsFacts
<1> USE DEF connVars
<1>3. TypeOK'
  BY <1>1, <1>2 DEF H1CInv, TypeOK, recvVars
<1>4. ListsOK'
  BY <1>1 DEF H1CInv, ListsOK, Created
<1>5. LoopOK'
  <2>1. "nested" \notin env => \A n \in ToSet(locals) : ~q[n].eom
    BY <1>1 DEF H1CInv, LoopOK
  <2> QED BY <2>1, <1>1, <1>2 DEF LoopOK
<1>6. SentOK'
  <2>1. Sent' = Sent
    BY <1>1 DEF Sent
  <2>2. Gentle /\ conn = "open" => \A n \in ToSet(locals) : SentOf(n)'
    BY <2>1, <1>1 DEF H1CInv, SentOK, SentOf, NoneOf
  <2>3. \A n \in Ids : (Over(n) => Over(n)') /\ (Created(n) <=> Created(n)')
    BY <1>1 DEF Over, Created
  <2> QED BY <2>1, <2>2, <2>3, <1>1, SentKept
<1>7. WriterOK' /\ TellOK' /\ \A n \in Ids : RequestOK(n)'
  BY <1>1 DEF H1CInv, WriterOK, NoneOf, TellOK, RequestOK, Created
<1>8. RecvOK' /\ MatchOK' /\ \A n \in Ids : EventsOf(n)'
  BY <1>1, ResponsesKept
<1> QED BY <1>3, <1>4, <1>5, <1>6, <1>7, <1>8 DEF H1CInv

-----------------------------------------------------------------------------
(* notify_all. *)

\* The events e of response n, the last of which is x.
EventsUpTo(n, e, x) ==
  /\ e \in Seq(Events) /\ e # <<>> /\ e[Len(e)] = x
  /\ \A i \in DOMAIN e : e[i].ev \in Final => i = Len(e)
  /\ x.ev \in {"headers", "body"} => \A i \in DOMAIN e : e[i].ev \in {"headers", "body"}
  /\ "drop" \notin env /\ ~q[n].late =>
       \A i \in DOMAIN e : e[i].ev \in {"body", "finished"} => e[1].ev = "headers"
  /\ Plain /\ ~q[n].late /\ x.of = n => \A i \in DOMAIN e : e[i].of = n

\* One more event of a response that waits for more: headers come first, outcomes last.
LEMMA EventAdded ==
  ASSUME H1CInv, NEW n \in ToSet(remotes), NEW x \in Events,
         evs[n] # <<>> \/ x.ev \notin {"body", "finished"} \/ "drop" \in env \/ q[n].late
  PROVE  EventsUpTo(n, Append(evs[n], x), x)
<1> DEFINE d == evs[n]
           e == Append(d, x)
<1>1. n \in Ids /\ d \in Seq(Events) /\ EventsOf(n)
  BY DEF H1CInv, TypeOK, ToSet
<1>2. /\ e \in Seq(Events) /\ Len(d) \in Nat /\ Len(e) = Len(d) + 1 /\ e[Len(d) + 1] = x
      /\ DOMAIN d = 1 .. Len(d) /\ DOMAIN e = 1 .. Len(d) + 1
      /\ \A i \in 1 .. Len(d) : e[i] = d[i]
  BY <1>1
<1>3. \A i \in DOMAIN d : d[i].ev \in {"headers", "body"}
  BY <1>1 DEF EventsOf
<1>4. e # <<>> /\ e[Len(e)] = x
  BY <1>2
<1>5. /\ \A i \in DOMAIN e : e[i].ev \in Final => i = Len(e)
      /\ x.ev \in {"headers", "body"} => \A i \in DOMAIN e : e[i].ev \in {"headers", "body"}
  BY <1>2, <1>3 DEF Final, Outcomes
<1>6. ASSUME "drop" \notin env, ~q[n].late, NEW i \in DOMAIN e,
             e[i].ev \in {"body", "finished"}
      PROVE  e[1].ev = "headers"
  <2>1. i \in 1 .. Len(d) \/ (i = Len(d) + 1 /\ x.ev \in {"body", "finished"})
    BY <1>2, <1>6
  <2>2. 1 \in 1 .. Len(d)
    BY <2>1, <1>1, <1>2, <1>6
  <2>3. d[1].ev \in {"headers", "body"} /\ (d[1].ev = "body" => d[1].ev = "headers")
    BY <2>2, <1>1, <1>2, <1>3, <1>6 DEF EventsOf
  <2> QED BY <2>2, <2>3, <1>2
<1>7. Plain /\ ~q[n].late /\ x.of = n => \A i \in DOMAIN e : e[i].of = n
  BY <1>1, <1>2 DEF H1CInv, MatchOK
<1> QED BY <1>2, <1>4, <1>5, <1>6, <1>7 DEF EventsUpTo

\* An error as the last event of a response.
LEMMA ErrorEvent ==
  ASSUME H1CInv, NEW n \in ToSet(remotes), NEW of \in 0 .. MaxReq,
         NEW e, e = Append(evs[n], [ev |-> "error", of |-> of])
  PROVE  /\ e \in Seq(Events) /\ e # <<>> /\ e[Len(e)].ev \in Final
         /\ \A i \in DOMAIN e : e[i].ev \in Final => i = Len(e)
         /\ "drop" \notin env /\ ~q[n].late =>
              \A i \in DOMAIN e : e[i].ev \in {"body", "finished"} => e[1].ev = "headers"
         /\ Plain /\ ~q[n].late /\ of = n => \A i \in DOMAIN e : e[i].of = n
<1> DEFINE x == [ev |-> "error", of |-> of]
<1>1. x \in Events /\ x.ev = "error" /\ x.of = of /\ x.ev \in Final
  BY DEF Events, Final, Outcomes
<1> HIDE DEF x
<1>2. EventsUpTo(n, Append(evs[n], x), x)
  BY <1>1, EventAdded
<1>3. EventsUpTo(n, e, x)
  BY <1>2 DEF x
<1> QED BY <1>1, <1>3 DEF EventsUpTo

\* What notify_all leaves of the requests and of the responses.
NotifiedRequest(n, more) ==
  /\ q'[n].stage = q[n].stage /\ q'[n].held = q[n].held /\ q'[n].h = q[n].h
  /\ q'[n].b = q[n].b /\ q'[n].e = q[n].e /\ q'[n].eom = q[n].eom /\ q'[n].late = q[n].late
  /\ q'[n].self => q[n].self
  /\ "cleared" \in q'[n].told <=> "cleared" \in q[n].told
  /\ q'[n].told = {} =>
       q[n].told = {} /\ n \notin more /\ ~(n \in ToSet(locals) /\ Locks(q[n], n))
  /\ n \notin more \cup ToSet(locals) => q'[n] = q[n]

\* Every response of the list fails last, and every request it names or still locks.
LEMMA NotifyAllFacts ==
  ASSUME H1CInv, NEW more, NotifyAll(more), env' = env
  PROVE  /\ q' \in [Ids -> Requests] /\ evs' \in [Ids -> Seq(Events)]
         /\ locals' = <<>> /\ remotes' = <<>>
         /\ \A n \in Ids : NotifiedRequest(n, more) /\ EventsOf(n)'
         /\ Plain => \A n \in Ids : ~q[n].late => \A i \in DOMAIN evs'[n] : evs'[n][i].of = n
<1> DEFINE S == more \cup {m \in ToSet(locals) : Locks(q[m], m)}
<1>1. /\ q' = [n \in Ids |-> IF n \in S
                             THEN [Told(q[n], "error")
                                     EXCEPT !.self = n \in ToSet(polling) /\ q[n].self]
                             ELSE q[n]]
      /\ evs' = [n \in Ids |-> IF n \in ToSet(remotes)
                               THEN Append(evs[n], [ev |-> "error", of |-> n]) ELSE evs[n]]
      /\ locals' = <<>> /\ remotes' = <<>>
  BY DEF NotifyAll
<1>2. q \in [Ids -> Requests] /\ evs \in [Ids -> Seq(Events)]
  BY DEF H1CInv, TypeOK
<1>3. ASSUME NEW n \in Ids
      PROVE  q'[n] \in Requests /\ NotifiedRequest(n, more)
  <2> DEFINE r == Told(q[n], "error")
  <2>1. /\ r \in Requests /\ r.stage = q[n].stage /\ r.held = q[n].held /\ r.h = q[n].h
        /\ r.b = q[n].b /\ r.e = q[n].e /\ r.eom = q[n].eom /\ r.late = q[n].late
        /\ r.told = q[n].told \cup {"error"} /\ r.told # {}
    BY <1>2, ToldFacts
  <2>2. CASE n \in S
    <3> DEFINE w == [r EXCEPT !.self = n \in ToSet(polling) /\ q[n].self]
    <3> HIDE DEF r
    <3>1. q[n].self \in BOOLEAN
      BY <1>2 DEF Requests
    <3>2. w \in Requests /\ w.told = r.told /\ w.self = (n \in ToSet(polling) /\ q[n].self)
          /\ w.stage = r.stage /\ w.held = r.held /\ w.h = r.h
          /\ w.b = r.b /\ w.e = r.e /\ w.eom = r.eom /\ w.late = r.late
      BY <2>1, <3>1 DEF Requests
    <3>3. q'[n] = w
      BY <1>1, <2>2 DEF r
    <3>4. n \in more \cup ToSet(locals)
      BY <2>2
    <3> HIDE DEF w, S
    <3>5. q'[n].told = q[n].told \cup {"error"} /\ q'[n].told # {}
      BY <2>1, <3>2, <3>3
    <3>6. "cleared" \in q'[n].told <=> "cleared" \in q[n].told
      BY <3>5
    <3> QED BY <2>1, <3>2, <3>3, <3>4, <3>5, <3>6 DEF NotifiedRequest
  <2>3. CASE n \notin S
    BY <2>3, <1>1, <1>2 DEF NotifiedRequest
  <2> QED BY <2>2, <2>3
<1>4. q' \in [Ids -> Requests]
  BY <1>1, <1>3
<1>5. ASSUME NEW n \in Ids
      PROVE  /\ evs'[n] \in Seq(Events) /\ EventsOf(n)'
             /\ Plain /\ ~q[n].late => \A i \in DOMAIN evs'[n] : evs'[n][i].of = n
  <2>1. ToSet(remotes') = {}
    BY <1>1 DEF ToSet
  <2>2. /\ EventsOf(n) /\ (Created(n)' <=> Created(n)) /\ n \in 0 .. MaxReq
        /\ q'[n].late = q[n].late
    BY <1>3, H1ClientAssumption DEF H1CInv, Created, NotifiedRequest, Ids
  <2>3. CASE n \in ToSet(remotes)
    <3>1. evs'[n] = Append(evs[n], [ev |-> "error", of |-> n])
      BY <1>1, <2>3
    <3>2. Created(n)
      BY <2>3 DEF H1CInv, ListsOK
    <3>3. /\ evs'[n] \in Seq(Events) /\ evs'[n] # <<>> /\ evs'[n][Len(evs'[n])].ev \in Final
          /\ \A i \in DOMAIN evs'[n] : evs'[n][i].ev \in Final => i = Len(evs'[n])
          /\ "drop" \notin env /\ ~q[n].late =>
               \A i \in DOMAIN evs'[n] : evs'[n][i].ev \in {"body", "finished"}
                                           => evs'[n][1].ev = "headers"
          /\ Plain /\ ~q[n].late => \A i \in DOMAIN evs'[n] : evs'[n][i].of = n
      BY <2>2, <2>3, <3>1, ErrorEvent
    <3> QED BY <2>1, <2>2, <3>2, <3>3 DEF EventsOf
  <2>4. CASE n \notin ToSet(remotes)
    <3>1. evs'[n] = evs[n]
      BY <1>1, <2>4
    <3> QED BY <2>1, <2>2, <2>4, <3>1, <1>2 DEF EventsOf, H1CInv, MatchOK
  <2> QED BY <2>3, <2>4
<1>6. evs' \in [Ids -> Seq(Events)]
  BY <1>1, <1>5
<1> QED BY <1>1, <1>3, <1>4, <1>5, <1>6

\* The lists are empty and the writer as it was: what notify_all leaves of the invariant.
LEMMA NotifiedKept ==
  ASSUME H1CInv, NEW more, NotifyAll(more),
         UNCHANGED <<env, ser, fly, cbs, flying, cut>>, pcc' \subseteq pcc,
         clearing' <=> polling' # <<>>, "nested" \notin env => ~clearing' /\ Len(polling') <= 1,
         \A n \in more : n \in Ids => q[n].stage = "ended"
  PROVE  /\ ListsOK' /\ LoopOK' /\ WriterOK' /\ \A n \in Ids : RequestOK(n)'
         /\ \A n \in Ids : (Over(n) => Over(n)') /\ (Created(n) <=> Created(n)')
<1>1. /\ locals' = <<>> /\ remotes' = <<>>
      /\ \A n \in Ids : NotifiedRequest(n, more)
  BY NotifyAllFacts
<1>2. ToSet(locals') = {} /\ ToSet(remotes') = {}
  BY <1>1 DEF ToSet
<1>3. \A n \in Ids : (Over(n) => Over(n)') /\ (Created(n) <=> Created(n)')
  BY <1>1 DEF NotifiedRequest, Over, Created
<1>4. ListsOK'
  BY <1>1, <1>2, <1>3 DEF H1CInv, ListsOK, Sorted
<1>5. WriterOK'
  <2>1. \A n \in pcc' \cup cbs' : n \in Ids /\ q'[n].eom
    <3>1. pcc' \subseteq Ids /\ cbs' \subseteq Ids
      BY DEF H1CInv, TypeOK
    <3>2. \A n \in pcc' \cup cbs' : q[n].eom
      BY DEF H1CInv, WriterOK
    <3>3. \A n \in Ids : q'[n].eom = q[n].eom
      BY <1>1 DEF NotifiedRequest
    <3> QED BY <3>1, <3>2, <3>3, Zenon
  <2>2. \A n \in cbs' : NoneOf(n, ser')
    BY DEF H1CInv, WriterOK
  <2>3. \A n \in Ids : "cleared" \in q'[n].told =>
          q'[n].eom /\ NoneOf(n, ser') /\ NoneOf(n, fly')
    BY <1>1 DEF H1CInv, WriterOK, NotifiedRequest
  <2>4. (~flying' => fly' = <<>> /\ cbs' = {}) /\ ("cancel" \notin env' => cut' = {})
    BY DEF H1CInv, WriterOK
  <2> QED BY <2>1, <2>2, <2>3, <2>4 DEF WriterOK
<1>6. ASSUME NEW n \in Ids PROVE RequestOK(n)'
  <2>1. RequestOK(n) /\ NotifiedRequest(n, more)
    BY <1>1 DEF H1CInv
  <2>2. ~Created(n) => n \notin more \cup ToSet(locals)
    BY DEF H1CInv, ListsOK, Created
  <2> QED BY <2>1, <2>2 DEF RequestOK, NotifiedRequest, Created
<1>7. LoopOK'
  BY <1>1, <1>2 DEF LoopOK
<1> QED BY <1>3, <1>4, <1>5, <1>6, <1>7

\* A request that is gone fails everybody.
LEMMA PollExpiredStep ==
  ASSUME H1CInv, PollExpired
  PROVE  H1CInv'
<1> DEFINE f == FrontRequest
<1>1. /\ locals # <<>> /\ ~Locks(q[f], f) /\ NotifyAll({})
      /\ myself' = FALSE /\ polling # <<>> /\ LoopEnds
      /\ UNCHANGED <<env, ser, pcc, fly, cbs, flying, wire, conn, reading, cut, recvVars,
                     user_close, timers, broken>>
  BY DEF PollExpired, PollFrame, H1CInv, LoopOK
<1>2. f \in Ids /\ f \in ToSet(locals) /\ Sorted(locals) /\ Created(f)
  BY <1>1, TailFacts DEF H1CInv, TypeOK, ListsOK, FrontRequest
<1>3. "drop" \in env /\ ~q[f].held /\ ~Plain
  BY <1>1, <1>2 DEF H1CInv, RequestOK, Locks, Plain
<1>4. /\ q' \in [Ids -> Requests] /\ evs' \in [Ids -> Seq(Events)]
      /\ locals' = <<>> /\ remotes' = <<>> /\ ToSet(locals') = {} /\ ToSet(remotes') = {}
      /\ \A n \in Ids : NotifiedRequest(n, {}) /\ EventsOf(n)'
  BY <1>1, NotifyAllFacts DEF ToSet
<1>0. /\ polling' \in Seq(Ids) /\ clearing' \in BOOLEAN /\ (clearing' <=> polling' # <<>>)
      /\ "nested" \notin env => ~clearing' /\ Len(polling') <= 1
  BY <1>1, LoopEndsFacts
<1>5. /\ ListsOK' /\ LoopOK' /\ WriterOK' /\ \A n \in Ids : RequestOK(n)'
      /\ \A n \in Ids : (Over(n) => Over(n)') /\ (Created(n) <=> Created(n)')
  BY <1>0, <1>1, NotifiedKept
<1>6. TypeOK'
  <2>1. /\ locals' \in Seq(Ids) /\ remotes' \in Seq(Ids) /\ polling' \in Seq(Ids)
        /\ clearing' \in BOOLEAN
    BY <1>0, <1>4
  <2>2. q' \in [Ids -> Requests] /\ evs' \in [Ids -> Seq(Events)]
    BY <1>4
  <2>3. /\ UNCHANGED <<ser, pcc, fly, cbs, flying, wire, conn, reading, cut, recvVars,
                       user_close, timers, broken>>
        /\ myself' \in BOOLEAN
    BY <1>1
  <2> QED BY <2>1, <2>2, <2>3 DEF H1CInv, TypeOK, recvVars
<1>7. RecvOK' /\ MatchOK'
  BY <1>1, <1>3 DEF H1CInv, RecvOK, MatchOK, Plain, recvVars
<1>8. SentOK'
  <2>1. CASE conn # "open"
    BY <2>1, <1>1, <1>5, SentStopped
  <2>2. CASE ~Gentle
    BY <2>2, <1>1 DEF SentOK, Gentle
  <2>3. CASE Gentle /\ conn = "open"
    <3>1. Sent' = Sent
      BY <1>1 DEF Sent
    <3>2. \A p \in ToSet(Sent) : p[1] \in Ids /\ Created(p[1])
      BY <2>3, SentType
    <3>3. Whole'
      BY <3>1, <2>3, <1>1, <1>5, WholeKept
    <3>4. SentBefore'
      <4> SUFFICES ASSUME NEW p \in ToSet(Sent) PROVE Over(p[1])'
        BY <3>1, <1>4 DEF SentBefore
      <4>1. p[1] = f \/ Over(p[1])
        BY <2>3 DEF H1CInv, SentOK, SentBefore, FrontRequest
      <4>2. Over(p[1])
        BY <4>1, <1>2, <1>3 DEF Over, Created
      <4> QED BY <4>2, <3>2, <1>5
    <3>5. SentAll'
      BY <1>1, <1>3 DEF SentAll, Plain
    <3> QED BY <3>3, <3>4, <3>5, <1>4 DEF SentOK
  <2> QED BY <2>1, <2>2, <2>3
<1>9. TellOK'
  <2>1. ASSUME ~user_close, env \cap {"bad", "nested"} = {}, NEW n \in Ids, Created(n)',
               q'[n].told = {}
        PROVE  n \in pcc \cup cbs \/ (~q'[n].held /\ q'[n].stage # "ended")
    <3>1. /\ Created(n) /\ q[n].told = {} /\ ~(n \in ToSet(locals) /\ Locks(q[n], n))
          /\ q'[n].held = q[n].held /\ q'[n].stage = q[n].stage
      BY <2>1, <1>4, <1>5 DEF NotifiedRequest
    <3>2. n \in ToSet(locals) \cup pcc \cup cbs \/ (~q[n].held /\ q[n].stage # "ended")
      BY <2>1, <3>1 DEF H1CInv, TellOK
    <3>3. n \in ToSet(locals) => ~q[n].held /\ q[n].stage # "ended"
      BY <3>1 DEF H1CInv, TellOK, Locks
    <3> QED BY <3>1, <3>2, <3>3
  <2>2. conn = "gone" => user_close /\ ~flying /\ ~reading
    BY <1>1 DEF H1CInv, TellOK
  <2>3. ASSUME NEW n \in Ids, q'[n].eom, q'[n].told = {} PROVE n \in pcc \cup cbs
    BY <2>3, <1>4 DEF H1CInv, TellOK, NotifiedRequest
  <2> QED BY <2>1, <2>2, <2>3, <1>1, <1>4 DEF TellOK
<1> QED BY <1>4, <1>5, <1>6, <1>7, <1>8, <1>9 DEF H1CInv

-----------------------------------------------------------------------------
(* The user. *)

\* A call on a request: its record becomes r, and the loop begins.
LEMMA CallsStep ==
  ASSUME H1CInv, NEW n \in Ids, NEW stages, NEW r \in Requests, Calls(n, stages, r),
         "none" \notin stages, r.stage # "none",
         r.held = q[n].held, r.late = q[n].late, r.told = q[n].told, r.eom = q[n].eom,
         RequestOK(n)', q[n].self => r.self,
         q[n].stage = "ended" => r.stage = "ended",
         r.stage = "ended" => r.self,
         Gentle /\ conn = "open" /\ n \in ToSet(locals) => SentOf(n)'
  PROVE  H1CInv'
<1>1. /\ q[n].held /\ q[n].stage \in stages /\ q' = [q EXCEPT ![n] = r]
      /\ UNCHANGED <<env, locals, remotes, evs, connVars, recvVars, user_close, myself, timers,
                     broken>>
  BY DEF Calls
<1>0. /\ locals = <<>> => polling' = polling /\ clearing' = clearing
      /\ locals # <<>> => polling' = Append(polling, n) /\ clearing' = FALSE
      /\ "nested" \notin env => ~clearing /\ polling = <<>>
      /\ polling \in Seq(Ids) /\ clearing \in BOOLEAN
  BY DEF Calls, loopVars, UserMayNest, UserTurn, H1CInv, TypeOK
<1> USE DEF connVars
<1>2. /\ q \in [Ids -> Requests] /\ q' \in [Ids -> Requests] /\ q'[n] = r
      /\ \A m \in Ids : m # n => q'[m] = q[m]
      /\ q[n].stage # "none"
  BY <1>1 DEF H1CInv, TypeOK
<1>3. TypeOK'
  <2>1. polling' \in Seq(Ids) /\ clearing' \in BOOLEAN
    <3>1. Append(polling, n) \in Seq(Ids)
      BY <1>0, AppendFacts
    <3> QED BY <3>1, <1>0
  <2> QED BY <2>1, <1>1, <1>2 DEF H1CInv, TypeOK, recvVars
<1>4. \A m \in Ids : (Created(m)' <=> Created(m)) /\ (Over(m) => Over(m)')
  BY <1>1, <1>2 DEF Created, Over
<1>5. ToSet(locals) \subseteq Ids /\ ToSet(remotes) \subseteq Ids
  BY DEF H1CInv, TypeOK, ToSet
<1>6. ListsOK'
  BY <1>1, <1>4, <1>5 DEF H1CInv, ListsOK
<1>7. \A m \in Ids : RequestOK(m)'
  <2> SUFFICES ASSUME NEW m \in Ids, m # n PROVE RequestOK(m)'
    OBVIOUS
  <2> QED BY <1>1, <1>2 DEF H1CInv, RequestOK, Created
<1>13. LoopOK'
  <2>1. \A m \in Ids : q'[m].eom = q[m].eom
    BY <1>2
  <2>2. CASE locals = <<>>
    <3>1. ToSet(locals) = {}
      BY <2>2 DEF ToSet
    <3> QED BY <2>2, <3>1, <1>0, <1>1 DEF H1CInv, LoopOK
  <2>3. CASE locals # <<>>
    <3>1. polling' # <<>> /\ ("nested" \notin env => Len(polling') <= 1)
      <4>1. Append(polling, n) # <<>>
        BY <1>0, AppendFacts
      <4>2. polling = <<>> => Len(Append(polling, n)) = 1
        OBVIOUS
      <4> QED BY <4>1, <4>2, <2>3, <1>0
    <3>2. "nested" \notin env => \A m \in ToSet(locals) : ~q'[m].eom
      BY <2>1, <1>0, <1>5 DEF H1CInv, LoopOK
    <3> QED BY <2>3, <3>1, <3>2, <1>0, <1>1 DEF LoopOK
  <2> QED BY <2>2, <2>3
<1>8. WriterOK'
  <2>1. \A m \in Ids : q'[m].eom = q[m].eom
    BY <1>2
  <2>2. \A m \in Ids : q'[m].told = q[m].told
    BY <1>2
  <2>3. pcc \subseteq Ids /\ cbs \subseteq Ids
    BY DEF H1CInv, TypeOK
  <2> QED BY <2>1, <2>2, <2>3, <1>1 DEF H1CInv, WriterOK, NoneOf
<1>9. Sent' = Sent
  BY <1>1 DEF Sent
<1>10. SentOK'
  <2>1. ASSUME Gentle, conn = "open", NEW m \in ToSet(locals), m # n PROVE SentOf(m)'
    <3>1. q'[m] = q[m] /\ SentOf(m)
      BY <2>1, <1>2, <1>5 DEF H1CInv, SentOK
    <3> QED BY <3>1, <1>9 DEF SentOf, NoneOf
  <2> QED BY <2>1, <1>1, <1>4, <1>9, SentKept
<1>11. TellOK'
  <2>1. ASSUME ~user_close, env \cap {"bad", "nested"} = {}, NEW m \in Ids, Created(m)',
               q'[m].told = {}
        PROVE  m \in ToSet(locals) \cup pcc \cup cbs \/ (~q'[m].held /\ q'[m].stage # "ended")
    <3>1. Created(m) /\ q[m].told = {}
      BY <2>1, <1>2, <1>4
    <3>2. m \in ToSet(locals) \cup pcc \cup cbs \/ (~q[m].held /\ q[m].stage # "ended")
      BY <2>1, <3>1 DEF H1CInv, TellOK
    <3> QED BY <3>2, <1>1, <1>2
  <2>2. \A m \in ToSet(locals) : q'[m].stage = "ended" /\ q'[m].told = {} => q'[m].self
    BY <1>2, <1>5 DEF H1CInv, TellOK
  <2>3. user_close => \A m \in ToSet(remotes) : q'[m].late
    BY <1>2, <1>5 DEF H1CInv, TellOK
  <2>4. \A m \in Ids : q'[m].eom /\ q'[m].told = {} => m \in pcc \cup cbs
    BY <1>2 DEF H1CInv, TellOK
  <2> QED BY <2>1, <2>2, <2>3, <2>4, <1>1 DEF H1CInv, TellOK
<1>12. RecvOK' /\ MatchOK' /\ \A m \in Ids : EventsOf(m)'
  <2>1. \A m \in Ids : /\ q'[m].stage # "none" <=> q[m].stage # "none"
                       /\ q'[m].late = q[m].late
    BY <1>2, <1>4 DEF Created
  <2> QED BY <2>1, <1>1, ResponsesKept
<1> QED BY <1>3, <1>6, <1>7, <1>8, <1>10, <1>11, <1>12, <1>13 DEF H1CInv

\* headers(): nothing of the request has been serialised before.
LEMMA HeadersStep ==
  ASSUME H1CInv, NEW n \in Ids, Headers(n)
  PROVE  H1CInv'
<1> DEFINE r == [q[n] EXCEPT !.stage = "headers", !.h = TRUE]
<1>1. /\ q[n].stage = "begun" /\ q \in [Ids -> Requests] /\ q' = [q EXCEPT ![n] = r]
      /\ UNCHANGED <<env, wire, fly, ser, conn>> /\ RequestOK(n)
  BY DEF Headers, Calls, connVars, H1CInv, TypeOK
<1>2. /\ r \in Requests /\ q'[n] = r /\ r.stage = "headers" /\ r.h /\ r.held = q[n].held
      /\ r.late = q[n].late /\ r.told = q[n].told /\ r.self = q[n].self /\ r.b = q[n].b
      /\ r.e = q[n].e /\ r.eom = q[n].eom
  BY <1>1 DEF Requests
<1>3. Calls(n, {"begun"}, r)
  BY DEF Headers
<1> HIDE DEF r
<1>4. RequestOK(n)'
  BY <1>1, <1>2 DEF RequestOK, Created
<1>5. Gentle /\ conn = "open" /\ n \in ToSet(locals) => SentOf(n)'
  <2>1. Sent' = Sent
    BY <1>1 DEF Sent
  <2>2. Gentle /\ conn = "open" /\ n \in ToSet(locals) =>
          NoneOf(n, Sent) /\ <<n, "B">> \notin ToSet(Sent) /\ <<n, "E">> \notin ToSet(Sent)
    BY <1>1 DEF H1CInv, SentOK, SentOf, RequestOK
  <2> QED BY <2>1, <2>2, <1>2 DEF SentOf, NoneOf
<1> QED BY <1>1, <1>2, <1>3, <1>4, <1>5, CallsStep

\* body(): a body is added after the headers.
LEMMA BodyStep ==
  ASSUME H1CInv, NEW n \in Ids, Body(n)
  PROVE  H1CInv'
<1> DEFINE r == [q[n] EXCEPT !.stage = "body", !.b = TRUE]
<1>1. /\ q[n].stage = "headers" /\ q \in [Ids -> Requests] /\ q' = [q EXCEPT ![n] = r]
      /\ UNCHANGED <<env, wire, fly, ser, conn>> /\ RequestOK(n)
  BY DEF Body, Calls, connVars, H1CInv, TypeOK
<1>2. /\ r \in Requests /\ q'[n] = r /\ r.stage = "body" /\ r.b /\ r.held = q[n].held
      /\ r.late = q[n].late /\ r.told = q[n].told /\ r.self = q[n].self /\ r.h = q[n].h
      /\ r.e = q[n].e /\ r.eom = q[n].eom
  BY <1>1 DEF Requests
<1>3. Calls(n, {"headers"}, r)
  BY DEF Body
<1> HIDE DEF r
<1>4. RequestOK(n)'
  BY <1>1, <1>2 DEF RequestOK, Created
<1>5. Gentle /\ conn = "open" /\ n \in ToSet(locals) => SentOf(n)'
  <2>1. Sent' = Sent
    BY <1>1 DEF Sent
  <2>2. Gentle /\ conn = "open" /\ n \in ToSet(locals) =>
          /\ q[n].h \/ <<n, "H">> \in ToSet(Sent)
          /\ q[n].h => NoneOf(n, Sent)
          /\ <<n, "B">> \notin ToSet(Sent) /\ <<n, "E">> \notin ToSet(Sent)
    BY <1>1 DEF H1CInv, SentOK, SentOf, RequestOK
  <2> QED BY <2>1, <2>2, <1>2 DEF SentOf, NoneOf
<1> QED BY <1>1, <1>2, <1>3, <1>4, <1>5, CallsStep

\* end(): the request holds itself until it is told.
LEMMA EndStep ==
  ASSUME H1CInv, NEW n \in Ids, End(n)
  PROVE  H1CInv'
<1> DEFINE r == [q[n] EXCEPT !.stage = "ended", !.e = TRUE, !.self = TRUE]
<1>1. /\ q[n].stage \in {"headers", "body"} /\ q \in [Ids -> Requests]
      /\ q' = [q EXCEPT ![n] = r]
      /\ UNCHANGED <<env, wire, fly, ser, conn>> /\ RequestOK(n)
  BY DEF End, Calls, connVars, H1CInv, TypeOK
<1>2. /\ r \in Requests /\ q'[n] = r /\ r.stage = "ended" /\ r.b = q[n].b /\ r.held = q[n].held
      /\ r.late = q[n].late /\ r.told = q[n].told /\ r.self /\ r.h = q[n].h /\ r.e
      /\ r.eom = q[n].eom
  <2>1. q[n] \in Requests /\ q'[n] = r
    BY <1>1
  <2>2. r \in Requests
    BY <2>1, ZenonT(60) DEF Requests
  <2> QED BY <2>1, <2>2 DEF Requests
<1>3. Calls(n, {"headers", "body"}, r)
  BY DEF End
<1> HIDE DEF r
<1>4. RequestOK(n)'
  BY <1>1, <1>2 DEF RequestOK, Created
<1>5. Gentle /\ conn = "open" /\ n \in ToSet(locals) => SentOf(n)'
  <2>1. Sent' = Sent
    BY <1>1 DEF Sent
  <2>2. Gentle /\ conn = "open" /\ n \in ToSet(locals) =>
          /\ q[n].h \/ <<n, "H">> \in ToSet(Sent)
          /\ q[n].h => NoneOf(n, Sent)
          /\ q[n].b => <<n, "B">> \notin ToSet(Sent)
          /\ <<n, "E">> \notin ToSet(Sent)
    BY <1>1 DEF H1CInv, SentOK, SentOf, RequestOK
  <2> QED BY <2>1, <2>2, <1>2 DEF SentOf, NoneOf
<1> QED BY <1>1, <1>2, <1>3, <1>4, <1>5, CallsStep

\* A request let go: nothing more of it will be sent unless it has ended.
LEMMA DropStep ==
  ASSUME H1CInv, NEW n \in Ids, Drop(n)
  PROVE  H1CInv'
<1> DEFINE r == [q[n] EXCEPT !.held = FALSE]
<1>1. /\ "drop" \in env /\ q' = [q EXCEPT ![n] = r]
      /\ UNCHANGED <<env, locals, remotes, evs, connVars, recvVars, user_close, myself, loopVars,
                     timers, broken>>
  BY DEF Drop, H1CInv, TypeOK
<1> USE DEF connVars
<1>2. q \in [Ids -> Requests] /\ r \in Requests
  <2>1. q \in [Ids -> Requests] /\ q[n] \in Requests
    BY DEF H1CInv, TypeOK
  <2> QED BY <2>1, ZenonT(60) DEF Requests
<1>3. /\ q' \in [Ids -> Requests]
      /\ \A m \in Ids :
           /\ q'[m].stage = q[m].stage /\ q'[m].h = q[m].h /\ q'[m].b = q[m].b
           /\ q'[m].e = q[m].e /\ q'[m].self = q[m].self /\ q'[m].told = q[m].told
           /\ q'[m].eom = q[m].eom
           /\ q'[m].late = q[m].late /\ (q'[m].held => q[m].held)
           /\ ~Created(m) => q'[m] = q[m]
  <2>1. Created(n)
    BY DEF Drop, H1CInv, RequestOK, NewRequest
  <2> QED BY <2>1, <1>1, <1>2 DEF Requests
<1> HIDE DEF r
<1>4. TypeOK'
  BY <1>1, <1>3 DEF H1CInv, TypeOK, recvVars, loopVars
<1>5. \A m \in Ids : (Created(m)' <=> Created(m)) /\ (Over(m) => Over(m)')
  BY <1>3 DEF Created, Over
<1>6. ToSet(locals) \subseteq Ids /\ ToSet(remotes) \subseteq Ids
  BY DEF H1CInv, TypeOK, ToSet
<1>7. ListsOK'
  BY <1>1, <1>5, <1>6 DEF H1CInv, ListsOK
<1>8. \A m \in Ids : RequestOK(m)'
  BY <1>1, <1>3 DEF H1CInv, RequestOK, Created
<1>9. WriterOK'
  <2>1. pcc \subseteq Ids /\ cbs \subseteq Ids
    BY DEF H1CInv, TypeOK
  <2> QED BY <2>1, <1>1, <1>3 DEF H1CInv, WriterOK, NoneOf
<1>10. Sent' = Sent
  BY <1>1 DEF Sent
<1>11. SentOK'
  <2>1. Gentle /\ conn = "open" => \A m \in ToSet(locals) : SentOf(m)'
    BY <1>3, <1>6, <1>10 DEF H1CInv, SentOK, SentOf, NoneOf
  <2> QED BY <2>1, <1>1, <1>5, <1>10, SentKept
<1>12. TellOK'
  BY <1>1, <1>3, <1>5, <1>6 DEF H1CInv, TellOK
<1>13. RecvOK' /\ MatchOK' /\ \A m \in Ids : EventsOf(m)'
  BY <1>1, <1>3, ResponsesKept
<1>14. LoopOK'
  BY <1>1, <1>3, <1>6 DEF H1CInv, LoopOK, loopVars
<1> QED BY <1>4, <1>7, <1>8, <1>9, <1>11, <1>12, <1>13, <1>14 DEF H1CInv

\* create_transaction: the new request is the last of both lists.
LEMMA CreateStep ==
  ASSUME H1CInv, NEW n \in Ids, CreateTransaction(n)
  PROVE  H1CInv'
<1> DEFINE r == [NewRequest EXCEPT !.stage = "begun", !.held = TRUE, !.late = user_close]
<1>1. /\ conn # "gone" /\ ~Created(n) /\ (polling = <<>> \/ clearing)
      /\ \A m \in Ids : m < n => Created(m)
      /\ q' = [q EXCEPT ![n] = r]
      /\ remotes' = Append(remotes, n) /\ locals' = Append(locals, n)
      /\ UNCHANGED <<env, evs, connVars, recvVars, user_close, myself, loopVars, timers, broken>>
  BY DEF CreateTransaction, Created, UserTurn
<1> USE DEF connVars, loopVars
<1>2. /\ r \in Requests /\ r.stage = "begun" /\ r.held /\ r.late = user_close
      /\ ~r.h /\ ~r.b /\ ~r.e /\ ~r.eom /\ ~r.self /\ r.told = {}
  BY DEF NewRequest, Requests, H1CInv, TypeOK
<1> HIDE DEF r
<1>3. /\ q \in [Ids -> Requests] /\ q' \in [Ids -> Requests] /\ q'[n] = r
      /\ \A m \in Ids : m # n => q'[m] = q[m]
  BY <1>1, <1>2 DEF H1CInv, TypeOK
<1>4. /\ ToSet(locals) \subseteq Ids /\ ToSet(remotes) \subseteq Ids
      /\ locals \in Seq(Ids) /\ remotes \in Seq(Ids) /\ Ids \subseteq Int
  <2>1. Ids \subseteq Int
    BY DEF Ids
  <2> QED BY <2>1 DEF H1CInv, TypeOK, ToSet
<1>5. \A m \in Ids : Created(m) => m < n
  <2> SUFFICES ASSUME NEW m \in Ids, Created(m) PROVE m < n
    OBVIOUS
  <2>1. ~(n < m) /\ m # n
    BY <1>1 DEF H1CInv, ListsOK
  <2> QED BY <2>1, <1>4
<1>6. \A m \in ToSet(locals) \cup ToSet(remotes) : m < n /\ Created(m)
  BY <1>4, <1>5 DEF H1CInv, ListsOK
<1>7. /\ locals' \in Seq(Ids) /\ ToSet(locals') = ToSet(locals) \cup {n} /\ locals' # <<>>
      /\ Head(locals') = IF locals = <<>> THEN n ELSE Head(locals)
      /\ Sorted(locals')
  BY <1>1, <1>4, <1>6, AppendFacts DEF H1CInv, ListsOK
<1>8. /\ remotes' \in Seq(Ids) /\ ToSet(remotes') = ToSet(remotes) \cup {n} /\ remotes' # <<>>
      /\ Head(remotes') = IF remotes = <<>> THEN n ELSE Head(remotes)
      /\ Sorted(remotes')
  BY <1>1, <1>4, <1>6, AppendFacts DEF H1CInv, ListsOK
<1>9. \A m \in Ids : Created(m)' <=> Created(m) \/ m = n
  BY <1>2, <1>3 DEF Created
<1>10. TypeOK'
  BY <1>1, <1>3, <1>7, <1>8 DEF H1CInv, TypeOK, recvVars
<1>11. ListsOK'
  <2>1. \A m \in ToSet(locals') \cup ToSet(remotes') : Created(m)'
    BY <1>4, <1>6, <1>7, <1>8, <1>9
  <2>2. \A m, k \in Ids : m < k /\ Created(k)' => Created(m)'
    BY <1>1, <1>9 DEF H1CInv, ListsOK
  <2> QED BY <2>1, <2>2, <1>7, <1>8 DEF ListsOK
<1>12. ASSUME NEW m \in Ids PROVE RequestOK(m)'
  <2>1. CASE m = n
    BY <2>1, <1>2, <1>3 DEF RequestOK, Created
  <2>2. CASE m # n
    BY <2>2, <1>1, <1>3 DEF H1CInv, RequestOK, Created
  <2> QED BY <2>1, <2>2
<1>13. q[n].stage = "none"
  BY <1>1 DEF Created
<1>20. ~q[n].eom
  BY <1>13 DEF H1CInv, RequestOK
<1>14. WriterOK'
  <2>1. n \notin pcc \cup cbs
    BY <1>20 DEF H1CInv, WriterOK
  <2>2. pcc \subseteq Ids /\ cbs \subseteq Ids
    BY DEF H1CInv, TypeOK
  <2>3. "cleared" \notin q'[n].told
    BY <1>2, <1>3
  <2>4. \A m \in pcc \cup cbs : q'[m].eom
    BY <2>1, <2>2, <1>3 DEF H1CInv, WriterOK
  <2>5. \A m \in Ids : "cleared" \in q'[m].told => q'[m].eom /\ NoneOf(m, ser) /\ NoneOf(m, fly)
    BY <2>3, <1>3 DEF H1CInv, WriterOK
  <2> QED BY <2>4, <2>5, <1>1 DEF H1CInv, WriterOK, NoneOf
<1>21. LoopOK'
  <2>1. ASSUME "nested" \notin env, clearing PROVE locals # <<>> /\ q[Head(locals)].eom
    BY <2>1 DEF H1CInv, LoopOK
  <2>2. ASSUME "nested" \notin env, clearing
        PROVE  Head(locals') = Head(locals) /\ q'[Head(locals)].eom
    <3>1. Head(locals') = Head(locals) /\ Head(locals) \in Ids
      BY <2>1, <2>2, <1>4, <1>7
    <3>2. Head(locals) # n
      BY <2>1, <2>2, <1>20
    <3> QED BY <2>1, <2>2, <3>1, <3>2, <1>3
  <2>3. ASSUME "nested" \notin env, NEW m \in ToSet(locals'), q'[m].eom
        PROVE  clearing /\ m = Head(locals')
    <3>1. m # n
      BY <2>3, <1>2, <1>3
    <3>2. m \in ToSet(locals) /\ q[m].eom
      BY <2>3, <3>1, <1>3, <1>4, <1>7
    <3>3. clearing /\ m = Head(locals)
      BY <2>3, <3>2 DEF H1CInv, LoopOK
    <3> QED BY <2>2, <2>3, <3>3
  <2>4. /\ clearing => polling # <<>>
        /\ "nested" \notin env => Len(polling) <= 1
    BY DEF H1CInv, LoopOK
  <2> QED BY <2>1, <2>2, <2>3, <2>4, <1>1, <1>7 DEF LoopOK
<1>15. SentOK'
  <2>1. \A m \in Ids : (Over(m) => Over(m)') /\ (Created(m) => Created(m)')
    BY <1>1, <1>3, <1>9 DEF Over, Created
  <2>2. Sent' = Sent
    BY <1>1 DEF Sent
  <2>3. CASE conn # "open"
    BY <2>1, <2>3, <1>1, SentStopped
  <2>5. CASE ~Gentle
    BY <2>5, <1>1 DEF SentOK, Gentle
  <2>4. CASE Gentle /\ conn = "open"
    <3>1. \A p \in ToSet(Sent) : p[1] \in Ids /\ Created(p[1]) /\ p[1] < n
      BY <2>4, <1>5, SentType
    <3>2. SentBefore'
      <4> SUFFICES ASSUME NEW p \in ToSet(Sent)
                   PROVE  \/ p[1] = Head(locals')
                          \/ Over(p[1])' /\ \A m \in ToSet(locals') : p[1] < m
        BY <2>2, <1>7 DEF SentBefore
      <4>1. \/ locals # <<>> /\ p[1] = Head(locals)
            \/ Over(p[1]) /\ \A m \in ToSet(locals) : p[1] < m
        BY <2>4 DEF H1CInv, SentOK, SentBefore
      <4> QED BY <4>1, <3>1, <2>1, <1>7
    <3>4. SentAll'
      <4>1. SentAll
        BY <2>4 DEF H1CInv, SentOK
      <4> QED BY <4>1, <2>2, <1>1, <1>7, <1>9 DEF SentAll, Plain
    <3>3. ASSUME NEW m \in ToSet(locals') PROVE SentOf(m)'
      <4>1. CASE m = n
        <5>1. NoneOf(n, Sent) /\ \A w \in {"H", "B", "E"} : <<n, w>> \notin ToSet(Sent)
          <6>1. \A p \in ToSet(Sent) : p[1] # n
            BY <3>1, <1>4
          <6> QED BY <6>1 DEF NoneOf, ToSet
        <5> QED BY <4>1, <5>1, <2>2, <1>2, <1>3 DEF SentOf, NoneOf
      <4>2. CASE m # n
        <5>1. m \in ToSet(locals) /\ m \in Ids /\ SentOf(m)
          BY <4>2, <3>3, <2>4, <1>4, <1>7 DEF H1CInv, SentOK
        <5> QED BY <4>2, <5>1, <2>2, <1>3 DEF SentOf, NoneOf
      <4> QED BY <4>1, <4>2
    <3>5. Whole'
      BY <2>1, <2>2, <2>4, <1>1, WholeKept
    <3> QED BY <3>2, <3>3, <3>4, <3>5 DEF SentOK
  <2> QED BY <2>3, <2>4, <2>5
<1>16. TellOK'
  <2>1. ASSUME ~user_close, env \cap {"bad", "nested"} = {}, NEW m \in Ids, Created(m)',
               q'[m].told = {}
        PROVE  m \in ToSet(locals') \cup pcc \cup cbs \/ (~q'[m].held /\ q'[m].stage # "ended")
    <3>1. CASE m = n
      BY <3>1, <1>7
    <3>2. CASE m # n
      BY <3>2, <2>1, <1>3, <1>7, <1>9 DEF H1CInv, TellOK
    <3> QED BY <3>1, <3>2
  <2>2. \A m \in ToSet(locals') : q'[m].stage = "ended" /\ q'[m].told = {} => q'[m].self
    BY <1>2, <1>3, <1>4, <1>7 DEF H1CInv, TellOK
  <2>3. user_close => \A m \in ToSet(remotes') : q'[m].late
    BY <1>2, <1>3, <1>4, <1>8 DEF H1CInv, TellOK
  <2>4. \A m \in Ids : q'[m].eom /\ q'[m].told = {} => m \in pcc \cup cbs
    BY <1>2, <1>3 DEF H1CInv, TellOK
  <2> QED BY <2>1, <2>2, <2>3, <2>4, <1>1 DEF TellOK
<1>17. ASSUME NEW m \in Ids PROVE EventsOf(m)'
  <2>1. EventsOf(m)
    BY DEF H1CInv
  <2>2. CASE m = n
    <3>1. evs[n] = <<>>
      BY <2>1, <2>2, <1>1 DEF EventsOf
    <3> QED BY <2>2, <3>1, <1>1, <1>8 DEF EventsOf
  <2>3. CASE m # n
    BY <2>1, <2>3, <1>1, <1>3, <1>8, <1>9 DEF EventsOf
  <2> QED BY <2>2, <2>3
<1>18. RecvOK'
  <2>1. remotes # <<>> => remotes' # <<>> /\ Head(remotes') = Head(remotes)
    BY <1>8
  <2>2. Matching' <=> Matching
    BY <1>1 DEF Matching
  <2> QED BY <2>1, <2>2, <1>1 DEF H1CInv, RecvOK, recvVars
<1>19. MatchOK'
  <2>5. ASSUME Plain, NEW m \in Ids, ~q'[m].late, NEW i \in DOMAIN evs[m]
        PROVE  evs[m][i].of = m
    <3>1. CASE m = n
      BY <2>5, <3>1, <1>1 DEF H1CInv, EventsOf
    <3>2. CASE m # n
      BY <2>5, <3>2, <1>3 DEF H1CInv, MatchOK
    <3> QED BY <3>1, <3>2
  <2>6. Matching' <=> Matching
    BY <1>1 DEF Matching
  <2> SUFFICES ASSUME Plain, Matching
               PROVE  /\ answered \in Ids => Created(answered)'
                      /\ \A m \in Ids : Created(m)' =>
                           (m \in ToSet(remotes') <=>
                              m > answered \/ (msg # NoMsg /\ m = answered))
    BY <2>5, <2>6, <1>1 DEF H1CInv, MatchOK, Plain, recvVars
  <2>1. answered \in Ids => Created(answered)
    BY DEF H1CInv, MatchOK
  <2>2. n > answered
    <3>1. answered \in 0 .. MaxReq
      BY DEF H1CInv, TypeOK
    <3>2. CASE answered \in Ids
      BY <2>1, <3>2, <1>5, <1>4
    <3>3. CASE answered = 0
      BY <3>3 DEF Ids
    <3> QED BY <3>1, <3>2, <3>3, H1ClientAssumption DEF Ids
  <2>3. ASSUME NEW m \in Ids, Created(m)'
        PROVE  m \in ToSet(remotes') <=> m > answered \/ (msg # NoMsg /\ m = answered)
    <3>1. CASE m = n
      BY <3>1, <2>2, <1>8
    <3>2. CASE m # n
      <4>1. Created(m) /\ (m \in ToSet(remotes') <=> m \in ToSet(remotes))
        BY <2>3, <3>2, <1>8, <1>9
      <4> QED BY <4>1 DEF H1CInv, MatchOK
    <3> QED BY <3>1, <3>2
  <2>4. answered \in Ids => Created(answered)'
    BY <2>1, <1>1, <1>9 DEF Created, recvVars
  <2> QED BY <2>3, <2>4
<1> QED BY <1>10, <1>11, <1>12, <1>14, <1>15, <1>16, <1>17, <1>18, <1>19, <1>21 DEF H1CInv

\* close(): the lists are emptied, and what was on its way finds them so.
LEMMA CloseStep ==
  ASSUME H1CInv, Close
  PROVE  H1CInv'
<1>1. /\ conn # "gone" /\ user_close' = TRUE /\ conn' = "stopped" /\ myself' = FALSE
      /\ NotifyAll({})
      /\ UNCHANGED <<env, ser, fly, cbs, flying, wire, pcc, reading, cut, recvVars, loopVars,
                     timers, broken>>
  BY DEF Close
<1>2. /\ q' \in [Ids -> Requests] /\ evs' \in [Ids -> Seq(Events)]
      /\ locals' = <<>> /\ remotes' = <<>> /\ ToSet(locals') = {} /\ ToSet(remotes') = {}
      /\ \A n \in Ids : NotifiedRequest(n, {}) /\ EventsOf(n)'
      /\ Plain => \A n \in Ids : ~q[n].late => \A i \in DOMAIN evs'[n] : evs'[n][i].of = n
  BY <1>1, NotifyAllFacts DEF ToSet
<1>0. /\ clearing' <=> polling' # <<>>
      /\ "nested" \notin env => ~clearing' /\ Len(polling') <= 1
  BY <1>1 DEF Close, UserMayNest, UserTurn, H1CInv, LoopOK, loopVars
<1>3. /\ ListsOK' /\ LoopOK' /\ WriterOK' /\ \A n \in Ids : RequestOK(n)'
      /\ \A n \in Ids : (Over(n) => Over(n)') /\ (Created(n) <=> Created(n)')
  BY <1>0, <1>1, NotifiedKept
<1>4. TypeOK'
  <2>1. locals' \in Seq(Ids) /\ remotes' \in Seq(Ids)
    BY <1>2
  <2>2. q' \in [Ids -> Requests] /\ evs' \in [Ids -> Seq(Events)]
    BY <1>2
  <2> QED BY <2>1, <2>2, <1>1 DEF H1CInv, TypeOK, recvVars, loopVars
<1>5. RecvOK' /\ MatchOK'
  <2>1. ~Matching'
    BY <1>1 DEF Matching
  <2>2. \A n \in Ids : q'[n].late = q[n].late
    BY <1>2 DEF NotifiedRequest
  <2> QED BY <2>1, <2>2, <1>1, <1>2 DEF H1CInv, RecvOK, MatchOK, Plain, recvVars
<1>6. SentOK'
  BY <1>1, <1>3, SentStopped
<1>7. TellOK'
  <2>1. ASSUME NEW n \in Ids, q'[n].eom, q'[n].told = {} PROVE n \in pcc \cup cbs
    BY <2>1, <1>2 DEF H1CInv, TellOK, NotifiedRequest
  <2> QED BY <2>1, <1>1, <1>2 DEF TellOK
<1> QED BY <1>2, <1>3, <1>4, <1>5, <1>6, <1>7 DEF H1CInv

\* ~connector: unless the user closed, everybody who waits is told.
LEMMA OnConnectorNulledStep ==
  ASSUME H1CInv, OnConnectorNulled
  PROVE  H1CInv'
<1>1. /\ conn # "gone" /\ ~flying /\ ~reading /\ conn' = "gone" /\ polling = <<>>
      /\ UNCHANGED <<env, ser, fly, cbs, flying, wire, reading, cut, recvVars, user_close, loopVars,
                     timers, broken>>
  BY DEF OnConnectorNulled, Idle
<1>0. ~clearing /\ cbs = {}
  BY <1>1 DEF H1CInv, LoopOK, WriterOK
<1>2. CASE user_close
  <2>1. UNCHANGED <<locals, remotes, q, evs, myself, pcc>>
    BY <1>2 DEF OnConnectorNulled
  <2>2. TypeOK' /\ ListsOK' /\ LoopOK'
    BY <2>1, <1>1 DEF H1CInv, TypeOK, recvVars, loopVars, ListsOK, LoopOK, Created
  <2>3. WriterOK' /\ \A n \in Ids : RequestOK(n)'
    BY <2>1, <1>1 DEF H1CInv, WriterOK, NoneOf, RequestOK, Created
  <2>4. SentOK'
    BY <2>1, <1>1, SentStopped DEF Over, Created
  <2>5. TellOK'
    BY <2>1, <1>1, <1>2 DEF H1CInv, TellOK, Created
  <2>6. RecvOK' /\ MatchOK' /\ \A n \in Ids : EventsOf(n)'
    BY <2>1, <1>1, ResponsesKept
  <2> QED BY <2>2, <2>3, <2>4, <2>5, <2>6 DEF H1CInv
<1>3. CASE ~user_close
  <2>1. NotifyAll(pcc) /\ myself' = FALSE /\ pcc' = {}
    BY <1>3 DEF OnConnectorNulled
  <2>2. /\ q' \in [Ids -> Requests] /\ evs' \in [Ids -> Seq(Events)]
        /\ locals' = <<>> /\ remotes' = <<>> /\ ToSet(locals') = {} /\ ToSet(remotes') = {}
        /\ \A n \in Ids : NotifiedRequest(n, pcc) /\ EventsOf(n)'
        /\ Plain => \A n \in Ids : ~q[n].late => \A i \in DOMAIN evs'[n] : evs'[n][i].of = n
    BY <1>1, <2>1, NotifyAllFacts DEF ToSet
  <2>3. \A n \in pcc : n \in Ids => q[n].stage = "ended"
    BY DEF H1CInv, WriterOK, RequestOK
  <2>9. /\ clearing' <=> polling' # <<>>
        /\ "nested" \notin env => ~clearing' /\ Len(polling') <= 1
    BY <1>0, <1>1 DEF loopVars
  <2>4. /\ ListsOK' /\ LoopOK' /\ WriterOK' /\ \A n \in Ids : RequestOK(n)'
        /\ \A n \in Ids : (Over(n) => Over(n)') /\ (Created(n) <=> Created(n)')
    BY <1>1, <2>1, <2>3, <2>9, NotifiedKept
  <2>5. TypeOK'
    <3>1. locals' \in Seq(Ids) /\ remotes' \in Seq(Ids) /\ pcc' \subseteq Ids
      BY <2>1, <2>2
    <3>2. q' \in [Ids -> Requests] /\ evs' \in [Ids -> Seq(Events)]
      BY <2>2
    <3> QED BY <2>1, <3>1, <3>2, <1>1 DEF H1CInv, TypeOK, recvVars, loopVars
  <2>6. RecvOK' /\ MatchOK'
    <3>1. ~Matching'
      BY <1>1 DEF Matching
    <3>2. \A n \in Ids : q'[n].late = q[n].late
      BY <2>2 DEF NotifiedRequest
    <3> QED BY <3>1, <3>2, <1>1, <2>2 DEF H1CInv, RecvOK, MatchOK, Plain, recvVars
  <2>7. SentOK'
    BY <1>1, <2>4, SentStopped
  <2>8. TellOK'
    <3>0. ASSUME NEW n \in Ids, q'[n].told = {} PROVE n \notin pcc \cup cbs
      BY <3>0, <1>0, <2>2 DEF NotifiedRequest
    <3>1. ASSUME env \cap {"bad", "nested"} = {}, NEW n \in Ids, Created(n)', q'[n].told = {}
          PROVE  ~q'[n].held /\ q'[n].stage # "ended"
      <4>1. /\ Created(n) /\ q[n].told = {} /\ n \notin pcc
            /\ ~(n \in ToSet(locals) /\ Locks(q[n], n))
            /\ q'[n].held = q[n].held /\ q'[n].stage = q[n].stage
        BY <3>1, <2>2, <2>4 DEF NotifiedRequest
      <4>3. n \in ToSet(locals) \/ (~q[n].held /\ q[n].stage # "ended")
        BY <3>1, <4>1, <1>0, <1>3 DEF H1CInv, TellOK
      <4>4. n \in ToSet(locals) => ~q[n].held /\ q[n].stage # "ended"
        BY <4>1 DEF H1CInv, TellOK, Locks
      <4> QED BY <4>1, <4>3, <4>4
    <3>2. ASSUME NEW n \in Ids, q'[n].eom, q'[n].told = {} PROVE FALSE
      BY <3>0, <3>2, <2>2 DEF H1CInv, TellOK, NotifiedRequest
    <3> QED BY <3>1, <3>2, <2>1, <2>2, <1>1, <1>3 DEF TellOK
  <2> QED BY <2>2, <2>4, <2>5, <2>6, <2>7, <2>8 DEF H1CInv
<1> QED BY <1>2, <1>3 DEF H1CInv, TypeOK

-----------------------------------------------------------------------------
(* The connector. *)

\* A deadline changes nothing the invariant speaks of.
LEMMA TimerStep ==
  ASSUME H1CInv, TimerFires \/ RunTimeout
  PROVE  H1CInv'
<1>1. /\ timers' \in 0 .. 1 /\ broken' \in BOOLEAN
      /\ UNCHANGED <<env, locals, remotes, q, evs, connVars, recvVars, user_close, myself,
                     loopVars>>
  <2>1. CASE TimerFires
    BY <2>1 DEF TimerFires, H1CInv, TypeOK
  <2>2. CASE RunTimeout
    BY <2>2 DEF RunTimeout, HandlerAlive
  <2> QED BY <2>1, <2>2
<1>2. TypeOK' /\ ListsOK'
  BY <1>1 DEF H1CInv, TypeOK, ListsOK, Created, connVars, recvVars, loopVars
<1>3. LoopOK' /\ WriterOK' /\ SentOK' /\ TellOK' /\ \A n \in Ids : RequestOK(n)'
  BY <1>1, RequestsKept
<1>4. RecvOK' /\ MatchOK' /\ \A n \in Ids : EventsOf(n)'
  BY <1>1, ResponsesKept DEF connVars
<1> QED BY <1>2, <1>3, <1>4 DEF H1CInv

\* The read ends: the connector stops, unless the read was cancelled or it had
\* stopped before.
LEMMA ReadOverStep ==
  ASSUME H1CInv, ReadFailed \/ ReadOver
  PROVE  H1CInv'
<1>1. /\ reading /\ reading' = FALSE /\ conn' \in {"open", "stopped", "gone"}
      /\ conn' = conn \/ (conn = "open" /\ conn' = "stopped")
      /\ UNCHANGED <<env, locals, remotes, q, evs, ser, fly, cbs, flying, wire, pcc, cut, recvVars,
                     user_close, myself, loopVars, timers, broken>>
  BY DEF ReadFailed, ReadOver, ConnFrame, H1CInv, TypeOK
<1>0. reading' \in BOOLEAN
  BY <1>1
<1>2. TypeOK' /\ ListsOK' /\ LoopOK'
  <2>1. TypeOK'
    BY <1>0, <1>1 DEF H1CInv, TypeOK, recvVars, loopVars
  <2>2. ListsOK' /\ LoopOK'
    BY <1>1 DEF H1CInv, ListsOK, LoopOK, Created, loopVars
  <2> QED BY <2>1, <2>2
<1>3. WriterOK' /\ TellOK' /\ \A n \in Ids : RequestOK(n)'
  BY <1>1 DEF H1CInv, WriterOK, NoneOf, TellOK, RequestOK, Created
<1>4. SentOK'
  <2>1. CASE conn' = conn
    <3>1. Sent' = Sent
      BY <2>1, <1>1 DEF Sent
    <3>2. Gentle /\ conn = "open" => \A n \in ToSet(locals) : SentOf(n)'
      <4> SUFFICES ASSUME Gentle, conn = "open", NEW n \in ToSet(locals) PROVE SentOf(n)'
        OBVIOUS
      <4>1. SentOf(n) /\ q' = q
        BY <1>1 DEF H1CInv, SentOK
      <4> QED BY <4>1, <3>1 DEF SentOf
    <3> QED BY <2>1, <3>1, <3>2, <1>1, SentKept DEF Over, Created
  <2>2. CASE conn' = "stopped"
    BY <2>2, <1>1, SentStopped DEF Over, Created
  <2> QED BY <2>1, <2>2, <1>1
<1>5. RecvOK' /\ MatchOK' /\ \A n \in Ids : EventsOf(n)'
  BY <1>1, ResponsesKept
<1> QED BY <1>2, <1>3, <1>4, <1>5 DEF H1CInv

\* The connect timer's queued handler: nothing changes before the operations complete.
LEMMA SocketCanceledStep ==
  ASSUME H1CInv, SocketCanceled
  PROVE  H1CInv'
<1>1. /\ "timer" \in cut
      /\ cut' = {op \in {"read", "write"} : IF op = "read" THEN reading ELSE flying}
      /\ UNCHANGED <<env, locals, remotes, q, evs, ser, fly, cbs, flying, wire, pcc, conn, reading,
                     recvVars, user_close, myself, loopVars, timers, broken>>
  BY DEF SocketCanceled, ConnFrame
<1>2. "cancel" \in env
  BY <1>1 DEF H1CInv, WriterOK
<1>3. cut' \in {{"timer"}} \cup SUBSET {"read", "write"}
  BY <1>1
<1>4. TypeOK' /\ ListsOK' /\ LoopOK'
  BY <1>1, <1>3 DEF H1CInv, TypeOK, ListsOK, LoopOK, Created, recvVars, loopVars
<1>5. WriterOK' /\ TellOK' /\ \A n \in Ids : RequestOK(n)'
  BY <1>1, <1>2 DEF H1CInv, WriterOK, NoneOf, TellOK, RequestOK, Created
<1>6. SentOK'
  BY <1>1, <1>2 DEF SentOK, Gentle
<1>7. RecvOK' /\ MatchOK' /\ \A n \in Ids : EventsOf(n)'
  BY <1>1, ResponsesKept
<1> QED BY <1>4, <1>5, <1>6, <1>7 DEF H1CInv

(***************************************************************************)
(* A write ends and the requests of done, whose feedbacks it carried or    *)
(* that waited with no bytes, are told: what is left of the invariant but  *)
(* for the bytes themselves.                                               *)
(***************************************************************************)
LEMMA WriteEnds ==
  ASSUME H1CInv,
         q' \in [Ids -> Requests], wire' \in Seq(Pieces), ser' \in Seq(Pieces),
         fly' \in Seq(Pieces), pcc' \subseteq pcc, cbs' \subseteq pcc, flying' \in BOOLEAN,
         conn # "gone", conn' \in {"open", "stopped"}, cut' = cut \ {"write"},
         ~flying' => fly' = <<>> /\ cbs' = {},
         \A n \in cbs' : NoneOf(n, ser'),
         \A n \in Ids : NoneOf(n, ser) => NoneOf(n, ser') /\ NoneOf(n, fly'),
         \A n \in Ids :
           /\ q'[n].stage = q[n].stage /\ q'[n].held = q[n].held /\ q'[n].h = q[n].h
           /\ q'[n].b = q[n].b /\ q'[n].e = q[n].e /\ q'[n].eom = q[n].eom
           /\ q'[n].late = q[n].late
           /\ q'[n] = q[n] \/ (n \in pcc \cup cbs /\ ~q'[n].self /\ q'[n].told # {})
           /\ n \in pcc \cup cbs => n \in pcc' \cup cbs' \/ q'[n].told # {}
           /\ "cleared" \in q'[n].told => \/ "cleared" \in q[n].told \/ n \in cbs
                                          \/ n \in pcc /\ ser = <<>>,
         UNCHANGED <<env, locals, remotes, evs, reading, recvVars, user_close, myself, loopVars,
                     timers, broken>>
  PROVE  /\ TypeOK' /\ ListsOK' /\ LoopOK' /\ WriterOK' /\ TellOK' /\ RecvOK' /\ MatchOK'
         /\ \A n \in Ids : RequestOK(n)' /\ EventsOf(n)'
         /\ \A n \in Ids : (Over(n) => Over(n)') /\ (Created(n) <=> Created(n)')
<1>1. /\ ToSet(locals) \subseteq Ids /\ ToSet(remotes) \subseteq Ids /\ pcc \subseteq Ids
      /\ cbs \subseteq Ids /\ cut' \in {{"timer"}} \cup SUBSET {"read", "write"}
  <2>1. cut \in {{"timer"}} \cup SUBSET {"read", "write"}
    BY DEF H1CInv, TypeOK
  <2> QED BY <2>1 DEF H1CInv, TypeOK, ToSet
<1>2. TypeOK'
  BY <1>1 DEF H1CInv, TypeOK, recvVars, loopVars
<1>3. \A n \in Ids : (Over(n) => Over(n)') /\ (Created(n) <=> Created(n)')
  BY DEF Created, Over
<1>4. ListsOK'
  BY <1>1, <1>3 DEF H1CInv, ListsOK
<1>5. LoopOK'
  <2>1. locals # <<>> => Head(locals) \in Ids
    BY TailFacts DEF H1CInv, TypeOK, ListsOK
  <2>2. \A n \in Ids : q'[n].eom = q[n].eom
    OBVIOUS
  <2> QED BY <2>1, <2>2, <1>1 DEF H1CInv, LoopOK, loopVars
<1>6. ASSUME NEW n \in Ids PROVE RequestOK(n)'
  <2>1. RequestOK(n) /\ (n \in pcc \cup cbs => q[n].eom)
    BY DEF H1CInv, WriterOK
  <2>2. q'[n] = q[n] \/ (Created(n) /\ ~q'[n].self)
    BY <2>1 DEF RequestOK, Created
  <2> QED BY <2>1, <2>2, <1>3 DEF RequestOK, Created
<1>7. WriterOK'
  <2>1. \A n \in pcc' \cup cbs' : q'[n].eom
    <3>1. \A n \in pcc : n \in Ids /\ q[n].eom
      BY <1>1 DEF H1CInv, WriterOK
    <3> QED BY <3>1
  <2>2. ASSUME NEW n \in Ids, "cleared" \in q'[n].told
        PROVE  q'[n].eom /\ NoneOf(n, ser') /\ NoneOf(n, fly')
    <3>1. q[n].eom /\ NoneOf(n, ser)
      <4>1. CASE "cleared" \in q[n].told \/ n \in cbs
        BY <4>1 DEF H1CInv, WriterOK
      <4>2. CASE n \in pcc /\ ser = <<>>
        BY <4>2 DEF H1CInv, WriterOK, NoneOf
      <4> QED BY <2>2, <4>1, <4>2
    <3> QED BY <3>1
  <2>3. "cancel" \notin env' => cut' = {}
    BY DEF H1CInv, WriterOK
  <2> QED BY <2>1, <2>2, <2>3 DEF WriterOK
<1>8. TellOK'
  <2>1. ASSUME NEW n \in Ids, q'[n].told = {} PROVE q'[n] = q[n]
    BY <2>1
  <2>2. ASSUME ~user_close, env \cap {"bad", "nested"} = {}, NEW n \in Ids, Created(n)',
               q'[n].told = {}
        PROVE  \/ n \in ToSet(locals) \cup pcc' \cup cbs'
               \/ ~q'[n].held /\ q'[n].stage # "ended"
    <3>1. Created(n) /\ q[n].told = {} /\ q'[n] = q[n]
      BY <2>1, <2>2, <1>3
    <3>2. n \in ToSet(locals) \cup pcc \cup cbs \/ (~q[n].held /\ q[n].stage # "ended")
      BY <2>2, <3>1 DEF H1CInv, TellOK
    <3> QED BY <2>2, <3>1, <3>2
  <2>3. ASSUME NEW n \in Ids, q'[n].eom, q'[n].told = {} PROVE n \in pcc' \cup cbs'
    <3>1. q[n].eom /\ q[n].told = {}
      BY <2>1, <2>3
    <3>2. n \in pcc \cup cbs
      BY <3>1 DEF H1CInv, TellOK
    <3> QED BY <2>3, <3>2
  <2>4. ASSUME NEW n \in ToSet(locals), q'[n].stage = "ended", q'[n].told = {}
        PROVE  q'[n].self
    <3>1. q'[n] = q[n]
      BY <2>1, <2>4, <1>1
    <3> QED BY <2>4, <3>1 DEF H1CInv, TellOK
  <2>5. user_close => \A n \in ToSet(remotes) : q'[n].late
    BY <1>1 DEF H1CInv, TellOK
  <2> QED BY <2>2, <2>3, <2>4, <2>5 DEF TellOK
<1>9. RecvOK' /\ MatchOK' /\ \A n \in Ids : EventsOf(n)'
  BY ResponsesKept
<1> QED BY <1>2, <1>3, <1>4, <1>5, <1>6, <1>7, <1>8, <1>9

\* The beginning of a sequence of pieces.
LEMMA FrontPieces ==
  ASSUME NEW s \in Seq(Pieces), NEW n \in 0 .. Len(s)
  PROVE  /\ SubSeq(s, 1, n) \in Seq(Pieces) /\ Len(SubSeq(s, 1, n)) = n
         /\ \A i \in 1 .. n : SubSeq(s, 1, n)[i] = s[i]
<1> DEFINE t == SubSeq(s, 1, n)
<1>1. Len(s) \in Nat /\ n \in Nat /\ n <= Len(s)
  OBVIOUS
<1>2. /\ t \in Seq(Pieces) /\ Len(t) = IF 1 <= n THEN n - 1 + 1 ELSE 0
      /\ \A i \in 1 .. n - 1 + 1 : t[i] = s[1 + i - 1]
  <2>1. 1 \in 1 .. Len(s) + 1 /\ n \in 1 - 1 .. Len(s)
    BY <1>1
  <2> QED BY <2>1, SubSeqProperties
<1> HIDE DEF t
<1>3. Len(t) = n
  BY <1>1, <1>2
<1>4. \A i \in 1 .. n : t[i] = s[i]
  BY <1>1, <1>2
<1> QED BY <1>2, <1>3, <1>4 DEF t

\* A write fails or is cancelled after n of its pieces, and its feedbacks fail.
LEMMA WriteAbortedStep ==
  ASSUME H1CInv, NEW n \in 0 .. Len(fly), WriteAborted(n)
  PROVE  H1CInv'
<1> DEFINE t == SubSeq(fly, 1, n)
<1>1. /\ flying /\ q' = TellRequests(q, cbs, "error") /\ wire' = wire \o t
      /\ fly' = <<>> /\ cbs' = {} /\ flying' = FALSE /\ cut' = cut \ {"write"}
      /\ \/ conn = "open" /\ conn' = "stopped"
         \/ (conn = "stopped" \/ "write" \in cut) /\ conn' = conn
      /\ UNCHANGED <<env, locals, remotes, evs, ser, pcc, reading, recvVars, user_close, myself,
                     loopVars, timers, broken>>
  BY DEF WriteAborted, ConnFrame
<1>2. /\ wire \in Seq(Pieces) /\ fly \in Seq(Pieces) /\ ser \in Seq(Pieces)
      /\ q \in [Ids -> Requests] /\ conn \in {"open", "stopped", "gone"} /\ conn # "gone"
  BY <1>1 DEF H1CInv, TypeOK, TellOK
<1>3. t \in Seq(Pieces) /\ Len(t) = n /\ \A i \in 1 .. n : t[i] = fly[i]
  BY <1>2, FrontPieces
<1> HIDE DEF t
<1>4. /\ q' \in [Ids -> Requests]
      /\ \A m \in Ids :
           /\ q'[m].stage = q[m].stage /\ q'[m].held = q[m].held /\ q'[m].h = q[m].h
           /\ q'[m].b = q[m].b /\ q'[m].e = q[m].e /\ q'[m].eom = q[m].eom
           /\ q'[m].late = q[m].late
           /\ m \notin cbs => q'[m] = q[m]
           /\ m \in cbs => /\ ~q'[m].self /\ q'[m].told # {}
                           /\ q'[m].told = q[m].told \cup {"error"}
  <2>1. q' = TellRequests(q, cbs, "error") /\ q \in [Ids -> Requests]
    BY <1>1, <1>2
  <2> QED BY <2>1, TellFacts
<1>5. \A m \in Ids : NoneOf(m, fly')
  BY <1>1 DEF NoneOf
<1>6. \A m \in Ids : "cleared" \in q'[m].told => "cleared" \in q[m].told
  BY <1>4
<1>7. /\ wire' \in Seq(Pieces) /\ fly' \in Seq(Pieces) /\ ser' \in Seq(Pieces)
      /\ conn' \in {"open", "stopped"}
  BY <1>1, <1>2, <1>3, ConcatFacts
<1>8. /\ TypeOK' /\ ListsOK' /\ LoopOK' /\ WriterOK' /\ TellOK' /\ RecvOK' /\ MatchOK'
      /\ \A m \in Ids : RequestOK(m)' /\ EventsOf(m)'
      /\ \A m \in Ids : (Over(m) => Over(m)') /\ (Created(m) <=> Created(m)')
  <2>1. \A m \in Ids :
          /\ q'[m].stage = q[m].stage /\ q'[m].held = q[m].held /\ q'[m].h = q[m].h
          /\ q'[m].b = q[m].b /\ q'[m].e = q[m].e /\ q'[m].eom = q[m].eom
          /\ q'[m].late = q[m].late
          /\ q'[m] = q[m] \/ (m \in pcc \cup cbs /\ ~q'[m].self /\ q'[m].told # {})
          /\ m \in pcc \cup cbs => m \in pcc' \cup cbs' \/ q'[m].told # {}
          /\ "cleared" \in q'[m].told => \/ "cleared" \in q[m].told \/ m \in cbs
                                         \/ m \in pcc /\ ser = <<>>
    BY <1>1, <1>4, <1>6
  <2>2. /\ pcc' \subseteq pcc /\ cbs' \subseteq pcc /\ \A m \in cbs' : NoneOf(m, ser')
        /\ \A m \in Ids : NoneOf(m, ser) => NoneOf(m, ser') /\ NoneOf(m, fly')
        /\ flying' \in BOOLEAN /\ (~flying' => fly' = <<>> /\ cbs' = {})
    BY <1>1, <1>5
  <2> QED BY <2>1, <2>2, <1>1, <1>2, <1>4, <1>7, WriteEnds
<1>9. SentOK'
  <2>1. CASE conn' # "open"
    <3>1. Sent' = wire \o t
      <4>1. Sent' = (wire \o t) \o <<>> /\ wire \o t \in Seq(Pieces)
        BY <2>1, <1>1, <1>2, <1>3, ConcatFacts DEF Sent
      <4> QED BY <4>1, ConcatFacts
    <3>2. PICK z \in Seq(Pieces) : Sent = (wire \o fly) \o z
      <4>1. CASE conn = "open"
        BY <4>1, <1>2 DEF Sent
      <4>2. CASE conn # "open"
        <5>1. Sent = wire \o fly /\ wire \o fly \in Seq(Pieces) /\ <<>> \in Seq(Pieces)
          BY <4>2, <1>2, ConcatFacts DEF Sent
        <5>2. Sent = (wire \o fly) \o <<>>
          BY <5>1, ConcatFacts
        <5> QED BY <5>1, <5>2
      <4> QED BY <4>1, <4>2
    <3>3. /\ Len(wire) \in Nat /\ Len(fly) \in Nat /\ Len(z) \in Nat /\ n \in Nat /\ n <= Len(fly)
          /\ Len(wire \o t) = Len(wire) + n /\ Len(wire \o fly) = Len(wire) + Len(fly)
          /\ Len(Sent) = Len(wire) + Len(fly) + Len(z) /\ wire \o fly \in Seq(Pieces)
      <4>1. /\ Len(wire) \in Nat /\ Len(fly) \in Nat /\ Len(z) \in Nat
            /\ n \in Nat /\ n <= Len(fly)
        BY <1>2
      <4>2. /\ Len(wire \o t) = Len(wire) + n /\ Len(wire \o fly) = Len(wire) + Len(fly)
            /\ wire \o fly \in Seq(Pieces)
        BY <1>2, <1>3, ConcatFacts
      <4>3. Len(Sent) = Len(wire \o fly) + Len(z)
        BY <3>2, <4>2, ConcatFacts
      <4> QED BY <4>1, <4>2, <4>3
    <3>4. ASSUME NEW i \in 1 .. Len(wire) + n PROVE (wire \o t)[i] = Sent[i]
      <4>1. i \in 1 .. Len(wire \o fly) /\ Sent[i] = (wire \o fly)[i]
        BY <3>2, <3>3, ConcatFacts
      <4>2. CASE i \in 1 .. Len(wire)
        BY <4>1, <4>2, <1>2, <1>3, ConcatFacts
      <4>3. CASE i \notin 1 .. Len(wire)
        <5>1. i - Len(wire) \in 1 .. n /\ i - Len(wire) \in 1 .. Len(fly)
          BY <4>3, <3>3
        <5>2. (wire \o fly)[i] = fly[i - Len(wire)] /\ (wire \o t)[i] = t[i - Len(wire)]
          BY <4>3, <5>1, <3>3, <1>2, <1>3
        <5> QED BY <4>1, <5>1, <5>2, <1>3
      <4> QED BY <4>2, <4>3
    <3>5. Len(Sent') \in 0 .. Len(Sent) /\ \A i \in 1 .. Len(Sent') : Sent'[i] = Sent[i]
      BY <3>1, <3>3, <3>4
    <3> QED BY <2>1, <3>5, <1>1, <1>8, SentCut
  <2>2. CASE conn' = "open"
    <3>1. "cancel" \in env
      BY <2>2, <1>1 DEF H1CInv, WriterOK
    <3> QED BY <3>1, <1>1 DEF SentOK, Gentle
  <2> QED BY <2>1, <2>2
<1> QED BY <1>8, <1>9 DEF H1CInv

\* The write is complete: its feedbacks succeed and what was serialised meanwhile
\* follows, if the connector is still open.
LEMMA WriteOkStep ==
  ASSUME H1CInv, WriteOk
  PROVE  H1CInv'
<1> DEFINE qq == TellRequests(q, cbs, "cleared")
<1>1. /\ flying /\ conn' = conn /\ wire' = wire \o fly /\ cut' = cut \ {"write"}
      /\ \/ conn = "open" /\ DoWrite(qq, ser, pcc, FALSE)
         \/ /\ conn # "open" /\ q' = qq /\ fly' = <<>> /\ cbs' = {} /\ flying' = FALSE
            /\ ser' = ser /\ pcc' = pcc
      /\ UNCHANGED <<env, locals, remotes, evs, reading, recvVars, user_close, myself, loopVars,
                     timers, broken>>
  BY DEF WriteOk, ConnFrame
<1>2. /\ q \in [Ids -> Requests] /\ qq \in [Ids -> Requests]
      /\ \A n \in Ids :
           /\ qq[n].stage = q[n].stage /\ qq[n].held = q[n].held /\ qq[n].h = q[n].h
           /\ qq[n].b = q[n].b /\ qq[n].e = q[n].e /\ qq[n].eom = q[n].eom
           /\ qq[n].late = q[n].late
           /\ n \notin cbs => qq[n] = q[n]
           /\ n \in cbs => ~qq[n].self /\ qq[n].told # {}
  <2>1. q \in [Ids -> Requests]
    BY DEF H1CInv, TypeOK
  <2> QED BY <2>1, TellFacts
<1> HIDE DEF qq
<1>3. /\ ser \in Seq(Pieces) /\ fly \in Seq(Pieces) /\ wire \in Seq(Pieces)
      /\ pcc \subseteq Ids /\ cbs \subseteq Ids /\ wire \o fly \in Seq(Pieces)
      /\ conn \in {"open", "stopped", "gone"} /\ conn # "gone"
  BY <1>1, ConcatFacts DEF H1CInv, TypeOK, TellOK
<1>4. \A n \in Ids : NoneOf(n, <<>>)
  BY DEF NoneOf
\* What the step does to the writer and to a request, whichever way do_write goes.
<1>5. /\ q' \in [Ids -> Requests] /\ ser' \in Seq(Pieces) /\ fly' \in Seq(Pieces)
      /\ pcc' \subseteq pcc /\ cbs' \subseteq pcc /\ flying' \in BOOLEAN
      /\ ~flying' => fly' = <<>> /\ cbs' = {}
      /\ \A n \in cbs' : NoneOf(n, ser')
      /\ \A n \in Ids : NoneOf(n, ser) => NoneOf(n, ser') /\ NoneOf(n, fly')
      /\ conn = "open" => ser' = <<>> /\ fly' = ser
      /\ conn # "open" => fly' = <<>>
  <2>1. CASE conn # "open"
    <3>1. /\ q' = qq /\ fly' = <<>> /\ cbs' = {} /\ flying' = FALSE
          /\ ser' = ser /\ pcc' = pcc
      BY <2>1, <1>1
    <3>2. /\ q' \in [Ids -> Requests] /\ ser' \in Seq(Pieces) /\ fly' \in Seq(Pieces)
          /\ pcc' \subseteq pcc /\ cbs' \subseteq pcc /\ flying' \in BOOLEAN
      <4>1. fly' \in Seq(Pieces) /\ cbs' \subseteq pcc /\ pcc' \subseteq pcc
        BY <3>1
      <4>2. q' \in [Ids -> Requests] /\ ser' \in Seq(Pieces) /\ flying' \in BOOLEAN
        BY <3>1, <1>2, <1>3, Zenon
      <4> QED BY <4>1, <4>2
    <3>3. \A n \in Ids : NoneOf(n, ser) => NoneOf(n, ser') /\ NoneOf(n, fly')
      BY <3>1, <1>4
    <3> QED BY <2>1, <3>1, <3>2, <3>3
  <2>2. CASE conn = "open" /\ ser = <<>>
    <3>1. q' = TellRequests(qq, pcc, "cleared") /\ ser' = <<>> /\ pcc' = {}
          /\ fly' = <<>> /\ cbs' = {} /\ flying' = FALSE
      BY <2>2, <1>1 DEF DoWrite
    <3>2. q' \in [Ids -> Requests]
      BY <3>1, <1>2, TellFacts
    <3> QED BY <2>2, <3>1, <3>2, <1>3, <1>4
  <2>3. CASE conn = "open" /\ ser # <<>>
    <3>1. q' = qq /\ ser' = <<>> /\ pcc' = {} /\ fly' = ser /\ cbs' = pcc /\ flying' = TRUE
      BY <2>3, <1>1 DEF DoWrite
    <3> QED BY <2>3, <3>1, <1>2, <1>3, <1>4
  <2> QED BY <2>1, <2>2, <2>3
<1>6. \A n \in Ids :
        /\ q'[n].stage = q[n].stage /\ q'[n].held = q[n].held /\ q'[n].h = q[n].h
        /\ q'[n].b = q[n].b /\ q'[n].e = q[n].e /\ q'[n].eom = q[n].eom
        /\ q'[n].late = q[n].late
        /\ q'[n] = q[n] \/ (n \in pcc \cup cbs /\ ~q'[n].self /\ q'[n].told # {})
        /\ n \in pcc \cup cbs => n \in pcc' \cup cbs' \/ q'[n].told # {}
        /\ "cleared" \in q'[n].told => \/ "cleared" \in q[n].told \/ n \in cbs
                                       \/ n \in pcc /\ ser = <<>>
  <2>1. CASE conn = "open" /\ ser = <<>>
    <3>1. q' = TellRequests(qq, pcc, "cleared")
      BY <2>1, <1>1 DEF DoWrite
    <3>2. \A n \in Ids :
            /\ q'[n].stage = qq[n].stage /\ q'[n].held = qq[n].held /\ q'[n].h = qq[n].h
            /\ q'[n].b = qq[n].b /\ q'[n].e = qq[n].e /\ q'[n].eom = qq[n].eom
            /\ q'[n].late = qq[n].late
            /\ n \notin pcc => q'[n] = qq[n]
            /\ n \in pcc => ~q'[n].self /\ q'[n].told # {}
      BY <3>1, <1>2, TellFacts
    <3>3. \A n \in Ids : n \notin pcc \cup cbs => q'[n] = q[n]
      BY <3>2, <1>2
    <3>4. \A n \in Ids : n \in pcc \cup cbs => ~q'[n].self /\ q'[n].told # {}
      BY <3>2, <1>2
    <3>5. \A n \in Ids :
            /\ q'[n].stage = q[n].stage /\ q'[n].held = q[n].held /\ q'[n].h = q[n].h
            /\ q'[n].b = q[n].b /\ q'[n].e = q[n].e /\ q'[n].eom = q[n].eom
            /\ q'[n].late = q[n].late
      BY <3>2, <1>2
    <3> QED BY <2>1, <3>3, <3>4, <3>5
  <2>2. CASE /\ q' = qq /\ pcc \subseteq pcc' \cup cbs'
    BY <2>2, <1>2
  <2>3. CASE ~(conn = "open" /\ ser = <<>>)
    <3>1. q' = qq /\ pcc \subseteq pcc' \cup cbs'
      BY <2>3, <1>1 DEF DoWrite
    <3> QED BY <3>1, <2>2
  <2> QED BY <2>1, <2>3
<1>7. /\ TypeOK' /\ ListsOK' /\ LoopOK' /\ WriterOK' /\ TellOK' /\ RecvOK' /\ MatchOK'
      /\ \A n \in Ids : RequestOK(n)' /\ EventsOf(n)'
      /\ \A n \in Ids : (Over(n) => Over(n)') /\ (Created(n) <=> Created(n)')
  <2>1. wire' \in Seq(Pieces) /\ conn' \in {"open", "stopped"}
    BY <1>1, <1>3
  <2> QED BY <2>1, <1>1, <1>3, <1>5, <1>6, WriteEnds
<1>8. SentOK'
  <2>1. Sent' = Sent
    <3>1. CASE conn = "open"
      <4>1. Sent' = ((wire \o fly) \o ser) \o <<>> /\ Sent = (wire \o fly) \o ser
        BY <3>1, <1>1, <1>5 DEF Sent
      <4>2. (wire \o fly) \o ser \in Seq(Pieces)
        BY <1>3, ConcatFacts
      <4> QED BY <4>1, <4>2, ConcatFacts
    <3>2. CASE conn # "open"
      <4>1. Sent' = (wire \o fly) \o <<>> /\ Sent = wire \o fly
        BY <3>2, <1>1, <1>5 DEF Sent
      <4> QED BY <4>1, <1>3, ConcatFacts
    <3> QED BY <3>1, <3>2
  <2>2. Gentle /\ conn = "open" => \A n \in ToSet(locals) : SentOf(n)'
    <3> SUFFICES ASSUME Gentle, conn = "open", NEW n \in ToSet(locals) PROVE SentOf(n)'
      OBVIOUS
    <3>1. n \in Ids /\ SentOf(n)
      BY DEF H1CInv, TypeOK, SentOK, ToSet
    <3> QED BY <3>1, <2>1, <1>6 DEF SentOf
  <2> QED BY <2>1, <2>2, <1>1, <1>7, SentKept
<1> QED BY <1>7, <1>8 DEF H1CInv

-----------------------------------------------------------------------------
(* Receiving. *)

\* The response at the front of the list reports x, and leaves the list with an outcome.
LEMMA EventStep ==
  ASSUME H1CInv, remotes # <<>>, NEW x \in Events, env' = env,
         evs' = [evs EXCEPT ![Head(remotes)] = Append(@, x)],
         \A n \in Ids : q'[n].stage = q[n].stage /\ q'[n].late = q[n].late,
         \/ evs[Head(remotes)] # <<>> \/ x.ev \notin {"body", "finished"} \/ "drop" \in env
         \/ q[Head(remotes)].late,
         remotes' = IF x.ev \in Final THEN Tail(remotes) ELSE remotes
  PROVE  /\ evs' \in [Ids -> Seq(Events)] /\ evs'[Head(remotes)] # <<>>
         /\ remotes' \in Seq(Ids) /\ Sorted(remotes') /\ ToSet(remotes') \subseteq ToSet(remotes)
         /\ \A n \in Ids : EventsOf(n)'
         /\ Plain /\ (x.of = Head(remotes) \/ q[Head(remotes)].late) =>
              \A n \in Ids : ~q[n].late => \A i \in DOMAIN evs'[n] : evs'[n][i].of = n
<1> DEFINE h == Head(remotes)
           e == Append(evs[h], x)
<1>1. /\ h \in Ids /\ h \in ToSet(remotes) /\ remotes \in Seq(Ids) /\ Sorted(remotes)
      /\ ToSet(Tail(remotes)) = ToSet(remotes) \ {h}
      /\ Tail(remotes) \in Seq(Ids) /\ Sorted(Tail(remotes)) /\ Created(h)
  BY TailFacts DEF H1CInv, TypeOK, ListsOK
<1> HIDE DEF h
<1>2. /\ evs \in [Ids -> Seq(Events)] /\ evs'[h] = e /\ \A n \in Ids : n # h => evs'[n] = evs[n]
  BY <1>1 DEF H1CInv, TypeOK, h
<1> HIDE DEF e
<1>3. EventsUpTo(h, e, x)
  BY <1>1, EventAdded DEF e, h
<1>4. x.ev \in Final \/ x.ev \in {"headers", "body"}
  BY DEF Events, Final, Outcomes
<1>5. evs' \in [Ids -> Seq(Events)]
  BY <1>1, <1>2, <1>3 DEF h, e, EventsUpTo
<1>6. ToSet(remotes') = IF x.ev \in Final THEN ToSet(remotes) \ {h} ELSE ToSet(remotes)
  BY <1>1
<1>7. ASSUME NEW n \in Ids PROVE EventsOf(n)'
  <2>1. EventsOf(n) /\ (Created(n)' <=> Created(n)) /\ q'[n].late = q[n].late
    BY DEF H1CInv, Created
  <2>2. CASE n = h
    BY <2>1, <2>2, <1>1, <1>2, <1>3, <1>4, <1>6, ZenonT(90) DEF EventsOf, EventsUpTo
  <2>3. CASE n # h
    BY <2>1, <2>3, <1>2, <1>6 DEF EventsOf
  <2> QED BY <2>2, <2>3
<1>8. Plain /\ (x.of = h \/ q[h].late) =>
        \A n \in Ids : ~q[n].late => \A i \in DOMAIN evs'[n] : evs'[n][i].of = n
  BY <1>2, <1>3 DEF H1CInv, MatchOK, EventsUpTo
<1>9. remotes' \in Seq(Ids) /\ Sorted(remotes') /\ ToSet(remotes') \subseteq ToSet(remotes)
  BY <1>1, <1>6
<1> QED BY <1>2, <1>3, <1>5, <1>7, <1>8, <1>9 DEF h, EventsUpTo

\* The requests whose headers may have arrived were created; if none is lost on the way
\* the peer answers them one after the other.
LEMMA ReceivedFacts ==
  ASSUME H1CInv, NEW of, ToAnswer(of)
  PROVE  of \in Ids /\ (Plain => Created(of) /\ of = answered + 1)
<1>1. /\ wire \in Seq(Pieces) /\ fly \in Seq(Pieces) /\ ser \in Seq(Pieces)
      /\ answered \in 0 .. MaxReq
  BY DEF H1CInv, TypeOK
<1> DEFINE s == wire \o fly
<1>2. s \in Seq(Pieces) /\ Len(s) \in Nat /\ DOMAIN s = 1 .. Len(s)
  BY <1>1, ConcatFacts
<1>3. Received = {w[1] : w \in {v \in ToSet(s) : v[2] = "H"}}
  BY DEF Received
<1>4. /\ Len(s) <= Len(Sent) /\ \A i \in 1 .. Len(s) : Sent[i] = s[i]
  <2>1. CASE conn = "open"
    <3>1. Sent = s \o ser
      BY <2>1 DEF Sent
    <3> HIDE DEF s
    <3>2. Len(s \o ser) = Len(s) + Len(ser) /\ Len(ser) \in Nat
          /\ \A i \in 1 .. Len(s) : (s \o ser)[i] = s[i]
      BY <1>1, <1>2, ConcatFacts
    <3> QED BY <3>1, <3>2, <1>2
  <2>2. CASE conn # "open"
    <3>1. Sent = s
      BY <2>2 DEF Sent
    <3> HIDE DEF s
    <3> QED BY <3>1, <1>2
  <2> QED BY <2>1, <2>2
<1> HIDE DEF s
<1>5. PICK i \in 1 .. Len(s) : s[i][1] = of /\ s[i][2] = "H"
  BY <1>2, <1>3 DEF ToAnswer, ToSet
<1>6. of \in Ids
  BY <1>2, <1>5 DEF Pieces
<1>7. ASSUME Plain PROVE Created(of) /\ of = answered + 1
  <2>1. Gentle /\ i \in 1 .. Len(Sent) /\ Sent[i] = s[i]
    BY <1>2, <1>4, <1>5, <1>7, SentType DEF Plain, Gentle
  <2>2. Preceded(i)
    BY <2>1 DEF H1CInv, SentOK, Whole
  <2>3. Created(of)
    BY <2>1, <2>2, <1>5 DEF Preceded
  <2>4. ASSUME NEW m \in Ids, m < of PROVE m \in Received
    <3>1. PICK j \in 1 .. i : Sent[j] = <<m, "H">>
      BY <2>1, <2>2, <2>4, <1>5, <1>7 DEF Preceded
    <3>2. j \in 1 .. Len(s)
      BY <1>2, <1>5
    <3>3. <<m, "H">> \in ToSet(s)
      <4>1. s[j] = <<m, "H">>
        BY <3>1, <3>2, <1>4
      <4> QED BY <4>1, <3>2, <1>2 DEF ToSet
    <3> QED BY <3>3, <1>3
  <2>5. of > answered /\ \A m \in Received : m > answered => of <= m
    BY DEF ToAnswer
  <2>6. of \in 1 .. MaxReq /\ MaxReq \in Nat
    BY <1>6, H1ClientAssumption DEF Ids
  <2>7. ASSUME of # answered + 1 PROVE FALSE
    <3>1. answered + 1 \in 1 .. MaxReq /\ answered + 1 < of /\ answered + 1 > answered
      BY <2>5, <2>6, <2>7, <1>1
    <3>2. answered + 1 \in Received
      BY <3>1, <2>4 DEF Ids
    <3>3. of <= answered + 1
      BY <3>1, <3>2, <2>5
    <3> QED BY <3>1, <3>3, <2>6, <1>1
  <2> QED BY <2>3, <2>7
<1> QED BY <1>6, <1>7

\* As long as the peer only answers, the front response is the one of the answer.
LEMMA FrontIsAnswered ==
  ASSUME H1CInv, Plain, Matching, NEW k \in Ids, Created(k),
         k = IF msg = NoMsg THEN answered + 1 ELSE answered
  PROVE  remotes # <<>> /\ Head(remotes) = k
<1>1. /\ \A n \in Ids : Created(n) =>
           (n \in ToSet(remotes) <=> n > answered \/ (msg # NoMsg /\ n = answered))
      /\ answered \in 0 .. MaxReq /\ remotes \in Seq(Ids) /\ Sorted(remotes)
      /\ \A n \in ToSet(remotes) : Created(n)
  BY DEF H1CInv, MatchOK, TypeOK, ListsOK
<1>2. k \in ToSet(remotes) /\ k \in Int /\ answered \in Int
  BY <1>1 DEF Ids
<1>3. remotes # <<>>
  BY <1>2 DEF ToSet
<1>4. /\ Head(remotes) \in Ids /\ Head(remotes) \in ToSet(remotes)
      /\ ToSet(Tail(remotes)) = ToSet(remotes) \ {Head(remotes)}
      /\ \A n \in ToSet(Tail(remotes)) : Head(remotes) < n
  BY <1>1, <1>3, TailFacts
<1>5. Head(remotes) \in Int /\ ~(Head(remotes) < k)
  BY <1>1, <1>2, <1>4 DEF Ids
<1>6. Head(remotes) = k
  BY <1>2, <1>4, <1>5
<1> QED BY <1>3, <1>6

\* What a parser callback leaves of the invariant once the events and the message are in order.
LEMMA RecvStep ==
  ASSUME H1CInv, RecvFrame, reading,
         evs' \in [Ids -> Seq(Events)], remotes' \in Seq(Ids), Sorted(remotes'),
         ToSet(remotes') \subseteq ToSet(remotes), \A n \in Ids : EventsOf(n)',
         msg' \in [kind : {"none", "answer", "interim", "extra"}, of : 0 .. MaxReq,
                   body : BOOLEAN],
         decoding_error' \in BOOLEAN, managing_continue' \in BOOLEAN,
         answered' \in 0 .. MaxReq, msgs' \in 0 .. MaxMsgs,
         RecvOK', MatchOK'
  PROVE  H1CInv'
<1>1. /\ UNCHANGED <<env, locals, q, connVars, user_close, myself, loopVars, timers, broken>>
      /\ conn # "gone"
  BY DEF RecvFrame, H1CInv, TellOK
<1>2. errs' \in Nat
  BY DEF RecvOK
<1>3. TypeOK'
  BY <1>1, <1>2 DEF H1CInv, TypeOK, connVars, loopVars
<1>4. ListsOK'
  BY <1>1 DEF H1CInv, ListsOK, Created
<1>5. LoopOK' /\ WriterOK' /\ SentOK' /\ TellOK' /\ \A n \in Ids : RequestOK(n)'
  BY <1>1, RequestsKept
<1> QED BY <1>3, <1>4, <1>5 DEF H1CInv

\* What arrives after the user closed the connection goes to a response created since.
LEMMA LateFront ==
  ASSUME H1CInv, user_close, remotes # <<>>
  PROVE  q[Head(remotes)].late
<1>1. Head(remotes) \in ToSet(remotes)
  BY TailFacts DEF H1CInv, TypeOK, ListsOK
<1> QED BY <1>1 DEF H1CInv, TellOK

\* The headers of a message go to the first response, if one is expected.
LEMMA RecvHeadersStep ==
  ASSUME H1CInv, NEW kind \in {"answer", "interim", "extra"}, RecvHeaders(kind)
  PROVE  H1CInv'
<1>1. /\ reading /\ msg = NoMsg /\ msgs < MaxMsgs
      /\ msgs' = msgs + 1 /\ decoding_error' = (remotes = <<>>)
      /\ errs' = (IF remotes = <<>> THEN 1 ELSE 0)
      /\ managing_continue' = (remotes # <<>> /\ kind = "interim")
      /\ evs' = (IF remotes = <<>> \/ kind = "interim" THEN evs
                 ELSE [evs EXCEPT ![Head(remotes)] = Append(@, [ev |-> "headers", of |-> msg'.of])])
      /\ remotes' = remotes /\ RecvFrame
  BY DEF RecvHeaders
<1>2. PICK of \in 0 .. MaxReq :
        /\ \/ kind = "answer" /\ ToAnswer(of) /\ answered' = of
           \/ kind = "interim" /\ "continue" \in env /\ ToAnswer(of) /\ answered' = answered
           \/ kind = "extra" /\ "extra" \in env /\ of = 0 /\ answered' = answered
        /\ msg' = [kind |-> kind, of |-> of, body |-> FALSE]
  BY DEF RecvHeaders
<1> DEFINE x == [ev |-> "headers", of |-> of]
<1>3. /\ env' = env /\ q' = q /\ reading' = reading /\ user_close' = user_close
      /\ answered \in 0 .. MaxReq /\ answered' \in 0 .. MaxReq /\ msgs \in 0 .. MaxMsgs
      /\ remotes \in Seq(Ids) /\ Sorted(remotes) /\ evs \in [Ids -> Seq(Events)]
  BY <1>1, <1>2 DEF RecvFrame, connVars, H1CInv, TypeOK, ListsOK
<1>4. msgs' \in 0 .. MaxMsgs
  BY <1>1, <1>3, H1ClientAssumption
<1>5. x \in Events /\ x.ev = "headers" /\ x.of = of /\ x.ev \notin Final
  BY DEF Events, Final, Outcomes
<1>6. msg'.of = of /\ msg'.kind = kind /\ msg' # NoMsg
      /\ msg' \in [kind : {"none", "answer", "interim", "extra"}, of : 0 .. MaxReq,
                   body : BOOLEAN]
  BY <1>2 DEF NoMsg
<1>7. ASSUME Plain, ~user_close
      PROVE  /\ kind = "answer" /\ answered' = of /\ of = answered + 1 /\ of \in Ids
             /\ Created(of) /\ remotes # <<>> /\ Head(remotes) = of
  <2>1. kind = "answer" /\ answered' = of /\ ToAnswer(of)
    BY <1>2, <1>7 DEF Plain
  <2>2. of \in Ids /\ Created(of) /\ of = answered + 1
    BY <2>1, <1>7, ReceivedFacts
  <2>3. Matching
    BY <1>1, <1>7 DEF Matching
  <2> QED BY <2>1, <2>2, <2>3, <1>1, <1>7, FrontIsAnswered
<1> HIDE DEF x
<1>8. /\ evs' \in [Ids -> Seq(Events)] /\ \A n \in Ids : EventsOf(n)'
      /\ remotes # <<>> /\ kind # "interim" => evs'[Head(remotes)] # <<>>
      /\ Plain => \A n \in Ids : ~q[n].late => \A i \in DOMAIN evs'[n] : evs'[n][i].of = n
  <2>1. CASE remotes = <<>> \/ kind = "interim"
    <3>1. evs' = evs
      BY <2>1, <1>1
    <3>2. \A n \in Ids : EventsOf(n)'
      BY <3>1, <1>1, <1>3 DEF H1CInv, EventsOf, Created
    <3> QED BY <2>1, <3>1, <3>2, <1>3 DEF H1CInv, MatchOK
  <2>2. CASE remotes # <<>> /\ kind # "interim"
    <3>1. evs' = [evs EXCEPT ![Head(remotes)] = Append(@, x)]
      BY <2>2, <1>1, <1>6 DEF x
    <3>2. Plain => x.of = Head(remotes) \/ q[Head(remotes)].late
      BY <2>2, <1>5, <1>7, LateFront
    <3>3. x.ev \notin {"body", "finished"} /\ remotes' = IF x.ev \in Final THEN Tail(remotes) ELSE remotes
      BY <1>1, <1>5
    <3>4. /\ evs' \in [Ids -> Seq(Events)] /\ evs'[Head(remotes)] # <<>>
          /\ \A n \in Ids : EventsOf(n)'
          /\ Plain /\ (x.of = Head(remotes) \/ q[Head(remotes)].late) =>
               \A n \in Ids : ~q[n].late => \A i \in DOMAIN evs'[n] : evs'[n][i].of = n
      BY <2>2, <3>1, <3>3, <1>3, <1>5, EventStep
    <3> QED BY <3>2, <3>4
  <2> QED BY <2>1, <2>2
<1>9. RecvOK'
  <2>1. errs' \in 0 .. 1 /\ (~decoding_error' => errs' = 0 /\ remotes # <<>>)
    <3>1. errs' = (IF remotes = <<>> THEN 1 ELSE 0) /\ decoding_error' = (remotes = <<>>)
      BY <1>1
    <3>2. errs' \in 0 .. 1
      BY <3>1
    <3>3. ~decoding_error' => remotes # <<>> /\ errs' = 0
      BY <3>1
    <3> QED BY <3>2, <3>3
  <2>2. ~decoding_error' => (managing_continue' <=> kind = "interim")
    BY <1>1
  <2> QED BY <2>1, <2>2, <1>1, <1>6, <1>8 DEF RecvOK
<1>10. MatchOK'
  <2> SUFFICES ASSUME Plain, ~user_close
               PROVE  /\ answered' \in Ids /\ Created(answered)'
                      /\ msg'.kind = "answer" /\ msg'.of = answered' /\ ~decoding_error'
                      /\ \A n \in Ids : Created(n)' =>
                           (n \in ToSet(remotes') <=> n > answered' \/ n = answered')
    BY <1>3, <1>6, <1>8 DEF MatchOK, Plain, Matching
  <2>1. /\ kind = "answer" /\ answered' = of /\ of = answered + 1 /\ remotes # <<>>
        /\ of \in Ids /\ Created(of)
    BY <1>7
  <2>2. \A n \in Ids : Created(n)' <=> Created(n)
    BY <1>3 DEF Created
  <2>3. ASSUME NEW n \in Ids, Created(n)
        PROVE  n \in ToSet(remotes) <=> n > answered + 1 \/ n = answered + 1
    <3>1. n \in ToSet(remotes) <=> n > answered
      BY <2>3, <1>1 DEF H1CInv, MatchOK, Matching
    <3>2. n \in Int /\ answered \in Int
      BY <1>3 DEF Ids
    <3> QED BY <3>1, <3>2
  <2>4. answered' \in Ids /\ Created(answered)'
    BY <2>1, <1>3 DEF Created
  <2>5. ~decoding_error'
    BY <2>1, <1>1
  <2> QED BY <2>1, <2>2, <2>3, <2>4, <2>5, <1>1, <1>6
<1> QED BY <1>1, <1>3, <1>4, <1>6, <1>8, <1>9, <1>10, RecvStep

\* get_current() fails at most once in a message, and never when the peer only answers.
LEMMA CurrentFacts ==
  ASSUME H1CInv, reading, msg # NoMsg
  PROVE  /\ Current(decoding_error) # 0 =>
              /\ ~decoding_error /\ remotes # <<>> /\ Head(remotes) \in Ids
              /\ Plain => \/ q[Head(remotes)].late
                          \/ ~user_close /\ Head(remotes) = msg.of /\ msg.of = answered
         /\ Current(decoding_error) = 0 =>
              /\ (Plain => user_close) /\ (decoding_error \/ remotes = <<>>)
              /\ CurrentFails(decoding_error) => decoding_error' = TRUE /\ errs' \in 0 .. 1
<1>1. /\ remotes \in Seq(Ids) /\ 0 \notin Ids
  BY DEF H1CInv, TypeOK, Ids
<1>2. remotes # <<>> => Head(remotes) \in Ids
  BY <1>1
<1>3. ASSUME Plain, ~user_close
      PROVE  /\ remotes # <<>> /\ Head(remotes) = answered /\ msg.of = answered
             /\ ~decoding_error
  <2>1. Matching
    BY <1>3 DEF Matching
  <2>2. answered \in Ids /\ Created(answered) /\ msg.of = answered /\ ~decoding_error
    BY <2>1, <1>3 DEF H1CInv, MatchOK
  <2> QED BY <2>1, <2>2, <1>3, FrontIsAnswered
<1>4. errs \in 0 .. 1 /\ (~decoding_error => errs = 0) /\ decoding_error \in BOOLEAN
  BY DEF H1CInv, RecvOK, TypeOK
<1>5. Current(decoding_error) = 0 <=> decoding_error \/ remotes = <<>>
  BY <1>1, <1>2, <1>4 DEF Current
<1>6. ASSUME decoding_error \/ remotes = <<>>, CurrentFails(decoding_error)
      PROVE  decoding_error' = TRUE /\ errs' \in 0 .. 1
  <2>1. decoding_error' = TRUE
    BY <1>6 DEF CurrentFails
  <2>2. errs' = errs + (IF ~decoding_error /\ remotes = <<>> THEN 1 ELSE 0)
    BY <1>6 DEF CurrentFails
  <2>3. errs' = errs \/ (errs = 0 /\ errs' = 1)
    BY <2>2, <1>4
  <2> QED BY <2>1, <2>3, <1>4
<1> QED BY <1>2, <1>3, <1>5, <1>6, LateFront

\* The body goes to the response that got the headers.
LEMMA RecvBodyStep ==
  ASSUME H1CInv, RecvBody
  PROVE  H1CInv'
<1>1. /\ reading /\ msg.kind \in {"answer", "extra"} /\ msg # NoMsg
      /\ msg' = [msg EXCEPT !.body = TRUE] /\ RecvFrame
      /\ remotes' = remotes /\ managing_continue' = managing_continue
      /\ answered' = answered /\ msgs' = msgs
  BY DEF RecvBody, NoMsg
<1>2. /\ env' = env /\ q' = q /\ reading' = reading /\ user_close' = user_close
      /\ answered \in 0 .. MaxReq /\ msgs \in 0 .. MaxMsgs
      /\ remotes \in Seq(Ids) /\ Sorted(remotes) /\ evs \in [Ids -> Seq(Events)]
      /\ managing_continue \in BOOLEAN /\ decoding_error \in BOOLEAN
  BY <1>1 DEF RecvFrame, connVars, H1CInv, TypeOK, ListsOK
<1>3. /\ msg'.of = msg.of /\ msg'.kind = msg.kind /\ msg' # NoMsg /\ msg.of \in 0 .. MaxReq
      /\ msg' \in [kind : {"none", "answer", "interim", "extra"}, of : 0 .. MaxReq,
                   body : BOOLEAN]
  <2>1. msg \in [kind : {"none", "answer", "interim", "extra"}, of : 0 .. MaxReq,
                 body : BOOLEAN]
    BY DEF H1CInv, TypeOK
  <2> QED BY <2>1, <1>1 DEF NoMsg
<1>4. CASE Current(decoding_error) = 0
  <2>1. evs' = evs /\ (Plain => user_close) /\ decoding_error' = TRUE /\ errs' \in 0 .. 1
    BY <1>1, <1>4, CurrentFacts DEF RecvBody
  <2>2. \A n \in Ids : EventsOf(n)'
    BY <2>1, <1>1, <1>2 DEF H1CInv, EventsOf, Created
  <2>3. RecvOK'
    BY <2>1, <1>1, <1>2, <1>3 DEF RecvOK
  <2>4. MatchOK'
    BY <2>1, <1>2 DEF H1CInv, MatchOK, Plain, Matching
  <2> QED BY <2>1, <2>2, <2>3, <2>4, <1>1, <1>2, <1>3, RecvStep
<1>5. CASE Current(decoding_error) # 0
  <2> DEFINE x == [ev |-> "body", of |-> msg.of]
  <2>1. /\ evs' = [evs EXCEPT ![Head(remotes)] = Append(@, x)]
        /\ decoding_error' = decoding_error /\ errs' = errs
    BY <1>5 DEF RecvBody, Report
  <2>2. x \in Events /\ x.ev = "body" /\ x.of = msg.of /\ x.ev \notin Final
    BY <1>3 DEF Events, Final, Outcomes
  <2> HIDE DEF x
  <2>3. /\ ~decoding_error /\ remotes # <<>>
        /\ Plain => x.of = Head(remotes) \/ q[Head(remotes)].late
    BY <1>1, <1>5, <2>2, CurrentFacts
  <2>4. "drop" \notin env /\ ~q[Head(remotes)].late => evs[Head(remotes)] # <<>>
    BY <2>3, <1>1, LateFront DEF H1CInv, RecvOK, Matching
  <2>5. /\ evs' \in [Ids -> Seq(Events)] /\ evs'[Head(remotes)] # <<>>
        /\ \A n \in Ids : EventsOf(n)'
        /\ Plain => \A n \in Ids : ~q[n].late => \A i \in DOMAIN evs'[n] : evs'[n][i].of = n
    <3>1. /\ \/ evs[Head(remotes)] # <<>> \/ x.ev \notin {"body", "finished"} \/ "drop" \in env
             \/ q[Head(remotes)].late
          /\ remotes' = IF x.ev \in Final THEN Tail(remotes) ELSE remotes
          /\ \A n \in Ids : q'[n].stage = q[n].stage /\ q'[n].late = q[n].late
      BY <2>2, <2>4, <1>1, <1>2
    <3>2. /\ evs' \in [Ids -> Seq(Events)] /\ evs'[Head(remotes)] # <<>>
          /\ \A n \in Ids : EventsOf(n)'
          /\ Plain /\ (x.of = Head(remotes) \/ q[Head(remotes)].late) =>
               \A n \in Ids : ~q[n].late => \A i \in DOMAIN evs'[n] : evs'[n][i].of = n
      BY <3>1, <2>1, <2>2, <2>3, <1>2, EventStep
    <3> QED BY <3>2, <2>3
  <2>6. RecvOK'
    BY <2>1, <2>5, <1>1, <1>2, <1>3 DEF H1CInv, RecvOK, Matching
  <2>7. MatchOK'
    BY <2>1, <2>5, <1>1, <1>2, <1>3 DEF H1CInv, MatchOK, Plain, Created, Matching
  <2> QED BY <2>1, <2>5, <2>6, <2>7, <1>1, <1>2, <1>3, RecvStep
<1> QED BY <1>4, <1>5

\* The end of a message takes the response off the list.
LEMMA RecvEndStep ==
  ASSUME H1CInv, RecvEnd
  PROVE  H1CInv'
<1>1. /\ reading /\ msg # NoMsg /\ msg' = NoMsg /\ RecvFrame
      /\ managing_continue' = managing_continue /\ answered' = answered /\ msgs' = msgs
  BY DEF RecvEnd
<1>2. /\ env' = env /\ q' = q /\ reading' = reading /\ user_close' = user_close
      /\ answered \in 0 .. MaxReq /\ msgs \in 0 .. MaxMsgs
      /\ remotes \in Seq(Ids) /\ Sorted(remotes) /\ evs \in [Ids -> Seq(Events)]
      /\ managing_continue \in BOOLEAN /\ decoding_error \in BOOLEAN
      /\ msg.of \in 0 .. MaxReq /\ errs \in 0 .. 1
  BY <1>1 DEF RecvFrame, connVars, H1CInv, TypeOK, ListsOK, RecvOK
<1>3. NoMsg \in [kind : {"none", "answer", "interim", "extra"}, of : 0 .. MaxReq,
                 body : BOOLEAN]
  BY H1ClientAssumption DEF NoMsg
<1>4. CASE Current(decoding_error) = 0
  <2>1. /\ evs' = evs /\ remotes' = remotes /\ (Plain => user_close) /\ decoding_error' = TRUE
        /\ errs' \in 0 .. 1
    BY <1>1, <1>4, CurrentFacts DEF RecvEnd
  <2>2. \A n \in Ids : EventsOf(n)'
    BY <2>1, <1>1, <1>2 DEF H1CInv, EventsOf, Created
  <2>3. RecvOK'
    BY <2>1, <1>1, <1>2 DEF RecvOK
  <2>4. MatchOK'
    BY <2>1, <1>2 DEF H1CInv, MatchOK, Plain, Matching
  <2> QED BY <2>1, <2>2, <2>3, <2>4, <1>1, <1>2, <1>3, RecvStep
<1>5. CASE Current(decoding_error) # 0
  <2> DEFINE ev == IF managing_continue THEN "continue" ELSE "finished"
             x == [ev |-> ev, of |-> msg.of]
  <2>1. /\ evs' = [evs EXCEPT ![Head(remotes)] = Append(@, x)] /\ remotes' = Tail(remotes)
        /\ decoding_error' = decoding_error /\ errs' = errs
    BY <1>5 DEF RecvEnd, Report
  <2>2. x \in Events /\ x.ev = ev /\ x.of = msg.of /\ x.ev \in Final
    BY <1>2 DEF Events, Final, Outcomes
  <2>3. /\ ~decoding_error /\ remotes # <<>>
        /\ Plain => \/ q[Head(remotes)].late
                    \/ ~user_close /\ Head(remotes) = msg.of /\ msg.of = answered
    BY <1>1, <1>5, CurrentFacts
  <2>4. \/ evs[Head(remotes)] # <<>> \/ x.ev \notin {"body", "finished"} \/ "drop" \in env
        \/ q[Head(remotes)].late
    BY <2>2, <2>3, <1>1, LateFront DEF H1CInv, RecvOK, Matching
  <2> HIDE DEF x, ev
  <2>5. /\ evs' \in [Ids -> Seq(Events)] /\ remotes' \in Seq(Ids) /\ Sorted(remotes')
        /\ ToSet(remotes') \subseteq ToSet(remotes) /\ \A n \in Ids : EventsOf(n)'
        /\ Plain => \A n \in Ids : ~q[n].late => \A i \in DOMAIN evs'[n] : evs'[n][i].of = n
    <3>1. /\ remotes' = IF x.ev \in Final THEN Tail(remotes) ELSE remotes
          /\ \A n \in Ids : q'[n].stage = q[n].stage /\ q'[n].late = q[n].late
      BY <2>1, <2>2, <1>2
    <3>2. /\ evs' \in [Ids -> Seq(Events)] /\ remotes' \in Seq(Ids) /\ Sorted(remotes')
          /\ ToSet(remotes') \subseteq ToSet(remotes) /\ \A n \in Ids : EventsOf(n)'
          /\ Plain /\ (x.of = Head(remotes) \/ q[Head(remotes)].late) =>
               \A n \in Ids : ~q[n].late => \A i \in DOMAIN evs'[n] : evs'[n][i].of = n
      BY <3>1, <2>1, <2>2, <2>3, <2>4, <1>2, EventStep
    <3>3. Plain => x.of = Head(remotes) \/ q[Head(remotes)].late
      BY <2>2, <2>3
    <3> QED BY <3>2, <3>3
  <2>6. RecvOK'
    BY <2>1, <1>1, <1>2 DEF RecvOK
  <2>7. MatchOK'
    <3> SUFFICES ASSUME Plain, ~user_close
                 PROVE  /\ answered \in Ids => Created(answered)'
                        /\ \A n \in Ids : Created(n)' =>
                             (n \in ToSet(remotes') <=> n > answered)
      BY <2>5, <1>1, <1>2 DEF MatchOK, Plain, Matching
    <3>0. Matching
      BY <1>1 DEF Matching
    <3>1. answered \in Ids => Created(answered)'
      BY <3>0, <1>1, <1>2 DEF H1CInv, MatchOK, Created
    <3>4. answered \in Ids /\ Created(answered)
      BY <3>0, <1>1 DEF H1CInv, MatchOK
    <3>5. Head(remotes) = answered
      BY <3>0, <3>4, <1>1, FrontIsAnswered
    <3>2. ToSet(remotes') = ToSet(remotes) \ {answered}
      BY <2>1, <2>3, <3>5, <1>2, TailFacts
    <3>3. ASSUME NEW n \in Ids, Created(n)' PROVE n \in ToSet(remotes') <=> n > answered
      <4>1. Created(n)
        BY <3>3, <1>2 DEF Created
      <4>2. n \in ToSet(remotes) <=> n > answered \/ n = answered
        BY <4>1, <3>0, <1>1 DEF H1CInv, MatchOK
      <4>3. n \in Int /\ answered \in Int
        BY <1>2 DEF Ids
      <4> QED BY <4>2, <4>3, <3>2
    <3> QED BY <3>1, <3>3
  <2> QED BY <2>1, <2>5, <2>6, <2>7, <1>1, <1>2, <1>3, RecvStep
<1> QED BY <1>4, <1>5

\* A message the parser rejects: the first response fails, and the last request of the list.
LEMMA RecvBadStep ==
  ASSUME H1CInv, RecvBad
  PROVE  H1CInv'
<1> DEFINE derr == msg # NoMsg /\ decoding_error
<1>1. /\ "bad" \in env /\ reading /\ polling = <<>> /\ msg' = NoMsg /\ conn' = "stopped"
      /\ reading' = FALSE
      /\ UNCHANGED <<env, ser, fly, cbs, flying, wire, pcc, cut, managing_continue, answered, msgs,
                     user_close, myself, loopVars, timers>>
  BY DEF RecvBad, Idle
<1>2. /\ remotes \in Seq(Ids) /\ locals \in Seq(Ids) /\ Sorted(remotes) /\ Sorted(locals)
      /\ evs \in [Ids -> Seq(Events)] /\ q \in [Ids -> Requests]
      /\ decoding_error \in BOOLEAN /\ errs \in 0 .. 1 /\ broken \in BOOLEAN
      /\ pcc \subseteq Ids /\ cbs \subseteq Ids
      /\ ToSet(locals) \subseteq Ids /\ ToSet(remotes) \subseteq Ids
  BY DEF H1CInv, TypeOK, ListsOK, RecvOK, ToSet
<1>3. NoMsg \in [kind : {"none", "answer", "interim", "extra"}, of : 0 .. MaxReq,
                 body : BOOLEAN]
  BY H1ClientAssumption DEF NoMsg
\* What happens to the requests.
<1>4. /\ q' \in [Ids -> Requests]
      /\ locals' \in Seq(Ids) /\ Sorted(locals') /\ ToSet(locals') \subseteq ToSet(locals)
      /\ \A n \in Ids :
           /\ q'[n].stage = q[n].stage /\ q'[n].held = q[n].held /\ q'[n].h = q[n].h
           /\ q'[n].b = q[n].b /\ q'[n].e = q[n].e /\ q'[n].eom = q[n].eom
           /\ q'[n].late = q[n].late
           /\ n \notin ToSet(locals) => q'[n] = q[n]
           /\ q'[n] = q[n] \/ (~q'[n].self /\ q'[n].told # {})
           /\ "cleared" \in q'[n].told => "cleared" \in q[n].told
  <2>1. CASE locals' = locals /\ q' = q
    BY <2>1, <1>2
  <2>2. CASE locals # <<>> /\ locals' = Tail(locals) /\ q' = q
    BY <2>2, <1>2, TailFacts
  <2>3. CASE locals # <<>> /\ locals' = Tail(locals)
             /\ q' = TellRequests(q, {Last(locals)}, "error")
    <3>1. Last(locals) \in ToSet(locals)
      BY <2>3, <1>2 DEF Last, ToSet
    <3>2. /\ q' \in [Ids -> Requests]
          /\ \A n \in Ids :
               /\ q'[n].stage = q[n].stage /\ q'[n].held = q[n].held /\ q'[n].h = q[n].h
               /\ q'[n].b = q[n].b /\ q'[n].e = q[n].e /\ q'[n].eom = q[n].eom
               /\ q'[n].late = q[n].late
               /\ n # Last(locals) => q'[n] = q[n]
               /\ n = Last(locals) => /\ ~q'[n].self /\ q'[n].told # {}
                                      /\ q'[n].told = q[n].told \cup {"error"}
      <4> DEFINE S == {Last(locals)}
      <4>1. \A n \in Ids : n \in S <=> n = Last(locals)
        OBVIOUS
      <4>2. q' = TellRequests(q, S, "error")
        BY <2>3
      <4> HIDE DEF S
      <4>3. /\ q' \in [Ids -> Requests]
            /\ \A n \in Ids :
                 /\ q'[n].stage = q[n].stage /\ q'[n].held = q[n].held /\ q'[n].h = q[n].h
                 /\ q'[n].b = q[n].b /\ q'[n].e = q[n].e /\ q'[n].eom = q[n].eom
                 /\ q'[n].late = q[n].late
                 /\ n \notin S => q'[n] = q[n]
                 /\ n \in S => /\ ~q'[n].self /\ q'[n].told # {}
                               /\ q'[n].told = q[n].told \cup {"error"}
        <5>1. q \in [Ids -> Requests]
          BY <1>2
        <5> QED BY <5>1, <4>2, TellFacts
      <4> QED BY <4>1, <4>3
    <3>3. /\ locals' \in Seq(Ids) /\ Sorted(locals') /\ ToSet(locals') \subseteq ToSet(locals)
      BY <2>3, <1>2, TailFacts
    <3>4. \A n \in Ids : "cleared" \in q'[n].told => "cleared" \in q[n].told
      BY <3>2
    <3> QED BY <3>1, <3>2, <3>3, <3>4
  <2> QED BY <2>1, <2>2, <2>3 DEF RecvBad
\* What happens to the responses.
<1>5. /\ evs' \in [Ids -> Seq(Events)] /\ remotes' \in Seq(Ids) /\ Sorted(remotes')
      /\ ToSet(remotes') \subseteq ToSet(remotes) /\ \A n \in Ids : EventsOf(n)'
      /\ Plain => \A n \in Ids : ~q[n].late => \A i \in DOMAIN evs'[n] : evs'[n][i].of = n
      /\ decoding_error' \in BOOLEAN /\ errs' \in 0 .. 1 /\ broken' \in BOOLEAN
  <2>1. CASE Current(derr) = 0
    <3>1. evs' = evs /\ remotes' = remotes /\ q' = q /\ broken' = broken /\ CurrentFails(derr)
      BY <2>1 DEF RecvBad
    <3>2. \A n \in Ids : EventsOf(n)'
      BY <3>1, <1>1 DEF H1CInv, EventsOf, Created
    <3>3. decoding_error' \in BOOLEAN
      BY <3>1 DEF CurrentFails
    <3>4. errs' \in 0 .. 1
      <4>1. errs' = (IF msg = NoMsg THEN 0 ELSE errs) + (IF ~derr /\ remotes = <<>> THEN 1 ELSE 0)
        BY <3>1 DEF CurrentFails
      <4>2. CASE msg = NoMsg
        BY <4>1, <4>2
      <4>3. CASE msg # NoMsg /\ decoding_error
        BY <4>1, <4>3, <1>2
      <4>4. CASE msg # NoMsg /\ ~decoding_error
        <5>1. errs = 0
          BY <4>4 DEF H1CInv, RecvOK
        <5> QED BY <4>1, <4>4, <5>1
      <4> QED BY <4>2, <4>3, <4>4, <1>2
    <3>5. Plain => \A n \in Ids : ~q[n].late => \A i \in DOMAIN evs'[n] : evs'[n][i].of = n
      BY <3>1 DEF H1CInv, MatchOK
    <3> QED BY <3>1, <3>2, <3>3, <3>4, <3>5, <1>2
  <2>2. CASE Current(derr) # 0
    <3> DEFINE x == [ev |-> "error", of |-> Head(remotes)]
    <3>1. /\ evs' = [evs EXCEPT ![Head(remotes)] = Append(@, x)] /\ remotes' = Tail(remotes)
          /\ broken' = (locals = <<>>) /\ decoding_error' = decoding_error /\ errs' = errs
      BY <2>2 DEF RecvBad
    <3>2. remotes # <<>>
      BY <2>2 DEF Current
    <3>3. Head(remotes) \in 0 .. MaxReq
      <4>1. Head(remotes) \in Ids
        BY <3>2, <1>2
      <4> QED BY <4>1 DEF Ids
    <3>4. x \in Events /\ x.ev = "error" /\ x.of = Head(remotes) /\ x.ev \in Final
      BY <3>3 DEF Events, Final, Outcomes
    <3> HIDE DEF x
    <3> QED BY <3>1, <3>2, <3>4, <1>1, <1>2, <1>4, EventStep
  <2> QED BY <2>1, <2>2
<1>6. TypeOK'
  <2>1. errs' \in Nat
    BY <1>5
  <2>2. reading' \in BOOLEAN
    BY <1>1
  <2> QED BY <2>1, <2>2, <1>1, <1>3, <1>4, <1>5 DEF H1CInv, TypeOK, loopVars
<1>7. \A n \in Ids : (Created(n)' <=> Created(n)) /\ (Over(n) => Over(n)')
  BY <1>4 DEF Created, Over
<1>8. ListsOK' /\ LoopOK'
  <2>1. \A n \in ToSet(locals') \cup ToSet(remotes') : Created(n)'
    BY <1>2, <1>4, <1>5, <1>7 DEF H1CInv, ListsOK
  <2>2. ListsOK'
    BY <2>1, <1>4, <1>5, <1>7 DEF H1CInv, ListsOK
  <2>3. polling' = <<>> /\ ~clearing' /\ ~clearing
    BY <1>1 DEF H1CInv, LoopOK, loopVars
  <2>4. "nested" \notin env => \A n \in ToSet(locals') : ~q'[n].eom
    BY <2>3, <1>2, <1>4 DEF H1CInv, LoopOK
  <2>5. LoopOK'
    BY <2>3, <2>4, <1>1 DEF LoopOK
  <2> QED BY <2>2, <2>5
<1>9. ASSUME NEW n \in Ids PROVE RequestOK(n)'
  <2>1. RequestOK(n) /\ (n \in ToSet(locals) => Created(n))
    BY DEF H1CInv, ListsOK
  <2> QED BY <2>1, <1>1, <1>4 DEF RequestOK, Created
<1>10. WriterOK'
  <2>1. \A n \in pcc \cup cbs : q'[n].eom
    BY <1>2, <1>4 DEF H1CInv, WriterOK
  <2>2. \A n \in Ids : "cleared" \in q'[n].told =>
          q'[n].eom /\ NoneOf(n, ser) /\ NoneOf(n, fly)
    BY <1>4 DEF H1CInv, WriterOK
  <2> QED BY <2>1, <2>2, <1>1 DEF H1CInv, WriterOK, NoneOf
<1>11. SentOK'
  BY <1>1, <1>7, SentStopped
<1>12. TellOK'
  <2>1. \A n \in ToSet(locals') : q'[n].stage = "ended" /\ q'[n].told = {} => q'[n].self
    BY <1>2, <1>4 DEF H1CInv, TellOK
  <2>2. user_close => \A n \in ToSet(remotes') : q'[n].late
    BY <1>2, <1>4, <1>5 DEF H1CInv, TellOK
  <2>3. \A n \in Ids : q'[n].eom /\ q'[n].told = {} => n \in pcc \cup cbs
    BY <1>4 DEF H1CInv, TellOK
  <2> QED BY <2>1, <2>2, <2>3, <1>1 DEF TellOK
<1>13. RecvOK' /\ MatchOK'
  BY <1>1, <1>4, <1>5 DEF RecvOK, MatchOK, Plain, Matching
<1> QED BY <1>5, <1>6, <1>8, <1>9, <1>10, <1>11, <1>12, <1>13 DEF H1CInv

-----------------------------------------------------------------------------
(* The theorems. *)

\* The invariant holds when the connection begins.
LEMMA InitOK ==
  ASSUME Init
  PROVE  H1CInv
<1> USE DEF Init
<1>1. \A n \in Ids : q[n] = NewRequest /\ evs[n] = <<>>
  OBVIOUS
<1>2. NewRequest \in Requests
  BY DEF NewRequest, Requests
<1>3. NoMsg \in [kind : {"none", "answer", "interim", "extra"}, of : 0 .. MaxReq,
                 body : BOOLEAN]
  BY H1ClientAssumption DEF NoMsg
<1>4. TypeOK
  <2>1. q \in [Ids -> Requests] /\ evs \in [Ids -> Seq(Events)]
    BY <1>2
  <2>2. locals \in Seq(Ids) /\ remotes \in Seq(Ids)
    OBVIOUS
  <2>3. ser \in Seq(Pieces) /\ fly \in Seq(Pieces) /\ wire \in Seq(Pieces)
    OBVIOUS
  <2>4. 0 \in 0 .. MaxReq /\ 0 \in 0 .. MaxMsgs
    BY H1ClientAssumption
  <2>5. /\ pcc = {} /\ cbs = {} /\ flying = FALSE /\ conn = "open" /\ user_close = FALSE
        /\ myself = TRUE /\ decoding_error = FALSE /\ managing_continue = FALSE
        /\ msg = NoMsg /\ answered = 0 /\ msgs = 0 /\ errs = 0 /\ timers = 0
        /\ broken = FALSE /\ reading = TRUE /\ clearing = FALSE
        /\ cut = IF "cancel" \in env THEN {"timer"} ELSE {}
    OBVIOUS
  <2>8. polling \in Seq(Ids)
    OBVIOUS
  <2> HIDE DEF Init
  <2>6. /\ answered \in 0 .. MaxReq /\ msgs \in 0 .. MaxMsgs /\ errs \in Nat
        /\ timers \in 0 .. 1
    BY <2>4, <2>5
  <2>7. /\ pcc \subseteq Ids /\ cbs \subseteq Ids /\ flying \in BOOLEAN
        /\ conn \in {"open", "stopped", "gone"}
        /\ user_close \in BOOLEAN /\ myself \in BOOLEAN
        /\ decoding_error \in BOOLEAN /\ managing_continue \in BOOLEAN /\ broken \in BOOLEAN
        /\ reading \in BOOLEAN /\ clearing \in BOOLEAN
        /\ cut \in {{"timer"}} \cup SUBSET {"read", "write"}
    BY <2>5
  <2> QED BY <2>1, <2>2, <2>3, <2>5, <2>6, <2>7, <2>8, <1>3 DEF TypeOK
<1>5. ToSet(locals) = {} /\ ToSet(remotes) = {} /\ Sent = <<>> /\ ToSet(Sent) = {} /\ Len(Sent) = 0
  BY DEF ToSet, Sent
<1>6. \A n \in Ids : ~Created(n) /\ q[n].told = {}
  BY <1>1 DEF Created, NewRequest
<1>7. ListsOK
  BY <1>5, <1>6 DEF ListsOK, Sorted
<1>15. LoopOK
  BY <1>5 DEF LoopOK
<1>8. \A n \in Ids : RequestOK(n)
  BY <1>1, <1>6 DEF RequestOK, NewRequest
<1>9. WriterOK
  BY <1>6 DEF WriterOK
<1>16. \A n \in Ids : ~q[n].eom
  BY <1>1 DEF NewRequest
<1>10. SentOK
  BY <1>5, <1>6 DEF SentOK, Whole, SentBefore, SentAll
<1>11. TellOK
  BY <1>5, <1>6, <1>16 DEF TellOK
<1>12. \A n \in Ids : EventsOf(n)
  BY <1>1, <1>5, <1>6 DEF EventsOf
<1>13. RecvOK
  BY DEF RecvOK
<1>14. MatchOK
  <2>1. 0 \notin Ids
    BY DEF Ids
  <2> QED BY <2>1, <1>1, <1>6 DEF MatchOK
<1> QED BY <1>4, <1>7, <1>8, <1>9, <1>10, <1>11, <1>12, <1>13, <1>14, <1>15 DEF H1CInv

\* Every step keeps the invariant.
LEMMA NextOK ==
  ASSUME H1CInv, [Next]_vars
  PROVE  H1CInv'
<1>1. ASSUME NEW n \in Ids, CreateTransaction(n) \/ Headers(n) \/ Body(n) \/ End(n) \/ Drop(n)
      PROVE  H1CInv'
  BY <1>1, CreateStep, HeadersStep, BodyStep, EndStep, DropStep
<1>2. CASE \/ PollHeaders \/ PollBody \/ PollEnd \/ ClearedReturns \/ PollPending
           \/ PollExpired
  BY <1>2, PollHeadersStep, PollBodyStep, PollEndStep, ClearedReturnsStep, PollPendingStep,
     PollExpiredStep
<1>3. CASE Close
  BY <1>3, CloseStep
<1>4. ASSUME NEW kind \in {"answer", "interim", "extra"}, RecvHeaders(kind)
      PROVE  H1CInv'
  BY <1>4, RecvHeadersStep
<1>5. CASE RecvBody \/ RecvEnd \/ RecvBad
  BY <1>5, RecvBodyStep, RecvEndStep, RecvBadStep
<1>6. CASE \/ WriteOk \/ (\E n \in 0 .. Len(fly) : WriteAborted(n))
           \/ ReadFailed \/ ReadOver \/ SocketCanceled \/ OnConnectorNulled
  BY <1>6, WriteOkStep, WriteAbortedStep, ReadOverStep, SocketCanceledStep,
     OnConnectorNulledStep
<1>7. CASE TimerFires \/ RunTimeout
  BY <1>7, TimerStep
<1>8. CASE UNCHANGED vars
  <2>1. UNCHANGED <<env, locals, remotes, q, evs, connVars, recvVars, user_close, loopVars>>
    BY <1>8 DEF vars
  <2>2. TypeOK' /\ ListsOK'
    BY <1>8 DEF vars, connVars, recvVars, loopVars, H1CInv, TypeOK, ListsOK, Created
  <2>3. LoopOK' /\ WriterOK' /\ SentOK' /\ TellOK' /\ \A n \in Ids : RequestOK(n)'
    BY <2>1, RequestsKept
  <2>4. RecvOK' /\ MatchOK' /\ \A n \in Ids : EventsOf(n)'
    BY <2>1, ResponsesKept DEF connVars
  <2> QED BY <2>2, <2>3, <2>4 DEF H1CInv
<1> QED BY <1>1, <1>2, <1>3, <1>4, <1>5, <1>6, <1>7, <1>8 DEF Next

\* The invariant holds in every state of a client connection, for any number of
\* transactions and of messages and whatever optional events happen.
THEOREM Http1ClientInvariance == Spec => []H1CInv
<1>1. Init => H1CInv
  BY InitOK
<1>2. H1CInv /\ [Next]_vars => H1CInv'
  BY NextOK
<1> QED BY <1>1, <1>2, PTL DEF Spec

\* Whole requests in the order of their creation: notify_local_content serialises only the
\* front request and do_write never reorders what it hands over.
THEOREM Http1ClientRequestsWhole == Spec => []RequestsWhole
<1>1. H1CInv => RequestsWhole
  <2> SUFFICES ASSUME H1CInv PROVE RequestsWhole
    OBVIOUS
  <2>1. TypeOK /\ (Gentle => Whole)
    BY DEF H1CInv, SentOK
  <2>2. ASSUME Gentle, NEW i \in 1 .. Len(Sent) - 1
        PROVE  \/ /\ Sent[i][1] < Sent[i + 1][1]
                  /\ q[Sent[i][1]].stage = "ended" \/ ~q[Sent[i][1]].held
               \/ Sent[i][1] = Sent[i + 1][1] /\ Rank(Sent[i][2]) < Rank(Sent[i + 1][2])
    BY <2>1, <2>2 DEF Whole, Follows, Over
  <2>3. Gentle => \A i \in 1 .. Len(Sent) : \E j \in 1 .. i : Sent[j] = <<Sent[i][1], "H">>
    BY <2>1 DEF Whole, Preceded
  <2> QED BY <2>1, <2>2, <2>3 DEF RequestsWhole, Gentle
<1> QED BY <1>1, Http1ClientInvariance, PTL

\* A response reports its own answer, headers first and one outcome last: decoding_end takes
\* it off remote_objects, and get_current fails once in a message.
THEOREM Http1ClientAnswersAreMatched == Spec => []AnswersAreMatched
<1>1. H1CInv => AnswersAreMatched
  <2> SUFFICES ASSUME H1CInv PROVE AnswersAreMatched
    OBVIOUS
  <2>1. errs <= 1
    BY DEF H1CInv, RecvOK
  <2>2. ASSUME NEW n \in Ids
        PROVE  /\ Plain /\ ~q[n].late =>
                    \A i \in DOMAIN evs[n] : evs[n][i].of = n
               /\ \A i \in DOMAIN evs[n] :
                    evs[n][i].ev \in Outcomes \cup {"continue"} => i = Len(evs[n])
               /\ "drop" \notin env /\ ~q[n].late =>
                    \A i \in DOMAIN evs[n] : evs[n][i].ev \in {"body", "finished"}
                                               => evs[n][1].ev = "headers"
    <3>1. EventsOf(n)
      BY DEF H1CInv
    <3> QED BY <3>1 DEF EventsOf, Final, H1CInv, MatchOK
  <2> QED BY <2>1, <2>2 DEF AnswersAreMatched
<1> QED BY <1>1, Http1ClientInvariance, PTL

\* A request is told that it was sent when none of its bytes is left in serialization or in
\* the write in flight: do_write succeeds a feedback only with the write that carried it.
THEOREM Http1ClientClearedIsDelivered == Spec => []ClearedIsDelivered
<1>1. H1CInv => ClearedIsDelivered
  <2> SUFFICES ASSUME H1CInv, NEW n \in Ids, "cleared" \in q[n].told
               PROVE  /\ q[n].stage = "ended"
                      /\ \A i \in DOMAIN (ser \o fly) : (ser \o fly)[i][1] # n
    BY DEF ClearedIsDelivered
  <2>1. /\ q[n].stage = "ended" /\ NoneOf(n, ser) /\ NoneOf(n, fly)
        /\ ser \in Seq(Pieces) /\ fly \in Seq(Pieces)
    BY DEF H1CInv, WriterOK, RequestOK, TypeOK
  <2>2. ASSUME NEW i \in DOMAIN (ser \o fly) PROVE (ser \o fly)[i][1] # n
    <3>1. /\ Len(ser) \in Nat /\ Len(fly) \in Nat /\ DOMAIN (ser \o fly) = 1 .. Len(ser) + Len(fly)
          /\ DOMAIN ser = 1 .. Len(ser) /\ DOMAIN fly = 1 .. Len(fly)
      BY <2>1
    <3>2. CASE i <= Len(ser)
      BY <2>1, <2>2, <3>1, <3>2 DEF NoneOf
    <3>3. CASE i > Len(ser)
      <4>1. i - Len(ser) \in 1 .. Len(fly) /\ (ser \o fly)[i] = fly[i - Len(ser)]
        BY <2>1, <2>2, <3>1, <3>3
      <4> QED BY <4>1, <2>1, <3>1 DEF NoneOf
    <3> QED BY <2>2, <3>1, <3>2, <3>3
  <2> QED BY <2>1, <2>2
<1> QED BY <1>1, Http1ClientInvariance, PTL

\* Once the connector is gone nobody waits: on_connector_nulled fails the two lists and the
\* pending feedbacks, and what had left them had been told before.
THEOREM Http1ClientNobodyForgotten == Spec => []NobodyForgotten
<1>1. H1CInv => NobodyForgotten
  <2> SUFFICES ASSUME H1CInv, conn = "gone", NEW n \in Ids
               PROVE  /\ q[n].stage # "none" /\ ~q[n].late
                           => evs[n] # <<>> /\ Last(evs[n]).ev \in Outcomes \cup {"continue"}
                      /\ q[n].stage = "ended" /\ ~user_close /\ env \cap {"bad", "nested"} = {}
                           => q[n].told # {}
    BY DEF NobodyForgotten
  <2>1. q[n].stage # "none" /\ ~q[n].late
          => evs[n] # <<>> /\ Last(evs[n]).ev \in Outcomes \cup {"continue"}
    <3>1. ~q[n].late => n \notin ToSet(remotes)
      BY DEF H1CInv, TellOK, ToSet
    <3>2. EventsOf(n)
      BY DEF H1CInv
    <3> QED BY <3>1, <3>2 DEF EventsOf, Created, Final, Last
  <2>2. q[n].stage = "ended" /\ ~user_close /\ env \cap {"bad", "nested"} = {} => q[n].told # {}
    <3> SUFFICES ASSUME q[n].stage = "ended", ~user_close, env \cap {"bad", "nested"} = {}, q[n].told = {}
                 PROVE  FALSE
      OBVIOUS
    <3>1. locals = <<>> /\ pcc = {} /\ cbs = {}
      BY DEF H1CInv, TellOK, WriterOK
    <3>2. n \in ToSet(locals) \cup pcc \cup cbs
      BY DEF H1CInv, TellOK, Created
    <3> QED BY <3>1, <3>2 DEF ToSet
  <2> QED BY <2>1, <2>2
<1> QED BY <1>1, Http1ClientInvariance, PTL

=============================================================================
