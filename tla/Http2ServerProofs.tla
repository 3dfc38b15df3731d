-------------------------- MODULE Http2ServerProofs --------------------------
(***************************************************************************)
(* Proofs about the server side of HTTP/2, for any number of streams, any  *)
(* sizes of chunks and frames and any combination of events.  The argument *)
(* is local: what the invariants say of a stream is kept by every function *)
(* that computes its next record, and do_write() only applies those.  Two  *)
(* facts relate streams to the session: nothing is queued while no write   *)
(* is in flight, and everyone was told when the connector is gone.         *)
(***************************************************************************)
EXTENDS Http2Server, TLAPS

StreamRecords ==
  [life : {"none", "live", "gone"}, eof : BOOLEAN, closed : BOOLEAN, headersSent : BOOLEAN,
   bodySent : BOOLEAN, resume : BOOLEAN, body : Seq(Nat), base : Nat, idx : Nat,
   trailers : BOOLEAN,
   ng : {"idle", "resp", "data", "defer", "wait", "await", "trail", "end", "shut",
         "hdrs", "bare"},
   rx : {"open", "end"}, req : {"none", "on", "finished", "error"}, user : UserStages,
   held : BOOLEAN, told : SUBSET {"cleared", "error"}, given : 0 .. MaxBody, sent : Nat,
   upgrade : BOOLEAN, copies : Nat, win : Nat]

\* The life of a stream and of its response.
LifeOK(r) ==
  /\ r.life = "none" <=> r.user = "none"
  /\ r.life = "none" => r.ng = "idle" /\ ~r.held
  /\ r.life = "gone" => r.ng = "shut" /\ r.user = "ended"
  /\ r.life = "live" => (r.closed <=> r.ng = "shut") /\ r.req # "none"

\* How far nghttp2 is follows from how far the user is.
StageOK(r) ==
  /\ r.eof <=> r.user = "ended"
  /\ r.trailers => r.user \in {"trailer", "ending", "ended"}
  /\ r.headersSent => r.ng # "idle"
  /\ r.ng \notin {"idle", "shut", "hdrs", "bare"} => r.headersSent
  /\ r.ng \in {"await", "trail"} => r.trailers
  /\ r.ng = "end" => r.eof \/ r.trailers
  /\ r.life = "live" /\ r.ng # "shut" => (r.ng = "defer" <=> r.resume)
  /\ r.user = "begun" => r.ng \in {"idle", "shut"}
  /\ r.upgrade => r.ng \in {"idle", "hdrs", "bare", "shut"}
  /\ r.ng \in {"hdrs", "bare"} => r.upgrade
  /\ r.ng = "hdrs" => r.copies > 0
  /\ r.ng = "wait" => r.win = 0

\* What flush() brings about: the response was submitted, and after end() its
\* data source is awake.
FlushedOK(r) ==
  /\ r.life = "live" /\ r.user # "begun" /\ ~r.closed =>
       r.headersSent \/ r.ng \in {"hdrs", "bare"}
  /\ r.eof => r.ng # "defer"

\* The chunks b, the first of which begins at base and was read up to idx, end
\* in order and the last of them at given; the first is not used up.
Chunks(b, base, idx, given) ==
  /\ b = <<>> => base = given /\ idx = 0
  /\ b # <<>> => b[Len(b)] = given /\ base + idx < b[1]
  /\ \A i, j \in 1 .. Len(b) : i < j => b[i] < b[j]

ChunksOK(r) ==
  /\ r.sent = r.base + r.idx
  /\ Chunks(r.body, r.base, r.idx, r.given)
  /\ r.ng \in {"await", "trail", "end"} => BodyLength(r) <= FrameLen

\* What holds before flush(), and what holds of every stream between two steps.
StreamBegun(r) == r \in StreamRecords /\ LifeOK(r) /\ StageOK(r) /\ ChunksOK(r)
StreamOK(r) == StreamBegun(r) /\ FlushedOK(r)

\* The types of the session's own members.
SessionTypeOK ==
  /\ env \in Envs /\ conn \in {"open", "stopped", "gone"}
  /\ out \in Streams \cup {NoFrame, Control} /\ cbs \subseteq Streams /\ pending \subseteq Streams
  /\ cwin \in Nat /\ ctrl \in BOOLEAN /\ goaway \in BOOLEAN /\ corrupt \in BOOLEAN

\* While the connector is open and writes nothing, nothing waits that the
\* peer's windows allow to be written.
NothingQueued == conn = "open" /\ ~InFlight /\ ~corrupt => Queued(str, cwin) = {} /\ ~ctrl

\* The request of a stream was finished or failed, and whoever holds its
\* response, the closure of end() included, was told.
ToldOK(r) ==
  r.life = "live" => /\ r.req \in {"finished", "error"}
                     /\ r.held \/ r.user \in {"ending", "ended"} => r.told # {}

\* When the connector is gone no write is in flight and everyone was told.
EveryoneTold == conn = "gone" => ~InFlight /\ \A s \in Streams : ToldOK(str[s])

StreamsOK(ss) == ss \in [Streams -> StreamRecords] /\ \A s \in Streams : StreamOK(ss[s])

\* The inductive invariant.
H2IInv == SessionTypeOK /\ StreamsOK(str) /\ NothingQueued /\ EveryoneTold

-----------------------------------------------------------------------------
(* The functions that compute the next record of a stream. *)

\* A new stream, with or without the end of its request.
LEMMA NewStreamOK ==
  StreamOK(NewStream) /\ NewStream.life = "live" /\ NewStream.req = "on"
<1>1. <<>> \in Seq(Nat) /\ 0 \in 0 .. MaxBody /\ InitialWindow \in Nat
  BY H2Assumption DEF InitialWindow
<1>2. Chunks(<<>>, 0, 0, 0)
  BY DEF Chunks
<1> QED
  BY <1>1, <1>2 DEF NewStream, StreamOK, StreamBegun, StreamRecords, LifeOK, StageOK,
     FlushedOK, ChunksOK, UserStages

\* The request ends.
LEMMA FinishedOK ==
  ASSUME NEW r, StreamOK(r)
  PROVE  StreamOK(Finished(r)) /\ Finished(r).life = r.life
<1> DEFINE q == Finished(r)
<1>1. /\ q \in StreamRecords
      /\ q.life = r.life /\ q.ng = r.ng /\ q.user = r.user /\ q.held = r.held
      /\ q.closed = r.closed /\ q.eof = r.eof /\ q.trailers = r.trailers
      /\ q.headersSent = r.headersSent /\ q.resume = r.resume /\ q.req = "finished"
      /\ q.body = r.body /\ q.base = r.base /\ q.idx = r.idx
      /\ q.given = r.given /\ q.sent = r.sent
      /\ q.upgrade = r.upgrade /\ q.copies = r.copies /\ q.win = r.win
  BY DEF Finished, StreamOK, StreamBegun, StreamRecords
<1> SUFFICES StreamOK(q)
  BY <1>1
<1> HIDE DEF q
<1> QED
  BY <1>1, SMT DEF StreamOK, StreamBegun, LifeOK, StageOK, FlushedOK, ChunksOK, BodyLength

\* nghttp2 closes the stream.
LEMMA DieOK ==
  ASSUME NEW r, StreamBegun(r), r.life = "live"
  PROVE  StreamOK(Die(r))
  BY DEF Die, StreamOK, StreamBegun, StreamRecords, LifeOK, StageOK,
     FlushedOK, ChunksOK, BodyLength

\* Closing a stream that ended on both sides keeps the per-stream invariant.
LEMMA CloseIfDoneOK ==
  ASSUME NEW r, StreamOK(r)
  PROVE  StreamOK(CloseIfDone(r))
<1>1. CASE r.ng = "end" /\ r.rx = "end"
  <2>1. r.life = "live"
    BY <1>1 DEF StreamOK, StreamBegun, StreamRecords, LifeOK
  <2> QED
    BY <1>1, <2>1, DieOK DEF CloseIfDone, StreamOK
<1>2. CASE ~(r.ng = "end" /\ r.rx = "end")
  BY <1>2 DEF CloseIfDone
<1> QED
  BY <1>1, <1>2

\* A response is told something.
LEMMA ToldStreamOK ==
  ASSUME NEW r, StreamOK(r), NEW what \in {"cleared", "error"}
  PROVE  LET q == [r EXCEPT !.told = @ \cup {what}]
         IN  /\ StreamOK(q) /\ q.ng = r.ng /\ q.life = r.life /\ q.req = r.req
             /\ q.held = r.held /\ q.user = r.user /\ q.told = r.told \cup {what}
<1> DEFINE q == [r EXCEPT !.told = @ \cup {what}]
<1>1. /\ q \in StreamRecords
      /\ q.life = r.life /\ q.ng = r.ng /\ q.user = r.user /\ q.held = r.held
      /\ q.closed = r.closed /\ q.eof = r.eof /\ q.trailers = r.trailers
      /\ q.headersSent = r.headersSent /\ q.resume = r.resume /\ q.req = r.req
      /\ q.body = r.body /\ q.base = r.base /\ q.idx = r.idx
      /\ q.given = r.given /\ q.sent = r.sent
      /\ q.upgrade = r.upgrade /\ q.copies = r.copies /\ q.win = r.win /\ q.told = r.told \cup {what}
  BY DEF StreamOK, StreamBegun, StreamRecords
<1> SUFFICES StreamOK(q)
  BY <1>1
<1> HIDE DEF q
<1> QED
  BY <1>1, SMT DEF StreamOK, StreamBegun, LifeOK, StageOK, FlushedOK, ChunksOK, BodyLength

\* flush() brings about what FlushedOK says.
LEMMA FlushOK ==
  ASSUME NEW r, StreamBegun(r), r.life = "live", ~r.closed, r.user # "begun"
  PROVE  /\ StreamOK(Flush(r)) /\ Flush(r).life = r.life /\ Flush(r).req = r.req
         /\ Flush(r).held = r.held /\ Flush(r).user = r.user /\ Flush(r).told = r.told
<1> DEFINE q == Flush(r)
<1>1. /\ q \in StreamRecords
      /\ q.life = r.life /\ q.user = r.user /\ q.held = r.held
      /\ q.closed = r.closed /\ q.eof = r.eof /\ q.trailers = r.trailers
      /\ q.req = r.req /\ q.told = r.told
      /\ q.body = r.body /\ q.base = r.base /\ q.idx = r.idx
      /\ q.given = r.given /\ q.sent = r.sent
      /\ q.upgrade = r.upgrade /\ q.win = r.win /\ q.copies \in Nat
  <2>1. CASE ~r.upgrade /\ r.resume
    BY <2>1, ZenonT(60) DEF Flush, StreamBegun, StreamRecords
  <2>2. CASE ~r.upgrade /\ ~r.resume /\ ~r.headersSent
    BY <2>2 DEF Flush, StreamBegun, StreamRecords
  <2>3. CASE ~r.upgrade /\ ~r.resume /\ r.headersSent
    BY <2>3 DEF Flush, StreamBegun, StreamRecords
  <2>4. CASE r.upgrade
    <3>1. r \in StreamRecords /\ r.copies + 1 \in Nat
      BY DEF StreamBegun, StreamRecords
    <3>2. q = [r EXCEPT !.copies = r.copies + 1, !.ng = "hdrs"]
      BY <2>4 DEF Flush
    <3> QED
      BY <3>1, <3>2, ZenonT(60) DEF StreamRecords
  <2> QED
    BY <2>1, <2>2, <2>3, <2>4
<1>2. /\ ~r.upgrade /\ r.resume =>
           ~q.resume /\ q.ng = (IF r.ng = "defer" THEN "data" ELSE r.ng)
                     /\ q.headersSent = r.headersSent
      /\ ~r.upgrade /\ ~r.resume => q.resume = r.resume
      /\ ~r.upgrade /\ ~r.resume /\ ~r.headersSent =>
           q.headersSent /\ q.ng = (IF r.ng = "idle" THEN "resp" ELSE r.ng)
      /\ ~r.upgrade /\ ~r.resume /\ r.headersSent =>
           q.headersSent = r.headersSent
             /\ (q.ng = r.ng \/ (q.ng = "trail" /\ r.ng = "await"))
      /\ r.upgrade => /\ q.ng = "hdrs" /\ q.copies = r.copies + 1
                      /\ q.resume = r.resume /\ q.headersSent = r.headersSent
  BY DEF Flush, StreamBegun, StreamRecords
<1> SUFFICES StreamOK(q)
  BY <1>1
<1> HIDE DEF q
<1>3. LifeOK(q) /\ StageOK(q) /\ FlushedOK(q)
  BY <1>1, <1>2 DEF StreamBegun, StreamRecords, LifeOK, StageOK, FlushedOK
<1>4. q.ng \in {"await", "trail", "end"} => r.ng \in {"await", "trail", "end"}
  BY <1>2
<1>5. ChunksOK(q)
  BY <1>1, <1>4 DEF StreamBegun, ChunksOK, BodyLength
<1> QED
  BY <1>1, <1>3, <1>5 DEF StreamOK, StreamBegun

\* A body the user adds to: the new chunk is the last one.
LEMMA ChunkAppended ==
  ASSUME NEW b \in Seq(Nat), NEW base \in Nat, NEW idx \in Nat, NEW given \in Nat,
         NEW n \in Nat \ {0}, Chunks(b, base, idx, given)
  PROVE  Chunks(Append(b, given + n), base, idx, given + n)
<1> DEFINE a == Append(b, given + n)
<1>1. /\ a \in Seq(Nat) /\ Len(a) = Len(b) + 1 /\ Len(b) \in Nat
      /\ a[Len(b) + 1] = given + n /\ \A i \in 1 .. Len(b) : a[i] = b[i] /\ b[i] \in Nat
  OBVIOUS
<1>2. b = <<>> \/ Len(b) >= 1
  OBVIOUS
<1>3. \A i \in 1 .. Len(b) : b[i] <= given
  <2> SUFFICES ASSUME NEW i \in 1 .. Len(b)
               PROVE  b[i] <= given
    OBVIOUS
  <2>1. b[Len(b)] = given /\ Len(b) \in 1 .. Len(b)
    BY <1>1, <1>2 DEF Chunks
  <2>2. i = Len(b) \/ i < Len(b)
    BY <1>1
  <2> QED
    BY <1>1, <2>1, <2>2 DEF Chunks
<1> HIDE DEF a
<1>4. a # <<>>
  BY <1>1
<1>5. base + idx < a[1]
  <2>1. CASE b = <<>>
    BY <1>1, <2>1 DEF Chunks
  <2>2. CASE b # <<>>
    BY <1>1, <1>2, <2>2 DEF Chunks
  <2> QED
    BY <2>1, <2>2
<1>6. ASSUME NEW i \in 1 .. Len(a), NEW j \in 1 .. Len(a), i < j
      PROVE  a[i] < a[j]
  <2>1. CASE j = Len(b) + 1
    <3>1. i \in 1 .. Len(b)
      BY <1>1, <1>6, <2>1
    <3>2. a[i] = b[i] /\ b[i] \in Nat /\ b[i] <= given
      BY <1>1, <1>3, <3>1
    <3> QED
      BY <1>1, <2>1, <3>2
  <2>2. CASE j # Len(b) + 1
    <3>1. i \in 1 .. Len(b) /\ j \in 1 .. Len(b)
      <4>1. Len(a) = Len(b) + 1 /\ Len(b) \in Nat
        BY <1>1
      <4> QED
        BY <4>1, <1>6, <2>2
    <3> QED
      BY <1>1, <1>6, <3>1 DEF Chunks
  <2> QED
    BY <2>1, <2>2
<1> QED
  BY <1>1, <1>4, <1>5, <1>6 DEF Chunks, a

\* A chunk that was used up: the next one begins where it ended.
LEMMA ChunkUsedUp ==
  ASSUME NEW b \in Seq(Nat), b # <<>>, NEW base \in Nat, NEW idx \in Nat, NEW given \in Nat,
         Chunks(b, base, idx, given)
  PROVE  Chunks(Tail(b), Head(b), 0, given)
<1> DEFINE a == Tail(b)
<1>1. /\ a \in Seq(Nat) /\ Len(b) \in Nat \ {0} /\ Len(a) = Len(b) - 1
      /\ \A i \in 1 .. Len(a) : a[i] = b[i + 1] /\ i + 1 \in 1 .. Len(b)
      /\ Head(b) = b[1] /\ \A i \in 1 .. Len(b) : b[i] \in Nat
  OBVIOUS
<1> HIDE DEF a
<1>2. a = <<>> => Head(b) = given
  <2> SUFFICES ASSUME a = <<>>
               PROVE  Len(b) = 1
    BY <1>1 DEF Chunks
  <2> QED
    BY <1>1
<1>3. a # <<>> => a[Len(a)] = given /\ Head(b) + 0 < a[1]
  <2> SUFFICES ASSUME a # <<>>
               PROVE  a[Len(a)] = given /\ Head(b) + 0 < a[1]
    OBVIOUS
  <2>1. Len(a) \in 1 .. Len(a) /\ 1 \in 1 .. Len(a) /\ Len(a) + 1 = Len(b)
    BY <1>1
  <2>2. a[Len(a)] = b[Len(b)] /\ a[1] = b[2] /\ 2 \in 1 .. Len(b) /\ 1 \in 1 .. Len(b)
    BY <1>1, <2>1, SMTT(60)
  <2> QED
    BY <1>1, <2>2 DEF Chunks
<1>4. ASSUME NEW i \in 1 .. Len(a), NEW j \in 1 .. Len(a), i < j
      PROVE  a[i] < a[j]
  <2>1. a[i] = b[i + 1] /\ i + 1 \in 1 .. Len(b) /\ a[j] = b[j + 1] /\ j + 1 \in 1 .. Len(b)
    BY <1>1
  <2>2. i + 1 < j + 1
    BY <1>1, <1>4
  <2> QED
    BY <2>1, <2>2 DEF Chunks
<1> QED
  BY <1>2, <1>3, <1>4 DEF Chunks, a

\* A list of chunks is empty exactly when no byte is left.
LEMMA EmptyIsUsedUp ==
  ASSUME NEW r, r \in StreamRecords, Chunks(r.body, r.base, r.idx, r.given)
  PROVE  /\ BodyEmpty(r) <=> r.body = <<>>
         /\ BodyEmpty(r) => BodyLength(r) = 0
         /\ r.base + r.idx + BodyLength(r) = r.given
<1>1. r.body \in Seq(Nat) /\ r.base \in Nat /\ r.idx \in Nat /\ r.given \in Nat
  BY H2Assumption DEF StreamRecords
<1>2. r.body # <<>> => Len(r.body) >= 1 /\ r.body[1] \in Nat /\ r.body[Len(r.body)] \in Nat
  BY <1>1
<1> QED
  BY <1>1, <1>2 DEF Chunks, BodyEmpty, BodyLength, Last

\* What Min returns for a pair of numbers.
LEMMA MinOfTwo ==
  ASSUME NEW a \in Nat, NEW b \in Nat
  PROVE  Min({a, b}) = IF a <= b THEN a ELSE b
  BY DEF Min

\* At most a frame of the first chunk is copied out.
LEMMA CopyFirstOK ==
  ASSUME NEW r, StreamOK(r), r.ng = "data", NEW length \in Nat \ {0}
  PROVE  LET q == CopyFirst(r, length)
         IN  /\ StreamOK(q) /\ q.ng = r.ng /\ q.life = r.life /\ q.resume = r.resume
             /\ q.eof = r.eof /\ q.trailers = r.trailers /\ q.req = r.req
             /\ q.held = r.held /\ q.user = r.user /\ q.told = r.told
             /\ q.win = r.win /\ q.sent - r.sent \in 0 .. length
<1>1. CASE BodyEmpty(r)
  <2>1. CopyFirst(r, length) = r /\ r.sent \in Nat
    BY <1>1 DEF CopyFirst, StreamOK, StreamBegun, StreamRecords
  <2> QED
    BY <2>1
<1>2. CASE ~BodyEmpty(r)
  <2> DEFINE to == Min({r.base + r.idx + length, Head(r.body)})
             done == to = Head(r.body)
             b == IF done THEN Tail(r.body) ELSE r.body
             base == IF done THEN to ELSE r.base
             idx == IF done THEN 0 ELSE to - r.base
             q == [r EXCEPT !.sent = to, !.body = b, !.base = base, !.idx = idx]
  <2>1. /\ r \in StreamRecords /\ r.body \in Seq(Nat) /\ r.base \in Nat /\ r.idx \in Nat
        /\ r.given \in Nat /\ Chunks(r.body, r.base, r.idx, r.given)
    BY H2Assumption DEF StreamOK, StreamBegun, StreamRecords, ChunksOK
  <2>2. r.body # <<>>
    BY <1>2 DEF BodyEmpty
  <2>3. Head(r.body) = r.body[1] /\ r.body[1] \in Nat /\ r.base + r.idx < r.body[1]
    BY <2>1, <2>2 DEF Chunks
  <2>4. /\ to \in Nat /\ r.base + r.idx < to /\ to <= Head(r.body)
        /\ to <= r.base + r.idx + length
    <3>1. r.base + r.idx + length \in Nat /\ Head(r.body) \in Nat
      BY <2>1, <2>3
    <3>2. to = IF r.base + r.idx + length <= Head(r.body)
               THEN r.base + r.idx + length ELSE Head(r.body)
      BY <3>1, MinOfTwo
    <3> QED
      BY <2>1, <2>3, <3>2
  <2>5. CopyFirst(r, length) = q
    BY <1>2 DEF CopyFirst
  <2> HIDE DEF to
  <2>6. Chunks(b, base, idx, r.given) /\ base + idx = to
    <3>1. CASE done
      BY <2>1, <2>2, <2>4, <3>1, ChunkUsedUp
    <3>2. CASE ~done
      <4>1. base + idx = to /\ to < r.body[1]
        BY <2>1, <2>3, <2>4, <3>2
      <4> QED
        BY <2>1, <2>2, <3>2, <4>1 DEF Chunks
    <3> QED
      BY <3>1, <3>2
  <2>7. b \in Seq(Nat) /\ base \in Nat /\ idx \in Nat
    BY <2>1, <2>2, <2>4
  <2> HIDE DEF b, base, idx
  <2>8. /\ q \in StreamRecords
        /\ q.life = r.life /\ q.ng = r.ng /\ q.user = r.user /\ q.held = r.held
        /\ q.closed = r.closed /\ q.eof = r.eof /\ q.trailers = r.trailers
        /\ q.headersSent = r.headersSent /\ q.resume = r.resume /\ q.req = r.req
        /\ q.body = b /\ q.base = base /\ q.idx = idx
        /\ q.given = r.given /\ q.sent = to /\ q.told = r.told
        /\ q.upgrade = r.upgrade /\ q.copies = r.copies /\ q.win = r.win
    BY <2>1, <2>4, <2>7 DEF StreamRecords
  <2> HIDE DEF q
  <2>9. LifeOK(q) /\ StageOK(q) /\ FlushedOK(q)
    BY <2>8 DEF StreamOK, StreamBegun, LifeOK, StageOK, FlushedOK
  <2>10. ChunksOK(q)
    BY <2>6, <2>8 DEF ChunksOK
  <2>11. q.sent - r.sent \in 0 .. length
    <3>1. r.sent = r.base + r.idx
      BY DEF StreamOK, StreamBegun, ChunksOK
    <3> QED
      BY <2>1, <2>4, <2>8, <3>1
  <2> QED
    BY <2>5, <2>8, <2>9, <2>10, <2>11 DEF StreamOK, StreamBegun
<1> QED
  BY <1>1, <1>2

\* The data source is put to sleep, or gives a frame.
LEMMA DataSourceReadOK ==
  ASSUME NEW r, StreamOK(r), r.ng = "data", NEW length \in 1 .. FrameLen
  PROVE  LET q == DataSourceRead(r, length)
         IN  /\ StreamOK(q) /\ q.ng # "wait" /\ (Defer(r) => q.ng = "defer")
             /\ q.win = r.win /\ q.sent - r.sent \in 0 .. length
<1>1. CASE Defer(r)
  <2> DEFINE q == [r EXCEPT !.resume = TRUE, !.ng = "defer"]
  <2>1. /\ q \in StreamRecords
        /\ q.life = r.life /\ q.ng = "defer" /\ q.user = r.user /\ q.held = r.held
        /\ q.closed = r.closed /\ q.eof = r.eof /\ q.trailers = r.trailers
        /\ q.headersSent = r.headersSent /\ q.resume = TRUE /\ q.req = r.req
        /\ q.body = r.body /\ q.base = r.base /\ q.idx = r.idx
        /\ q.given = r.given /\ q.sent = r.sent
        /\ q.upgrade = r.upgrade /\ q.copies = r.copies /\ q.win = r.win
    BY DEF StreamOK, StreamBegun, StreamRecords
  <2>2. DataSourceRead(r, length) = q
    BY <1>1 DEF DataSourceRead
  <2> HIDE DEF q
  <2>3. LifeOK(q) /\ StageOK(q) /\ FlushedOK(q) /\ ChunksOK(q)
    BY <1>1, <2>1 DEF Defer, StreamOK, StreamBegun, StreamRecords, LifeOK, StageOK, FlushedOK, ChunksOK
  <2>4. q.sent - r.sent \in 0 .. length
    BY <2>1 DEF StreamOK, StreamBegun, StreamRecords
  <2> QED
    BY <2>1, <2>2, <2>3, <2>4 DEF StreamOK, StreamBegun
<1>2. CASE ~Defer(r)
  <2> DEFINE c == CopyFirst(r, length)
             last == BodyEof(c) \/ IsLastFrame(c, length)
             q == [c EXCEPT !.bodySent = TRUE, !.ng = IF r.trailers THEN "await" ELSE "end"]
  <2>1. DataSourceRead(r, length) = IF ~last THEN c ELSE q
    BY <1>2 DEF DataSourceRead
  <2>2. /\ StreamOK(c) /\ c.ng = "data" /\ c.life = r.life /\ c.resume = r.resume
        /\ c.eof = r.eof /\ c.trailers = r.trailers
        /\ c.win = r.win /\ c.sent - r.sent \in 0 .. length
    BY CopyFirstOK, H2Assumption
  <2> HIDE DEF c
  <2>3. c \in StreamRecords /\ Chunks(c.body, c.base, c.idx, c.given)
    BY <2>2 DEF StreamOK, StreamBegun, ChunksOK
  <2>4. ASSUME last
        PROVE  StreamOK(q) /\ q.ng \in {"await", "end"} /\ q.win = c.win /\ q.sent = c.sent
    <3>1. BodyLength(c) <= FrameLen /\ (c.eof \/ c.trailers)
      <4>1. CASE BodyEof(c)
        BY <2>3, <4>1, EmptyIsUsedUp, H2Assumption DEF BodyEof
      <4>2. CASE IsLastFrame(c, length)
        BY <4>2, H2Assumption DEF IsLastFrame
      <4> QED
        BY <2>4, <4>1, <4>2
    <3>2. /\ q \in StreamRecords
          /\ q.life = c.life /\ q.ng \in {"await", "end"} /\ q.user = c.user /\ q.held = c.held
          /\ q.closed = c.closed /\ q.eof = c.eof /\ q.trailers = c.trailers
          /\ q.headersSent = c.headersSent /\ q.resume = c.resume /\ q.req = c.req
          /\ q.body = c.body /\ q.base = c.base /\ q.idx = c.idx
          /\ q.given = c.given /\ q.sent = c.sent /\ (q.ng = "await" => c.trailers)
          /\ q.upgrade = c.upgrade /\ q.copies = c.copies /\ q.win = c.win
      BY <2>2, <2>3 DEF StreamRecords
    <3> HIDE DEF q
    <3>3. LifeOK(q) /\ StageOK(q) /\ FlushedOK(q)
      BY <2>2, <3>1, <3>2 DEF StreamOK, StreamBegun, StreamRecords, LifeOK, StageOK, FlushedOK
    <3>4. BodyLength(q) = BodyLength(c)
      BY <3>2 DEF BodyLength
    <3>5. ChunksOK(q)
      BY <2>2, <3>1, <3>2, <3>4 DEF StreamOK, StreamBegun, ChunksOK
    <3> QED
      BY <3>2, <3>3, <3>5 DEF StreamOK, StreamBegun
  <2> HIDE DEF q, last
  <2> QED
    BY <1>2, <2>1, <2>2, <2>4
<1> QED
  BY <1>1, <1>2

\* The window of a stream that is not held back by it changes.
LEMMA NewWindowOK ==
  ASSUME NEW r, StreamOK(r), r.ng # "wait", NEW w \in Nat
  PROVE  StreamOK([r EXCEPT !.win = w])
<1> DEFINE q == [r EXCEPT !.win = w]
<1>1. /\ q \in StreamRecords
      /\ q.life = r.life /\ q.ng = r.ng /\ q.user = r.user /\ q.held = r.held
      /\ q.closed = r.closed /\ q.eof = r.eof /\ q.trailers = r.trailers
      /\ q.headersSent = r.headersSent /\ q.resume = r.resume /\ q.req = r.req
      /\ q.body = r.body /\ q.base = r.base /\ q.idx = r.idx
      /\ q.given = r.given /\ q.sent = r.sent
      /\ q.upgrade = r.upgrade /\ q.copies = r.copies
  BY DEF StreamOK, StreamBegun, StreamRecords
<1> HIDE DEF q
<1>2. LifeOK(q) /\ StageOK(q) /\ FlushedOK(q)
  BY <1>1 DEF StreamOK, StreamBegun, LifeOK, StageOK, FlushedOK
<1>3. ChunksOK(q)
  BY <1>1 DEF StreamOK, StreamBegun, ChunksOK, BodyLength
<1> QED
  BY <1>1, <1>2, <1>3 DEF StreamOK, StreamBegun, q

\* A WINDOW_UPDATE for a stream.
LEMMA WiderWindowOK ==
  ASSUME NEW r, StreamOK(r), NEW n \in Nat
  PROVE  StreamOK([r EXCEPT !.win = @ + n, !.ng = IF @ = "wait" THEN "data" ELSE @])
<1> DEFINE w == r.win + n
           g == IF r.ng = "wait" THEN "data" ELSE r.ng
           q == [r EXCEPT !.win = w, !.ng = g]
<1>0. r \in StreamRecords /\ w \in Nat /\ r.ng \in {"idle", "resp", "data", "defer", "wait",
        "await", "trail", "end", "shut", "hdrs", "bare"}
  BY DEF StreamOK, StreamBegun, StreamRecords
<1>4. q = [r EXCEPT !.win = @ + n, !.ng = IF @ = "wait" THEN "data" ELSE @]
  BY <1>0 DEF StreamRecords
<1>5. g \in {"idle", "resp", "data", "defer", "await", "trail", "end", "shut", "hdrs", "bare"}
  BY <1>0
<1> HIDE DEF w, g
<1>1. /\ q \in StreamRecords
      /\ q.life = r.life /\ q.user = r.user /\ q.held = r.held
      /\ q.ng = g
      /\ q.closed = r.closed /\ q.eof = r.eof /\ q.trailers = r.trailers
      /\ q.headersSent = r.headersSent /\ q.resume = r.resume /\ q.req = r.req
      /\ q.body = r.body /\ q.base = r.base /\ q.idx = r.idx
      /\ q.given = r.given /\ q.sent = r.sent
      /\ q.upgrade = r.upgrade /\ q.copies = r.copies
  BY <1>0, <1>5 DEF StreamRecords
<1> HIDE DEF q
<1>2. LifeOK(q) /\ StageOK(q) /\ FlushedOK(q)
  BY <1>1 DEF g, StreamOK, StreamBegun, LifeOK, StageOK, FlushedOK
<1>3. ChunksOK(q)
  BY <1>1 DEF g, StreamOK, StreamBegun, ChunksOK, BodyLength
<1> QED
  BY <1>1, <1>2, <1>3, <1>4 DEF StreamOK, StreamBegun

\* The length of a DATA frame fits the frame and both windows.
LEMMA FrameRoomOK ==
  ASSUME NEW w \in Nat \ {0}, NEW cw \in Nat \ {0}, NEW r, r.win = w
  PROVE  FrameRoom(r, cw) \in 1 .. FrameLen /\ FrameRoom(r, cw) <= w /\ FrameRoom(r, cw) <= cw
<1> DEFINE m == IF FrameLen <= w THEN IF FrameLen <= cw THEN FrameLen ELSE cw
                ELSE IF w <= cw THEN w ELSE cw
<1>1. FrameLen \in Nat \ {0}
  BY H2Assumption
<1>2. m \in {FrameLen, w, cw} /\ \A x \in {FrameLen, w, cw} : m <= x
  BY <1>1
<1>3. \A y \in {FrameLen, w, cw} : (\A x \in {FrameLen, w, cw} : y <= x) => y = m
  BY <1>1, <1>2
<1> HIDE DEF m
<1>4. Min({FrameLen, w, cw}) = m
  BY <1>2, <1>3, Zenon DEF Min
<1> QED
  BY <1>1, <1>2, <1>4 DEF FrameRoom

\* The frames that carry no data leave the bytes sent alone.
LEMMA PackedHeadersOK ==
  ASSUME NEW r, StreamOK(r), r.ng \in {"resp", "hdrs", "trail"}, NEW cw
  PROVE  StreamOK(Packed(r, cw)) /\ Packed(r, cw).sent = r.sent
<1> DEFINE k == IF r.ng = "hdrs" THEN r.copies - 1 ELSE r.copies
           g == IF r.ng = "resp" THEN "data"
                ELSE IF r.ng = "trail" THEN "end"
                ELSE IF r.copies = 1 THEN "bare" ELSE "hdrs"
           q == [r EXCEPT !.copies = k, !.ng = g]
<1>0. r \in StreamRecords /\ r.copies \in Nat /\ (r.ng = "hdrs" => r.copies > 0)
  BY DEF StreamOK, StreamBegun, StreamRecords, StageOK
<1>1. Packed(r, cw) = q
  BY <1>0 DEF Packed, StreamRecords
<1>5. k \in Nat /\ g \in {"data", "end", "bare", "hdrs"}
  BY <1>0
<1>6. /\ r.ng = "resp" => g = "data"
      /\ r.ng = "trail" => g = "end"
      /\ r.ng = "hdrs" => g = "bare" \/ (g = "hdrs" /\ k > 0)
  BY <1>0
<1> HIDE DEF k, g
<1>2. /\ q \in StreamRecords
      /\ q.life = r.life /\ q.user = r.user /\ q.held = r.held
      /\ q.closed = r.closed /\ q.eof = r.eof /\ q.trailers = r.trailers
      /\ q.headersSent = r.headersSent /\ q.resume = r.resume /\ q.req = r.req
      /\ q.body = r.body /\ q.base = r.base /\ q.idx = r.idx
      /\ q.given = r.given /\ q.sent = r.sent
      /\ q.upgrade = r.upgrade /\ q.win = r.win /\ q.copies = k /\ q.ng = g
  BY <1>0, <1>5 DEF StreamRecords
<1> HIDE DEF q
<1>3. LifeOK(q) /\ StageOK(q) /\ FlushedOK(q)
  BY <1>0, <1>2, <1>6 DEF StreamOK, StreamBegun, LifeOK, StageOK, FlushedOK
<1>4. ChunksOK(q)
  BY <1>2, <1>6 DEF StreamOK, StreamBegun, ChunksOK, BodyLength
<1> QED
  BY <1>1, <1>2, <1>3, <1>4 DEF StreamOK, StreamBegun

\* nghttp2 packs the next frame of a stream, and may close it; both windows
\* have room for it.
LEMMA PackedOK ==
  ASSUME NEW r, StreamOK(r), NEW cw \in Nat,
         \/ r.ng \in {"resp", "hdrs", "trail"}
         \/ r.ng = "data" /\ cw > 0 /\ r.win # 0
  PROVE  /\ StreamOK(CloseIfDone(Packed(r, cw)))
         /\ cw - (Packed(r, cw).sent - r.sent) \in Nat
<1> SUFFICES StreamOK(Packed(r, cw)) /\ cw - (Packed(r, cw).sent - r.sent) \in Nat
  BY CloseIfDoneOK
<1>1. CASE r.ng = "data" /\ cw > 0 /\ r.win # 0
  <2> DEFINE c == DataSourceRead(r, FrameRoom(r, cw))
             w == c.win - (c.sent - r.sent)
  <2>1. r.win \in Nat \ {0} /\ cw \in Nat \ {0} /\ r.sent \in Nat
    BY <1>1 DEF StreamOK, StreamBegun, StreamRecords
  <2>2. /\ FrameRoom(r, cw) \in 1 .. FrameLen
        /\ FrameRoom(r, cw) <= r.win /\ FrameRoom(r, cw) <= cw
    BY <2>1, FrameRoomOK
  <2>3. /\ StreamOK(c) /\ c.ng # "wait" /\ c.win = r.win
        /\ c.sent - r.sent \in 0 .. FrameRoom(r, cw)
    BY <1>1, <2>2, DataSourceReadOK
  <2>4. Packed(r, cw) = [c EXCEPT !.win = w]
    BY <1>1 DEF Packed
  <2>5. c \in StreamRecords
    BY <2>3 DEF StreamOK, StreamBegun
  <2>6. [c EXCEPT !.win = w].sent = c.sent
    BY <2>5 DEF StreamRecords
  <2> HIDE DEF c
  <2>7. w \in Nat /\ cw - (c.sent - r.sent) \in Nat
    <3> DEFINE d == c.sent - r.sent
               m == FrameRoom(r, cw)
    <3>1. FrameLen \in Nat /\ d \in 0 .. m /\ m \in 1 .. FrameLen /\ m <= r.win /\ m <= cw
      BY <2>2, <2>3, H2Assumption
    <3> HIDE DEF d, m
    <3>2. r.win - d \in Nat /\ cw - d \in Nat
      BY <2>1, <3>1
    <3> QED
      BY <2>3, <3>2 DEF d
  <2> QED
    BY <2>3, <2>4, <2>6, <2>7, NewWindowOK
<1>2. CASE r.ng \in {"resp", "hdrs", "trail"}
  <2>1. r.sent \in Nat
    BY DEF StreamOK, StreamBegun, StreamRecords
  <2> QED
    BY <1>2, <2>1, PackedHeadersOK
<1> QED
  BY <1>1, <1>2

-----------------------------------------------------------------------------
(* Writing. *)

\* A stream from which nothing comes is put to sleep.
LEMMA PutToSleepOK ==
  ASSUME NEW r, StreamOK(r), r.ng = "data", r.win = 0 \/ Defer(r)
  PROVE  StreamOK(PutToSleep(r)) /\ PutToSleep(r).ng \in {"wait", "defer"}
<1>1. CASE r.win = 0
  <2> DEFINE q == [r EXCEPT !.ng = "wait"]
  <2>1. PutToSleep(r) = q
    BY <1>1 DEF PutToSleep
  <2>2. /\ q \in StreamRecords
        /\ q.life = r.life /\ q.user = r.user /\ q.held = r.held /\ q.ng = "wait"
        /\ q.closed = r.closed /\ q.eof = r.eof /\ q.trailers = r.trailers
        /\ q.headersSent = r.headersSent /\ q.resume = r.resume /\ q.req = r.req
        /\ q.body = r.body /\ q.base = r.base /\ q.idx = r.idx
        /\ q.given = r.given /\ q.sent = r.sent
        /\ q.upgrade = r.upgrade /\ q.copies = r.copies /\ q.win = r.win
    BY DEF StreamOK, StreamBegun, StreamRecords
  <2> HIDE DEF q
  <2>3. LifeOK(q) /\ StageOK(q) /\ FlushedOK(q)
    BY <1>1, <2>2 DEF StreamOK, StreamBegun, LifeOK, StageOK, FlushedOK
  <2>4. ChunksOK(q)
    BY <2>2 DEF StreamOK, StreamBegun, ChunksOK, BodyLength
  <2> QED
    BY <2>1, <2>2, <2>3, <2>4 DEF StreamOK, StreamBegun
<1>2. CASE r.win # 0
  <2>1. 1 \in 1 .. FrameLen /\ Defer(r)
    BY <1>2, H2Assumption
  <2>2. PutToSleep(r) = DataSourceRead(r, 1)
    BY <1>2 DEF PutToSleep
  <2> QED
    BY <2>1, <2>2, DataSourceReadOK
<1> QED
  BY <1>1, <1>2

\* The streams of D are put to sleep.
LEMMA SleptOK ==
  ASSUME NEW ss, StreamsOK(ss), NEW D \in SUBSET Streams,
         \A s \in D : ss[s].ng = "data" /\ (ss[s].win = 0 \/ Defer(ss[s]))
  PROVE  /\ StreamsOK(Slept(ss, D))
         /\ \A s \in D : Slept(ss, D)[s].ng \in {"wait", "defer"}
         /\ \A s \in Streams \ D : Slept(ss, D)[s] = ss[s]
<1>1. \A s \in Streams : Slept(ss, D)[s] = IF s \in D THEN PutToSleep(ss[s]) ELSE ss[s]
  BY DEF Slept
<1>2. ASSUME NEW s \in Streams
      PROVE  /\ StreamOK(Slept(ss, D)[s])
             /\ s \in D => Slept(ss, D)[s].ng \in {"wait", "defer"}
  <2>1. StreamOK(ss[s])
    BY DEF StreamsOK
  <2>2. CASE s \in D
    BY <1>1, <2>1, <2>2, PutToSleepOK
  <2>3. CASE s \notin D
    BY <1>1, <2>1, <2>3
  <2> QED
    BY <2>2, <2>3
<1>3. \A s \in Streams : Slept(ss, D)[s] \in StreamRecords
  BY <1>2 DEF StreamOK, StreamBegun
<1>4. Slept(ss, D) \in [Streams -> StreamRecords]
  BY <1>3 DEF Slept
<1> QED
  BY <1>1, <1>2, <1>4 DEF StreamsOK

\* Telling responses something changes nothing else.
LEMMA TellOK ==
  ASSUME NEW ss, StreamsOK(ss), NEW S, NEW what \in {"cleared", "error"}
  PROVE  /\ StreamsOK(Tell(ss, S, what))
         /\ \A s \in Streams :
              LET q == Tell(ss, S, what)[s]
              IN  /\ q.ng = ss[s].ng /\ q.life = ss[s].life /\ q.req = ss[s].req
                  /\ q.held = ss[s].held /\ q.user = ss[s].user /\ ss[s].told \subseteq q.told
<1>1. ASSUME NEW s \in Streams
      PROVE  LET q == Tell(ss, S, what)[s]
             IN  /\ StreamOK(q) /\ q.ng = ss[s].ng /\ q.life = ss[s].life /\ q.req = ss[s].req
                 /\ q.held = ss[s].held /\ q.user = ss[s].user /\ ss[s].told \subseteq q.told
  <2>1. StreamOK(ss[s])
    BY DEF StreamsOK
  <2>2. CASE s \in S
    <3>1. Tell(ss, S, what)[s] = [ss[s] EXCEPT !.told = @ \cup {what}]
      BY <2>2 DEF Tell
    <3>2. LET q == [ss[s] EXCEPT !.told = @ \cup {what}]
          IN  /\ StreamOK(q) /\ q.ng = ss[s].ng /\ q.life = ss[s].life /\ q.req = ss[s].req
              /\ q.held = ss[s].held /\ q.user = ss[s].user /\ q.told = ss[s].told \cup {what}
      BY <2>1, ToldStreamOK, Zenon
    <3> QED
      BY <3>1, <3>2
  <2>3. CASE s \notin S
    <3>1. Tell(ss, S, what)[s] = ss[s]
      BY <2>3 DEF Tell
    <3> QED
      BY <2>1, <3>1
  <2> QED
    BY <2>2, <2>3
<1>2. \A s \in Streams : Tell(ss, S, what)[s] \in StreamRecords
  BY <1>1 DEF StreamOK, StreamBegun
<1>3. Tell(ss, S, what) \in [Streams -> StreamRecords]
  BY <1>2 DEF Tell
<1> QED
  BY <1>1, <1>3 DEF StreamsOK

\* One stream changes.
LEMMA OneStreamOK ==
  ASSUME NEW ss, StreamsOK(ss), NEW s \in Streams, NEW r, StreamOK(r)
  PROVE  /\ StreamsOK([ss EXCEPT ![s] = r])
         /\ [ss EXCEPT ![s] = r][s] = r
         /\ \A t \in Streams \ {s} : [ss EXCEPT ![s] = r][t] = ss[t]
<1>1. ss \in [Streams -> StreamRecords] /\ r \in StreamRecords
  BY DEF StreamsOK, StreamOK, StreamBegun
<1>2. [ss EXCEPT ![s] = r] \in [Streams -> StreamRecords]
  BY <1>1
<1>3. \A t \in Streams : [ss EXCEPT ![s] = r][t] = IF t = s THEN r ELSE ss[t]
  BY <1>1
<1>4. \A t \in Streams : StreamOK([ss EXCEPT ![s] = r][t])
  BY <1>3 DEF StreamsOK
<1> QED
  BY <1>2, <1>3, <1>4 DEF StreamsOK

\* nghttp2 had nothing to write.
LEMMA NothingToWriteStep ==
  ASSUME SessionTypeOK, NEW ss, StreamsOK(ss), NEW pend \in SUBSET Streams, conn = "open",
         NEW cw \in Nat, env' \in Envs, goaway' \in BOOLEAN, NothingToWrite(ss, pend, cw)
  PROVE  H2IInv'
<1> DEFINE D == Idle(ss, cw)
           idle == Slept(ss, D)
           stops == ShouldStop(idle, FALSE, cw)
<1>1. /\ StreamsOK(idle)
      /\ \A s \in D : idle[s].ng \in {"wait", "defer"}
      /\ \A s \in Streams \ D : idle[s] = ss[s]
  BY SleptOK DEF Idle
<1>2. /\ Queued(ss, cw) = D
      /\ str' = IF stops THEN Tell(idle, pend, "cleared") ELSE idle
      /\ pending' = IF stops THEN {} ELSE pend
      /\ conn' = IF stops THEN "stopped" ELSE conn
      /\ out' = NoFrame /\ cbs' = {} /\ cwin' = cw /\ ctrl' = FALSE /\ corrupt' = FALSE
  BY Zenon DEF NothingToWrite
<1> HIDE DEF idle, stops, D
<1>3. StreamsOK(str')
  BY <1>1, <1>2, TellOK
<1>4. SessionTypeOK'
  BY <1>2 DEF SessionTypeOK
<1>5. conn' = "open" => Queued(str', cwin') = {}
  <2> SUFFICES ASSUME conn' = "open", NEW s \in Queued(str', cwin')
               PROVE  FALSE
    OBVIOUS
  <2>1. str' = idle /\ cwin' = cw
    BY <1>2
  <2>2. s \in Streams /\ (idle[s].ng \in {"resp", "hdrs", "trail"} \/ (idle[s].ng = "data" /\ cw > 0))
    BY <2>1 DEF Queued
  <2>3. s \notin D
    BY <1>1, <2>2
  <2>4. s \in Queued(ss, cw)
    BY <1>1, <2>2, <2>3 DEF Queued
  <2> QED
    BY <1>2, <2>3, <2>4
<1>6. conn' # "gone"
  BY <1>2
<1> QED
  BY <1>2, <1>3, <1>4, <1>5, <1>6 DEF H2IInv, NothingQueued, EveryoneTold, StreamsOK, Queued

\* nghttp2 packs a frame of stream s.
LEMMA WriteFrameStep ==
  ASSUME SessionTypeOK, NEW ss, StreamsOK(ss), NEW pend \in SUBSET Streams, conn = "open",
         NEW cw \in Nat, env' \in Envs, goaway' \in BOOLEAN,
         NEW s \in Queued(ss, cw) \ Idle(ss, cw), NEW D \in SUBSET Idle(ss, cw),
         WriteFrame(ss, pend, s, D, cw)
  PROVE  H2IInv'
<1> DEFINE left == cw - (Packed(ss[s], cw).sent - ss[s].sent)
           closed == CloseIfDone(Packed(ss[s], cw))
           nested == closed.ng = "shut"
           ss2 == [ss EXCEPT ![s] = closed]
           rest == Slept(ss2, D)
           more == Idle(rest, left)
<1>1. /\ str' = IF nested THEN Slept(rest, more) ELSE rest
      /\ out' = s /\ cbs' = pend /\ pending' = {} /\ cwin' = left
      /\ corrupt' \in BOOLEAN /\ ctrl' = FALSE /\ conn' = conn
  BY Zenon DEF WriteFrame
<1>2. /\ s \in Streams /\ StreamOK(ss[s])
      /\ \/ ss[s].ng \in {"resp", "hdrs", "trail"}
         \/ ss[s].ng = "data" /\ cw > 0 /\ ss[s].win # 0
  BY DEF Queued, Idle, StreamsOK
<1>3. StreamOK(closed) /\ left \in Nat
  BY <1>2, PackedOK
<1>4. s \notin D /\ D \subseteq Streams
  BY DEF Idle
<1> HIDE DEF closed, left
<1>5. StreamsOK(ss2) /\ \A t \in D : ss2[t] = ss[t]
  BY <1>2, <1>3, <1>4, OneStreamOK
<1> HIDE DEF ss2
<1>6. \A t \in D : ss2[t].ng = "data" /\ (ss2[t].win = 0 \/ Defer(ss2[t]))
  BY <1>5 DEF Idle
<1>7. StreamsOK(rest)
  BY <1>4, <1>5, <1>6, SleptOK
<1> HIDE DEF rest
<1>8. more \subseteq Streams /\ \A t \in more : rest[t].ng = "data" /\ (rest[t].win = 0 \/ Defer(rest[t]))
  BY DEF Idle
<1> HIDE DEF more
<1>9. StreamsOK(Slept(rest, more))
  BY <1>7, <1>8, SleptOK
<1>10. StreamsOK(str')
  BY <1>1, <1>7, <1>9
<1>11. out' # NoFrame /\ out' \in Streams
  BY <1>1, <1>2, H2Assumption DEF NoFrame
<1>12. SessionTypeOK'
  BY <1>1, <1>3, <1>11 DEF SessionTypeOK
<1> QED
  BY <1>1, <1>10, <1>11, <1>12 DEF H2IInv, NothingQueued, EveryoneTold, InFlight, StreamsOK

\* do_write(), whatever the streams have become.
LEMMA DoWriteStep ==
  ASSUME SessionTypeOK, ~corrupt, NEW ss, StreamsOK(ss), NEW pend \in SUBSET Streams,
         NEW fly \in BOOLEAN, NEW c \in BOOLEAN, NEW cw \in Nat, fly => InFlight,
         conn = "gone" => ~fly /\ \A s \in Streams : ToldOK(ss[s]),
         env' \in Envs, goaway' \in BOOLEAN, DoWrite(ss, pend, fly, c, cw)
  PROVE  H2IInv'
<1>1. CASE fly \/ conn # "open"
  <2>1. /\ str' = ss /\ pending' = pend /\ ctrl' = c /\ cwin' = cw
        /\ conn' = conn /\ corrupt' = corrupt
        /\ IF fly THEN out' = out /\ cbs' = cbs ELSE out' = NoFrame /\ cbs' = {}
    BY <1>1 DEF DoWrite
  <2>2. SessionTypeOK'
    BY <2>1 DEF SessionTypeOK
  <2>3. NothingQueued'
    BY <1>1, <2>1 DEF NothingQueued, InFlight
  <2>4. EveryoneTold'
    BY <2>1 DEF EveryoneTold, InFlight
  <2> QED
    BY <2>1, <2>2, <2>3, <2>4 DEF H2IInv, StreamsOK
<1>2. CASE ~fly /\ conn = "open" /\ c /\ WriteControl(ss, pend, cw)
  <2>1. /\ str' = ss /\ out' = Control /\ cbs' = pend /\ pending' = {} /\ ctrl' = FALSE
        /\ cwin' = cw /\ conn' = "open" /\ corrupt' = corrupt
    BY <1>2 DEF WriteControl
  <2>2. SessionTypeOK'
    BY <2>1 DEF SessionTypeOK
  <2>3. out' # NoFrame
    BY <2>1 DEF Control, NoFrame
  <2> QED
    BY <2>1, <2>2, <2>3 DEF H2IInv, StreamsOK, NothingQueued, EveryoneTold, InFlight
<1>3. CASE ~fly /\ conn = "open" /\ NothingToWrite(ss, pend, cw)
  BY <1>3, NothingToWriteStep
<1>4. CASE /\ ~fly /\ conn = "open"
           /\ \E s \in Queued(ss, cw) \ Idle(ss, cw) :
              \E D \in SUBSET Idle(ss, cw) : WriteFrame(ss, pend, s, D, cw)
  BY <1>4, WriteFrameStep
<1> QED
  BY <1>1, <1>2, <1>3, <1>4, Zenon DEF DoWrite

\* do_write() as the callbacks of nghttp2 call it, whatever the streams and the
\* connection's window have become.
LEMMA WriteIfWantedStep ==
  ASSUME SessionTypeOK, ~corrupt, conn # "gone", NEW ss, StreamsOK(ss), NEW cw \in Nat,
         env' \in Envs, goaway' \in BOOLEAN, WriteIfWanted(ss, ctrl, cw)
  PROVE  H2IInv'
<1>1. CASE DoWrite(ss, pending, InFlight, ctrl, cw)
  <2>1. /\ pending \in SUBSET Streams /\ ctrl \in BOOLEAN /\ InFlight \in BOOLEAN
        /\ InFlight => InFlight
        /\ conn = "gone" => ~InFlight /\ \A t \in Streams : ToldOK(ss[t])
    BY DEF SessionTypeOK, InFlight
  <2> QED
    BY <1>1, <2>1, DoWriteStep
<1>2. CASE /\ ~WantWrite(ss, ctrl, cw) /\ str' = ss /\ ctrl' = ctrl /\ cwin' = cw
           /\ UNCHANGED <<conn, out, cbs, pending, corrupt>>
  <2>1. Queued(ss, cw) = {} /\ ~ctrl
    BY <1>2 DEF WantWrite
  <2>2. SessionTypeOK'
    BY <1>2 DEF SessionTypeOK
  <2>3. NothingQueued'
    BY <1>2, <2>1 DEF NothingQueued, Queued
  <2>4. EveryoneTold'
    BY <1>2 DEF EveryoneTold
  <2> QED
    BY <1>2, <2>2, <2>3, <2>4 DEF H2IInv, StreamsOK
<1> QED
  BY <1>1, <1>2, Zenon DEF WriteIfWanted

\* The same, with a new record for one stream.
LEMMA MaybeWriteStep ==
  ASSUME H2IInv, ~corrupt, conn # "gone", NEW s \in Streams, NEW r, StreamOK(r),
         env' \in Envs, goaway' \in BOOLEAN, MaybeWrite(s, r, ctrl)
  PROVE  H2IInv'
<1> DEFINE ss == [str EXCEPT ![s] = r]
<1>1. StreamsOK(ss) /\ SessionTypeOK /\ cwin \in Nat
  BY OneStreamOK DEF H2IInv, SessionTypeOK
<1>2. WriteIfWanted(ss, ctrl, cwin)
  BY Zenon DEF MaybeWrite
<1> HIDE DEF ss
<1> QED
  BY <1>1, <1>2, WriteIfWantedStep

\* flush() of stream s after its record became r.
LEMMA FlushAndWriteStep ==
  ASSUME H2IInv, ~corrupt, NEW s \in Streams, NEW r, StreamBegun(r), r.life = "live",
         r.user # "begun", conn = "gone" => ToldOK(r), NEW pend \in SUBSET Streams,
         env' \in Envs, goaway' \in BOOLEAN, FlushAndWrite(s, r, pend)
  PROVE  H2IInv'
<1>1. CASE r.closed
  <2> DEFINE ss == [str EXCEPT ![s] = r]
  <2>1. str' = ss /\ pending' = pend /\ UNCHANGED <<conn, out, cbs, cwin, ctrl, corrupt>>
    BY <1>1 DEF FlushAndWrite
  <2>2. StreamOK(r) /\ r.ng = "shut"
    BY <1>1 DEF StreamOK, StreamBegun, StreamRecords, LifeOK, StageOK, FlushedOK
  <2>3. StreamsOK(ss) /\ ss[s] = r /\ \A t \in Streams \ {s} : ss[t] = str[t]
    BY <2>2, OneStreamOK DEF H2IInv
  <2> HIDE DEF ss
  <2>4. SessionTypeOK'
    BY <2>1 DEF H2IInv, SessionTypeOK
  <2>5. NothingQueued'
    BY <2>1, <2>2, <2>3 DEF H2IInv, NothingQueued, InFlight, Queued
  <2>6. EveryoneTold'
    BY <2>1, <2>3 DEF H2IInv, EveryoneTold, InFlight
  <2> QED
    BY <2>1, <2>3, <2>4, <2>5, <2>6 DEF H2IInv, StreamsOK
<1>2. CASE ~r.closed
  <2> DEFINE ss == [str EXCEPT ![s] = Flush(r)]
  <2>1. DoWrite(ss, pend, InFlight, ctrl, cwin)
    BY <1>2 DEF FlushAndWrite
  <2>2. /\ StreamOK(Flush(r)) /\ Flush(r).life = r.life /\ Flush(r).req = r.req
        /\ Flush(r).held = r.held /\ Flush(r).user = r.user /\ Flush(r).told = r.told
    BY <1>2, FlushOK
  <2>3. StreamsOK(ss) /\ ss[s] = Flush(r) /\ \A t \in Streams \ {s} : ss[t] = str[t]
    BY <2>2, OneStreamOK DEF H2IInv
  <2> HIDE DEF ss
  <2>4. conn = "gone" => ~InFlight /\ \A t \in Streams : ToldOK(ss[t])
    BY <2>2, <2>3 DEF H2IInv, EveryoneTold, ToldOK
  <2>5. SessionTypeOK /\ cwin \in Nat /\ ctrl \in BOOLEAN /\ InFlight \in BOOLEAN /\ (InFlight => InFlight)
    BY DEF H2IInv, SessionTypeOK, InFlight
  <2> QED
    BY <2>1, <2>3, <2>4, <2>5, DoWriteStep
<1> QED
  BY <1>1, <1>2

-----------------------------------------------------------------------------
(* The user's calls. *)

\* A call that only moves the user on, or adds a trailer.
LEMMA UserMoves ==
  ASSUME NEW r, StreamOK(r), r.life = "live", NEW q \in StreamRecords,
         q.life = r.life, q.ng = r.ng, q.closed = r.closed, q.headersSent = r.headersSent,
         q.resume = r.resume, q.req = r.req, q.body = r.body, q.base = r.base, q.idx = r.idx,
         q.given = r.given, q.sent = r.sent, q.copies = r.copies, q.win = r.win,
         (q.upgrade <=> r.upgrade) \/ r.ng \in {"idle", "shut"},
         q.user \notin {"none", "begun"}, q.eof <=> q.user = "ended", r.eof => q.eof,
         r.trailers => q.trailers, q.trailers => q.user \in {"trailer", "ending", "ended"}
  PROVE  /\ StreamBegun(q)
         /\ r.user # "begun" /\ (q.eof => r.eof) => StreamOK(q)
<1>1. LifeOK(q) /\ StageOK(q)
  BY DEF StreamOK, StreamBegun, StreamRecords, LifeOK, StageOK
<1>2. ChunksOK(q)
  BY DEF StreamOK, StreamBegun, ChunksOK, BodyLength
<1>3. r.user # "begun" /\ (q.eof => r.eof) => FlushedOK(q)
  BY DEF StreamOK, FlushedOK
<1> QED
  BY <1>1, <1>2, <1>3 DEF StreamOK, StreamBegun

\* The user calls the responses of live streams only.
LEMMA CallsAreLive ==
  ASSUME NEW r, StreamOK(r), r.user \notin {"none", "ended"}
  PROVE  r.life = "live" /\ ~r.eof
  BY DEF StreamOK, StreamBegun, StreamRecords, LifeOK, StageOK

\* The user's response headers are submitted, and the inductive invariant kept.
LEMMA HeadersStep ==
  ASSUME H2IInv, NEW s \in Streams, NEW upgrade \in BOOLEAN, Headers(s, upgrade)
  PROVE  H2IInv'
<1> DEFINE r == [str[s] EXCEPT !.user = "headers", !.upgrade = upgrade]
<1>1. /\ ~corrupt /\ str[s].held /\ str[s].user = "begun"
      /\ FlushAndWrite(s, r, pending) /\ env' = env /\ goaway' = goaway
  BY DEF Headers, Calls
<1>2. StreamOK(str[s]) /\ str[s] \in StreamRecords
  BY DEF H2IInv, StreamsOK
<1>3. str[s].life = "live" /\ ~str[s].eof
  BY <1>1, <1>2, CallsAreLive
<1>4. /\ r \in StreamRecords /\ r.user = "headers"
      /\ r.life = str[s].life /\ r.ng = str[s].ng /\ r.closed = str[s].closed
      /\ r.headersSent = str[s].headersSent /\ r.resume = str[s].resume /\ r.req = str[s].req
      /\ r.body = str[s].body /\ r.base = str[s].base /\ r.idx = str[s].idx
      /\ r.given = str[s].given /\ r.sent = str[s].sent
      /\ r.copies = str[s].copies /\ r.win = str[s].win /\ r.eof = str[s].eof
      /\ r.trailers = str[s].trailers /\ r.held = str[s].held /\ r.told = str[s].told
  BY <1>2 DEF StreamRecords, UserStages
<1> HIDE DEF r
<1>5. ~str[s].trailers /\ str[s].ng \in {"idle", "shut"}
  BY <1>1, <1>2 DEF StreamOK, StreamBegun, StageOK
<1>6. StreamBegun(r)
  BY <1>2, <1>3, <1>4, <1>5, UserMoves
<1>7. conn = "gone" => ToldOK(r)
  BY <1>1, <1>3, <1>4 DEF H2IInv, EveryoneTold, ToldOK
<1>8. pending \in SUBSET Streams /\ env' \in Envs /\ goaway' \in BOOLEAN
  BY <1>1 DEF H2IInv, SessionTypeOK
<1> QED
  BY <1>1, <1>3, <1>4, <1>6, <1>7, <1>8, FlushAndWriteStep

\* A chunk added behind the body buffered so far keeps the inductive invariant.
LEMMA BodyStep ==
  ASSUME H2IInv, NEW s \in Streams, NEW n \in ChunkSizes, Body(s, n)
  PROVE  H2IInv'
<1> DEFINE b == Append(str[s].body, str[s].given + n)
           r == [str[s] EXCEPT !.user = "body", !.given = @ + n, !.body = b]
<1>1. /\ ~corrupt /\ str[s].held /\ str[s].user \in {"headers", "body"}
      /\ str[s].given + n <= MaxBody
      /\ FlushAndWrite(s, r, pending) /\ env' = env /\ goaway' = goaway
  BY DEF Body, Calls
<1>2. StreamOK(str[s]) /\ str[s] \in StreamRecords
  BY DEF H2IInv, StreamsOK
<1>3. str[s].life = "live" /\ ~str[s].eof
  BY <1>1, <1>2, CallsAreLive
<1>4. n \in Nat \ {0} /\ MaxBody \in Nat
  BY H2Assumption
<1>5. /\ str[s].body \in Seq(Nat) /\ str[s].base \in Nat /\ str[s].idx \in Nat
      /\ str[s].given \in Nat /\ str[s].sent \in Nat
  BY <1>2, <1>4 DEF StreamRecords
<1>6. str[s].given + n \in 0 .. MaxBody /\ b \in Seq(Nat)
  BY <1>1, <1>4, <1>5
<1>7. Chunks(b, str[s].base, str[s].idx, str[s].given + n)
  BY <1>2, <1>4, <1>5, ChunkAppended DEF StreamOK, StreamBegun, ChunksOK
<1> HIDE DEF b
<1>8. /\ r \in StreamRecords /\ r.user = "body"
      /\ r.life = str[s].life /\ r.ng = str[s].ng /\ r.closed = str[s].closed
      /\ r.headersSent = str[s].headersSent /\ r.resume = str[s].resume /\ r.req = str[s].req
      /\ r.body = b /\ r.base = str[s].base /\ r.idx = str[s].idx
      /\ r.given = str[s].given + n /\ r.sent = str[s].sent
      /\ r.upgrade = str[s].upgrade /\ r.copies = str[s].copies /\ r.win = str[s].win /\ r.eof = str[s].eof
      /\ r.trailers = str[s].trailers /\ r.held = str[s].held /\ r.told = str[s].told
  BY <1>2, <1>6 DEF StreamRecords, UserStages
<1> HIDE DEF r
<1>9. ~str[s].trailers /\ r.ng \notin {"await", "trail", "end"}
  BY <1>1, <1>2, <1>3, <1>8 DEF StreamOK, StreamBegun, StageOK
<1>10. StreamBegun(r)
  <2>1. LifeOK(r)
    BY <1>1, <1>2, <1>3, <1>8 DEF StreamOK, StreamBegun, LifeOK
  <2>2. StageOK(r)
    BY <1>1, <1>2, <1>3, <1>8, <1>9 DEF StreamOK, StreamBegun, StageOK
  <2>3. ChunksOK(r)
    BY <1>2, <1>7, <1>8, <1>9 DEF StreamOK, StreamBegun, ChunksOK
  <2> QED
    BY <1>8, <2>1, <2>2, <2>3 DEF StreamBegun
<1>11. conn = "gone" => ToldOK(r)
  BY <1>1, <1>3, <1>8 DEF H2IInv, EveryoneTold, ToldOK
<1>12. pending \in SUBSET Streams /\ env' \in Envs /\ goaway' \in BOOLEAN
  BY <1>1 DEF H2IInv, SessionTypeOK
<1> QED
  BY <1>1, <1>3, <1>8, <1>10, <1>11, <1>12, FlushAndWriteStep

\* A step that changes one stream and neither queues nor hides anything.
LEMMA OneStreamStep ==
  ASSUME H2IInv, NEW s \in Streams, NEW r, StreamOK(r),
         r.ng = str[s].ng \/ r.ng = "shut",
         conn = "gone" => ToldOK(r), NEW ss, ss = [str EXCEPT ![s] = r], str' = ss,
         UNCHANGED <<conn, out, cbs, pending, cwin, ctrl, env, goaway, corrupt>>
  PROVE  H2IInv'
<1>1. StreamsOK(ss) /\ ss[s] = r /\ \A t \in Streams \ {s} : ss[t] = str[t]
  <2>1. StreamsOK(str) /\ str \in [Streams -> StreamRecords]
    BY DEF H2IInv, StreamsOK
  <2>2. StreamsOK([str EXCEPT ![s] = r])
    BY <2>1, OneStreamOK
  <2>3. ss[s] = r /\ \A t \in Streams \ {s} : ss[t] = str[t]
    BY <2>1
  <2> QED
    BY <2>2, <2>3
<1>2. SessionTypeOK'
  BY DEF H2IInv, SessionTypeOK
<1>3. NothingQueued'
  BY <1>1 DEF H2IInv, NothingQueued, InFlight, Queued
<1>4. EveryoneTold'
  BY <1>1 DEF H2IInv, EveryoneTold, InFlight
<1> QED
  BY <1>1, <1>2, <1>3, <1>4 DEF H2IInv, StreamsOK

\* The trailers, and the posting of the end, keep the inductive invariant.
LEMMA TrailerStep ==
  ASSUME H2IInv, NEW s \in Streams, Trailer(s) \/ End(s)
  PROVE  H2IInv'
<1> DEFINE r == IF Trailer(s) THEN [str[s] EXCEPT !.user = "trailer", !.trailers = TRUE]
                ELSE [str[s] EXCEPT !.user = "ending"]
<1>1. str \in [Streams -> StreamRecords] /\ StreamOK(str[s]) /\ str[s] \in StreamRecords
  BY DEF H2IInv, StreamsOK
<1>2. /\ ~corrupt /\ str[s].held /\ str[s].user \in {"headers", "body", "trailer"}
      /\ UNCHANGED <<conn, out, cbs, pending, cwin, ctrl, env, goaway, corrupt>>
  BY DEF Trailer, End, Calls
<1>3. str' = [str EXCEPT ![s] = r]
  BY <1>1 DEF Trailer, End
<1>4. str[s].life = "live" /\ ~str[s].eof
  BY <1>1, <1>2, CallsAreLive
<1>5. /\ r \in StreamRecords /\ r.user \in {"trailer", "ending"}
      /\ r.life = str[s].life /\ r.ng = str[s].ng /\ r.closed = str[s].closed
      /\ r.headersSent = str[s].headersSent /\ r.resume = str[s].resume /\ r.req = str[s].req
      /\ r.body = str[s].body /\ r.base = str[s].base /\ r.idx = str[s].idx
      /\ r.given = str[s].given /\ r.sent = str[s].sent
      /\ r.upgrade = str[s].upgrade /\ r.copies = str[s].copies /\ r.win = str[s].win /\ r.eof = str[s].eof
      /\ str[s].trailers => r.trailers
      /\ r.held = str[s].held /\ r.told = str[s].told
  <2>1. CASE Trailer(s)
    <3>1. r = [str[s] EXCEPT !.user = "trailer", !.trailers = TRUE]
      BY <2>1
    <3> HIDE DEF r
    <3> QED
      BY <1>1, <3>1 DEF StreamRecords, UserStages
  <2>2. CASE ~Trailer(s)
    <3>1. r = [str[s] EXCEPT !.user = "ending"]
      BY <2>2
    <3> HIDE DEF r
    <3>2. r.trailers = str[s].trailers
      BY <1>1, <3>1 DEF StreamRecords
    <3>3. /\ r \in StreamRecords /\ r.user = "ending"
          /\ r.life = str[s].life /\ r.ng = str[s].ng /\ r.closed = str[s].closed
          /\ r.headersSent = str[s].headersSent /\ r.resume = str[s].resume /\ r.req = str[s].req
          /\ r.body = str[s].body /\ r.base = str[s].base /\ r.idx = str[s].idx
          /\ r.given = str[s].given /\ r.sent = str[s].sent /\ r.eof = str[s].eof
          /\ r.upgrade = str[s].upgrade /\ r.copies = str[s].copies /\ r.win = str[s].win
          /\ r.held = str[s].held /\ r.told = str[s].told
      BY <1>1, <3>1 DEF StreamRecords, UserStages
    <3> QED
      BY <3>2, <3>3, Zenon
  <2> QED
    BY <2>1, <2>2
<1> HIDE DEF r
<1>6. StreamOK(r)
  BY <1>1, <1>2, <1>4, <1>5, UserMoves
<1>7. conn = "gone" => ToldOK(r)
  BY <1>2, <1>4, <1>5 DEF H2IInv, EveryoneTold, ToldOK
<1> QED
  BY <1>2, <1>3, <1>5, <1>6, <1>7, OneStreamStep

\* The posted end, on an open or an already closed stream, keeps the inductive invariant.
LEMMA RunEndStep ==
  ASSUME H2IInv, NEW s \in Streams, RunEnd(s)
  PROVE  H2IInv'
<1> DEFINE r == [str[s] EXCEPT !.user = "ended", !.eof = TRUE]
<1>1. /\ ~corrupt /\ str[s].user = "ending" /\ env' = env /\ goaway' = goaway
      /\ \/ /\ r.closed /\ str' = [str EXCEPT ![s] = Die(r)]
            /\ UNCHANGED <<conn, out, cbs, pending, cwin, ctrl, corrupt>>
         \/ ~r.closed /\ FlushAndWrite(s, r, pending \cup {s})
  BY DEF RunEnd
<1>2. StreamOK(str[s]) /\ str[s] \in StreamRecords
  BY DEF H2IInv, StreamsOK
<1>3. str[s].life = "live"
  BY <1>1, <1>2, CallsAreLive
<1>4. /\ r \in StreamRecords /\ r.user = "ended" /\ r.eof
      /\ r.life = str[s].life /\ r.ng = str[s].ng /\ r.closed = str[s].closed
      /\ r.headersSent = str[s].headersSent /\ r.resume = str[s].resume /\ r.req = str[s].req
      /\ r.body = str[s].body /\ r.base = str[s].base /\ r.idx = str[s].idx
      /\ r.given = str[s].given /\ r.sent = str[s].sent
      /\ r.upgrade = str[s].upgrade /\ r.copies = str[s].copies /\ r.win = str[s].win
      /\ r.trailers = str[s].trailers /\ r.held = str[s].held /\ r.told = str[s].told
  BY <1>2 DEF StreamRecords, UserStages
<1> HIDE DEF r
<1>5. StreamBegun(r)
  BY <1>2, <1>3, <1>4, UserMoves
<1>6. conn = "gone" => ToldOK(r)
  BY <1>1, <1>3, <1>4 DEF H2IInv, EveryoneTold, ToldOK
<1>7. CASE /\ r.closed /\ str' = [str EXCEPT ![s] = Die(r)]
           /\ UNCHANGED <<conn, out, cbs, pending, cwin, ctrl, corrupt>>
  <2>1. StreamOK(Die(r))
    BY <1>3, <1>4, <1>5, DieOK
  <2>2. Die(r).ng = "shut" /\ Die(r).life = "gone"
    BY <1>4 DEF Die, StreamRecords
  <2>3. ToldOK(Die(r))
    BY <2>2 DEF ToldOK
  <2> QED
    BY <1>1, <1>7, <2>1, <2>2, <2>3, OneStreamStep
<1>8. CASE ~r.closed /\ FlushAndWrite(s, r, pending \cup {s})
  <2>1. pending \cup {s} \in SUBSET Streams /\ env' \in Envs /\ goaway' \in BOOLEAN
    BY <1>1 DEF H2IInv, SessionTypeOK
  <2> QED
    BY <1>1, <1>3, <1>4, <1>5, <1>6, <1>8, <2>1, FlushAndWriteStep
<1> QED
  BY <1>1, <1>7, <1>8

\* A user that lets go of its response keeps the inductive invariant.
LEMMA DropStep ==
  ASSUME H2IInv, NEW s \in Streams, Drop(s)
  PROVE  H2IInv'
<1> DEFINE r == [str[s] EXCEPT !.held = FALSE]
<1>1. str \in [Streams -> StreamRecords] /\ StreamOK(str[s]) /\ str[s] \in StreamRecords
  BY DEF H2IInv, StreamsOK
<1>2. /\ str' = [str EXCEPT ![s] = r]
      /\ UNCHANGED <<conn, out, cbs, pending, cwin, ctrl, env, goaway, corrupt>>
  BY <1>1 DEF Drop
<1>3. /\ r \in StreamRecords /\ ~r.held /\ r.user = str[s].user
      /\ r.life = str[s].life /\ r.ng = str[s].ng /\ r.closed = str[s].closed
      /\ r.headersSent = str[s].headersSent /\ r.resume = str[s].resume /\ r.req = str[s].req
      /\ r.body = str[s].body /\ r.base = str[s].base /\ r.idx = str[s].idx
      /\ r.given = str[s].given /\ r.sent = str[s].sent
      /\ r.upgrade = str[s].upgrade /\ r.copies = str[s].copies /\ r.win = str[s].win /\ r.eof = str[s].eof
      /\ r.trailers = str[s].trailers /\ r.told = str[s].told
  BY <1>1 DEF StreamRecords
<1> HIDE DEF r
<1>4. StreamOK(r)
  BY <1>1, <1>3, SMT DEF StreamOK, StreamBegun, LifeOK, StageOK, FlushedOK, ChunksOK, BodyLength
<1>5. conn = "gone" => ToldOK(r)
  BY <1>3 DEF H2IInv, EveryoneTold, ToldOK
<1> QED
  BY <1>2, <1>3, <1>4, <1>5, OneStreamStep

-----------------------------------------------------------------------------
(* The peer and the connector. *)

\* The frames of a stream.
LEMMA ReceiveStep ==
  ASSUME H2IInv, NEW s \in Streams,
         \/ \E end \in BOOLEAN : RecvHeaders(s, end)
         \/ RecvData(s) \/ RecvEnd(s) \/ RecvRst(s)
         \/ \E n \in 1 .. SmallWindow : RecvStreamWindow(s, n)
  PROVE  H2IInv'
<1>1. StreamOK(str[s])
  BY DEF H2IInv, StreamsOK
<1>2. conn # "gone" /\ ~corrupt /\ env' \in Envs /\ goaway' \in BOOLEAN
  BY DEF H2IInv, SessionTypeOK, RecvHeaders, RecvData, RecvEnd, RecvRst,
     RecvStreamWindow, Reading
<1>3. ASSUME NEW end \in BOOLEAN, RecvHeaders(s, end)
      PROVE  H2IInv'
  <2> DEFINE r == IF end THEN Finished(NewStream) ELSE NewStream
  <2>1. StreamOK(r)
    BY NewStreamOK, FinishedOK
  <2>2. MaybeWrite(s, r, ctrl)
    BY <1>3 DEF RecvHeaders
  <2> HIDE DEF r
  <2> QED
    BY <1>2, <2>1, <2>2, MaybeWriteStep
<1>4. CASE RecvData(s)
  BY <1>1, <1>2, <1>4, MaybeWriteStep DEF RecvData
<1>5. CASE RecvEnd(s)
  <2>1. StreamOK(CloseIfDone(Finished(str[s])))
    BY <1>1, FinishedOK, CloseIfDoneOK
  <2>2. MaybeWrite(s, CloseIfDone(Finished(str[s])), ctrl)
    BY <1>5 DEF RecvEnd
  <2> QED
    BY <1>2, <2>1, <2>2, MaybeWriteStep
<1>6. CASE RecvRst(s)
  <2>1. StreamOK(Die(str[s]))
    BY <1>1, <1>6, DieOK DEF RecvRst, StreamOK
  <2>2. MaybeWrite(s, Die(str[s]), ctrl)
    BY <1>6 DEF RecvRst
  <2> QED
    BY <1>2, <2>1, <2>2, MaybeWriteStep
<1>7. ASSUME NEW n \in 1 .. SmallWindow, RecvStreamWindow(s, n)
      PROVE  H2IInv'
  <2> DEFINE r == [str[s] EXCEPT !.win = @ + n, !.ng = IF @ = "wait" THEN "data" ELSE @]
  <2>1. n \in Nat
    BY H2Assumption
  <2>2. StreamOK(r)
    BY <1>1, <2>1, WiderWindowOK
  <2>3. MaybeWrite(s, r, ctrl)
    BY <1>7 DEF RecvStreamWindow
  <2> HIDE DEF r
  <2> QED
    BY <1>2, <2>2, <2>3, MaybeWriteStep
<1> QED
  BY <1>3, <1>4, <1>5, <1>6, <1>7

\* A step in which the connector stops and nothing else changes.
LEMMA StopsStep ==
  ASSUME H2IInv, conn' = "stopped",
         UNCHANGED <<str, out, cbs, pending, cwin, ctrl, env, goaway, corrupt>>
  PROVE  H2IInv'
<1>1. SessionTypeOK'
  BY DEF H2IInv, SessionTypeOK
<1> QED
  BY <1>1 DEF H2IInv, StreamsOK, NothingQueued, EveryoneTold

\* Frames of the session, and the completion of a write.
LEMMA SessionStep ==
  ASSUME H2IInv,
         \/ RecvControl \/ RecvGoaway \/ RecvFlooded \/ WriteOk
         \/ \E n \in 1 .. SmallWindow : RecvConnWindow(n)
  PROVE  H2IInv'
<1>1. ~corrupt /\ env' \in Envs /\ goaway' \in BOOLEAN
  BY DEF H2IInv, SessionTypeOK, RecvControl, RecvGoaway, RecvFlooded, RecvConnWindow,
     WriteOk, Reading
<1>2. /\ SessionTypeOK /\ StreamsOK(str) /\ pending \in SUBSET Streams /\ ctrl \in BOOLEAN
      /\ cwin \in Nat /\ InFlight \in BOOLEAN /\ (InFlight => InFlight) /\ TRUE \in BOOLEAN
      /\ FALSE \in BOOLEAN /\ (FALSE => InFlight)
      /\ conn = "gone" => ~InFlight /\ \A t \in Streams : ToldOK(str[t])
  BY DEF H2IInv, SessionTypeOK, InFlight, EveryoneTold
<1>3. CASE RecvControl \/ RecvFlooded
  <2>1. DoWrite(str, pending, InFlight, TRUE, cwin)
    BY <1>3 DEF RecvControl, RecvFlooded
  <2> QED
    BY <1>1, <1>2, <2>1, DoWriteStep
<1>4. CASE RecvGoaway
  <2>1. WriteIfWanted(str, ctrl, cwin) /\ conn # "gone"
    BY <1>4 DEF RecvGoaway, Reading
  <2> QED
    BY <1>1, <1>2, <2>1, WriteIfWantedStep
<1>5. CASE WriteOk
  <2> DEFINE ss == Tell(str, cbs, "cleared")
  <2>1. DoWrite(ss, pending, FALSE, ctrl, cwin) /\ InFlight
    BY <1>5 DEF WriteOk
  <2>2. StreamsOK(ss)
    BY <1>2, TellOK
  <2>3. conn # "gone"
    BY <2>1 DEF H2IInv, EveryoneTold
  <2> HIDE DEF ss
  <2>4. conn = "gone" => ~FALSE /\ \A t \in Streams : ToldOK(ss[t])
    BY <2>3
  <2> QED
    BY <1>1, <1>2, <2>1, <2>2, <2>4, DoWriteStep
<1>6. ASSUME NEW n \in 1 .. SmallWindow, RecvConnWindow(n)
      PROVE  H2IInv'
  <2>1. WriteIfWanted(str, ctrl, cwin + n) /\ conn # "gone"
    BY <1>6 DEF RecvConnWindow, Reading
  <2>2. cwin + n \in Nat
    BY <1>2, H2Assumption
  <2> QED
    BY <1>1, <1>2, <2>1, <2>2, WriteIfWantedStep
<1> QED
  BY <1>3, <1>4, <1>5, <1>6

\* A failed write reports an error to each callback waiting for it, and keeps the invariant.
LEMMA WriteFailedStep ==
  ASSUME H2IInv, WriteFailed
  PROVE  H2IInv'
<1>1. /\ str' = Tell(str, cbs, "error") /\ conn' = "stopped" /\ out' = NoFrame /\ cbs' = {}
      /\ UNCHANGED <<pending, cwin, ctrl, env, goaway, corrupt>>
  BY DEF WriteFailed
<1>2. StreamsOK(str')
  BY <1>1, TellOK DEF H2IInv
<1>3. SessionTypeOK'
  BY <1>1 DEF H2IInv, SessionTypeOK
<1> QED
  BY <1>1, <1>2, <1>3 DEF H2IInv, StreamsOK, NothingQueued, EveryoneTold

\* ~connector: everyone is told.
LEMMA OnConnectorNulledStep ==
  ASSUME H2IInv, OnConnectorNulled
  PROVE  H2IInv'
<1> DEFINE failed == Tell(str, pending, "error")
<1>1. /\ ~InFlight /\ conn' = "gone"
      /\ str' = [s \in Streams |-> IF s \in Live THEN NotifyError(failed[s], Locks(s))
                                                 ELSE failed[s]]
      /\ UNCHANGED <<out, cbs, pending, cwin, ctrl, env, goaway, corrupt>>
  BY DEF OnConnectorNulled
<1>2. /\ StreamsOK(failed)
      /\ \A s \in Streams :
           /\ failed[s].life = str[s].life /\ failed[s].held = str[s].held
           /\ failed[s].user = str[s].user /\ str[s].told \subseteq failed[s].told
  BY TellOK DEF H2IInv
<1> HIDE DEF failed
<1>3. ASSUME NEW s \in Streams
      PROVE  StreamOK(str'[s]) /\ ToldOK(str'[s])
  <2>1. CASE s \in Live
    <3> DEFINE r == failed[s]
               q == NotifyError(r, Locks(s))
    <3>1. str'[s] = q
      BY <1>1, <2>1
    <3>2. StreamOK(r) /\ r \in StreamRecords
      BY <1>2 DEF StreamsOK
    <3>3. /\ q \in StreamRecords
          /\ q.life = r.life /\ q.ng = r.ng /\ q.user = r.user /\ q.held = r.held
          /\ q.closed = r.closed /\ q.eof = r.eof /\ q.trailers = r.trailers
          /\ q.headersSent = r.headersSent /\ q.resume = r.resume
          /\ q.body = r.body /\ q.base = r.base /\ q.idx = r.idx
          /\ q.given = r.given /\ q.sent = r.sent
          /\ q.upgrade = r.upgrade /\ q.copies = r.copies /\ q.win = r.win
          /\ q.req = (IF r.req = "on" THEN "error" ELSE r.req)
          /\ q.told = (IF Locks(s) THEN r.told \cup {"error"} ELSE r.told)
      BY <3>2 DEF NotifyError, StreamRecords
    <3>4. r.life = "live" /\ r.req # "none"
      BY <1>2, <2>1, <3>2 DEF Live, StreamOK, StreamBegun, LifeOK
    <3>5. ~Locks(s) => ~r.held /\ r.user # "ending" /\ (r.user = "ended" => r.told # {})
      BY <1>2 DEF Locks
    <3> HIDE DEF q, r
    <3>6. StreamOK(q)
      <4>1. LifeOK(q) /\ StageOK(q) /\ FlushedOK(q)
        BY <3>2, <3>3, <3>4 DEF StreamOK, StreamBegun, LifeOK, StageOK, FlushedOK
      <4>2. ChunksOK(q)
        BY <3>2, <3>3 DEF StreamOK, StreamBegun, ChunksOK, BodyLength
      <4> QED
        BY <3>3, <4>1, <4>2 DEF StreamOK, StreamBegun
    <3>7. r.req \in {"on", "finished", "error"}
      BY <3>2, <3>4 DEF StreamRecords
    <3>8. ToldOK(q)
      BY <3>3, <3>5, <3>7 DEF ToldOK
    <3> QED
      BY <3>1, <3>6, <3>8
  <2>2. CASE s \notin Live
    <3>1. str'[s] = failed[s] /\ failed[s].life # "live"
      BY <1>1, <1>2, <2>2 DEF Live
    <3> QED
      BY <1>2, <3>1 DEF ToldOK, StreamsOK
  <2> QED
    BY <2>1, <2>2
<1>4. str' \in [Streams -> StreamRecords]
  <2>1. \A s \in Streams : str'[s] \in StreamRecords
    BY <1>3 DEF StreamOK, StreamBegun
  <2> QED
    BY <1>1, <2>1
<1>5. SessionTypeOK'
  BY <1>1 DEF H2IInv, SessionTypeOK
<1>6. EveryoneTold'
  BY <1>1, <1>3 DEF EveryoneTold, InFlight
<1> QED
  BY <1>1, <1>3, <1>4, <1>5, <1>6 DEF H2IInv, StreamsOK, NothingQueued

-----------------------------------------------------------------------------
(* The theorems. *)

\* The inductive invariant holds of a fresh session.
LEMMA InitOK ==
  ASSUME Init
  PROVE  H2IInv
<1>1. <<>> \in Seq(Nat) /\ 0 \in 0 .. MaxBody
  BY H2Assumption
<1>2. Chunks(<<>>, 0, 0, 0)
  BY DEF Chunks
<1>3. /\ NoStream \in StreamRecords /\ NoStream.life = "none" /\ NoStream.user = "none"
      /\ NoStream.ng = "idle" /\ ~NoStream.held /\ ~NoStream.eof /\ ~NoStream.trailers
      /\ ~NoStream.headersSent /\ NoStream.body = <<>> /\ NoStream.base = 0
      /\ NoStream.idx = 0 /\ NoStream.given = 0 /\ NoStream.sent = 0
      /\ ~NoStream.upgrade
  <2>1. NewStream \in StreamRecords
    BY NewStreamOK DEF StreamOK, StreamBegun
  <2>2. /\ NoStream \in StreamRecords /\ NoStream.life = "none" /\ NoStream.user = "none"
        /\ ~NoStream.held
        /\ NoStream.ng = NewStream.ng /\ NoStream.eof = NewStream.eof
        /\ NoStream.trailers = NewStream.trailers /\ NoStream.headersSent = NewStream.headersSent
        /\ NoStream.body = NewStream.body /\ NoStream.base = NewStream.base
        /\ NoStream.idx = NewStream.idx /\ NoStream.given = NewStream.given
        /\ NoStream.sent = NewStream.sent /\ NoStream.upgrade = NewStream.upgrade
    BY <2>1, ZenonT(60) DEF NoStream, StreamRecords, UserStages
  <2> QED
    BY <2>2 DEF NewStream
<1>4. StreamOK(NoStream)
  BY <1>2, <1>3 DEF StreamOK, StreamBegun, LifeOK, StageOK, FlushedOK, ChunksOK
<1>5. StreamsOK(str)
  BY <1>3, <1>4 DEF Init, StreamsOK
<1>6. SessionTypeOK
  BY H2Assumption DEF Init, SessionTypeOK, Control, NoFrame, InitialWindow
<1>7. InFlight /\ conn = "open"
  BY DEF Init, InFlight, Control, NoFrame
<1> QED
  BY <1>5, <1>6, <1>7 DEF H2IInv, NothingQueued, EveryoneTold

\* The inductive invariant of the session holds for any streams, any sizes of
\* chunks and frames, and any combination of resets, GOAWAYs, failures and calls.
THEOREM H2Invariance == Spec => []H2IInv
<1>1. Init => H2IInv
  BY InitOK
<1>2. H2IInv /\ [Next]_vars => H2IInv'
  <2> SUFFICES ASSUME H2IInv, [Next]_vars
               PROVE  H2IInv'
    OBVIOUS
  <2>1. CASE UNCHANGED vars
    BY <2>1 DEF vars, H2IInv, SessionTypeOK, StreamsOK, NothingQueued, EveryoneTold, InFlight, Queued
  <2>2. ASSUME NEW s \in Streams,
               \/ \E end \in BOOLEAN : RecvHeaders(s, end)
               \/ RecvData(s) \/ RecvEnd(s) \/ RecvRst(s)
               \/ \E n \in 1 .. SmallWindow : RecvStreamWindow(s, n)
        PROVE  H2IInv'
    BY <2>2, ReceiveStep
  <2>3. ASSUME NEW s \in Streams, NEW upgrade \in BOOLEAN, Headers(s, upgrade)
        PROVE  H2IInv'
    BY <2>3, HeadersStep
  <2>4. ASSUME NEW s \in Streams, Trailer(s) \/ End(s)
        PROVE  H2IInv'
    BY <2>4, TrailerStep
  <2>5. ASSUME NEW s \in Streams, RunEnd(s)
        PROVE  H2IInv'
    BY <2>5, RunEndStep
  <2>6. ASSUME NEW s \in Streams, Drop(s)
        PROVE  H2IInv'
    BY <2>6, DropStep
  <2>7. ASSUME NEW s \in Streams, NEW n \in ChunkSizes, Body(s, n)
        PROVE  H2IInv'
    BY <2>7, BodyStep
  <2>8. CASE \/ RecvControl \/ RecvGoaway \/ RecvFlooded \/ WriteOk
             \/ \E n \in 1 .. SmallWindow : RecvConnWindow(n)
    BY <2>8, SessionStep
  <2>9. CASE RecvInvalid \/ Close \/ ReadFailed
    BY <2>9, StopsStep DEF RecvInvalid, Close, ReadFailed
  <2>10. CASE WriteFailed
    BY <2>10, WriteFailedStep
  <2>11. CASE OnConnectorNulled
    BY <2>11, OnConnectorNulledStep
  <2> QED
    BY <2>1, <2>2, <2>3, <2>4, <2>5, <2>6, <2>7, <2>8, <2>9, <2>10, <2>11, Zenon DEF Next
<1> QED
  BY <1>1, <1>2, PTL DEF Spec

\* A stream is destroyed only when nghttp2, the user and the closure of end()
\* have finished with it, and a sleeping data source is woken by the next flush().
THEOREM H2MembersSafe == Spec => []H2Inv
<1>1. H2IInv => H2Inv
  <2> SUFFICES ASSUME H2IInv
               PROVE  H2Inv
    OBVIOUS
  <2>1. TypeOK
    BY DEF H2IInv, SessionTypeOK, StreamsOK, StreamOK, StreamBegun, StreamRecords, TypeOK
  <2>2. DestroyedIsUnused
    BY DEF H2IInv, StreamsOK, StreamOK, StreamBegun, LifeOK, DestroyedIsUnused
  <2>3. DeferredIsResumable
    BY DEF H2IInv, StreamsOK, StreamOK, StreamBegun, StageOK, DeferredIsResumable, Live
  <2> QED
    BY <2>1, <2>2, <2>3 DEF H2Inv
<1> QED
  BY <1>1, H2Invariance, PTL

\* What nghttp2 is given of a body, and what waits in the list, is what the user
\* gave, in order and without gap, for chunks and frames of any size.
THEOREM H2BodyInOrder == Spec => []BodyInOrder
<1>1. H2IInv => BodyInOrder
  <2> SUFFICES ASSUME H2IInv, NEW s \in Streams
               PROVE  LET r == str[s] IN
                      /\ r.sent = r.base + r.idx
                      /\ r.sent + BodyLength(r) = r.given
                      /\ r.ng \in {"await", "trail", "end"} => BodyLength(r) \in {0} \cup 1 .. FrameLen
    BY DEF BodyInOrder
  <2> DEFINE r == str[s]
  <2>1. r \in StreamRecords /\ ChunksOK(r)
    BY DEF H2IInv, StreamsOK, StreamOK, StreamBegun
  <2>2. r.base + r.idx + BodyLength(r) = r.given
    BY <2>1, EmptyIsUsedUp DEF ChunksOK
  <2>3. BodyLength(r) \in Nat
    <3>1. r.body \in Seq(Nat) /\ r.base \in Nat /\ r.idx \in Nat /\ r.given \in Nat
      BY <2>1, H2Assumption DEF StreamRecords
    <3>2. CASE r.body = <<>>
      BY <3>2 DEF BodyLength
    <3>3. CASE r.body # <<>>
      <4> DEFINE n == Len(r.body)
      <4>1. n \in Nat \ {0} /\ r.body[1] \in Nat /\ r.body[n] \in Nat
        BY <3>1, <3>3
      <4>2. r.base + r.idx < r.body[1]
        BY <2>1, <3>3 DEF ChunksOK, Chunks
      <4>3. n = 1 \/ r.body[1] < r.body[n]
        <5> HIDE DEF n
        <5>1. 1 \in 1 .. n /\ n \in 1 .. n /\ (n = 1 \/ 1 < n)
          BY <4>1
        <5> USE DEF n
        <5> QED
          BY <2>1, <5>1 DEF ChunksOK, Chunks
      <4>4. BodyLength(r) = r.body[n] - r.base - r.idx
        BY <3>3 DEF BodyLength, Last
      <4> HIDE DEF n, r
      <4> QED
        BY <3>1, <4>1, <4>2, <4>3, <4>4
    <3> QED
      BY <3>2, <3>3
  <2> QED
    BY <2>1, <2>2, <2>3, H2Assumption DEF ChunksOK
<1> QED
  BY <1>1, H2Invariance, PTL

\* When the connector is gone every request was finished or failed and every
\* response that can still be reached was told its outcome.
THEOREM H2NobodyForgotten == Spec => []NobodyForgotten
<1>1. H2IInv => NobodyForgotten
  BY DEF H2IInv, EveryoneTold, ToldOK, NobodyForgotten, Live
<1> QED
  BY <1>1, H2Invariance, PTL

\* A response without trailers that its user has ended is sent to its end: when
\* nothing is in flight, END_STREAM was sent, or one of the peer's windows is used
\* up, or its status was 101 and all its HEADERS were sent.
THEOREM H2EndedIsFinished == Spec => []EndedIsFinished
<1>1. H2IInv => EndedIsFinished
  <2> SUFFICES ASSUME H2IInv, ~corrupt, NEW s \in Streams, ~str[s].trailers,
                      str[s].user = "ended", conn = "open", ~InFlight,
                      str[s].ng \notin {"end", "shut"}
               PROVE  (str[s].upgrade /\ str[s].ng = "bare") \/ WindowUsedUp(str[s])
    BY DEF EndedIsFinished, Finishes
  <2>1. str[s].ng \notin {"resp", "hdrs", "trail"} /\ (str[s].ng = "data" => ~(cwin > 0))
    BY DEF H2IInv, NothingQueued, Queued
  <2>2. cwin \in Nat /\ StreamOK(str[s])
    BY DEF H2IInv, SessionTypeOK, StreamsOK
  <2>3. str[s].ng \in {"wait", "data", "bare"}
    BY <2>1, <2>2 DEF StreamOK, StreamBegun, StreamRecords, LifeOK, StageOK, FlushedOK
  <2>4. (str[s].ng = "wait" => str[s].win = 0) /\ (str[s].ng = "bare" => str[s].upgrade)
    BY <2>2 DEF StreamOK, StreamBegun, StageOK
  <2>5. str[s].ng = "data" => cwin = 0
    BY <2>1, <2>2
  <2> QED
    BY <2>3, <2>4, <2>5 DEF WindowUsedUp
<1> QED
  BY <1>1, H2Invariance, PTL
=============================================================================
