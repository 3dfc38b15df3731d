-------------------------- MODULE ConnectorProofs --------------------------
(***************************************************************************)
(* Proofs about the connector, for every set of responses, every set of    *)
(* runs of parts and every bound: ConnInv is inductive, so the safety      *)
(* properties of ConnectorSpec hold, and the connector implements          *)
(* OrderedDelivery.                                                        *)
(***************************************************************************)
EXTENDS ConnectorSpec, SequenceTheorems, TLAPS

-----------------------------------------------------------------------------
(* Steps that leave the bytes and the feedbacks alone. *)

\* A step of the timer, of a read or of stop() changes none of writeVars, so it
\* preserves the invariant if it keeps the types, Open, NoStuckBytes and DeadlineArmed.
LEMMA QuietStep ==
  ASSUME ConnInv, UNCHANGED writeVars,
         alive' \in BOOLEAN, stopped' \in BOOLEAN,
         rd' \in {"none", "pending", "running"},
         ttl' \in BOOLEAN, armed' \in BOOLEAN, fired' \in BOOLEAN,
         cut' \in {{"timer"}} \cup SUBSET {"read", "write"},
         stopped => stopped', Open', NoStuckBytes', DeadlineArmed'
  PROVE  ConnInv'
<1>1. ConnTypeOK'
  BY DEF ConnInv, ConnTypeOK, writeVars
<1>2. NothingInFlight'
  BY DEF ConnInv, NothingInFlight, writeVars
<1>3. Located'
  BY DEF ConnInv, Located, writeVars
<1>4. Feedbacks' /\ Apart'
  BY DEF ConnInv, Feedbacks, Apart, Within, writeVars
<1> QED
  BY <1>1, <1>2, <1>3, <1>4 DEF ConnInv

\* The actions of the timer preserve the invariant.
LEMMA TimerSteps ==
  ASSUME ConnInv, TimerExpires \/ RunTimer \/ UserSetsTimeout \/ SocketCanceled
  PROVE  ConnInv'
<1> USE DEF ConnInv, ConnTypeOK, Open, NoStuckBytes, DeadlineArmed, WriteDropped, writeVars
<1>1. CASE TimerExpires
  BY <1>1, QuietStep DEF TimerExpires
<1>2. CASE RunTimer
  BY <1>2, QuietStep DEF RunTimer, Renewed
<1>3. CASE UserSetsTimeout
  BY <1>3, QuietStep DEF UserSetsTimeout, SetTimeout
<1>4. CASE SocketCanceled
  BY <1>4, QuietStep DEF SocketCanceled
<1> QED
  BY <1>1, <1>2, <1>3, <1>4

\* The actions of the reading side and close() preserve the invariant.
LEMMA ReadSteps ==
  ASSUME ConnInv,
         ReadOk \/ ReadDone \/ ReadRejected \/ ReadFailed \/ ReadCanceled \/ HandlerCloses
  PROVE  ConnInv'
<1> USE DEF ConnInv, ConnTypeOK, Open, NoStuckBytes, DeadlineArmed, WriteDropped, writeVars
<1>1. CASE ReadOk
  BY <1>1, QuietStep DEF ReadOk
<1>2. CASE ReadDone
  BY <1>2, QuietStep DEF ReadDone, Renewed
<1>3. CASE ReadRejected
  BY <1>3, QuietStep DEF ReadRejected, Stop
<1>4. CASE ReadFailed
  BY <1>4, QuietStep DEF ReadFailed, CancelAndStop
<1>5. CASE ReadCanceled
  BY <1>5, QuietStep DEF ReadCanceled
<1>6. CASE HandlerCloses
  BY <1>6, QuietStep DEF HandlerCloses, ConnClose, Stop
<1> QED
  BY <1>1, <1>2, <1>3, <1>4, <1>5, <1>6

-----------------------------------------------------------------------------
(* Steps of a write that is in flight. *)

\* The bytes of a write that completed continue what the peer already has.
LEMMA Delivered ==
  ASSUME ConnInv, writing, NEW n \in 0 .. Len(out)
  PROVE  /\ wire \o SubSeq(out, 1, n) \in Seq(Item)
         /\ Len(wire \o SubSeq(out, 1, n)) = Len(wire) + n
         /\ Len(wire) + n <= Len(sent)
         /\ \A i \in 1 .. Len(wire) + n : (wire \o SubSeq(out, 1, n))[i] = sent[i]
<1> DEFINE part == SubSeq(out, 1, n)
<1>1. /\ out \in Seq(Item) /\ wire \in Seq(Item) /\ sent \in Seq(Item)
      /\ Len(out) \in Nat /\ Len(wire) \in Nat /\ Len(sent) \in Nat /\ Len(ser) \in Nat
      /\ n \in Nat
  BY LenProperties DEF ConnInv, ConnTypeOK
<1>2. \A i \in 1 .. n : out[i] \in Item
  BY <1>1, ElementOfSeq
<1>3. /\ part \in Seq(Item) /\ Len(part) = n
      /\ \A i \in 1 .. n : part[i] = out[i]
  <2>1. 1 \in Int /\ n \in Int
    BY <1>1
  <2>2. /\ part \in Seq(Item)
        /\ Len(part) = IF 1 <= n THEN n - 1 + 1 ELSE 0
        /\ \A i \in 1 .. n - 1 + 1 : part[i] = out[1 + i - 1]
    BY <1>2, <2>1, SubSeqProperties
  <2> QED
    BY <1>1, <2>2
<1> HIDE DEF part
<1>4. /\ wire \o part \in Seq(Item) /\ Len(wire \o part) = Len(wire) + n
      /\ \A i \in 1 .. Len(wire) + n :
           (wire \o part)[i] = IF i <= Len(wire) THEN wire[i] ELSE part[i - Len(wire)]
  BY <1>1, <1>3, ConcatProperties
<1>5. /\ Len(sent) = Len(wire) + Len(out) + Len(ser)
      /\ \A i \in 1 .. Len(wire) : wire[i] = sent[i]
      /\ \A i \in 1 .. Len(out) : out[i] = sent[Len(wire) + i]
  BY DEF ConnInv, Located
<1>6. Len(wire) + n <= Len(sent)
  BY <1>1, <1>5
<1>7. ASSUME NEW i \in 1 .. Len(wire) + n
      PROVE  (wire \o part)[i] = sent[i]
  <2>1. CASE i <= Len(wire)
    BY <1>1, <1>4, <1>5, <2>1
  <2>2. CASE ~(i <= Len(wire))
    <3>1. i - Len(wire) \in 1 .. n
      BY <1>1, <2>2
    <3>2. (wire \o part)[i] = out[i - Len(wire)]
      BY <1>3, <1>4, <2>2, <3>1
    <3>3. out[i - Len(wire)] = sent[Len(wire) + (i - Len(wire))]
      BY <1>1, <1>5, <3>1
    <3> QED
      BY <1>1, <3>2, <3>3
  <2> QED
    BY <2>1, <2>2
<1> QED
  BY <1>4, <1>6, <1>7 DEF part

\* The completion of a successful write preserves the invariant.
LEMMA WriteOkStep ==
  ASSUME ConnInv, WriteOk
  PROVE  ConnInv'
<1>1. /\ out \in Seq(Item) /\ wire \in Seq(Item) /\ sent \in Seq(Item) /\ ser \in Seq(Item)
      /\ Len(out) \in Nat /\ Len(wire) \in Nat /\ Len(sent) \in Nat /\ Len(ser) \in Nat
  BY LenProperties DEF ConnInv, ConnTypeOK
<1>2. /\ writing /\ wire' = wire \o out
      /\ sent' = sent /\ turn' = turn /\ nacked' = nacked /\ stopped' = stopped
      /\ alive' = alive /\ rd' = rd /\ ttl' = ttl /\ fired' = fired
      /\ armed' = (~stopped /\ ttl) /\ cut' = cut \ {"write"}
  BY DEF WriteOk
<1>3. SubSeq(out, 1, Len(out)) = out
  BY <1>1, SubSeqFull
<1>4. /\ wire' \in Seq(Item) /\ Len(wire') = Len(wire) + Len(out)
      /\ Len(wire') <= Len(sent)
      /\ \A i \in 1 .. Len(wire') : wire'[i] = sent[i]
  <2>1. Len(out) \in 0 .. Len(out)
    BY <1>1
  <2> QED
    BY <1>1, <1>2, <1>3, <2>1, Delivered
<1>5. \A i \in 1 .. Len(sent) : sent[i].id \in Ids /\ sent[i].id \in Nat
  <2>1. \A i \in 1 .. Len(sent) : sent[i] \in Item
    BY <1>1, ElementOfSeq
  <2> QED
    BY <2>1, IdsAssumption DEF Item
<1>6. /\ Len(sent) = Len(wire) + Len(out) + Len(ser)
      /\ \A i \in 1 .. Len(ser) : ser[i] = sent[Len(wire) + Len(out) + i]
  BY <1>2 DEF ConnInv, Located
<1>7. \A id \in acked \cup fb : Within(id, Len(wire)')
  BY <1>1, <1>4, <1>5 DEF ConnInv, Feedbacks, Within
<1>8. Len(<<>>) = 0 /\ <<>> \in Seq(Item)
  BY EmptySeq
<1>9. CASE /\ stopped
           /\ acked' = acked \cup fb
           /\ writing' = FALSE /\ out' = <<>> /\ fb' = {}
           /\ UNCHANGED <<ser, pcc>>
  <2>1. ConnTypeOK' /\ Open' /\ NothingInFlight' /\ NoStuckBytes' /\ DeadlineArmed'
    BY <1>2, <1>4, <1>8, <1>9
    DEF ConnInv, ConnTypeOK, Open, NothingInFlight, NoStuckBytes, DeadlineArmed, WriteDropped
  <2>2. Located'
    BY <1>2, <1>4, <1>9 DEF Located
  <2>3. Feedbacks' /\ Apart'
    BY <1>2, <1>7, <1>9 DEF ConnInv, Feedbacks, Apart, Within
  <2> QED
    BY <2>1, <2>2, <2>3 DEF ConnInv
<1>10. CASE /\ ~stopped /\ ser = <<>>
            /\ acked' = acked \cup fb \cup pcc
            /\ writing' = FALSE /\ out' = <<>> /\ fb' = {} /\ pcc' = {}
            /\ UNCHANGED ser
  <2>1. ConnTypeOK' /\ Open' /\ NothingInFlight' /\ NoStuckBytes' /\ DeadlineArmed'
    BY <1>2, <1>4, <1>8, <1>10
    DEF ConnInv, ConnTypeOK, Open, NothingInFlight, NoStuckBytes, DeadlineArmed, WriteDropped
  <2>2. Len(wire') = Len(sent)
    BY <1>1, <1>4, <1>6, <1>8, <1>10
  <2>3. Located'
    BY <1>1, <1>2, <1>4, <1>8, <1>10, <2>2 DEF Located
  <2>4. Feedbacks' /\ Apart'
    BY <1>1, <1>2, <1>5, <1>10, <2>2 DEF ConnInv, Feedbacks, Apart, Within
  <2> QED
    BY <2>1, <2>3, <2>4 DEF ConnInv
<1>11. CASE /\ ~stopped /\ ser # <<>>
            /\ acked' = acked \cup fb
            /\ out' = ser /\ fb' = pcc /\ ser' = <<>> /\ pcc' = {}
            /\ UNCHANGED writing
  <2>1. ConnTypeOK' /\ Open' /\ NothingInFlight' /\ NoStuckBytes' /\ DeadlineArmed'
    BY <1>1, <1>2, <1>4, <1>8, <1>11
    DEF ConnInv, ConnTypeOK, Open, NothingInFlight, NoStuckBytes, DeadlineArmed, WriteDropped
  <2>2. Len(wire') + Len(out') = Len(sent)
    BY <1>1, <1>4, <1>6, <1>11
  <2>3. Located'
    BY <1>1, <1>2, <1>4, <1>6, <1>8, <1>11, <2>2 DEF Located
  <2>4. Feedbacks'
    BY <1>1, <1>2, <1>5, <1>7, <1>11, <2>2 DEF ConnInv, Feedbacks, Within
  <2>5. Apart'
    BY <1>2, <1>11 DEF ConnInv, Apart
  <2> QED
    BY <2>1, <2>3, <2>4, <2>5 DEF ConnInv
<1> QED
  BY <1>9, <1>10, <1>11 DEF WriteOk

\* The completion of a write that failed, or was cancelled by stop(), preserves the invariant.
LEMMA WriteStoppedStep ==
  ASSUME ConnInv, NEW n \in 0 .. Len(out), WriteFailed(n) \/ (WriteCanceled(n) /\ stopped)
  PROVE  ConnInv'
<1>2. /\ writing /\ writing' = FALSE /\ out' = <<>> /\ fb' = {}
      /\ wire' = wire \o SubSeq(out, 1, n) /\ nacked' = nacked \cup fb
      /\ stopped' = TRUE /\ armed' = FALSE /\ ttl' \in {ttl, ttl /\ stopped}
      /\ UNCHANGED <<alive, rd, fired, cut, ser, pcc, turn, sent, acked>>
  BY DEF WriteFailed, WriteCanceled, CancelAndStop
<1>3. /\ wire' \in Seq(Item) /\ Len(wire') = Len(wire) + n
      /\ Len(wire') <= Len(sent)
      /\ \A i \in 1 .. Len(wire') : wire'[i] = sent[i]
  BY <1>2, Delivered
<1>4. /\ Len(wire) \in Nat /\ Len(sent) \in Nat /\ n \in Nat
      /\ <<>> \in Seq(Item)
  BY LenProperties, EmptySeq DEF ConnInv, ConnTypeOK
<1>5. ConnTypeOK' /\ Open' /\ NothingInFlight' /\ NoStuckBytes' /\ DeadlineArmed'
  BY <1>2, <1>3, <1>4
  DEF ConnInv, ConnTypeOK, Open, NothingInFlight, NoStuckBytes, DeadlineArmed, WriteDropped
<1>6. Located'
  BY <1>2, <1>3 DEF Located
<1>7. Feedbacks'
  BY <1>2, <1>3, <1>4 DEF ConnInv, Feedbacks, Within
<1>8. Apart'
  BY <1>2 DEF ConnInv, Apart
<1> QED
  BY <1>5, <1>6, <1>7, <1>8 DEF ConnInv

\* What is left of sent when a write is cancelled on an open connector: what the peer has,
\* then what waits.
LEMMA GivenUp ==
  ASSUME ConnInv, NEW n \in 0 .. Len(out), WriteCanceled(n), ~stopped
  PROVE  /\ Len(wire) \in Nat /\ Len(out) \in Nat /\ Len(ser) \in Nat /\ Len(sent) \in Nat
         /\ Len(sent) = Len(wire) + Len(out) + Len(ser)
         /\ wire' \in Seq(Item) /\ Len(wire') = Len(wire) + n
         /\ \A i \in 1 .. Len(wire') : wire'[i] = sent[i]
         /\ sent' \in Seq(Item) /\ Len(sent') = Len(wire') + Len(ser)
         /\ \A i \in 1 .. Len(wire') : sent'[i] = wire'[i]
         /\ \A i \in 1 .. Len(ser) : sent'[Len(wire') + i] = ser[i]
         /\ \A i \in 1 .. Len(sent') :
              sent'[i] = sent[IF i <= Len(wire') THEN i ELSE i + (Len(out) - n)]
<1>1. /\ ser \in Seq(Item) /\ Len(wire) \in Nat /\ Len(out) \in Nat /\ Len(ser) \in Nat
      /\ Len(sent) \in Nat /\ n \in Nat /\ n <= Len(out)
  BY LenProperties DEF ConnInv, ConnTypeOK
<1>2. /\ writing /\ wire' = wire \o SubSeq(out, 1, n) /\ sent' = wire' \o ser
  BY DEF WriteCanceled
<1>3. /\ wire' \in Seq(Item) /\ Len(wire') = Len(wire) + n
      /\ \A i \in 1 .. Len(wire') : wire'[i] = sent[i]
  BY <1>2, Delivered
<1>4. /\ sent' \in Seq(Item) /\ Len(sent') = Len(wire') + Len(ser)
      /\ \A i \in 1 .. Len(wire') + Len(ser) :
           sent'[i] = IF i <= Len(wire') THEN wire'[i] ELSE ser[i - Len(wire')]
  BY <1>1, <1>2, <1>3, ConcatProperties
<1>5. /\ Len(sent) = Len(wire) + Len(out) + Len(ser)
      /\ \A i \in 1 .. Len(ser) : ser[i] = sent[Len(wire) + Len(out) + i]
  BY DEF ConnInv, Located
<1>6. \A i \in 1 .. Len(wire') : sent'[i] = wire'[i]
  BY <1>1, <1>3, <1>4
<1>7. ASSUME NEW i \in 1 .. Len(ser) PROVE sent'[Len(wire') + i] = ser[i]
  <2>1. /\ Len(wire') + i \in 1 .. Len(wire') + Len(ser) /\ ~(Len(wire') + i <= Len(wire'))
        /\ (Len(wire') + i) - Len(wire') = i
    BY <1>1, <1>3
  <2> QED BY <1>4, <2>1
<1>8. ASSUME NEW i \in 1 .. Len(sent')
      PROVE  sent'[i] = sent[IF i <= Len(wire') THEN i ELSE i + (Len(out) - n)]
  <2>1. CASE i <= Len(wire')
    <3>1. i \in 1 .. Len(wire')
      BY <1>1, <1>3, <2>1
    <3> QED BY <1>3, <1>6, <2>1, <3>1
  <2>2. CASE ~(i <= Len(wire'))
    <3>1. PICK j \in 1 .. Len(ser) :
            i = Len(wire') + j /\ Len(wire) + Len(out) + j = i + (Len(out) - n)
      <4>1. i - Len(wire') \in 1 .. Len(ser)
        BY <1>1, <1>3, <1>4, <2>2
      <4>2. i = Len(wire') + (i - Len(wire'))
            /\ Len(wire) + Len(out) + (i - Len(wire')) = i + (Len(out) - n)
        BY <1>1, <1>3, <1>4
      <4> QED BY <4>1, <4>2
    <3>2. sent'[i] = ser[j] /\ ser[j] = sent[i + (Len(out) - n)]
      BY <1>5, <1>7, <3>1
    <3> QED BY <2>2, <3>2
  <2> QED BY <2>1, <2>2
<1> QED BY <1>1, <1>3, <1>4, <1>5, <1>6, <1>7, <1>8

\* A write that is cancelled on an open connector preserves the invariant.
LEMMA WriteCutStep ==
  ASSUME ConnInv, NEW n \in 0 .. Len(out), WriteCanceled(n), ~stopped
  PROVE  ConnInv'
<1>1. /\ writing /\ writing' = FALSE /\ out' = <<>> /\ fb' = {} /\ "write" \in cut
      /\ nacked' = nacked \cup fb /\ armed' = FALSE
      /\ UNCHANGED <<alive, stopped, rd, ttl, fired, cut, ser, pcc, turn, acked>>
  BY DEF WriteCanceled
<1>2. /\ Len(wire) \in Nat /\ Len(out) \in Nat /\ Len(ser) \in Nat /\ Len(sent) \in Nat
      /\ Len(sent) = Len(wire) + Len(out) + Len(ser) /\ n \in Nat /\ n <= Len(out)
      /\ wire' \in Seq(Item) /\ Len(wire') = Len(wire) + n
      /\ sent' \in Seq(Item) /\ Len(sent') = Len(wire') + Len(ser)
      /\ \A i \in 1 .. Len(wire') : sent'[i] = wire'[i]
      /\ \A i \in 1 .. Len(ser) : sent'[Len(wire') + i] = ser[i]
      /\ \A i \in 1 .. Len(sent') :
           sent'[i] = sent[IF i <= Len(wire') THEN i ELSE i + (Len(out) - n)]
  <2>1. Len(out) \in Nat /\ n \in Nat /\ n <= Len(out)
    BY LenProperties DEF ConnInv, ConnTypeOK
  <2> QED BY <2>1, GivenUp, Zenon
<1>3. Len(<<>>) = 0 /\ <<>> \in Seq(Item)
  BY EmptySeq
<1>4. ConnTypeOK' /\ Open' /\ NothingInFlight' /\ NoStuckBytes' /\ DeadlineArmed'
  BY <1>1, <1>2, <1>3
  DEF ConnInv, ConnTypeOK, Open, NothingInFlight, NoStuckBytes, DeadlineArmed, WriteDropped
<1>5. Located'
  <2>1. /\ Len(out') = 0 /\ ser' = ser /\ Len(wire') <= Len(sent')
        /\ Len(sent') = Len(wire') + Len(out') + Len(ser')
        /\ Len(wire') + Len(out') = Len(wire')
    BY <1>1, <1>2, <1>3
  <2>2. \A i \in 1 .. Len(out') : FALSE
    BY <2>1
  <2> QED BY <1>2, <2>1, <2>2, Zenon DEF Located
<1>6. ASSUME NEW i \in 1 .. Len(sent')
      PROVE  \E j \in 1 .. Len(sent) : sent'[i] = sent[j] /\ (j <= Len(wire) => i <= Len(wire'))
  <2>1. CASE i <= Len(wire')
    <3>1. i \in 1 .. Len(sent)
      BY <1>2, <2>1
    <3> QED BY <1>2, <2>1, <3>1
  <2>2. CASE ~(i <= Len(wire'))
    <3>1. i + (Len(out) - n) \in 1 .. Len(sent) /\ ~(i + (Len(out) - n) <= Len(wire))
      BY <1>2, <2>2
    <3> QED BY <1>2, <2>2, <3>1
  <2> QED BY <2>1, <2>2
<1>7. \A i \in 1 .. Len(sent') : sent'[i].id <= turn'
  BY <1>1, <1>6 DEF ConnInv, Feedbacks
<1>8. \A id \in acked' : Within(id, Len(wire))'
  BY <1>1, <1>6 DEF ConnInv, Feedbacks, Within
<1>9. Feedbacks'
  BY <1>1, <1>7, <1>8 DEF ConnInv, Feedbacks
<1>10. Apart'
  BY <1>1 DEF ConnInv, Apart
<1> QED
  BY <1>4, <1>5, <1>9, <1>10 DEF ConnInv

\* The completion of a failed or cancelled write preserves the invariant.
LEMMA WriteAbortedStep ==
  ASSUME ConnInv, WriteAborted
  PROVE  ConnInv'
<1>1. PICK n \in 0 .. Len(out) : WriteFailed(n) \/ WriteCanceled(n)
  BY DEF WriteAborted
<1> QED BY <1>1, WriteStoppedStep, WriteCutStep

\* The destructor preserves the invariant.
LEMMA LosesConnectorStep ==
  ASSUME ConnInv, LosesConnector
  PROVE  ConnInv'
<1>1. PICK notify \in BOOLEAN : Destroyed(notify)
  BY DEF LosesConnector
<1>2. /\ rd = "none" /\ ~writing /\ alive' = FALSE
      /\ UNCHANGED <<stopped, rd, timerVars, writing, out, fb, ser, turn, wire, sent, acked>>
      /\ \/ nacked' = nacked \cup pcc /\ pcc' = {}
         \/ nacked' = nacked /\ pcc' = pcc
  BY <1>1 DEF Destroyed, Unreferenced
<1>3. ~stopped => "read" \in cut
  BY <1>2 DEF ConnInv, Open
<1>4. ConnTypeOK' /\ Open' /\ NothingInFlight' /\ NoStuckBytes' /\ DeadlineArmed'
  BY <1>2, <1>3
  DEF ConnInv, ConnTypeOK, Open, NothingInFlight, NoStuckBytes, DeadlineArmed, WriteDropped, timerVars
<1>5. Located'
  BY <1>2 DEF ConnInv, Located
<1>6. Feedbacks'
  BY <1>2 DEF ConnInv, Feedbacks, Within
<1>7. Apart'
  BY <1>2 DEF ConnInv, Apart
<1> QED
  BY <1>4, <1>5, <1>6, <1>7 DEF ConnInv

-----------------------------------------------------------------------------
(* The handler submits bytes. *)

\* What Bytes returns: one item of response id for each part.
LEMMA BytesProperties ==
  ASSUME NEW id \in Ids, NEW parts \in Seq(Part)
  PROVE  /\ Bytes(id, parts) \in Seq(Item)
         /\ Len(Bytes(id, parts)) = Len(parts)
         /\ \A i \in 1 .. Len(parts) : Bytes(id, parts)[i].id = id
<1>1. Len(parts) \in Nat /\ \A i \in 1 .. Len(parts) : parts[i] \in Part
  BY LenProperties, ElementOfSeq
<1>2. \A i \in 1 .. Len(parts) : [id |-> id, part |-> parts[i]] \in Item
  BY <1>1 DEF Item
<1>3. Bytes(id, parts) \in [1 .. Len(parts) -> Item]
  BY <1>2 DEF Bytes
<1>4. Bytes(id, parts) \in Seq(Item)
  BY <1>1, <1>3
<1>5. Len(Bytes(id, parts)) = Len(parts)
  BY <1>1, <1>3, <1>4, LenProperties
<1>6. \A i \in 1 .. Len(parts) : Bytes(id, parts)[i].id = id
  BY DEF Bytes
<1> QED
  BY <1>4, <1>5, <1>6

\* Submitting a run of parts preserves the invariant, whether the run waits,
\* is acknowledged at once or starts a write.
LEMMA SubmitStep ==
  ASSUME ConnInv, NEW id \in Ids, NEW parts \in Seq(Part), NEW ends \in BOOLEAN,
         NEW endOnly \in BOOLEAN, id >= turn, ends \/ parts # <<>>,
         endOnly <=> ends /\ (parts = <<>> \/ parts = <<"E">>),
         Submit(id, parts, ends, endOnly)
  PROVE  ConnInv'
<1> DEFINE new   == Bytes(id, parts)
           mine  == IF ends THEN {id} ELSE {}
           first == IF new = <<>> THEN ser ELSE Append(ser, Head(new))
           rest  == IF new = <<>> THEN <<>> ELSE Tail(new)
           now   == IF endOnly THEN pcc \cup mine ELSE pcc
           later == IF endOnly THEN {} ELSE mine
<1>1. /\ new \in Seq(Item) /\ Len(new) = Len(parts) /\ Len(new) \in Nat
      /\ \A i \in 1 .. Len(new) : new[i].id = id
  BY BytesProperties, LenProperties
<1>2. /\ turn' = IF ends THEN id + 1 ELSE id
      /\ sent' = sent \o new
      /\ cut' = IF CanWrite THEN cut \ {"write"} ELSE cut
      /\ UNCHANGED <<alive, stopped, rd, ttl, fired, wire, nacked>>
      /\ \/ /\ ~CanWrite
            /\ ser' = ser \o new
            /\ pcc' = pcc \cup mine
            /\ UNCHANGED <<armed, writing, out, fb, acked>>
         \/ /\ CanWrite /\ first = <<>>
            /\ armed' = Renewed(armed)
            /\ acked' = acked \cup now
            /\ ser' = <<>> /\ pcc' = later
            /\ UNCHANGED <<writing, out, fb>>
         \/ /\ CanWrite /\ first # <<>>
            /\ armed' = Renewed(armed)
            /\ writing' = TRUE /\ out' = first /\ fb' = now
            /\ ser' = rest /\ pcc' = later
            /\ UNCHANGED acked
  BY DEF Submit
<1>3. /\ out \in Seq(Item) /\ wire \in Seq(Item) /\ sent \in Seq(Item) /\ ser \in Seq(Item)
      /\ Len(out) \in Nat /\ Len(wire) \in Nat /\ Len(sent) \in Nat /\ Len(ser) \in Nat
  BY LenProperties DEF ConnInv, ConnTypeOK
<1> HIDE DEF new
<1>4. /\ sent' \in Seq(Item) /\ Len(sent') = Len(sent) + Len(new)
      /\ \A i \in 1 .. Len(sent) + Len(new) :
           sent'[i] = IF i <= Len(sent) THEN sent[i] ELSE new[i - Len(sent)]
  <2>1. sent' = sent \o new
    BY <1>2
  <2>2. sent \in Seq(Item) /\ new \in Seq(Item)
    BY <1>1, <1>3
  <2> QED
    BY <2>1, <2>2, ConcatProperties, Zenon
<1>5. Len(<<>>) = 0 /\ <<>> \in Seq(Item)
  BY EmptySeq
<1>6. id \in Nat /\ turn \in Nat /\ turn' \in Nat /\ turn <= id /\ id <= turn'
  BY <1>2, IdsAssumption DEF ConnInv, ConnTypeOK
<1>7. \A i \in 1 .. Len(sent) : sent[i].id \in Nat
  <2>1. \A i \in 1 .. Len(sent) : sent[i] \in Item
    BY <1>3, ElementOfSeq
  <2> QED
    BY <2>1, IdsAssumption DEF Item
<1>8. \A i \in 1 .. Len(sent) : sent'[i] = sent[i]
  BY <1>1, <1>3, <1>4
<1>9. \A i \in Len(sent) + 1 .. Len(sent') :
        sent'[i].id = id /\ sent'[i] = new[i - Len(sent)]
  <2> SUFFICES ASSUME NEW i \in Len(sent) + 1 .. Len(sent')
               PROVE  sent'[i].id = id /\ sent'[i] = new[i - Len(sent)]
    OBVIOUS
  <2>1. i - Len(sent) \in 1 .. Len(new) /\ i \in 1 .. Len(sent) + Len(new) /\ ~(i <= Len(sent))
    BY <1>1, <1>3, <1>4
  <2> QED
    BY <1>1, <1>4, <2>1
<1>10. \A i \in 1 .. Len(sent') : sent'[i].id <= turn'
  <2> SUFFICES ASSUME NEW i \in 1 .. Len(sent')
               PROVE  sent'[i].id <= turn'
    OBVIOUS
  <2>1. CASE i \in 1 .. Len(sent)
    <3>1. sent[i].id <= turn /\ sent[i].id \in Nat
      BY <1>7, <2>1 DEF ConnInv, Feedbacks
    <3> QED
      BY <1>6, <1>8, <2>1, <3>1
  <2>2. CASE i \notin 1 .. Len(sent)
    <3>1. i \in Len(sent) + 1 .. Len(sent')
      BY <1>1, <1>3, <1>4, <2>2
    <3> QED
      BY <1>6, <1>9, <3>1
  <2> QED
    BY <2>1, <2>2
<1>11. \A x \in pcc \cup fb \cup acked \cup nacked : x \in Nat /\ x < turn
  BY IdsAssumption DEF ConnInv, ConnTypeOK, Feedbacks
<1>12. \A x \in pcc \cup fb \cup acked \cup nacked : x < turn' /\ x # id
  BY <1>6, <1>11
<1>13. ends => id < turn'
  BY <1>2, <1>6
\* The bytes submitted now do not belong to a response reported before.
<1>14. \A x \in Ids \ {id}, n \in Nat :
         Within(x, n) => \A i \in 1 .. Len(sent') : sent'[i].id = x => i <= n
  <2> SUFFICES ASSUME NEW x \in Ids \ {id}, NEW n \in Nat, Within(x, n),
                      NEW i \in 1 .. Len(sent'), sent'[i].id = x
               PROVE  i <= n
    OBVIOUS
  <2>1. i \in 1 .. Len(sent) \/ i \in Len(sent) + 1 .. Len(sent')
    BY <1>1, <1>3, <1>4
  <2>2. i \in 1 .. Len(sent)
    BY <1>9, <2>1
  <2> QED
    BY <1>8, <2>2 DEF Within
<1>15. /\ Len(wire) <= Len(sent') /\ \A i \in 1 .. Len(wire) : wire[i] = sent'[i]
       /\ Len(wire) <= Len(sent)
  BY <1>1, <1>3, <1>4, <1>8 DEF ConnInv, Located
<1>16. CASE ~CanWrite /\ ser' = ser \o new /\ pcc' = pcc \cup mine
            /\ UNCHANGED <<armed, writing, out, fb, acked>>
  <2>1. ser' \in Seq(Item) /\ Len(ser') = Len(ser) + Len(new)
        /\ \A i \in 1 .. Len(ser) + Len(new) :
             ser'[i] = IF i <= Len(ser) THEN ser[i] ELSE new[i - Len(ser)]
    <3>1. ser' = ser \o new
      BY <1>16
    <3>2. ser \in Seq(Item) /\ new \in Seq(Item)
      BY <1>1, <1>3
    <3> QED
      BY <3>1, <3>2, ConcatProperties, Zenon
  <2>2. ConnTypeOK' /\ Open' /\ NothingInFlight' /\ DeadlineArmed'
    BY <1>2, <1>4, <1>6, <1>16, <2>1
    DEF ConnInv, ConnTypeOK, Open, NothingInFlight, DeadlineArmed, WriteDropped
  <2>3. NoStuckBytes'
    BY <1>2, <1>16 DEF ConnInv, Open, NoStuckBytes, WriteDropped, CanWrite
  <2>4. Located'
    <3> SUFFICES ASSUME writing \/ ~stopped
                 PROVE  /\ Len(sent') = Len(wire) + Len(out) + Len(ser')
                        /\ \A i \in 1 .. Len(out) : out[i] = sent'[Len(wire) + i]
                        /\ \A i \in 1 .. Len(ser') : ser'[i] = sent'[Len(wire) + Len(out) + i]
      BY <1>2, <1>15, <1>16 DEF Located
    <3>1. /\ Len(sent) = Len(wire) + Len(out) + Len(ser)
          /\ \A i \in 1 .. Len(out) : out[i] = sent[Len(wire) + i]
          /\ \A i \in 1 .. Len(ser) : ser[i] = sent[Len(wire) + Len(out) + i]
      BY DEF ConnInv, Located
    <3>2. Len(sent') = Len(wire) + Len(out) + Len(ser')
      BY <1>1, <1>3, <1>4, <2>1, <3>1
    <3>3. \A i \in 1 .. Len(out) : out[i] = sent'[Len(wire) + i]
      <4>1. \A i \in 1 .. Len(out) : Len(wire) + i \in 1 .. Len(sent)
        BY <1>3, <3>1
      <4> QED
        BY <1>8, <3>1, <4>1
    <3>4. ASSUME NEW i \in 1 .. Len(ser')
          PROVE  ser'[i] = sent'[Len(wire) + Len(out) + i]
      <4> DEFINE j == Len(wire) + Len(out) + i
      <4>1. CASE i <= Len(ser)
        <5>1. i \in 1 .. Len(ser) /\ j \in 1 .. Len(sent)
          BY <1>3, <3>1, <4>1
        <5>2. ser'[i] = ser[i] /\ ser[i] = sent[j]
          BY <1>1, <1>3, <2>1, <3>1, <4>1, <5>1
        <5> HIDE DEF j
        <5>3. ser'[i] = sent'[j]
          BY <1>8, <5>1, <5>2
        <5> QED
          BY <5>3 DEF j
      <4>2. CASE ~(i <= Len(ser))
        <5>1. ser'[i] = new[i - Len(ser)]
          BY <1>1, <1>3, <2>1, <4>2
        <5>2. j \in Len(sent) + 1 .. Len(sent') /\ j - Len(sent) = i - Len(ser)
          BY <1>1, <1>3, <2>1, <3>1, <3>2, <4>2
        <5> HIDE DEF j
        <5>3. ser'[i] = sent'[j]
          BY <1>9, <5>1, <5>2
        <5> QED
          BY <5>3 DEF j
      <4> QED
        BY <4>1, <4>2
    <3> QED
      BY <3>2, <3>3, <3>4
  <2>5. Feedbacks'
    <3>1. \A x \in pcc' \cup fb' \cup acked' \cup nacked' : x < turn'
      BY <1>2, <1>12, <1>13, <1>16
    <3>2. \A x \in acked' : Within(x, Len(wire))'
      <4> SUFFICES ASSUME NEW x \in acked PROVE Within(x, Len(wire))'
        BY <1>16
      <4>1. x \in Ids \ {id} /\ Within(x, Len(wire))
        BY <1>12 DEF ConnInv, ConnTypeOK, Feedbacks
      <4> QED
        BY <1>2, <1>3, <1>14, <4>1 DEF Within
    <3>3. \A x \in fb' : Within(x, Len(wire) + Len(out))'
      <4> SUFFICES ASSUME NEW x \in fb PROVE Within(x, Len(wire) + Len(out))'
        BY <1>16
      <4>1. x \in Ids \ {id} /\ Within(x, Len(wire) + Len(out)) /\ Len(wire) + Len(out) \in Nat
        BY <1>3, <1>12 DEF ConnInv, ConnTypeOK, Feedbacks
      <4> QED
        BY <1>2, <1>3, <1>14, <1>16, <4>1 DEF Within
    <3> QED
      BY <1>10, <3>1, <3>2, <3>3 DEF Feedbacks
  <2>6. Apart'
    BY <1>2, <1>12, <1>16 DEF ConnInv, Apart
  <2> QED
    BY <2>2, <2>3, <2>4, <2>5, <2>6 DEF ConnInv
\* Otherwise nothing was in flight, and what waits follows what the peer has.
<1>17. CanWrite =>
         /\ out = <<>> /\ fb = {} /\ ~writing /\ ~stopped /\ alive
         /\ Len(sent) = Len(wire) + Len(ser)
         /\ \A i \in 1 .. Len(ser) : ser[i] = sent[Len(wire) + i]
         /\ cut' = cut \ {"write"}
  BY <1>2, <1>3, <1>5 DEF ConnInv, CanWrite, NothingInFlight, Located
<1>18. CASE /\ CanWrite /\ first = <<>>
            /\ armed' = Renewed(armed)
            /\ acked' = acked \cup now
            /\ ser' = <<>> /\ pcc' = later
            /\ UNCHANGED <<writing, out, fb>>
  <2>1. new = <<>> /\ Len(new) = 0 /\ ser = <<>> /\ Len(ser) = 0
    <3>1. ASSUME new # <<>> PROVE FALSE
      <4>1. Head(new) \in Item
        BY <1>1, <3>1, HeadTailProperties
      <4>2. Append(ser, Head(new)) # <<>>
        BY <1>3, <4>1, AppendProperties
      <4> QED
        BY <1>18, <3>1, <4>2
    <3> QED
      BY <1>5, <1>18, <3>1
  <2>2. parts = <<>> /\ ends /\ endOnly
    BY <1>1, <2>1, EmptySeq
  <2>3. later = {} /\ now = pcc \cup {id} /\ pcc \subseteq Ids
    BY <2>2 DEF ConnInv, ConnTypeOK
  <2>4. Len(sent') = Len(wire) /\ Len(sent') = Len(sent)
    BY <1>1, <1>3, <1>4, <1>17, <1>18, <2>1
  <2>5. ConnTypeOK' /\ Open' /\ NothingInFlight' /\ NoStuckBytes' /\ DeadlineArmed'
    BY <1>2, <1>4, <1>5, <1>6, <1>17, <1>18, <2>3
    DEF ConnInv, ConnTypeOK, Open, NothingInFlight, NoStuckBytes, DeadlineArmed, WriteDropped, Renewed
  <2>6. Located'
    BY <1>2, <1>3, <1>5, <1>15, <1>17, <1>18, <2>4 DEF Located
  <2>7. Feedbacks'
    <3>1. pcc' = {} /\ fb' = {} /\ acked' = acked \cup pcc \cup {id} /\ nacked' = nacked /\ id < turn'
      BY <1>2, <1>13, <1>17, <1>18, <2>2, <2>3
    <3>2. \A x \in pcc' \cup fb' \cup acked' \cup nacked' : x < turn'
      BY <1>12, <3>1
    <3>3. \A x \in acked' : Within(x, Len(wire))'
      BY <1>2, <1>3, <2>4 DEF Within
    <3> QED
      BY <1>10, <3>1, <3>2, <3>3 DEF Feedbacks
  <2>8. Apart'
    BY <1>2, <1>12, <1>17, <1>18, <2>3 DEF ConnInv, Apart
  <2> QED
    BY <2>5, <2>6, <2>7, <2>8 DEF ConnInv
<1>19. CASE /\ CanWrite /\ first # <<>>
            /\ armed' = Renewed(armed)
            /\ writing' = TRUE /\ out' = first /\ fb' = now
            /\ ser' = rest /\ pcc' = later
            /\ UNCHANGED acked
  <2>idle. /\ ~writing /\ ~stopped /\ Len(sent) = Len(wire) + Len(ser) /\ fb' = now /\ pcc' = later
           /\ \A i \in 1 .. Len(ser) : ser[i] = sent[Len(wire) + i]
           /\ cut' = cut \ {"write"} /\ alive
    <3>1. CanWrite /\ fb' = now /\ pcc' = later
      BY <1>19
    <3> HIDE DEF now, later
    <3> QED BY <1>17, <3>1
  \* The new write takes what waits and the first new byte.
  <2>1. /\ out' \in Seq(Item) /\ ser' \in Seq(Item) /\ Len(out') \in Nat /\ Len(ser') \in Nat
        /\ Len(out') + Len(ser') = Len(ser) + Len(new) /\ Len(ser) <= Len(out')
        /\ \A i \in 1 .. Len(ser) : out'[i] = ser[i]
        /\ \A i \in Len(ser) + 1 .. Len(out') : out'[i] = new[i - Len(ser)]
        /\ \A i \in 1 .. Len(ser') : ser'[i] = new[(Len(out') - Len(ser)) + i]
        /\ (Len(new) <= 1 => Len(ser') = 0)
    <3>1. CASE new = <<>>
      <4>1. out' = ser /\ ser' = <<>> /\ Len(new) = 0
        BY <1>5, <1>19, <3>1
      <4> QED BY <1>3, <1>5, <4>1
    <3>2. CASE new # <<>>
      <4>1. /\ Head(new) \in Item /\ Tail(new) \in Seq(Item) /\ Len(Tail(new)) = Len(new) - 1
            /\ \A i \in 1 .. Len(Tail(new)) : Tail(new)[i] = new[i + 1]
        BY <1>1, <3>2, HeadTailProperties
      <4>2. Head(new) = new[1] /\ Len(new) >= 1
        BY <1>1, <3>2, EmptySeq
      <4>3. out' = Append(ser, Head(new)) /\ ser' = Tail(new)
        BY <1>19, <3>2
      <4>4. /\ Append(ser, Head(new)) \in Seq(Item)
            /\ Len(Append(ser, Head(new))) = Len(ser) + 1
            /\ \A i \in 1 .. Len(ser) : Append(ser, Head(new))[i] = ser[i]
            /\ Append(ser, Head(new))[Len(ser) + 1] = Head(new)
        BY <1>3, <4>1, AppendProperties
      <4>5. \A i \in Len(ser) + 1 .. Len(out') : i - Len(ser) = 1 /\ i = Len(ser) + 1
        BY <1>3, <4>3, <4>4
      <4>6. \A i \in 1 .. Len(ser') : (Len(out') - Len(ser)) + i = i + 1
        BY <1>1, <1>3, <4>1, <4>3, <4>4
      <4>7. /\ Len(out') = Len(ser) + 1 /\ Len(ser') = Len(new) - 1
            /\ Len(out') \in Nat /\ Len(ser') \in Nat
            /\ Len(out') + Len(ser') = Len(ser) + Len(new) /\ Len(ser) <= Len(out')
            /\ (Len(new) <= 1 => Len(ser') = 0)
        <5>1. Len(out') = Len(ser) + 1 /\ Len(ser') = Len(new) - 1
          BY <4>1, <4>3, <4>4
        <5> QED BY <1>1, <1>3, <4>2, <5>1
      <4>8. \A i \in Len(ser) + 1 .. Len(out') : out'[i] = new[i - Len(ser)]
        BY <4>2, <4>3, <4>4, <4>5
      <4>9. \A i \in 1 .. Len(ser') : ser'[i] = new[(Len(out') - Len(ser)) + i]
        BY <4>1, <4>3, <4>6
      <4> QED BY <4>1, <4>3, <4>4, <4>7, <4>8, <4>9, Zenon
    <3> QED BY <3>1, <3>2
  <2>2. /\ now \subseteq pcc \cup {id} /\ later \subseteq mine /\ now \cap later = {}
        /\ mine \subseteq {id} /\ (id \in now \cup later => id < turn')
        /\ (id \in now => endOnly) /\ id \notin pcc
    BY <1>12, <1>13
  <2>3. id \in now => Len(ser') = 0
    <3>1. Len(<<"E">>) = 1
      OBVIOUS
    <3>2. endOnly => Len(parts) <= 1
      <4>1. CASE parts = <<>>
        <5>1. Len(parts) = 0
          BY <1>5, <4>1
        <5> QED BY <5>1
      <4>2. CASE parts = <<"E">>
        <5>1. Len(parts) = 1
          BY <3>1, <4>2
        <5> QED BY <5>1
      <4>3. endOnly => parts = <<>> \/ parts = <<"E">>
        OBVIOUS
      <4> QED BY <4>1, <4>2, <4>3
    <3> QED BY <1>1, <2>1, <2>2, <3>2
  <2>4. Len(sent') = Len(wire) + Len(out') + Len(ser')
    <3>1. Len(sent') = Len(sent) + Len(new) /\ Len(sent) = Len(wire) + Len(ser)
      BY <1>4, <2>idle, Zenon
    <3>2. Len(out') + Len(ser') = Len(ser) + Len(new)
      BY <2>1, Zenon
    <3>3. Len(out') \in Nat /\ Len(ser') \in Nat
      BY <2>1, Zenon
    <3>4. Len(new) \in Nat /\ Len(ser) \in Nat /\ Len(wire) \in Nat
      BY <1>1, <1>3, Zenon
    <3> QED BY <3>1, <3>2, <3>3, <3>4
  <2>5. ConnTypeOK' /\ Open' /\ NothingInFlight' /\ NoStuckBytes' /\ DeadlineArmed'
    <3>1. now \subseteq Ids /\ later \subseteq Ids
      BY <2>2 DEF ConnInv, ConnTypeOK
    <3> QED
      BY <1>2, <1>4, <1>6, <1>19, <2>1, <2>idle, <3>1
      DEF ConnInv, ConnTypeOK, Open, NothingInFlight, NoStuckBytes, DeadlineArmed, WriteDropped, Renewed
  <2>6. Located'
    <3>2. ASSUME NEW i \in 1 .. Len(out') PROVE out'[i] = sent'[Len(wire) + i]
      <4>1. CASE i <= Len(ser)
        <5>1. i \in 1 .. Len(ser) /\ Len(wire) + i \in 1 .. Len(sent)
          BY <1>3, <2>1, <2>idle, <4>1
        <5> QED BY <1>8, <2>1, <2>idle, <5>1
      <4>2. CASE ~(i <= Len(ser))
        <5>1. /\ i \in Len(ser) + 1 .. Len(out') /\ Len(wire) + i \in Len(sent) + 1 .. Len(sent')
              /\ (Len(wire) + i) - Len(sent) = i - Len(ser)
          BY <1>3, <2>1, <2>4, <2>idle, <4>2
        <5> QED BY <1>9, <2>1, <5>1
      <4> QED BY <4>1, <4>2
    <3>3. ASSUME NEW i \in 1 .. Len(ser') PROVE ser'[i] = sent'[Len(wire) + Len(out') + i]
      <4>1. /\ Len(wire) + Len(out') + i \in Len(sent) + 1 .. Len(sent')
            /\ (Len(wire) + Len(out') + i) - Len(sent) = (Len(out') - Len(ser)) + i
        BY <1>3, <2>1, <2>4, <2>idle
      <4> QED BY <1>9, <2>1, <4>1
    <3> QED
      BY <1>2, <1>15, <2>4, <3>2, <3>3 DEF Located
  <2>7. Feedbacks'
    <3>1. \A x \in pcc' \cup fb' \cup acked' \cup nacked' : x < turn'
      BY <1>2, <1>12, <1>19, <2>2
    <3>2. \A x \in acked' : Within(x, Len(wire))'
      <4> SUFFICES ASSUME NEW x \in acked PROVE Within(x, Len(wire))'
        BY <1>19
      <4>1. x \in Ids \ {id} /\ Within(x, Len(wire))
        BY <1>12 DEF ConnInv, ConnTypeOK, Feedbacks
      <4> QED
        BY <1>2, <1>3, <1>14, <4>1 DEF Within
    <3>3. \A x \in fb' : Within(x, Len(wire) + Len(out))'
      <4> SUFFICES ASSUME NEW x \in fb' PROVE Within(x, Len(wire) + Len(out))'
        OBVIOUS
      <4>1. CASE x = id
        <5>1. Len(sent') = Len(wire') + Len(out') /\ Len(sent') \in Nat
          <6>1. Len(ser') = 0 /\ wire' = wire
            BY <1>2, <2>3, <2>idle, <4>1, Zenon
          <6>2. Len(out') \in Nat
            BY <2>1, Zenon
          <6> QED BY <1>3, <2>4, <6>1, <6>2
        <5> QED BY <5>1 DEF Within
      <4>2. CASE x # id
        <5>1. x \in Ids \ {id} /\ Within(x, Len(sent))
          BY <1>3, <2>2, <2>idle, <4>2 DEF ConnInv, ConnTypeOK, Within
        <5>2. \A i \in 1 .. Len(sent') : sent'[i].id = x => i <= Len(sent)
          BY <1>3, <1>14, <5>1
        <5>3. Len(sent) <= Len(wire') + Len(out') /\ wire' = wire
          BY <1>2, <1>3, <2>1, <2>idle
        <5> QED BY <1>3, <2>1, <5>2, <5>3 DEF Within
      <4> QED BY <4>1, <4>2
    <3> QED
      BY <1>10, <3>1, <3>2, <3>3 DEF Feedbacks
  <2>8. Apart'
    BY <1>2, <1>12, <1>19, <2>2 DEF ConnInv, Apart
  <2> QED
    BY <2>5, <2>6, <2>7, <2>8 DEF ConnInv
<1> QED
  BY <1>2, <1>16, <1>18, <1>19

-----------------------------------------------------------------------------
(* The invariant and what follows from it. *)

\* ConnInv holds in every state of the connector: whatever the peer, the
\* kernel, the timer and the handler do, every submitted byte is at the peer, in
\* flight or waiting, and every feedback is in one stage.
THEOREM ConnInvariance == ConnSpec => []ConnInv
<1>1. ConnInit => ConnInv
  <2> SUFFICES ASSUME ConnInit PROVE ConnInv
    OBVIOUS
  <2>1. <<>> \in Seq(Item) /\ Len(<<>>) = 0
    BY EmptySeq
  <2>2. ConnTypeOK
    BY <2>1 DEF ConnInit, ConnTypeOK
  <2>3. Open /\ NothingInFlight /\ NoStuckBytes /\ DeadlineArmed /\ Apart
    BY DEF ConnInit, Open, NothingInFlight, NoStuckBytes, DeadlineArmed, WriteDropped, Apart
  <2>4. Located /\ Feedbacks
    BY <2>1 DEF ConnInit, Located, Feedbacks
  <2> QED
    BY <2>2, <2>3, <2>4 DEF ConnInv
<1>2. ConnInv /\ [ConnNext]_connVars => ConnInv'
  <2> SUFFICES ASSUME ConnInv, [ConnNext]_connVars PROVE ConnInv'
    OBVIOUS
  <2>1. CASE TimerExpires \/ RunTimer \/ UserSetsTimeout \/ SocketCanceled
    BY <2>1, TimerSteps
  <2>2. CASE ReadOk \/ ReadDone \/ ReadRejected \/ ReadFailed \/ ReadCanceled \/ HandlerCloses
    BY <2>2, ReadSteps
  <2>3. CASE HandlerSubmits
    <3>1. PICK id \in Ids, parts \in Runs, ends \in BOOLEAN :
            /\ id >= turn
            /\ ends \/ parts # <<>>
            /\ Submit(id, parts, ends, ends /\ (parts = <<>> \/ parts = <<"E">>))
      BY <2>3 DEF HandlerSubmits
    <3>2. parts \in Seq(Part)
      BY RunsAssumption
    <3> QED
      BY <3>1, <3>2, SubmitStep
  <2>4. CASE WriteOk
    BY <2>4, WriteOkStep
  <2>5. CASE WriteAborted
    BY <2>5, WriteAbortedStep
  <2>6. CASE LosesConnector
    BY <2>6, LosesConnectorStep
  <2>7. CASE UNCHANGED connVars
    BY <2>7, QuietStep
    DEF connVars, timerVars, writeVars, ConnInv, ConnTypeOK, Open, NoStuckBytes, DeadlineArmed, WriteDropped
  <2> QED
    BY <2>1, <2>2, <2>3, <2>4, <2>5, <2>6, <2>7 DEF ConnNext
<1> QED
  BY <1>1, <1>2, PTL DEF ConnSpec

\* Every variable keeps its type.
THEOREM ConnTypeCorrect == ConnSpec => []ConnTypeOK
<1>1. ConnInv => ConnTypeOK
  BY DEF ConnInv
<1> QED
  BY <1>1, ConnInvariance, PTL

\* do_write() loses no wake-up: bytes and feedbacks of a connector that exists wait
\* only while a write is in flight, after stop(), or when the connect timer's late
\* socket->cancel() ended a write and nothing was written since.
THEOREM ConnNoStuckBytes == ConnSpec => []NoStuckBytes
<1>1. ConnInv => NoStuckBytes
  BY DEF ConnInv
<1> QED
  BY <1>1, ConnInvariance, PTL

\* The timer shared by reads and writes is running whenever the connector
\* waits for its peer with a timeout set, unless a write was cancelled as above.
THEOREM ConnDeadlineArmed == ConnSpec => []DeadlineArmed
<1>1. ConnInv => DeadlineArmed
  BY DEF ConnInv
<1> QED
  BY <1>1, ConnInvariance, PTL

\* The completion handlers post the success or the error feedback of a
\* response, never both.
THEOREM ConnOneFeedback == ConnSpec => []OneFeedback
<1>1. ConnInv => OneFeedback
  BY DEF ConnInv, Apart, OneFeedback
<1> QED
  BY <1>1, ConnInvariance, PTL

\* A success feedback is posted only when all the bytes of its response have
\* been written.
THEOREM ConnAckedIsDelivered == ConnSpec => []AckedIsDelivered
<1>1. ConnInv => AckedIsDelivered
  BY DEF ConnInv, Feedbacks, Within, AckedIsDelivered
<1> QED
  BY <1>1, ConnInvariance, PTL

-----------------------------------------------------------------------------
(* Refinement of OrderedDelivery. *)

\* What of a delivery step follows from the invariant after the step.
LEMMA AfterStep ==
  ASSUME ConnInv'
  PROVE  /\ Delivery!Extends(wire', sent')
         /\ \A id \in acked' : id < turn' /\ Delivery!Covered(id, sent', Len(wire'))
<1>1. Located' /\ Feedbacks'
  BY DEF ConnInv
<1>2. /\ Len(wire') <= Len(sent')
      /\ \A i \in 1 .. Len(wire') : wire'[i] = sent'[i]
  BY <1>1 DEF Located
<1>3. /\ \A id \in acked' : id < turn'
      /\ \A id \in acked' : \A i \in 1 .. Len(sent') : sent'[i].id = id => i <= Len(wire')
  BY <1>1 DEF Feedbacks, Within
<1> QED
  BY <1>2, <1>3 DEF Delivery!Extends, Delivery!Covered

\* A longer sequence extends its prefix.
LEMMA ConcatExtends ==
  ASSUME NEW s \in Seq(Item), NEW t \in Seq(Item)
  PROVE  Delivery!Extends(s, s \o t)
<1>1. /\ Len(s) \in Nat /\ Len(t) \in Nat /\ Len(s \o t) = Len(s) + Len(t)
      /\ \A i \in 1 .. Len(s) + Len(t) :
           (s \o t)[i] = IF i <= Len(s) THEN s[i] ELSE t[i - Len(s)]
  BY ConcatProperties, LenProperties
<1> QED
  BY <1>1 DEF Delivery!Extends

\* A write that is cancelled on an open connector gives up the rest of its bytes.
LEMMA CutGivesUp ==
  ASSUME ConnInv, NEW n \in 0 .. Len(out), WriteCanceled(n), ~stopped
  PROVE  Delivery!Next
<1>1. /\ Len(wire) \in Nat /\ Len(out) \in Nat /\ Len(ser) \in Nat /\ Len(sent) \in Nat
      /\ Len(sent) = Len(wire) + Len(out) + Len(ser) /\ n \in Nat /\ n <= Len(out)
      /\ Len(wire') = Len(wire) + n /\ \A i \in 1 .. Len(wire') : wire'[i] = sent[i]
      /\ Len(sent') = Len(wire') + Len(ser)
      /\ \A i \in 1 .. Len(sent') :
           sent'[i] = sent[IF i <= Len(wire') THEN i ELSE i + (Len(out) - n)]
  BY GivenUp
<1>2. turn' = turn /\ acked' = acked
  BY DEF WriteCanceled
<1>3. \A i \in 1 .. Len(wire) : wire[i] = sent[i]
  BY DEF ConnInv, Located
<1>4. Delivery!Extends(wire, wire') /\ Delivery!Extends(wire', sent)
  BY <1>1, <1>3 DEF Delivery!Extends
<1>5. Len(out) - n \in 0 .. Len(sent) /\ Len(wire') + (Len(out) - n) <= Len(sent)
      /\ Len(sent') = Len(sent) - (Len(out) - n)
  BY <1>1
<1>6. Delivery!GiveUp(Len(out) - n)
  BY <1>1, <1>2, <1>4, <1>5 DEF Delivery!GiveUp
<1> QED BY <1>5, <1>6 DEF Delivery!Next

\* A write completion, whole or partial, only brings more of the submitted bytes
\* to the peer and reports more responses.
LEMMA WriteDelivers ==
  ASSUME ConnInv, ConnInv', NEW more \in Seq(Item), wire' = wire \o more,
         sent' = sent, turn' = turn, acked \subseteq acked'
  PROVE  Delivery!Next
<1>1. /\ wire \in Seq(Item) /\ sent \in Seq(Item) /\ turn \in Nat
      /\ Len(sent) \in Nat
  BY LenProperties DEF ConnInv, ConnTypeOK
<1>2. Delivery!Extends(wire, wire')
  BY <1>1, ConcatExtends
<1>3. Delivery!Extends(sent, sent')
  BY <1>1 DEF Delivery!Extends
<1>4. \A i \in Len(sent) + 1 .. Len(sent') : sent'[i].id >= turn /\ sent'[i].id <= turn'
  BY <1>1
<1> QED
  BY <1>1, <1>2, <1>3, <1>4, AfterStep DEF Delivery!Next, Delivery!Deliver

\* A submission only appends bytes of responses that were not finished before.
LEMMA SubmitDelivers ==
  ASSUME ConnInv, ConnInv', NEW id \in Ids, NEW parts \in Seq(Part), NEW ends \in BOOLEAN,
         NEW endOnly \in BOOLEAN, id >= turn, Submit(id, parts, ends, endOnly)
  PROVE  Delivery!Next
<1> DEFINE new == Bytes(id, parts)
<1>1. /\ sent' = sent \o new /\ wire' = wire /\ acked \subseteq acked'
      /\ turn' = IF ends THEN id + 1 ELSE id
  BY DEF Submit
<1>2. /\ new \in Seq(Item) /\ Len(new) \in Nat
      /\ \A i \in 1 .. Len(new) : new[i].id = id
  BY BytesProperties, LenProperties
<1> HIDE DEF new
<1>3. /\ wire \in Seq(Item) /\ sent \in Seq(Item) /\ turn \in Nat /\ id \in Nat
      /\ Len(sent) \in Nat /\ Len(wire) \in Nat
  BY LenProperties, IdsAssumption DEF ConnInv, ConnTypeOK
<1>4. turn' >= turn /\ id >= turn /\ id <= turn'
  BY <1>1, <1>3
<1>5. Delivery!Extends(sent, sent')
  BY <1>1, <1>2, <1>3, ConcatExtends
<1>6. Delivery!Extends(wire, wire')
  BY <1>1, <1>3 DEF Delivery!Extends
<1>7. ASSUME NEW i \in Len(sent) + 1 .. Len(sent')
      PROVE  sent'[i].id = id
  <2>1. /\ Len(sent') = Len(sent) + Len(new)
        /\ \A j \in 1 .. Len(sent) + Len(new) :
             sent'[j] = IF j <= Len(sent) THEN sent[j] ELSE new[j - Len(sent)]
    <3>1. sent' = sent \o new /\ sent \in Seq(Item) /\ new \in Seq(Item)
      BY <1>1, <1>2, <1>3
    <3> QED
      BY <3>1, ConcatProperties, Zenon
  <2>2. /\ i \in 1 .. Len(sent) + Len(new) /\ ~(i <= Len(sent))
        /\ i - Len(sent) \in 1 .. Len(new)
    BY <1>2, <1>3, <2>1
  <2> QED
    BY <1>2, <2>1, <2>2
<1> QED
  BY <1>1, <1>4, <1>5, <1>6, <1>7, AfterStep DEF Delivery!Next, Delivery!Deliver

\* The connector implements the delivery it promises to the handler: bytes
\* reach the peer in the order of submission, none repeated and none skipped but
\* those a cancelled write gave up, and success is reported only for responses of
\* which the peer has everything that was not given up.
THEOREM ConnImplementsDelivery == ConnSpec => DeliverySpec
<1>1. ConnInit => Delivery!Init
  BY DEF ConnInit, Delivery!Init
<1>2. ConnInv /\ ConnInv' /\ [ConnNext]_connVars => [Delivery!Next]_(Delivery!vars)
  <2> SUFFICES ASSUME ConnInv, ConnInv', [ConnNext]_connVars
               PROVE  [Delivery!Next]_(Delivery!vars)
    OBVIOUS
  <2>1. CASE UNCHANGED writeVars
    BY <2>1 DEF writeVars, Delivery!vars
  <2>2. CASE HandlerSubmits
    <3>1. PICK id \in Ids, parts \in Runs, ends \in BOOLEAN :
            /\ id >= turn
            /\ Submit(id, parts, ends, ends /\ (parts = <<>> \/ parts = <<"E">>))
      BY <2>2 DEF HandlerSubmits
    <3>2. parts \in Seq(Part)
      BY RunsAssumption
    <3>3. Delivery!Next
      BY <3>1, <3>2, SubmitDelivers
    <3> QED
      BY <3>3
  <2>3. CASE WriteOk
    <3>1. /\ out \in Seq(Item) /\ wire' = wire \o out
          /\ sent' = sent /\ turn' = turn /\ acked \subseteq acked'
      BY <2>3 DEF WriteOk, ConnInv, ConnTypeOK
    <3>2. Delivery!Next
      BY <3>1, WriteDelivers
    <3> QED
      BY <3>2
  <2>4. CASE WriteAborted
    <3>1. PICK n \in 0 .. Len(out) : WriteFailed(n) \/ WriteCanceled(n)
      BY <2>4 DEF WriteAborted
    <3>cut. CASE WriteCanceled(n) /\ ~stopped
      <4>1. Delivery!Next
        BY <3>cut, CutGivesUp
      <4> QED BY <4>1
    <3>go. SUFFICES ASSUME ~(WriteCanceled(n) /\ ~stopped) PROVE [Delivery!Next]_(Delivery!vars)
      BY <3>cut
    <3>2. /\ wire' = wire \o SubSeq(out, 1, n)
          /\ sent' = sent /\ turn' = turn /\ acked' = acked
      BY <3>1, <3>go DEF WriteFailed, WriteCanceled
    <3>3. SubSeq(out, 1, n) \in Seq(Item)
      <4>1. out \in Seq(Item) /\ n \in Int /\ 1 \in Int /\ \A i \in 1 .. n : out[i] \in Item
        BY ElementOfSeq, LenProperties DEF ConnInv, ConnTypeOK
      <4> QED
        BY <4>1, SubSeqProperties
    <3>4. Delivery!Next
      BY <3>2, <3>3, WriteDelivers
    <3> QED
      BY <3>4
  <2>5. CASE LosesConnector
    BY <2>5 DEF LosesConnector, Destroyed, Delivery!vars
  <2>6. CASE \/ TimerExpires \/ RunTimer \/ UserSetsTimeout \/ SocketCanceled
             \/ ReadOk \/ ReadDone \/ ReadRejected \/ ReadFailed \/ ReadCanceled
             \/ HandlerCloses
    BY <2>1, <2>6
    DEF TimerExpires, RunTimer, UserSetsTimeout, SetTimeout, SocketCanceled, ReadOk, ReadDone, ReadRejected,
        ReadFailed, ReadCanceled, HandlerCloses, ConnClose
  <2>7. CASE UNCHANGED connVars
    BY <2>1, <2>7 DEF connVars
  <2> QED
    BY <2>2, <2>3, <2>4, <2>5, <2>6, <2>7 DEF ConnNext
<1> QED
  BY <1>1, <1>2, ConnInvariance, PTL DEF ConnSpec, DeliverySpec, Delivery!Spec
=============================================================================
