--------------------------- MODULE ConnectorSpec ---------------------------
(***************************************************************************)
(* The connector closed by the most general protocol handler: one that     *)
(* serialises its responses in order, each in as many pieces as it likes,  *)
(* closes when it likes and changes the timeout when it likes.             *)
(***************************************************************************)
EXTENDS Connector, FiniteSets

CONSTANTS
  Runs,         \* the runs of parts one visit of the serialiser may find
  MaxSent,      \* bound: bytes submitted in one behaviour
  LateTimeout   \* set_timeout may be called on a stopped connector

ASSUME RunsAssumption == Runs \subseteq Seq(Part)
ASSUME MaxSentAssumption == MaxSent \in Nat
ASSUME LateTimeoutAssumption == LateTimeout \in BOOLEAN

\* A run that ends a response has the end of message as its only part when it
\* is empty (not chunked) or just <<"E">> (chunked).
HandlerSubmits ==
  \E id \in Ids, parts \in Runs, ends \in BOOLEAN :
    /\ ~Unreferenced
    /\ id >= turn
    /\ Len(sent) + Len(parts) <= MaxSent
    /\ ends \/ parts # <<>>
    /\ Submit(id, parts, ends, ends /\ (parts = <<>> \/ parts = <<"E">>))

UserSetsTimeout ==
  /\ ~Unreferenced
  /\ stopped => LateTimeout
  /\ \E on \in BOOLEAN : SetTimeout(on)

HandlerCloses == ~Unreferenced /\ ConnClose

WriteAborted == \E n \in 0 .. Len(out) : WriteFailed(n) \/ WriteCanceled(n)

LosesConnector == \E notify \in BOOLEAN : Destroyed(notify)

ConnNext ==
  \/ TimerExpires \/ RunTimer \/ UserSetsTimeout \/ SocketCanceled
  \/ ReadOk \/ ReadDone \/ ReadRejected \/ ReadFailed \/ ReadCanceled
  \/ HandlerSubmits \/ WriteOk \/ WriteAborted
  \/ HandlerCloses \/ LosesConnector

ConnSpec == ConnInit /\ [][ConnNext]_connVars

(***************************************************************************)
(* The event loop runs what is ready, cancelled operations complete, time  *)
(* passes, and a handler that decodes returns.  Nothing is assumed of the  *)
(* peer (a read or a write may never complete) or of the user.             *)
(***************************************************************************)
ConnFairness ==
  /\ WF_connVars(TimerExpires) /\ WF_connVars(RunTimer)
  /\ WF_connVars(ReadDone \/ ReadRejected)
  /\ WF_connVars(ReadCanceled)
  /\ WF_connVars(stopped /\ (WriteOk \/ WriteAborted))
  /\ WF_connVars(LosesConnector)

ConnFairSpec == ConnSpec /\ ConnFairness

-----------------------------------------------------------------------------
(* Properties. *)

\* A write was cancelled on an open connector and do_write() was not called since.
WriteDropped == "write" \in cut /\ ~writing

\* Bytes or feedbacks never wait without a write in flight that will pick them
\* up, unless the connector was stopped or is gone: do_write() returns at once
\* while _writing is set, so the completion handler must call it again (a lost
\* wake-up would hang the connection with everything looking idle).  It does not
\* when the socket was cancelled on an open connector: then they wait until the
\* handler writes again.
NoStuckBytes == ser # <<>> \/ pcc # {} => writing \/ stopped \/ ~alive \/ WriteDropped

\* An open connector with a timeout that waits for its peer has a deadline
\* running (or expired and queued): reads and writes share one timer, and
\* every completion cancels it for both.  Only a cancelled write leaves a
\* pending read without one, until the next do_write() or do_read().
DeadlineArmed == ttl /\ ~stopped /\ rd = "pending" => armed \/ fired \/ WriteDropped

\* A response gets the success or the error feedback, never both: do_write()
\* captures the callbacks of a write in its completion handler, which posts
\* either cb.first or cb.second, while a destroyed connector fails the others.
OneFeedback == acked \cap nacked = {}

\* A response whose success was posted has all its bytes at the peer: the
\* feedbacks that write_feedbacks() hands to a write belong to bytes of that
\* write or of earlier ones, even when bytes and feedbacks are queued during it.
\* (Bytes given up by a write cancelled on an open connector are not in sent.)
AckedIsDelivered ==
  \A id \in acked : \A i \in 1 .. Len(sent) : sent[i].id = id => i <= Len(wire)

(***************************************************************************)
(* The inductive invariant behind the properties above.  It locates every  *)
(* submitted byte (at the peer, in flight or waiting), says how far the    *)
(* bytes of a response can be in each stage of its feedback, and keeps the *)
(* four stages of a feedback apart.                                        *)
(***************************************************************************)
Open ==
  /\ rd # "none" \/ writing => alive
  /\ ~stopped /\ rd = "none" => "read" \in cut

NothingInFlight == ~writing => out = <<>> /\ fb = {}

\* Every byte of response id lies within the first n submitted bytes.
Within(id, n) == \A i \in 1 .. Len(sent) : sent[i].id = id => i <= n

Located ==
  /\ Len(wire) <= Len(sent)
  /\ \A i \in 1 .. Len(wire) : wire[i] = sent[i]
  /\ writing \/ ~stopped =>
       /\ Len(sent) = Len(wire) + Len(out) + Len(ser)
       /\ \A i \in 1 .. Len(out) : out[i] = sent[Len(wire) + i]
       /\ \A i \in 1 .. Len(ser) : ser[i] = sent[Len(wire) + Len(out) + i]

Feedbacks ==
  /\ \A i \in 1 .. Len(sent) : sent[i].id <= turn
  /\ \A id \in pcc \cup fb \cup acked \cup nacked : id < turn
  /\ \A id \in acked : Within(id, Len(wire))
  /\ \A id \in fb : Within(id, Len(wire) + Len(out))

Apart ==
  /\ pcc \cap fb = {} /\ pcc \cap acked = {} /\ pcc \cap nacked = {}
  /\ fb \cap acked = {} /\ fb \cap nacked = {} /\ acked \cap nacked = {}

ConnInv ==
  /\ ConnTypeOK /\ Open /\ NothingInFlight /\ NoStuckBytes /\ DeadlineArmed
  /\ Located /\ Feedbacks /\ Apart

Delivery == INSTANCE OrderedDelivery

\* The connector implements the delivery it promises to the handler, whatever
\* the interleaving of do_write(), completions, errors and stop(): bytes in
\* order without repetition, with a gap only where a write was cancelled, and
\* success only for what was delivered.
DeliverySpec == Delivery!Spec

\* A stopped connector is eventually destroyed, which is what tells the
\* handler that the connection is gone (on_connector_nulled).
StoppedIsDestroyed == stopped ~> ~alive
=============================================================================
