-------------------------- MODULE OrderedDelivery --------------------------
(***************************************************************************)
(* What the connector promises a protocol handler, whatever the socket     *)
(* does: the bytes reach the peer in the order in which they were          *)
(* submitted, none repeated and none skipped but those of a write that was *)
(* given up, and a response is reported as written only when it was        *)
(* completely submitted and every byte of it, except those given up, has   *)
(* reached the peer.                                                       *)
(***************************************************************************)
EXTENDS Naturals, Sequences

CONSTANT Item       \* records with a field id

VARIABLES
  sent,    \* everything submitted and not given up
  turn,    \* responses below turn are completely submitted
  wire,    \* what has reached the peer
  acked    \* responses reported as written

vars == <<sent, turn, wire, acked>>

Init == sent = <<>> /\ turn = 0 /\ wire = <<>> /\ acked = {}

\* The peer holds s in full: every byte of response id lies below position n.
Covered(id, s, n) == \A i \in 1 .. Len(s) : s[i].id = id => i <= n

Extends(s, t) == Len(s) <= Len(t) /\ \A i \in 1 .. Len(s) : t[i] = s[i]

(***************************************************************************)
(* One step may submit bytes of a response that is not finished, bring     *)
(* more of the submitted bytes to the peer, and report finished responses. *)
(***************************************************************************)
Deliver ==
  /\ turn' >= turn
  /\ Extends(sent, sent')
  /\ \A i \in Len(sent) + 1 .. Len(sent') : sent'[i].id >= turn /\ sent'[i].id <= turn'
  /\ Extends(wire, wire')
  /\ Extends(wire', sent')
  /\ acked \subseteq acked'
  /\ \A id \in acked' : id < turn' /\ Covered(id, sent', Len(wire'))

\* A write is given up: more bytes reach the peer, the k bytes behind them never will.
GiveUp(k) ==
  /\ turn' = turn /\ acked' = acked
  /\ Extends(wire, wire') /\ Extends(wire', sent)
  /\ Len(wire') + k <= Len(sent) /\ Len(sent') = Len(sent) - k
  /\ \A i \in 1 .. Len(sent') : sent'[i] = sent[IF i <= Len(wire') THEN i ELSE i + k]

Next == Deliver \/ \E k \in 0 .. Len(sent) : GiveUp(k)

Spec == Init /\ [][Next]_vars
=============================================================================
