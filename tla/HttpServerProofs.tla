-------------------------- MODULE HttpServerProofs --------------------------
(***************************************************************************)
(* Proofs about http_server, for any number of connections, certificates   *)
(* and restarts.                                                           *)
(***************************************************************************)
EXTENDS HttpServer, WellFoundedInduction, TLAPS

\* What sni_solver keeps of a certificate; its name is never read.
Prepareds == [server_name : {NoName}, cn : {r.cn : r \in Certificates}, hosts : SUBSET Hosts]

ConnRecords ==
  [on : Acceptors, state : {"none", "accepted", "shaking", "served", "dropped"},
   timer : {"none", "armed", "queued", "cancelled", "done"}, host : Hosts \cup {NoName},
   offer : Offers \cup {{}}, cert : Nat, known : Nat, ctx : Nat,
   told : Seq({"ht_h1", "ht_h2"}), cut : BOOLEAN]

\* The types, with the ones TypeOK leaves out.
SrvTypeOK ==
  /\ TypeOK /\ loads <= starts
  /\ raws \in Seq(Certificates) /\ list \in Seq(Prepareds) /\ conn \in [Conns -> ConnRecords]

\* What one connection keeps to: its timer follows its state, its certificate
\* was chosen among those there were, and there is one if it uses TLS.
Timed(r) ==
  /\ r.state \in {"none", "accepted"} => r.timer = "none" /\ r.cert = 0
  /\ r.state = "shaking" => r.on = "tls" /\ r.timer \in {"armed", "queued", "done"}
  /\ r.state \in {"served", "dropped"} => r.timer # "armed"
  /\ r.timer = "done" => r.cut

Certified(r, l) ==
  /\ r.cert <= r.known /\ r.known <= Len(l)
  /\ r.on = "tls" => Len(l) > 0
  /\ r.cert > 0 /\ (\E i \in 1 .. r.known : r.host \in l[i].hosts) => r.host \in l[r.cert].hosts

\* The inductive invariant.
SrvInv ==
  /\ SrvTypeOK /\ ServedWhileRunning
  /\ acceptor["tls"] # "none" \/ accepts["tls"] > 0 => Len(list) > 0
  /\ \A c \in Conns : Timed(conn[c]) /\ Certified(conn[c], list)

-----------------------------------------------------------------------------
(* SelectInSeq takes the first element that fits. *)

\* A set of natural numbers that is not empty has a least member.
LEMMA LeastNatural ==
  ASSUME NEW I \in SUBSET Nat, I # {}
  PROVE  Min(I) \in I
<1> DEFINE R == OpToRel(<, Nat)
<1>1. IsWellFoundedOn(R, Nat)
  BY NatLessThanWellFounded, Zenon
<1>2. \E x \in I : \A y \in I : ~(<<y, x>> \in R)
  BY <1>1, WFMin, Zenon
<1>3. \A x, y \in Nat : x < y => <<x, y>> \in R
  <2> SUFFICES ASSUME NEW x \in Nat, NEW y \in Nat, x < y
               PROVE  <<x, y>> \in {ss \in Nat \X Nat : ss[1] < ss[2]}
    BY Zenon DEF OpToRel
  <2> QED
    OBVIOUS
<1>4. \E x \in I : \A y \in I : x <= y
  <2> HIDE DEF R
  <2>1. PICK x \in I : \A y \in I : ~(<<y, x>> \in R)
    BY <1>2
  <2>2. \A y \in I : ~(y < x)
    BY <1>3, <2>1
  <2> QED
    BY <2>2
<1> QED
  BY <1>4 DEF Min

\* The first certificate that cannot be loaded, or 0.
LEMMA FirstBad ==
  ASSUME NEW S, NEW s \in Seq(S)
  PROVE  SelectInSeq(s, LAMBDA r : ~r.good) \in 0 .. Len(s)
<1> DEFINE I == {i \in 1 .. Len(s) : ~s[i].good}
<1>1. SelectInSeq(s, LAMBDA r : ~r.good) = IF I # {} THEN Min(I) ELSE 0
  BY DEF SelectInSeq
<1>2. I # {} => Min(I) \in I
  <2>1. I \in SUBSET Nat
    OBVIOUS
  <2> HIDE DEF I
  <2> QED
    BY <2>1, LeastNatural
<1> QED
  BY <1>1, <1>2

\* sni_callback: the certificate is one of the list, and it is for the name
\* that is asked for whenever one of the list is.
LEMMA SniCallbackFits ==
  ASSUME NEW S, list \in Seq(S), Len(list) > 0, NEW name \in Hosts \cup {NoName},
         \A p \in S : p.server_name = NoName /\ p.hosts \subseteq Hosts
  PROVE  /\ SniCallback(name) \in 1 .. Len(list)
         /\ (\E i \in 1 .. Len(list) : name \in list[i].hosts)
              => name \in list[SniCallback(name)].hosts
<1>1. \A i \in 1 .. Len(list) : list[i].server_name = NoName /\ list[i].hosts \subseteq Hosts
  OBVIOUS
<1>2. CASE name = NoName
  <2>1. SniCallback(name) = 1
    BY <1>2, Zenon DEF SniCallback
  <2>2. \A i \in 1 .. Len(list) : name \notin list[i].hosts
    BY <1>1, <1>2, ServerAssumption
  <2> QED
    BY <2>1, <2>2
<1>3. CASE name # NoName
  <2> DEFINE I == {i \in 1 .. Len(list) : name \in list[i].hosts}
             exact == SelectInSeq(list, LAMBDA c : c.server_name = name)
             wild == SelectInSeq(list, LAMBDA c : c.server_name \in DOMAIN Wildcard
                                                  /\ name \in Wildcard[c.server_name])
             san == SelectInSeq(list, LAMBDA c : name \in c.hosts)
  <2>1. exact = 0
    <3>1. {i \in 1 .. Len(list) : list[i].server_name = name} = {}
      BY <1>1, <1>3
    <3> QED
      BY <3>1, Zenon DEF SelectInSeq
  <2>2. wild = 0
    <3>1. {i \in 1 .. Len(list) : list[i].server_name \in DOMAIN Wildcard
                                  /\ name \in Wildcard[list[i].server_name]} = {}
      BY <1>1, ServerAssumption
    <3> QED
      BY <3>1, Zenon DEF SelectInSeq
  <2>3. san = IF I # {} THEN Min(I) ELSE 0
    BY DEF SelectInSeq
  <2>4. SniCallback(name) = IF exact > 0 THEN exact ELSE IF wild > 0 THEN wild
                            ELSE IF san > 0 THEN san ELSE 1
    BY <1>3, Zenon DEF SniCallback
  <2>5. SniCallback(name) = IF san > 0 THEN san ELSE 1
    <3> HIDE DEF exact, wild, san
    <3> QED
      BY <2>1, <2>2, <2>4
  <2>6. I \in SUBSET Nat
    OBVIOUS
  <2>7. I # {} => Min(I) \in I
    <3> HIDE DEF I
    <3> QED
      BY <2>6, LeastNatural
  <2> HIDE DEF san
  <2> QED
    BY <2>3, <2>5, <2>7
<1> QED
  BY <1>2, <1>3

-----------------------------------------------------------------------------
(* One step per action. *)

\* What prepare_certificate keeps has the type of the list.
LEMMA PreparedType == \A r \in Certificates : Prepared(r) \in Prepareds
  BY ServerAssumption DEF Prepared, Prepareds

\* load_certificates only adds to the list, by which no connection loses its
\* certificate, and a list it accepts is not empty.
LEMMA LoadedGrows ==
  ASSUME SrvTypeOK
  PROVE  /\ Loaded.list \in Seq(Prepareds) /\ Len(Loaded.list) >= Len(list)
         /\ \A i \in 1 .. Len(list) : Loaded.list[i] = list[i]
         /\ Loaded.ok \in BOOLEAN /\ (Loaded.ok => Len(Loaded.list) > 0)
         /\ Loaded.loads \in loads .. loads + 1
<1> DEFINE bad == SelectInSeq(raws, LAMBDA r : ~r.good)
           taken == IF bad = 0 THEN raws ELSE SubSeq(raws, 1, bad - 1)
           added == [i \in 1 .. Len(taken) |-> Prepared(taken[i])]
           new == list \o added
<1>1. Loaded = [ok |-> bad = 0 /\ new # <<>>, list |-> new,
                loads |-> loads + IF raws = <<>> THEN 0 ELSE 1]
  BY Zenon DEF Loaded
<1>2. raws \in Seq(Certificates) /\ list \in Seq(Prepareds) /\ loads \in Nat
  BY ServerAssumption DEF SrvTypeOK, TypeOK
<1>3. bad \in 0 .. Len(raws)
  BY <1>2, FirstBad
<1>4. taken \in Seq(Certificates)
  <2> HIDE DEF bad
  <2> QED
    BY <1>2, <1>3
<1>5. added \in Seq(Prepareds)
  <2> HIDE DEF taken
  <2>1. \A i \in 1 .. Len(taken) : added[i] \in Prepareds
    BY <1>4, PreparedType
  <2> QED
    BY <1>4, <2>1
<1>6. new \in Seq(Prepareds) /\ Len(new) >= Len(list) /\ (\A i \in 1 .. Len(list) : new[i] = list[i])
      /\ (new # <<>> => Len(new) > 0)
  <2> HIDE DEF added
  <2> QED
    BY <1>2, <1>5
<1>7. loads + (IF raws = <<>> THEN 0 ELSE 1) \in loads .. loads + 1
  BY <1>2
<1> HIDE DEF new, bad
<1> QED
  BY <1>1, <1>6, <1>7

\* A connection whose new record keeps to the rules leaves the others alone.
LEMMA ConnChange ==
  ASSUME SrvInv, NEW c \in Conns, NEW r \in ConnRecords, Timed(r), Certified(r, list),
         conn' = [conn EXCEPT ![c] = r], list' = list
  PROVE  /\ conn' \in [Conns -> ConnRecords]
         /\ \A d \in Conns : Timed(conn'[d]) /\ Certified(conn'[d], list')
         /\ \A d \in Conns : conn'[d].cert \in 0 .. Len(list')
<1>1. conn \in [Conns -> ConnRecords]
  BY DEF SrvInv, SrvTypeOK
<1>2. conn' \in [Conns -> ConnRecords]
  BY <1>1
<1>3. \A d \in Conns : Timed(conn'[d]) /\ Certified(conn'[d], list')
  BY <1>1 DEF SrvInv
<1>4. \A q \in ConnRecords : Certified(q, list) => q.cert \in 0 .. Len(list)
  <2>1. Len(list) \in Nat
    BY DEF SrvInv, SrvTypeOK
  <2> QED
    BY <2>1 DEF Certified, ConnRecords
<1> QED
  BY <1>2, <1>3, <1>4

\* A step of a handshake or of its timer, which changes one connection that
\* is past its accept handler, preserves the invariant.
LEMMA HandshakeStep ==
  ASSUME SrvInv, NEW c \in Conns, NEW r \in ConnRecords, Timed(r), Certified(r, list),
         conn[c].state # "accepted", conn' = [conn EXCEPT ![c] = r],
         UNCHANGED <<env, running, ssl, raws, list, loads, ctx, acceptor, accepts, user, starts, fate>>
  PROVE  SrvInv'
<1>1. /\ conn' \in [Conns -> ConnRecords]
      /\ \A d \in Conns : Timed(conn'[d]) /\ Certified(conn'[d], list')
      /\ \A d \in Conns : conn'[d].cert \in 0 .. Len(list')
  BY ConnChange
<1>2. TypeOK'
  BY <1>1 DEF SrvInv, SrvTypeOK, TypeOK
<1>3. SrvTypeOK'
  BY <1>1, <1>2 DEF SrvInv, SrvTypeOK
<1>4. \A d \in Conns : conn[d].state = "accepted" => conn'[d] = conn[d]
  BY DEF SrvInv, SrvTypeOK
<1>5. ServedWhileRunning'
  BY <1>2, <1>4 DEF SrvInv, ServedWhileRunning, Fine
<1> QED
  BY <1>1, <1>3, <1>5 DEF SrvInv

\* Accepting again after an accept completed preserves the invariant.
LEMMA AcceptHandlerStep ==
  ASSUME SrvInv, NEW c \in Conns, NEW a \in Acceptors, NEW r \in ConnRecords, Timed(r), Certified(r, list),
         conn[c].state = "accepted", conn[c].on = a, conn' = [conn EXCEPT ![c] = r],
         AcceptAgain(a), fate' \in {"fine", "stale"}, Fine,
         UNCHANGED <<env, running, ssl, raws, list, loads, ctx, acceptor, user, starts>>
  PROVE  SrvInv'
<1>1. /\ conn' \in [Conns -> ConnRecords]
      /\ \A d \in Conns : Timed(conn'[d]) /\ Certified(conn'[d], list')
      /\ \A d \in Conns : conn'[d].cert \in 0 .. Len(list')
  BY ConnChange
<1>2. /\ accepts \in [Acceptors -> Nat] /\ acceptor \in [Acceptors -> {"none", "open", "closed"}]
      /\ running \in BOOLEAN
  BY DEF SrvInv, SrvTypeOK, TypeOK
<1>3. /\ accepts' \in [Acceptors -> Nat]
      /\ running /\ acceptor[a] = "open" => accepts'[a] > 0
      /\ \A b \in Acceptors : accepts'[b] >= accepts[b]
      /\ \A b \in Acceptors : accepts'[b] > accepts[b] => b = a
  BY <1>2 DEF AcceptAgain, Accepting
<1>4. TypeOK'
  BY <1>1, <1>3 DEF SrvInv, SrvTypeOK, TypeOK
<1>5. SrvTypeOK'
  BY <1>1, <1>4 DEF SrvInv, SrvTypeOK
<1>6. \A d \in Conns : d # c => conn'[d] = conn[d]
  BY DEF SrvInv, SrvTypeOK
<1>7. ServedWhileRunning'
  <2> SUFFICES ASSUME running, NEW b \in Acceptors, acceptor[b] = "open"
               PROVE  accepts'[b] > 0 \/ \E d \in Conns : conn'[d].on = b /\ conn'[d].state = "accepted"
    BY <1>4 DEF ServedWhileRunning
  <2>1. CASE b = a
    BY <1>3, <2>1
  <2>2. CASE b # a
    <3>1. accepts[b] > 0 \/ \E d \in Conns : conn[d].on = b /\ conn[d].state = "accepted"
      BY DEF SrvInv, ServedWhileRunning
    <3> QED
      BY <1>2, <1>3, <1>6, <2>2, <3>1
  <2> QED
    BY <2>1, <2>2
<1>8. acceptor'["tls"] # "none" \/ accepts'["tls"] > 0 => Len(list') > 0
  <2>1. CASE a = "tls"
    BY <2>1 DEF SrvInv, Certified
  <2>2. CASE a # "tls"
    <3>1. accepts'["tls"] > 0 => accepts["tls"] > 0
      BY <1>2, <1>3, <2>2 DEF Acceptors
    <3> QED
      BY <3>1 DEF SrvInv
  <2> QED
    BY <2>1, <2>2
<1> QED
  BY <1>1, <1>5, <1>7, <1>8 DEF SrvInv

\* start() preserves the invariant: every acceptor it leaves open has an accept
\* waiting, and a TLS acceptor has a certificate.
LEMMA StartStep ==
  ASSUME SrvInv, NEW busy \in SUBSET Acceptors, Start(busy)
  PROVE  SrvInv'
<1> DEFINE l == IF ssl THEN Loaded ELSE [ok |-> FALSE, list |-> list, loads |-> loads]
           acc == [plain |-> Listened("plain", "plain" \in busy),
                   tls |-> IF l.ok THEN Listened("tls", "tls" \in busy) ELSE acceptor["tls"]]
<1>1. /\ SrvTypeOK /\ list \in Seq(Prepareds) /\ loads \in Nat /\ starts \in Nat
      /\ loads <= starts /\ ctx \in 0 .. loads /\ MaxStarts \in Nat
      /\ accepts \in [Acceptors -> Nat] /\ acceptor \in [Acceptors -> {"none", "open", "closed"}]
      /\ conn \in [Conns -> ConnRecords]
  BY ServerAssumption DEF SrvInv, SrvTypeOK, TypeOK
<1>2. /\ l.list \in Seq(Prepareds) /\ Len(l.list) >= Len(list)
      /\ \A i \in 1 .. Len(list) : l.list[i] = list[i]
      /\ l.ok \in BOOLEAN /\ (l.ok => Len(l.list) > 0)
      /\ l.loads \in loads .. loads + 1
  <2>1. CASE ssl
    BY <1>1, <2>1, LoadedGrows
  <2>2. CASE ~ssl
    BY <1>1, <2>2
  <2> QED
    BY <2>1, <2>2
<1> HIDE DEF l
<1>3. /\ starts < MaxStarts /\ starts' = starts + 1 /\ running' = TRUE
      /\ list' = l.list /\ ssl' = l.ok /\ loads' = l.loads
      /\ ctx' = (IF l.ok THEN l.loads ELSE ctx)
      /\ UNCHANGED <<env, raws, user, conn>>
      /\ \/ fate' = "thrown" /\ UNCHANGED <<acceptor, accepts>>
         \/ /\ acceptor' = acc /\ accepts' = [a \in Acceptors |-> accepts[a] + Accepting(acc, a)]
            /\ fate' \in {"fine", "stale"}
  BY DEF Start, l
<1>4. /\ acc \in [Acceptors -> {"none", "open", "closed"}]
      /\ acc["tls"] # "none" => l.ok \/ acceptor["tls"] # "none"
  BY <1>1, <1>2 DEF Acceptors, Listened
<1> HIDE DEF acc
<1>5. /\ acceptor' \in [Acceptors -> {"none", "open", "closed"}] /\ accepts' \in [Acceptors -> Nat]
      /\ acceptor'["tls"] # "none" => l.ok \/ acceptor["tls"] # "none"
      /\ accepts'["tls"] > 0 => accepts["tls"] > 0 \/ acceptor'["tls"] # "none"
      /\ fate' \in {"fine", "thrown", "stale"}
      /\ fate' = "fine" => \A a \in Acceptors : acceptor'[a] = "open" => accepts'[a] > 0
  BY <1>1, <1>3, <1>4 DEF Acceptors, Accepting
<1>6. \A d \in Conns : Certified(conn[d], list') /\ conn[d].cert \in 0 .. Len(list')
  <2> SUFFICES ASSUME NEW d \in Conns
               PROVE  Certified(conn[d], list') /\ conn[d].cert \in 0 .. Len(list')
    OBVIOUS
  <2>1. /\ conn[d].cert \in Nat /\ conn[d].known \in Nat
        /\ conn[d].cert <= conn[d].known /\ conn[d].known <= Len(list)
        /\ Certified(conn[d], list)
    BY <1>1 DEF SrvInv, Certified, ConnRecords
  <2>2. Len(list) \in Nat /\ Len(list') \in Nat /\ Len(list') >= Len(list)
        /\ \A i \in 1 .. Len(list) : list'[i] = list[i]
    BY <1>1, <1>2, <1>3
  <2>3. \A i \in 1 .. conn[d].known : list'[i] = list[i]
    BY <2>1, <2>2
  <2> QED
    BY <2>1, <2>2, <2>3 DEF Certified
<1>7. loads' \in 0 .. MaxStarts /\ starts' \in 0 .. MaxStarts /\ loads' <= starts' /\ ctx' \in 0 .. loads'
  BY <1>1, <1>2, <1>3
<1>8. TypeOK'
  BY <1>2, <1>3, <1>5, <1>6, <1>7 DEF SrvInv, SrvTypeOK, TypeOK
<1>9. SrvTypeOK'
  BY <1>2, <1>3, <1>7, <1>8 DEF SrvInv, SrvTypeOK
<1>10. ServedWhileRunning'
  BY <1>5, <1>8 DEF ServedWhileRunning, Fine
<1>11. Len(list') >= Len(list) /\ Len(list) \in Nat /\ Len(list') \in Nat /\ (l.ok => Len(list') > 0)
  BY <1>1, <1>2, <1>3
<1>12. acceptor'["tls"] # "none" \/ accepts'["tls"] > 0 => Len(list') > 0
  BY <1>5, <1>11 DEF SrvInv
<1> QED
  BY <1>3, <1>6, <1>9, <1>10, <1>12 DEF SrvInv

\* stop() preserves the invariant.
LEMMA StopStep ==
  ASSUME SrvInv, Stop
  PROVE  SrvInv'
<1>1. accepts' \in [Acceptors -> Nat] /\ acceptor' \in [Acceptors -> {"none", "open", "closed"}]
      /\ (acceptor'["tls"] # "none" => acceptor["tls"] # "none") /\ accepts'["tls"] = 0
  BY DEF SrvInv, SrvTypeOK, TypeOK, Stop, Acceptors
<1>2. TypeOK' /\ ~running'
  BY <1>1 DEF SrvInv, SrvTypeOK, TypeOK, Stop
<1>3. SrvTypeOK' /\ ServedWhileRunning'
  BY <1>2 DEF SrvInv, SrvTypeOK, Stop, ServedWhileRunning
<1> QED
  BY <1>1, <1>3 DEF SrvInv, Stop

\* The arrival of a client preserves the invariant: the accept it takes has
\* its handler queued.
LEMMA ClientConnectsStep ==
  ASSUME SrvInv, NEW c \in Conns, NEW a \in Acceptors, NEW host \in Hosts \cup {NoName},
         NEW offer \in Offers, ClientConnects(c, a, host, offer)
  PROVE  SrvInv'
<1> DEFINE r == [conn[c] EXCEPT !.on = a, !.state = "accepted", !.host = host,
                                !.offer = offer, !.ctx = ctx]
<1>1. /\ conn \in [Conns -> ConnRecords] /\ conn[c] \in ConnRecords /\ conn[c].state = "none"
      /\ Timed(conn[c]) /\ Certified(conn[c], list) /\ ctx \in Nat
      /\ accepts \in [Acceptors -> Nat] /\ accepts[a] > 0
  BY ServerAssumption DEF SrvInv, SrvTypeOK, TypeOK, ClientConnects
<1>2. /\ r \in ConnRecords /\ r.on = a /\ r.state = "accepted" /\ r.cert = conn[c].cert
      /\ r.known = conn[c].known /\ r.timer = conn[c].timer
  BY <1>1 DEF ConnRecords
<1>3. /\ conn' = [conn EXCEPT ![c] = r] /\ accepts' = [accepts EXCEPT ![a] = @ - 1]
      /\ UNCHANGED <<env, running, ssl, raws, list, loads, ctx, acceptor, user, starts, fate>>
  BY DEF ClientConnects
<1> HIDE DEF r
<1>4. Timed(r) /\ Certified(r, list)
  <2>1. conn[c].cert = 0 /\ conn[c].timer = "none"
    BY <1>1 DEF Timed
  <2>2. a = "tls" => Len(list) > 0
    BY <1>1 DEF SrvInv
  <2> QED
    BY <1>1, <1>2, <2>1, <2>2 DEF Timed, Certified
<1>5. /\ conn' \in [Conns -> ConnRecords]
      /\ \A d \in Conns : Timed(conn'[d]) /\ Certified(conn'[d], list')
      /\ \A d \in Conns : conn'[d].cert \in 0 .. Len(list')
  BY <1>2, <1>3, <1>4, ConnChange
<1>6. /\ accepts' \in [Acceptors -> Nat] /\ \A b \in Acceptors : b # a => accepts'[b] = accepts[b]
      /\ accepts'["tls"] > 0 => accepts["tls"] > 0
  BY <1>1, <1>3 DEF Acceptors
<1>7. TypeOK'
  BY <1>3, <1>5, <1>6 DEF SrvInv, SrvTypeOK, TypeOK
<1>8. SrvTypeOK'
  BY <1>3, <1>5, <1>7 DEF SrvInv, SrvTypeOK
<1>9. ServedWhileRunning'
  <2>1. conn'[c].on = a /\ conn'[c].state = "accepted"
    BY <1>1, <1>2, <1>3
  <2>2. \A d \in Conns : conn[d].state = "accepted" => conn'[d] = conn[d]
    BY <1>1, <1>3
  <2> QED
    BY <1>3, <1>6, <1>7, <2>1, <2>2 DEF SrvInv, ServedWhileRunning, Fine
<1> QED
  BY <1>3, <1>5, <1>6, <1>8, <1>9 DEF SrvInv

\* A failed accept preserves the invariant: its handler accepts again.
LEMMA AcceptFailsStep ==
  ASSUME SrvInv, NEW a \in Acceptors, AcceptFails(a)
  PROVE  SrvInv'
<1>1. /\ accepts \in [Acceptors -> Nat] /\ accepts[a] > 0
      /\ acceptor \in [Acceptors -> {"none", "open", "closed"}] /\ running \in BOOLEAN
  BY DEF SrvInv, SrvTypeOK, TypeOK, AcceptFails
<1>2. /\ accepts' = [accepts EXCEPT ![a] = @ - 1 + IF running THEN Accepting(acceptor, a) ELSE 0]
      /\ UNCHANGED <<env, running, ssl, raws, list, loads, ctx, acceptor, user, conn, starts, fate>>
  BY DEF AcceptFails
<1>3. /\ accepts' \in [Acceptors -> Nat]
      /\ running /\ acceptor[a] = "open" => accepts'[a] > 0
      /\ \A b \in Acceptors : b # a => accepts'[b] = accepts[b]
      /\ accepts'["tls"] > 0 => accepts["tls"] > 0
  BY <1>1, <1>2 DEF Accepting, Acceptors
<1>4. TypeOK'
  BY <1>2, <1>3 DEF SrvInv, SrvTypeOK, TypeOK
<1>5. SrvTypeOK'
  BY <1>2, <1>4 DEF SrvInv, SrvTypeOK
<1>6. ServedWhileRunning'
  BY <1>2, <1>3, <1>4 DEF SrvInv, ServedWhileRunning, Fine
<1> QED
  BY <1>2, <1>3, <1>5, <1>6 DEF SrvInv

\* What an accept handler, a handshake and its timer do to a connection.
LEMMA ConnectionStep ==
  ASSUME SrvInv, NEW c \in Conns,
         \/ AcceptPlain(c) \/ AcceptTls(c) \/ ServerName(c) \/ HandshakeFails(c)
         \/ TimerExpires(c) \/ ConnectionTimeout(c)
         \/ \E npn \in DOMAIN NameLength : Handshaken(c, npn)
  PROVE  SrvInv'
<1>1. /\ conn \in [Conns -> ConnRecords] /\ conn[c] \in ConnRecords
      /\ Timed(conn[c]) /\ Certified(conn[c], list) /\ list \in Seq(Prepareds)
      /\ Len(list) \in Nat /\ user \in BOOLEAN
  BY DEF SrvInv, SrvTypeOK, TypeOK
<1>2. \A handler \in {"ht_h1", "ht_h2"} : Told(c, handler) \in Seq({"ht_h1", "ht_h2"})
  <2>1. conn[c].told \in Seq({"ht_h1", "ht_h2"})
    BY <1>1 DEF ConnRecords
  <2> QED
    BY <2>1 DEF Told
<1>3. CASE AcceptPlain(c)
  <2> DEFINE r == [conn[c] EXCEPT !.state = "served", !.told = Told(c, "ht_h1")]
  <2>1. r \in ConnRecords /\ Timed(r) /\ Certified(r, list)
    <3>1. /\ r \in ConnRecords /\ r.state = "served" /\ r.timer = conn[c].timer
          /\ r.on = conn[c].on /\ r.cert = conn[c].cert /\ r.known = conn[c].known
          /\ r.host = conn[c].host /\ r.cut = conn[c].cut
      BY <1>1, <1>2 DEF ConnRecords
    <3>2. conn[c].state = "accepted"
      BY <1>3 DEF AcceptPlain
    <3> QED
      BY <1>1, <3>1, <3>2 DEF Timed, Certified
  <2>2. /\ conn' = [conn EXCEPT ![c] = r] /\ conn[c].state = "accepted" /\ conn[c].on = "plain"
        /\ AcceptAgain("plain") /\ Fine /\ fate' \in {"fine", "stale"}
        /\ UNCHANGED <<env, running, ssl, raws, list, loads, ctx, acceptor, user, starts>>
    BY <1>3 DEF AcceptPlain, Fine
  <2>3. "plain" \in Acceptors
    BY DEF Acceptors
  <2> HIDE DEF r
  <2> QED
    BY <2>1, <2>2, <2>3, AcceptHandlerStep
<1>4. CASE AcceptTls(c)
  <2> DEFINE r == [conn[c] EXCEPT !.state = "shaking", !.timer = "armed"]
  <2>1. r \in ConnRecords /\ Timed(r) /\ Certified(r, list)
    <3>1. /\ r \in ConnRecords /\ r.state = "shaking" /\ r.timer = "armed"
          /\ r.on = conn[c].on /\ r.cert = conn[c].cert /\ r.known = conn[c].known
          /\ r.host = conn[c].host
      BY <1>1 DEF ConnRecords
    <3>2. conn[c].on = "tls"
      BY <1>4 DEF AcceptTls
    <3> QED
      BY <1>1, <3>1, <3>2 DEF Timed, Certified
  <2>2. /\ conn' = [conn EXCEPT ![c] = r] /\ conn[c].state = "accepted" /\ conn[c].on = "tls"
        /\ AcceptAgain("tls") /\ Fine /\ fate' \in {"fine", "stale"}
        /\ UNCHANGED <<env, running, ssl, raws, list, loads, ctx, acceptor, user, starts>>
    BY <1>4 DEF AcceptTls
  <2>3. "tls" \in Acceptors
    BY DEF Acceptors
  <2> HIDE DEF r
  <2> QED
    BY <2>1, <2>2, <2>3, AcceptHandlerStep
<1>5. CASE ServerName(c)
  <2> DEFINE r == [conn[c] EXCEPT !.cert = SniCallback(conn[c].host), !.known = Len(list)]
  <2>1. /\ conn[c].state = "shaking" /\ conn[c].on = "tls" /\ Len(list) > 0
        /\ conn[c].host \in Hosts \cup {NoName}
    BY <1>1, <1>5 DEF ServerName, Timed, Certified, ConnRecords
  <2>2. \A p \in Prepareds : p.server_name = NoName /\ p.hosts \subseteq Hosts
    BY DEF Prepareds
  <2>3. /\ SniCallback(conn[c].host) \in 1 .. Len(list)
        /\ (\E i \in 1 .. Len(list) : conn[c].host \in list[i].hosts)
             => conn[c].host \in list[SniCallback(conn[c].host)].hosts
    BY <1>1, <2>1, <2>2, SniCallbackFits
  <2>4. /\ r \in ConnRecords /\ r.state = conn[c].state /\ r.timer = conn[c].timer
        /\ r.on = conn[c].on /\ r.cert = SniCallback(conn[c].host) /\ r.known = Len(list)
        /\ r.host = conn[c].host /\ r.cut = conn[c].cut
    <3>1. SniCallback(conn[c].host) \in Nat
      BY <1>1, <2>3
    <3> QED
      BY <1>1, <3>1 DEF ConnRecords
  <2>5. /\ conn' = [conn EXCEPT ![c] = r]
        /\ UNCHANGED <<env, running, ssl, raws, list, loads, ctx, acceptor, accepts, user, starts, fate>>
    BY <1>5 DEF ServerName
  <2> HIDE DEF r
  <2>6. Timed(r) /\ Certified(r, list)
    BY <1>1, <2>1, <2>3, <2>4 DEF Timed, Certified
  <2> QED
    BY <2>1, <2>4, <2>5, <2>6, HandshakeStep
<1>6. ASSUME NEW r \in ConnRecords, conn[c].state = "shaking", r.state \in {"served", "dropped"},
             r.timer = Cancelled(conn[c].timer), r.on = conn[c].on, r.cert = conn[c].cert,
             r.known = conn[c].known, r.host = conn[c].host, r.cut = conn[c].cut,
             conn' = [conn EXCEPT ![c] = r],
             UNCHANGED <<env, running, ssl, raws, list, loads, ctx, acceptor, accepts, user, starts, fate>>
      PROVE  SrvInv'
  <2>1. Timed(r) /\ Certified(r, list)
    BY <1>1, <1>6 DEF Timed, Certified, Cancelled
  <2> QED
    BY <1>6, <2>1, HandshakeStep
<1>7. ASSUME NEW npn \in DOMAIN NameLength, Handshaken(c, npn)
      PROVE  SrvInv'
  <2> DEFINE told == Told(c, NegotiateHandler(conn[c].offer, npn))
             r == [conn[c] EXCEPT !.state = "served", !.timer = Cancelled(conn[c].timer), !.told = told]
  <2>1. NegotiateHandler(conn[c].offer, npn) \in {"ht_h1", "ht_h2"}
    BY Zenon DEF NegotiateHandler
  <2>2. told \in Seq({"ht_h1", "ht_h2"})
    BY <1>2, <2>1
  <2>3. /\ conn[c].state = "shaking" /\ conn' = [conn EXCEPT ![c] = r]
        /\ UNCHANGED <<env, running, ssl, raws, list, loads, ctx, acceptor, accepts, user, starts, fate>>
    BY <1>7 DEF Handshaken
  <2> HIDE DEF told
  <2>4. /\ r \in ConnRecords /\ r.state = "served" /\ r.timer = Cancelled(conn[c].timer)
        /\ r.on = conn[c].on /\ r.cert = conn[c].cert /\ r.known = conn[c].known
        /\ r.host = conn[c].host /\ r.cut = conn[c].cut
    BY <1>1, <2>2 DEF ConnRecords, Cancelled
  <2> HIDE DEF r
  <2> QED
    BY <1>6, <2>3, <2>4
<1>8. CASE HandshakeFails(c)
  <2> DEFINE r == [conn[c] EXCEPT !.state = "dropped", !.timer = Cancelled(conn[c].timer)]
  <2>1. /\ conn[c].state = "shaking" /\ conn' = [conn EXCEPT ![c] = r]
        /\ UNCHANGED <<env, running, ssl, raws, list, loads, ctx, acceptor, accepts, user, starts, fate>>
    BY <1>8 DEF HandshakeFails
  <2>2. /\ r \in ConnRecords /\ r.state = "dropped" /\ r.timer = Cancelled(conn[c].timer)
        /\ r.on = conn[c].on /\ r.cert = conn[c].cert /\ r.known = conn[c].known
        /\ r.host = conn[c].host /\ r.cut = conn[c].cut
    BY <1>1 DEF ConnRecords, Cancelled
  <2> HIDE DEF r
  <2> QED
    BY <1>6, <2>1, <2>2
<1>9. CASE TimerExpires(c)
  <2> DEFINE r == [conn[c] EXCEPT !.timer = "queued"]
  <2>1. /\ r \in ConnRecords /\ r.state = conn[c].state /\ r.timer = "queued"
        /\ r.on = conn[c].on /\ r.cert = conn[c].cert /\ r.known = conn[c].known
        /\ r.host = conn[c].host /\ r.cut = conn[c].cut
    BY <1>1 DEF ConnRecords
  <2>2. /\ conn[c].timer = "armed" /\ conn' = [conn EXCEPT ![c] = r]
        /\ UNCHANGED <<env, running, ssl, raws, list, loads, ctx, acceptor, accepts, user, starts, fate>>
    BY <1>9 DEF TimerExpires
  <2> HIDE DEF r
  <2>3. Timed(r) /\ Certified(r, list) /\ conn[c].state # "accepted"
    BY <1>1, <2>1, <2>2 DEF Timed, Certified
  <2> QED
    BY <2>1, <2>2, <2>3, HandshakeStep
<1>10. CASE ConnectionTimeout(c)
  <2> DEFINE r == [conn[c] EXCEPT !.timer = "done", !.cut = TRUE]
  <2>1. /\ r \in ConnRecords /\ r.state = conn[c].state /\ r.timer = "done"
        /\ r.on = conn[c].on /\ r.cert = conn[c].cert /\ r.known = conn[c].known
        /\ r.host = conn[c].host /\ r.cut = TRUE
    BY <1>1 DEF ConnRecords
  <2>2. /\ conn[c].timer = "queued" /\ conn' = [conn EXCEPT ![c] = r]
        /\ UNCHANGED <<env, running, ssl, raws, list, loads, ctx, acceptor, accepts, user, starts, fate>>
    BY <1>10 DEF ConnectionTimeout
  <2> HIDE DEF r
  <2>3. Timed(r) /\ Certified(r, list) /\ conn[c].state # "accepted"
    BY <1>1, <2>1, <2>2 DEF Timed, Certified
  <2> QED
    BY <2>1, <2>2, <2>3, HandshakeStep
<1> QED
  BY <1>3, <1>4, <1>5, <1>7, <1>8, <1>9, <1>10

-----------------------------------------------------------------------------

\* The invariant of the server holds for any number of connections,
\* certificates and calls of start().
THEOREM SrvInvariance == Spec => []SrvInv
<1>1. Init => SrvInv
  <2> SUFFICES ASSUME Init PROVE SrvInv
    OBVIOUS
  <2>1. NewConn \in ConnRecords /\ Timed(NewConn) /\ Certified(NewConn, <<>>)
    BY DEF NewConn, ConnRecords, Timed, Certified, Acceptors
  <2>2. /\ conn \in [Conns -> ConnRecords] /\ \A c \in Conns : conn[c] = NewConn
        /\ \A c \in Conns : conn[c].cert \in 0 .. Len(list)
    BY <2>1 DEF Init, NewConn
  <2>3. TypeOK /\ ~running
    <3>1. ssl \in BOOLEAN
      BY DEF Init
    <3>2. {running, ssl, user} \subseteq BOOLEAN /\ ~running
      BY <3>1 DEF Init
    <3>3. acceptor \in [Acceptors -> {"none", "open", "closed"}] /\ accepts \in [Acceptors -> Nat]
      BY DEF Init
    <3> QED
      BY <2>2, <3>2, <3>3, ServerAssumption DEF Init, TypeOK
  <2>4. SrvTypeOK
    BY <2>2, <2>3 DEF Init, SrvTypeOK
  <2>5. acceptor["tls"] = "none" /\ accepts["tls"] = 0 /\ list = <<>>
    BY DEF Init, Acceptors
  <2> QED
    BY <2>1, <2>2, <2>3, <2>4, <2>5 DEF SrvInv, ServedWhileRunning
<1>2. SrvInv /\ [Next]_vars => SrvInv'
  <2> SUFFICES ASSUME SrvInv, [Next]_vars PROVE SrvInv'
    OBVIOUS
  <2>1. CASE \E raw \in Certificates : AddCertificate(raw)
    <3>1. raws' \in Seq(Certificates)
          /\ UNCHANGED <<env, running, ssl, list, loads, ctx, acceptor, accepts, user, conn, starts, fate>>
      BY <2>1 DEF AddCertificate, SrvInv, SrvTypeOK
    <3> QED
      BY <3>1 DEF SrvInv, SrvTypeOK, TypeOK, ServedWhileRunning, Fine
  <2>2. CASE OnClientConnect
    BY <2>2 DEF OnClientConnect, SrvInv, SrvTypeOK, TypeOK, ServedWhileRunning, Fine
  <2>3. CASE \E busy \in SUBSET Acceptors : Start(busy)
    BY <2>3, StartStep
  <2>4. CASE Stop
    BY <2>4, StopStep
  <2>5. CASE \E c \in Conns, a \in Acceptors, host \in Hosts \cup {NoName}, offer \in Offers :
               ClientConnects(c, a, host, offer)
    BY <2>5, ClientConnectsStep
  <2>6. CASE \E c \in Conns : \/ AcceptPlain(c) \/ AcceptTls(c) \/ ServerName(c)
                              \/ HandshakeFails(c) \/ TimerExpires(c) \/ ConnectionTimeout(c)
    BY <2>6, ConnectionStep
  <2>7. CASE \E c \in Conns, npn \in DOMAIN NameLength : Handshaken(c, npn)
    BY <2>7, ConnectionStep
  <2>8. CASE \E a \in Acceptors : AcceptFails(a)
    BY <2>8, AcceptFailsStep
  <2>9. CASE UNCHANGED vars
    BY <2>9 DEF vars, SrvInv, SrvTypeOK, TypeOK, ServedWhileRunning, Fine
  <2> QED
    BY <2>1, <2>2, <2>3, <2>4, <2>5, <2>6, <2>7, <2>8, <2>9 DEF Next
<1> QED
  BY <1>1, <1>2, PTL DEF Spec

\* A port that listens is answered: whatever accepts completed or failed and
\* however often the server was stopped and started, an open acceptor of a
\* running server has an accept waiting or an accept handler queued.
THEOREM SrvServedWhileRunning == Spec => []ServedWhileRunning
<1>1. SrvInv => ServedWhileRunning
  BY DEF SrvInv
<1> QED
  BY <1>1, SrvInvariance, PTL

\* sni_callback shows a client a certificate for the name it asked for whenever
\* there was one, for any list of certificates however often it was reloaded.
THEOREM SrvCertificateFits == Spec => []CertificateFits
<1>1. SrvInv => CertificateFits
  BY DEF SrvInv, Certified, CertificateFits
<1> QED
  BY <1>1, SrvInvariance, PTL

\* A handshake is timed until it is over, and its timer does not outlive it
\* unless the handler of the timer was queued, for any number of connections.
THEOREM SrvHandshakeIsTimed == Spec => []HandshakeIsTimed
<1>1. SrvInv => HandshakeIsTimed
  BY DEF SrvInv, Timed, HandshakeIsTimed
<1> QED
  BY <1>1, SrvInvariance, PTL
=============================================================================
