----------------------- MODULE ClientMultiplexerProofs -----------------------
(***************************************************************************)
(* Proofs about client_connection_multiplexer, for any number of handlers  *)
(* and any periods: Euclid's loop computes the greatest common divisor,    *)
(* the handlers are called on schedule, and the end of the connection is   *)
(* broadcast to every one of them.                                         *)
(***************************************************************************)
EXTENDS ClientMultiplexer, WellFoundedInduction, TLAPS

HandlerRecords ==
  [life : {"none", "live", "dropped"}, periodicity : Nat, asked : Nat, got : Nat, since : Nat,
   fired : Nat, told : Nat, late : BOOLEAN]

\* The types, with the ones TypeOK leaves out.
MuxTypeOK ==
  /\ list \in Seq(Handlers) /\ h \in [Handlers -> HandlerRecords] /\ conn \in {"open", "ended"}
  /\ timeout_interval \in Nat /\ self_periodicity \in Nat /\ max_periodicity \in Nat
  /\ tick_count \in Nat /\ clock \in Nat
  /\ registered \in BOOLEAN /\ timed \in BOOLEAN /\ held \in BOOLEAN /\ misused \in BOOLEAN

\* What FiresOnSchedule says of a handler, and what makes it last: before a
\* period is set the handler was not called, and afterwards the tick is not zero.
Scheduled(r, interval, longest, now) ==
  IF r.periodicity = 0 THEN r.fired = 0
  ELSE /\ interval > 0 /\ r.periodicity <= longest
       /\ r.periodicity * interval = r.got
       /\ r.fired = (now \div r.got) - (r.since \div r.got)

\* The ticks add up to the time that passed, and none passed before the first period.
TicksAddUp ==
  /\ tick_count * timeout_interval = clock
  /\ timeout_interval = 0 => tick_count = 0 /\ ~timed

AllScheduled ==
  \A x \in Handlers : h[x].life = "live" /\ x \in ToSet(list) =>
    Scheduled(h[x], timeout_interval, max_periodicity, clock)

\* The callbacks are given back only when no handler relies on them.
EndIsCovered ==
  /\ conn = "ended" /\ ~misused => ~registered
  /\ conn = "open" /\ ~registered => \A x \in Live : h[x].late

\* The inductive invariant.
MuxInv == MuxTypeOK /\ TicksAddUp /\ AllScheduled /\ EndIsBroadcast /\ EndIsCovered

-----------------------------------------------------------------------------
(* Euclid's algorithm. *)

Divides(d, n) == \E k \in Nat : n = d * k
CommonDivisors(u, v) == {d \in Nat \ {0} : Divides(d, u) /\ Divides(d, v)}

\* A set of natural numbers that is not empty has a least member.
LEMMA LeastNatural ==
  ASSUME NEW I \in SUBSET Nat, I # {}
  PROVE  Min(I) \in I /\ \A n \in I : Min(I) <= n
<1> DEFINE R == OpToRel(<, Nat)
<1>1. \E x \in I : \A y \in I : ~(<<y, x>> \in R)
  <2>1. IsWellFoundedOn(R, Nat)
    BY NatLessThanWellFounded, Zenon
  <2> QED
    BY <2>1, WFMin, Zenon
<1>2. \A x, y \in Nat : x < y => <<x, y>> \in R
  <2> SUFFICES ASSUME NEW x \in Nat, NEW y \in Nat, x < y
               PROVE  <<x, y>> \in {ss \in Nat \X Nat : ss[1] < ss[2]}
    BY Zenon DEF OpToRel
  <2> QED
    OBVIOUS
<1> HIDE DEF R
<1>3. PICK x \in I : \A y \in I : ~(<<y, x>> \in R)
  BY <1>1
<1>4. \A y \in I : ~(y < x)
  BY <1>2, <1>3
<1>5. \A y \in I : x <= y
  BY <1>4
<1> QED
  BY <1>5 DEF Min

\* Division with remainder.
LEMMA DivMod ==
  ASSUME NEW u \in Nat, NEW v \in Nat \ {0}
  PROVE  u % v \in 0 .. v - 1 /\ u \div v \in Nat /\ u = v * (u \div v) + (u % v)
  OBVIOUS

\* One round of the loop keeps the common divisors.
LEMMA EuclidRound ==
  ASSUME NEW u \in Nat, NEW v \in Nat \ {0}
  PROVE  CommonDivisors(u, v) = CommonDivisors(v, u % v)
<1> DEFINE q == u \div v
           r == u % v
<1>1. r \in Nat /\ q \in Nat /\ u = v * q + r
  BY DivMod
<1> HIDE DEF q, r
<1>2. ASSUME NEW d \in Nat \ {0}, NEW a \in Nat, NEW b \in Nat, u = d * a, v = d * b
      PROVE  Divides(d, r)
  <2>1. r = d * (a - b * q)
    <3>1. v * q = d * (b * q)
      BY <1>1, <1>2
    <3>2. b * q \in Nat
      BY <1>1, <1>2
    <3> HIDE DEF q
    <3> QED
      BY <1>1, <1>2, <3>1, <3>2
  <2>2. a - b * q \in Int /\ a - b * q >= 0
    BY <1>1, <1>2, <2>1
  <2> QED
    BY <2>1, <2>2 DEF Divides
<1>3. ASSUME NEW d \in Nat \ {0}, NEW a \in Nat, NEW b \in Nat, r = d * a, v = d * b
      PROVE  Divides(d, u)
  <2>1. u = d * (b * q + a) /\ b * q + a \in Nat
    BY <1>1, <1>3
  <2> QED
    BY <2>1 DEF Divides
<1>4. \A d \in Nat \ {0} : Divides(d, u) /\ Divides(d, v) <=> Divides(d, v) /\ Divides(d, r)
  BY <1>2, <1>3 DEF Divides
<1> QED
  BY <1>4 DEF CommonDivisors, r

\* The loop is defined: some function satisfies its recursion, the one that
\* maps a pair to the greatest of its common divisors.
LEMMA EuclidEquation ==
  \A u, v \in Nat : EuclidLoop[<<u, v>>] = IF v = 0 THEN u ELSE EuclidLoop[<<v, u % v>>]
<1> DEFINE G(u, v) == IF u = 0 /\ v = 0 THEN 0 ELSE Max(CommonDivisors(u, v))
           F == [p \in Nat \X Nat |-> G(p[1], p[2])]
           Loop(f) == [p \in Nat \X Nat |-> IF p[2] = 0 THEN p[1] ELSE f[<<p[2], p[1] % p[2]>>]]
<1>1. \A u \in Nat : G(u, 0) = u
  <2> SUFFICES ASSUME NEW u \in Nat \ {0} PROVE Max(CommonDivisors(u, 0)) = u
    OBVIOUS
  <2>1. u \in CommonDivisors(u, 0)
    <3>1. u = u * 1 /\ 0 = u * 0
      OBVIOUS
    <3> QED
      BY <3>1 DEF CommonDivisors, Divides
  <2>2. \A d \in CommonDivisors(u, 0) : d \in Nat /\ d <= u
    <3> SUFFICES ASSUME NEW d \in Nat \ {0}, NEW k \in Nat, u = d * k PROVE d <= u
      BY DEF CommonDivisors, Divides
    <3>1. k >= 1
      OBVIOUS
    <3> QED
      BY <3>1
  <2> HIDE DEF G
  <2> QED
    BY <2>1, <2>2 DEF Max
<1>2. \A u, v \in Nat : v # 0 => G(u, v) = G(v, u % v)
  BY EuclidRound, Zenon
<1> HIDE DEF G
<1>3. \A u, v \in Nat : F[<<u, v>>] = G(u, v)
  OBVIOUS
<1>4. \A p \in Nat \X Nat : p[1] \in Nat /\ p[2] \in Nat /\ (p[2] # 0 => p[1] % p[2] \in Nat)
  <2>1. \A u, v \in Nat : v # 0 => u % v \in Nat
    BY DivMod
  <2> QED
    BY <2>1
<1>5. \A p \in Nat \X Nat : G(p[1], p[2]) = IF p[2] = 0 THEN p[1] ELSE F[<<p[2], p[1] % p[2]>>]
  BY <1>1, <1>2, <1>3, <1>4
<1>6. F = Loop(F)
  BY <1>5
<1>7. EuclidLoop = CHOOSE f : f = Loop(f)
  BY DEF EuclidLoop
<1>8. EuclidLoop = Loop(EuclidLoop)
  <2> HIDE DEF Loop, F
  <2> QED
    BY <1>6, <1>7
<1> QED
  BY <1>8

\* GCD() returns a common divisor that every common divisor divides, so the
\* greatest one: for all arguments that are not both zero.
THEOREM GCDIsGreatest ==
  \A u, v \in Nat : u + v > 0 =>
    /\ GCD(u, v) \in CommonDivisors(u, v)
    /\ \A d \in CommonDivisors(u, v) : Divides(d, GCD(u, v))
<1> DEFINE Good(u, v) == u + v > 0 => /\ EuclidLoop[<<u, v>>] \in CommonDivisors(u, v)
                                      /\ \A d \in CommonDivisors(u, v) : Divides(d, EuclidLoop[<<u, v>>])
           Bad == {v \in Nat : \E u \in Nat : ~Good(u, v)}
<1>1. \A u \in Nat : Good(u, 0)
  <2> SUFFICES ASSUME NEW u \in Nat, u + 0 > 0
               PROVE  /\ EuclidLoop[<<u, 0>>] \in CommonDivisors(u, 0)
                      /\ \A d \in CommonDivisors(u, 0) : Divides(d, EuclidLoop[<<u, 0>>])
    BY Zenon
  <2>1. EuclidLoop[<<u, 0>>] = u
    BY EuclidEquation
  <2>2. Divides(u, u) /\ Divides(u, 0)
    <3>1. u = u * 1 /\ 0 = u * 0 /\ 1 \in Nat /\ 0 \in Nat
      OBVIOUS
    <3> QED
      BY <3>1, Zenon DEF Divides
  <2>3. u \in Nat \ {0}
    OBVIOUS
  <2>4. u \in CommonDivisors(u, 0)
    BY <2>2, <2>3, Zenon DEF CommonDivisors
  <2>5. \A d \in CommonDivisors(u, 0) : Divides(d, u)
    BY Zenon DEF CommonDivisors
  <2> QED
    BY <2>1, <2>4, <2>5, Zenon
<1>2. \A u, v \in Nat : v # 0 /\ Good(v, u % v) => Good(u, v)
  <2> SUFFICES ASSUME NEW u \in Nat, NEW v \in Nat \ {0}, Good(v, u % v) PROVE Good(u, v)
    OBVIOUS
  <2>1. EuclidLoop[<<u, v>>] = EuclidLoop[<<v, u % v>>]
    BY EuclidEquation
  <2>2. CommonDivisors(u, v) = CommonDivisors(v, u % v)
    BY EuclidRound
  <2>3. v + (u % v) > 0
    BY DivMod
  <2> QED
    BY <2>1, <2>2, <2>3
<1> HIDE DEF Good
<1>3. Bad = {}
  <2> SUFFICES ASSUME Bad # {} PROVE FALSE
    OBVIOUS
  <2>1. Bad \in SUBSET Nat
    OBVIOUS
  <2>2. Min(Bad) \in Bad /\ \A n \in Bad : Min(Bad) <= n
    <3> HIDE DEF Bad
    <3> QED
      BY <2>1, LeastNatural
  <2>3. PICK u \in Nat : ~Good(u, Min(Bad))
    BY <2>2
  <2>4. Min(Bad) \in Nat \ {0}
    BY <1>1, <2>2, <2>3
  <2>5. u % Min(Bad) \in 0 .. Min(Bad) - 1
    <3> HIDE DEF Bad
    <3> QED
      BY <2>4, DivMod
  <2>6. ~(u % Min(Bad) \in Bad)
    <3> HIDE DEF Bad
    <3> QED
      BY <2>2, <2>4, <2>5
  <2>7. Good(Min(Bad), u % Min(Bad))
    <3>1. u % Min(Bad) \in Nat /\ Min(Bad) \in Nat
      <4> HIDE DEF Bad
      <4> QED
        BY <2>4, <2>5
    <3> QED
      BY <2>6, <3>1
  <2> HIDE DEF Bad
  <2> QED
    BY <1>2, <2>3, <2>4, <2>7
<1> QED
  BY <1>3 DEF GCD, Good

-----------------------------------------------------------------------------
(* Periods and ticks. *)

\* A tick crosses a multiple of a handler's period exactly when the number of
\* ticks is a multiple of its periodicity.
LEMMA TickCrosses ==
  ASSUME NEW t \in Nat, NEW p \in Nat \ {0}, NEW i \in Nat \ {0}
  PROVE  (t * i + i) \div (p * i) = ((t * i) \div (p * i)) + (IF (t + 1) % p = 0 THEN 1 ELSE 0)
<1>1. (t + 1) \div p = (t \div p) + (IF (t + 1) % p = 0 THEN 1 ELSE 0)
  OBVIOUS
<1>2. \A n \in Nat : (n * i) \div (p * i) = n \div p
  OBVIOUS
<1>3. t * i + i = (t + 1) * i
  OBVIOUS
<1>4. ((t + 1) * i) \div (p * i) = (t + 1) \div p /\ (t * i) \div (p * i) = t \div p
  BY <1>2
<1> QED
  BY <1>1, <1>3, <1>4, Zenon

\* The new tick divides the period asked for and the old tick.
LEMMA NewTick ==
  ASSUME NEW count \in Nat \ {0}, NEW old \in Nat \ {0}
  PROVE  LET interval == GCD(count, old) IN
         /\ interval \in Nat \ {0}
         /\ count \div interval \in Nat \ {0} /\ (count \div interval) * interval = count
         /\ old \div interval \in Nat \ {0} /\ (old \div interval) * interval = old
<1> DEFINE g == GCD(count, old)
<1>1. g \in Nat \ {0} /\ Divides(g, count) /\ Divides(g, old)
  BY GCDIsGreatest DEF CommonDivisors
<1> HIDE DEF g
<1>2. ASSUME NEW n \in Nat \ {0}, Divides(g, n)
      PROVE  n \div g \in Nat \ {0} /\ (n \div g) * g = n
  <2>1. PICK k \in Nat : n = g * k
    BY <1>2 DEF Divides
  <2>2. k # 0
    BY <1>1, <2>1
  <2>3. n \div g = k
    BY <1>1, <2>1
  <2> QED
    BY <1>1, <2>1, <2>2, <2>3
<1>3. count \div g \in Nat \ {0} /\ (count \div g) * g = count
  BY <1>1, <1>2
<1>4. old \div g \in Nat \ {0} /\ (old \div g) * g = old
  BY <1>1, <1>2
<1> QED
  BY <1>1, <1>3, <1>4 DEF g

\* Multiplication is associative.
LEMMA MulAssoc ==
  ASSUME NEW a \in Nat, NEW b \in Nat, NEW c \in Nat
  PROVE  (a * b) * c = a * (b * c)
  OBVIOUS

\* The greater of two numbers.
LEMMA MaxOfTwo ==
  ASSUME NEW a \in Nat, NEW b \in Nat
  PROVE  Max({a, b}) \in Nat /\ Max({a, b}) >= a /\ Max({a, b}) >= b
  BY DEF Max

\* update_timeout() keeps a handler on schedule: one that had a period keeps it
\* in the new ticks, one that had none begins now.
LEMMA RescaledOnSchedule ==
  ASSUME NEW r \in HandlerRecords, r.life = "live",
         NEW interval \in Nat, NEW longest \in Nat, clock \in Nat,
         Scheduled(r, interval, longest, clock),
         NEW count \in Nat \ {0}, NEW old \in Nat \ {0}, interval # 0 => old = interval,
         NEW new \in Nat \ {0}, NEW each \in Nat \ {0}, NEW multiplier \in Nat \ {0},
         each = count \div new, each * new = count, multiplier * new = old,
         NEW longest2 \in Nat, longest2 >= longest * multiplier, longest2 >= each
  PROVE  /\ Rescaled(r, count, multiplier, new) \in HandlerRecords
         /\ Rescaled(r, count, multiplier, new).life = "live"
         /\ Rescaled(r, count, multiplier, new).late = r.late
         /\ Rescaled(r, count, multiplier, new).told = r.told
         /\ Scheduled(Rescaled(r, count, multiplier, new), new, longest2, clock)
<1> DEFINE n == Rescaled(r, count, multiplier, new)
<1>1. CASE r.periodicity = 0
  <2>1. n = [r EXCEPT !.periodicity = each, !.got = count, !.since = clock]
    BY <1>1 DEF Rescaled
  <2>2. /\ n \in HandlerRecords /\ n.periodicity = each /\ n.got = count /\ n.since = clock
        /\ n.fired = r.fired /\ n.life = r.life /\ n.late = r.late /\ n.told = r.told
    BY <2>1, ZenonT(60) DEF HandlerRecords
  <2>3. r.fired = 0
    BY <1>1 DEF Scheduled
  <2>4. (clock \div count) - (clock \div count) = 0
    OBVIOUS
  <2> HIDE DEF n
  <2>5. Scheduled(n, new, longest2, clock)
    BY <2>2, <2>3, <2>4 DEF Scheduled
  <2> QED
    BY <2>2, <2>5 DEF n
<1>2. CASE r.periodicity # 0
  <2>1. n = [r EXCEPT !.periodicity = r.periodicity * multiplier]
    BY <1>2 DEF Rescaled
  <2>2. /\ r.periodicity \in Nat \ {0} /\ interval > 0 /\ old = interval
        /\ r.periodicity <= longest /\ r.periodicity * interval = r.got
        /\ r.fired = (clock \div r.got) - (r.since \div r.got)
    BY <1>2 DEF Scheduled, HandlerRecords
  <2>3. /\ r.periodicity * multiplier \in Nat \ {0}
        /\ (r.periodicity * multiplier) * new = r.got
        /\ r.periodicity * multiplier <= longest2
    <3>1. \A p \in Nat : (p * multiplier) * new = p * (multiplier * new)
      OBVIOUS
    <3>2. r.periodicity * multiplier <= longest * multiplier
      BY <2>2
    <3>3. r.periodicity * multiplier \in Nat \ {0}
      BY <2>2
    <3>4. longest * multiplier \in Nat
      OBVIOUS
    <3> QED
      BY <2>2, <3>1, <3>2, <3>3, <3>4
  <2>4. /\ n \in HandlerRecords /\ n.periodicity = r.periodicity * multiplier
        /\ n.got = r.got /\ n.since = r.since
        /\ n.fired = r.fired /\ n.life = r.life /\ n.late = r.late /\ n.told = r.told
    BY <2>1, <2>3 DEF HandlerRecords
  <2> HIDE DEF n
  <2>5. Scheduled(n, new, longest2, clock)
    BY <2>2, <2>3, <2>4 DEF Scheduled
  <2> QED
    BY <2>4, <2>5 DEF n
<1> QED
  BY <1>1, <1>2 DEF HandlerRecords

\* clear_expired() keeps every live handler of the list and adds none.
LEMMA ExpiredKeepsLive ==
  ASSUME list \in Seq(Handlers)
  PROVE  /\ Expired(list) \in Seq(Handlers) /\ ToSet(Expired(list)) \subseteq ToSet(list)
         /\ \A x \in Live : x \in ToSet(list) => x \in ToSet(Expired(list))
<1> DEFINE alive == {i \in DOMAIN list : list[i] \in Live}
<1>1. DOMAIN list = 1 .. Len(list) /\ Len(list) \in Nat
  OBVIOUS
<1>2. CASE alive = {}
  <2>1. Expired(list) = <<>>
    BY <1>2, Zenon DEF Expired
  <2>2. ToSet(<<>>) = {}
    BY DEF ToSet
  <2>3. \A x \in Live : x \notin ToSet(list)
    BY <1>2 DEF ToSet
  <2> QED
    BY <2>1, <2>2, <2>3
<1>3. CASE alive # {}
  <2> DEFINE m == Min(alive)
             e == SubSeq(list, m, Len(list))
  <2>1. Expired(list) = e
    BY <1>3, Zenon DEF Expired
  <2>2. alive \in SUBSET Nat
    BY <1>1
  <2>3. m \in alive /\ \A i \in alive : m <= i
    <3> HIDE DEF alive
    <3> QED
      BY <1>3, <2>2, LeastNatural
  <2>4. m \in 1 .. Len(list)
    BY <1>1, <2>3
  <2> HIDE DEF m
  <2>5. /\ e \in Seq(Handlers) /\ Len(e) = Len(list) - m + 1
        /\ \A i \in 1 .. Len(e) : e[i] = list[m + i - 1]
    BY <1>1, <2>4
  <2> HIDE DEF e
  <2>6. ToSet(e) \subseteq ToSet(list)
    <3> SUFFICES ASSUME NEW i \in 1 .. Len(e) PROVE e[i] \in ToSet(list)
      BY <2>5 DEF ToSet
    <3>1. m + i - 1 \in DOMAIN list
      BY <1>1, <2>4, <2>5
    <3> QED
      BY <2>5, <3>1 DEF ToSet
  <2>7. ASSUME NEW x \in Live, x \in ToSet(list) PROVE x \in ToSet(e)
    <3>1. PICK i \in DOMAIN list : list[i] = x
      BY <2>7 DEF ToSet
    <3>2. i >= m
      BY <1>1, <2>3, <2>4, <2>7, <3>1
    <3>3. i - m + 1 \in 1 .. Len(e) /\ e[i - m + 1] = x
      <4> DEFINE k == i - m + 1
      <4>1. k \in 1 .. Len(e) /\ m + k - 1 = i
        BY <1>1, <2>4, <2>5, <3>1, <3>2
      <4> HIDE DEF k
      <4>2. e[k] = list[m + k - 1]
        BY <2>5, <4>1
      <4>3. e[k] = x
        BY <3>1, <4>1, <4>2
      <4> QED
        BY <4>1, <4>3 DEF k
    <3>4. DOMAIN e = 1 .. Len(e)
      BY <2>5
    <3> QED
      BY <3>3, <3>4 DEF ToSet
  <2> QED
    BY <2>1, <2>5, <2>6, <2>7
<1> QED
  BY <1>2, <1>3

-----------------------------------------------------------------------------
(* One step per action. *)

\* update_timeout() preserves the invariant.
LEMMA OnTimeoutStep ==
  ASSUME MuxInv, NEW x \in Handlers, NEW ms \in Periods, OnTimeout(x, ms)
  PROVE  MuxInv'
<1> DEFINE old == IF timeout_interval = 0 THEN ms ELSE timeout_interval
           new == GCD(ms, old)
           multiplier == old \div new
           each == ms \div new
           asked(y) == IF y = x /\ h[y].asked = 0 THEN [h[y] EXCEPT !.asked = ms] ELSE h[y]
<1>1. /\ timeout_interval' = new /\ self_periodicity' = self_periodicity * multiplier
      /\ tick_count' = tick_count * multiplier
      /\ max_periodicity' = Max({max_periodicity * multiplier, each})
      /\ h' = [y \in Handlers |-> IF y \in ToSet(list) THEN Rescaled(asked(y), ms, multiplier, new) ELSE asked(y)]
      /\ timed' = TRUE /\ UNCHANGED <<list, registered, conn, closes, held, clock, misused>>
  BY Zenon DEF OnTimeout, UpdateTimeout
<1>2. ms \in Nat \ {0}
  BY MuxAssumption
<1>3. /\ list \in Seq(Handlers) /\ h \in [Handlers -> HandlerRecords] /\ timeout_interval \in Nat
      /\ self_periodicity \in Nat /\ max_periodicity \in Nat /\ tick_count \in Nat /\ clock \in Nat
      /\ TicksAddUp /\ AllScheduled /\ EndIsBroadcast /\ EndIsCovered
  BY DEF MuxInv, MuxTypeOK
<1>4. old \in Nat \ {0} /\ (timeout_interval # 0 => old = timeout_interval)
  BY <1>2, <1>3
<1> HIDE DEF old
<1>5. /\ new \in Nat \ {0} /\ each \in Nat \ {0} /\ multiplier \in Nat \ {0}
      /\ each * new = ms /\ multiplier * new = old /\ each = ms \div new
  BY <1>2, <1>4, NewTick, Zenon
<1> HIDE DEF new, multiplier, each
<1>6. /\ max_periodicity * multiplier \in Nat /\ max_periodicity' \in Nat
      /\ max_periodicity' >= max_periodicity * multiplier /\ max_periodicity' >= each
  <2>1. max_periodicity * multiplier \in Nat /\ each \in Nat
    BY <1>3, <1>5
  <2> QED
    BY <1>1, <2>1, MaxOfTwo
<1>7. \A y \in Handlers : /\ asked(y) \in HandlerRecords /\ asked(y).life = h[y].life
                          /\ asked(y).late = h[y].late /\ asked(y).told = h[y].told
                          /\ asked(y).periodicity = h[y].periodicity /\ asked(y).got = h[y].got
                          /\ asked(y).since = h[y].since /\ asked(y).fired = h[y].fired
  <2> SUFFICES ASSUME NEW y \in Handlers
               PROVE  /\ asked(y) \in HandlerRecords /\ asked(y).life = h[y].life
                      /\ asked(y).late = h[y].late /\ asked(y).told = h[y].told
                      /\ asked(y).periodicity = h[y].periodicity /\ asked(y).got = h[y].got
                      /\ asked(y).since = h[y].since /\ asked(y).fired = h[y].fired
    BY Zenon
  <2>1. h[y] \in HandlerRecords
    BY <1>3
  <2>2. ms \in Nat
    BY <1>2
  <2>3. CASE y = x /\ h[y].asked = 0
    BY <2>1, <2>2, <2>3 DEF HandlerRecords
  <2>4. CASE ~(y = x /\ h[y].asked = 0)
    BY <2>1, <2>4
  <2> QED
    BY <2>3, <2>4
<1> HIDE DEF asked
<1>8. ASSUME NEW y \in Handlers
      PROVE  /\ h'[y] \in HandlerRecords /\ h'[y].life = h[y].life /\ h'[y].late = h[y].late
             /\ h'[y].told = h[y].told
             /\ h[y].life = "live" /\ y \in ToSet(list) =>
                  Scheduled(h'[y], timeout_interval', max_periodicity', clock)
  <2>1. CASE y \in ToSet(list) /\ h[y].life = "live"
    <3>1. Scheduled(asked(y), timeout_interval, max_periodicity, clock)
      <4>1. Scheduled(h[y], timeout_interval, max_periodicity, clock)
        BY <1>3, <2>1 DEF AllScheduled
      <4> QED
        BY <1>7, <4>1 DEF Scheduled
    <3>2. h'[y] = Rescaled(asked(y), ms, multiplier, new)
      BY <1>1, <2>1
    <3>3. asked(y) \in HandlerRecords /\ asked(y).life = "live"
      BY <1>7, <2>1
    <3>4. /\ Rescaled(asked(y), ms, multiplier, new) \in HandlerRecords
          /\ Rescaled(asked(y), ms, multiplier, new).life = "live"
          /\ Rescaled(asked(y), ms, multiplier, new).late = asked(y).late
          /\ Rescaled(asked(y), ms, multiplier, new).told = asked(y).told
          /\ Scheduled(Rescaled(asked(y), ms, multiplier, new), new, max_periodicity', clock)
      <4>1. /\ asked(y) \in HandlerRecords /\ asked(y).life = "live"
            /\ timeout_interval \in Nat /\ max_periodicity \in Nat /\ clock \in Nat
            /\ Scheduled(asked(y), timeout_interval, max_periodicity, clock)
        BY <1>3, <3>1, <3>3
      <4>2. /\ ms \in Nat \ {0} /\ old \in Nat \ {0} /\ (timeout_interval # 0 => old = timeout_interval)
            /\ new \in Nat \ {0} /\ each \in Nat \ {0} /\ multiplier \in Nat \ {0}
            /\ each = ms \div new /\ each * new = ms /\ multiplier * new = old
        BY <1>2, <1>4, <1>5
      <4>3. /\ max_periodicity' \in Nat /\ max_periodicity' >= max_periodicity * multiplier
            /\ max_periodicity' >= each
        BY <1>6
      <4> QED
        BY <4>1, <4>2, <4>3, RescaledOnSchedule, Zenon
    <3> QED
      BY <1>1, <1>7, <2>1, <3>2, <3>4
  <2>2. CASE ~(y \in ToSet(list) /\ h[y].life = "live")
    <3>1. h'[y] = asked(y)
      BY <1>1, <1>7, <2>2 DEF Rescaled
    <3> QED
      BY <1>7, <2>2, <3>1
  <2> QED
    BY <2>1, <2>2
<1>9. MuxTypeOK'
  <2>1. timeout_interval' \in Nat /\ self_periodicity' \in Nat /\ tick_count' \in Nat
    BY <1>1, <1>3, <1>5
  <2>2. h' \in [Handlers -> HandlerRecords]
    BY <1>1, <1>8
  <2> QED
    BY <1>1, <1>6, <2>1, <2>2 DEF MuxInv, MuxTypeOK
<1>10. TicksAddUp'
  <2>1. (tick_count * multiplier) * new = tick_count * old
    <3>1. tick_count \in Nat /\ multiplier \in Nat /\ new \in Nat
      BY <1>3, <1>5
    <3>2. (tick_count * multiplier) * new = tick_count * (multiplier * new)
      BY <3>1, MulAssoc, Zenon
    <3> QED
      BY <1>5, <3>2
  <2>2. tick_count * old = clock
    <3>1. CASE timeout_interval = 0
      <4>1. tick_count = 0 /\ clock = 0
        BY <1>3, <3>1 DEF TicksAddUp
      <4> QED
        BY <1>4, <4>1
    <3>2. CASE timeout_interval # 0
      BY <1>3, <1>4, <3>2 DEF TicksAddUp
    <3> QED
      BY <3>1, <3>2
  <2> QED
    BY <1>1, <1>5, <2>1, <2>2 DEF TicksAddUp
<1>11. AllScheduled'
  BY <1>1, <1>8 DEF AllScheduled
<1>12. Live' = Live
  BY <1>8 DEF Live
<1>13. EndIsBroadcast' /\ EndIsCovered'
  <2>1. Live \subseteq Handlers
    BY DEF Live
  <2> QED
    BY <1>1, <1>3, <1>8, <1>12, <2>1 DEF EndIsBroadcast, EndIsCovered
<1> QED
  BY <1>9, <1>10, <1>11, <1>13 DEF MuxInv

\* What clear_expired() does to the list and the callbacks keeps the
\* broadcast: the callbacks are given back only when no handler is left.
LEMMA ClearExpiredKeeps ==
  ASSUME MuxInv, ~misused, ClearExpired, conn' = conn, misused' = misused,
         Live' = Live, \A x \in Live : h'[x].late = h[x].late /\ h'[x].told = h[x].told
  PROVE  EndIsBroadcast' /\ EndIsCovered' /\ ToSet(list') \subseteq ToSet(list)
         /\ list' \in Seq(Handlers) /\ registered' \in BOOLEAN /\ timed' \in BOOLEAN
<1>1. list \in Seq(Handlers) /\ registered \in BOOLEAN /\ timed \in BOOLEAN /\ EndIsBroadcast /\ EndIsCovered
      /\ conn \in {"open", "ended"}
  BY DEF MuxInv, MuxTypeOK
<1>2. /\ list' = Expired(list)
      /\ registered' = (registered /\ Expired(list) # <<>>) /\ timed' = (timed /\ Expired(list) # <<>>)
  BY DEF ClearExpired
<1>3. /\ list' \in Seq(Handlers) /\ ToSet(list') \subseteq ToSet(list)
      /\ \A x \in Live : x \in ToSet(list) => x \in ToSet(list')
  BY <1>1, <1>2, ExpiredKeepsLive
<1>4. registered' \in BOOLEAN /\ timed' \in BOOLEAN
  BY <1>2, Zenon
<1>5. registered' => registered
  BY <1>2, Zenon
<1>6. registered /\ ~registered' => list' = <<>>
  BY <1>2, Zenon
<1>7. ToSet(<<>>) = {}
  BY DEF ToSet
<1>8. registered /\ ~registered' => \A x \in Live : h[x].late
  BY <1>1, <1>3, <1>6, <1>7 DEF EndIsBroadcast
<1>9. EndIsBroadcast'
  BY <1>1, <1>3, <1>5 DEF EndIsBroadcast
<1>10. EndIsCovered'
  BY <1>1, <1>5, <1>8 DEF EndIsCovered
<1> QED
  BY <1>3, <1>4, <1>9, <1>10

\* One tick of the connection preserves the invariant.
LEMMA TickStep ==
  ASSUME MuxInv, Tick
  PROVE  MuxInv'
<1>1. /\ h \in [Handlers -> HandlerRecords] /\ timeout_interval \in Nat /\ tick_count \in Nat
      /\ clock \in Nat /\ TicksAddUp /\ AllScheduled /\ ~misused
      /\ max_periodicity \in Nat /\ list \in Seq(Handlers)
  BY DEF MuxInv, MuxTypeOK, Tick
<1>2. CASE ~MuxAlive
  <2>1. misused' = TRUE /\ UNCHANGED <<list, h, tickVars, registered, timed, conn, held, clock>> /\ conn = "open"
    BY <1>2 DEF Tick, tickVars
  <2>2. Live' = Live
    BY <2>1 DEF Live
  <2> QED
    BY <2>1, <2>2 DEF MuxInv, MuxTypeOK, TicksAddUp, AllScheduled, EndIsBroadcast, EndIsCovered, tickVars
<1>3. CASE MuxAlive
  <2>1. /\ tick_count' = tick_count + 1 /\ clock' = clock + timeout_interval
        /\ h' = [x \in Handlers |->
                   IF x \in Live \cap ToSet(list) /\ h[x].periodicity # 0
                        /\ (tick_count + 1) % h[x].periodicity = 0
                   THEN [h[x] EXCEPT !.fired = @ + 1] ELSE h[x]]
        /\ ClearExpired
        /\ UNCHANGED <<timeout_interval, self_periodicity, max_periodicity, conn, held, misused>>
    BY <1>3 DEF Tick
  <2>2. ASSUME NEW x \in Handlers
        PROVE  /\ h'[x] \in HandlerRecords /\ h'[x].life = h[x].life /\ h'[x].late = h[x].late
               /\ h'[x].told = h[x].told
               /\ h[x].life = "live" /\ x \in ToSet(list) =>
                    Scheduled(h'[x], timeout_interval, max_periodicity, clock')
    <3>1. h[x] \in HandlerRecords /\ h[x].periodicity \in Nat /\ h[x].fired \in Nat /\ h[x].since \in Nat
      BY <1>1 DEF HandlerRecords
    <3>2. CASE x \in Live \cap ToSet(list) /\ h[x].periodicity # 0
      <4> DEFINE p == h[x].periodicity
      <4>1. /\ timeout_interval \in Nat \ {0} /\ p \in Nat \ {0} /\ p <= max_periodicity
            /\ p * timeout_interval = h[x].got
            /\ h[x].fired = (clock \div h[x].got) - (h[x].since \div h[x].got)
        <5>1. Scheduled(h[x], timeout_interval, max_periodicity, clock)
          BY <1>1, <3>2 DEF AllScheduled, Live
        <5> QED
          BY <1>1, <3>1, <3>2, <5>1 DEF Scheduled
      <4>2. tick_count * timeout_interval = clock
        BY <1>1 DEF TicksAddUp
      <4>3. clock' \div h[x].got = (clock \div h[x].got) + (IF (tick_count + 1) % p = 0 THEN 1 ELSE 0)
        <5> HIDE DEF p
        <5>1. (tick_count * timeout_interval + timeout_interval) \div (p * timeout_interval)
                = ((tick_count * timeout_interval) \div (p * timeout_interval))
                    + (IF (tick_count + 1) % p = 0 THEN 1 ELSE 0)
          BY <1>1, <4>1, TickCrosses
        <5> QED
          BY <2>1, <4>1, <4>2, <5>1, Zenon
      <4>4. h[x].got \in Nat \ {0}
        BY <4>1
      <4>5. clock \div h[x].got \in Nat /\ h[x].since \div h[x].got \in Nat
        BY <1>1, <3>1, <4>4, DivMod
      <4>6. CASE (tick_count + 1) % p = 0
        <5>1. h'[x] = [h[x] EXCEPT !.fired = h[x].fired + 1]
          BY <2>1, <3>2, <4>6
        <5>2. /\ h'[x] \in HandlerRecords /\ h'[x].fired = h[x].fired + 1 /\ h'[x].life = h[x].life
              /\ h'[x].late = h[x].late /\ h'[x].told = h[x].told /\ h'[x].since = h[x].since
              /\ h'[x].got = h[x].got /\ h'[x].periodicity = h[x].periodicity
          BY <3>1, <5>1 DEF HandlerRecords
        <5>3. h[x].fired + 1 = (clock' \div h[x].got) - (h[x].since \div h[x].got)
          BY <4>1, <4>3, <4>5, <4>6
        <5>4. Scheduled(h'[x], timeout_interval, max_periodicity, clock')
          BY <4>1, <5>2, <5>3 DEF Scheduled
        <5> QED
          BY <5>2, <5>4
      <4>7. CASE (tick_count + 1) % p # 0
        <5>1. h'[x] = h[x]
          BY <2>1, <4>7
        <5>2. h[x].fired = (clock' \div h[x].got) - (h[x].since \div h[x].got)
          BY <4>1, <4>3, <4>5, <4>7
        <5> QED
          BY <3>1, <4>1, <5>1, <5>2 DEF Scheduled
      <4> QED
        BY <4>6, <4>7
    <3>3. CASE ~(x \in Live \cap ToSet(list) /\ h[x].periodicity # 0)
      <4>1. h'[x] = h[x]
        BY <2>1, <3>3
      <4>2. h[x].life = "live" /\ x \in ToSet(list) =>
              h[x].periodicity = 0 /\ Scheduled(h[x], timeout_interval, max_periodicity, clock)
        BY <1>1, <3>3 DEF AllScheduled, Live
      <4> QED
        BY <3>1, <4>1, <4>2 DEF Scheduled
    <3> QED
      BY <3>2, <3>3
  <2>3. Live' = Live /\ Live \subseteq Handlers
    BY <2>2 DEF Live
  <2>4. /\ EndIsBroadcast' /\ EndIsCovered' /\ ToSet(list') \subseteq ToSet(list)
        /\ list' \in Seq(Handlers) /\ registered' \in BOOLEAN /\ timed' \in BOOLEAN
    BY <1>1, <2>1, <2>2, <2>3, ClearExpiredKeeps
  <2>5. MuxTypeOK'
    <3>1. h' \in [Handlers -> HandlerRecords]
      BY <2>1, <2>2
    <3>2. tick_count' \in Nat /\ clock' \in Nat
      BY <1>1, <2>1
    <3> QED
      BY <2>1, <2>4, <3>1, <3>2 DEF MuxInv, MuxTypeOK
  <2>6. TicksAddUp'
    <3>1. (tick_count + 1) * timeout_interval = tick_count * timeout_interval + timeout_interval
      BY <1>1
    <3>2. timeout_interval # 0
      BY <1>1 DEF Tick, TicksAddUp
    <3> QED
      BY <1>1, <2>1, <3>1, <3>2 DEF TicksAddUp
  <2>7. AllScheduled'
    BY <2>1, <2>2, <2>4 DEF AllScheduled
  <2> QED
    BY <2>4, <2>5, <2>6, <2>7 DEF MuxInv
<1> QED
  BY <1>2, <1>3

\* A request that was sent clears the expired handlers, which preserves the invariant.
LEMMA RequestSentStep ==
  ASSUME MuxInv, RequestSent
  PROVE  MuxInv'
<1>1. UNCHANGED <<h, timeout_interval, self_periodicity, max_periodicity, tick_count, conn, held, clock>>
      /\ ~misused /\ conn = "open"
  BY DEF RequestSent, tickVars
<1>2. Live' = Live
  BY <1>1 DEF Live
<1>3. CASE MuxAlive
  <2>1. ClearExpired /\ misused' = misused
    BY <1>3 DEF RequestSent
  <2>2. /\ EndIsBroadcast' /\ EndIsCovered' /\ ToSet(list') \subseteq ToSet(list)
        /\ list' \in Seq(Handlers) /\ registered' \in BOOLEAN /\ timed' \in BOOLEAN
    BY <1>1, <1>2, <2>1, ClearExpiredKeeps
  <2>3. timed' => timed
    BY <2>1, Zenon DEF ClearExpired
  <2> QED
    BY <1>1, <2>1, <2>2, <2>3 DEF MuxInv, MuxTypeOK, TicksAddUp, AllScheduled
<1>4. CASE ~MuxAlive
  <2>1. misused' = TRUE /\ UNCHANGED <<list, registered, timed>>
    BY <1>4 DEF RequestSent
  <2> QED
    BY <1>1, <1>2, <2>1
    DEF MuxInv, MuxTypeOK, TicksAddUp, AllScheduled, EndIsBroadcast, EndIsCovered
<1> QED
  BY <1>3, <1>4

\* The broadcast of an error changes no schedule, and reaches every live handler
\* of the list.
LEMMA ToldAllReaches ==
  ASSUME MuxInv, h' = ToldAll
  PROVE  /\ h' \in [Handlers -> HandlerRecords] /\ Live' = Live /\ Live \subseteq Handlers
         /\ \A x \in Handlers : /\ h'[x].life = h[x].life /\ h'[x].late = h[x].late
                                /\ h'[x].told >= h[x].told /\ h'[x].told \in Nat /\ h[x].told \in Nat
                                /\ x \in Live \cap ToSet(list) => h'[x].told >= 1
                                /\ Scheduled(h[x], timeout_interval, max_periodicity, clock)
                                     => Scheduled(h'[x], timeout_interval, max_periodicity, clock)
<1>1. ASSUME NEW x \in Handlers
      PROVE  /\ h'[x] \in HandlerRecords /\ h'[x].life = h[x].life /\ h'[x].late = h[x].late
             /\ h'[x].told >= h[x].told /\ h'[x].told \in Nat /\ h[x].told \in Nat
             /\ x \in Live \cap ToSet(list) => h'[x].told >= 1
             /\ Scheduled(h[x], timeout_interval, max_periodicity, clock)
                  => Scheduled(h'[x], timeout_interval, max_periodicity, clock)
  <2>1. h[x] \in HandlerRecords /\ h[x].told \in Nat
    BY DEF MuxInv, MuxTypeOK, HandlerRecords
  <2>2. CASE x \in Live \cap ToSet(list)
    <3>1. h'[x] = [h[x] EXCEPT !.told = h[x].told + 1]
      BY <2>2 DEF ToldAll
    <3>2. /\ h'[x] \in HandlerRecords /\ h'[x].told = h[x].told + 1 /\ h'[x].life = h[x].life
          /\ h'[x].late = h[x].late /\ h'[x].fired = h[x].fired /\ h'[x].since = h[x].since
          /\ h'[x].got = h[x].got /\ h'[x].periodicity = h[x].periodicity
      BY <2>1, <3>1 DEF HandlerRecords
    <3> QED
      BY <2>1, <3>2 DEF Scheduled
  <2>3. CASE ~(x \in Live \cap ToSet(list))
    <3>1. h'[x] = h[x]
      BY <2>3 DEF ToldAll
    <3> QED
      BY <2>1, <2>3, <3>1
  <2> QED
    BY <2>2, <2>3
<1>2. h' \in [Handlers -> HandlerRecords]
  BY <1>1 DEF ToldAll
<1>3. Live' = Live /\ Live \subseteq Handlers
  BY <1>1 DEF Live
<1> QED
  BY <1>1, <1>2, <1>3

\* The error of the connection is broadcast, which preserves the invariant.
LEMMA ConnectionErrorStep ==
  ASSUME MuxInv, ConnectionError
  PROVE  MuxInv'
<1>1. /\ conn = "open" /\ ~misused /\ conn' = "ended"
      /\ UNCHANGED <<timeout_interval, self_periodicity, max_periodicity, tick_count, held, clock>>
  BY DEF ConnectionError, tickVars
<1>2. CASE registered /\ ~MuxAlive
  <2>1. misused' = TRUE /\ UNCHANGED <<list, h, registered, timed>>
    BY <1>2 DEF ConnectionError
  <2>2. Live' = Live
    BY <2>1 DEF Live
  <2> QED
    BY <1>1, <2>1, <2>2
    DEF MuxInv, MuxTypeOK, TicksAddUp, AllScheduled, EndIsBroadcast, EndIsCovered
<1>3. CASE registered /\ MuxAlive
  <2>1. h' = ToldAll /\ list' = <<>> /\ registered' = FALSE /\ timed' = FALSE /\ misused' = misused
    BY <1>3 DEF ConnectionError
  <2>2. MuxTypeOK' /\ TicksAddUp'
    <3>1. list' \in Seq(Handlers)
      BY <2>1
    <3>2. h' \in [Handlers -> HandlerRecords]
      BY <2>1, ToldAllReaches
    <3> QED
      BY <1>1, <2>1, <3>1, <3>2 DEF MuxInv, MuxTypeOK, TicksAddUp
  <2>3. AllScheduled'
    BY <2>1 DEF AllScheduled, ToSet
  <2>4. EndIsCovered'
    BY <1>1, <2>1 DEF EndIsCovered
  <2>5. EndIsBroadcast'
    <3>1. \A x \in Live : ~h[x].late => x \in ToSet(list)
      BY <1>3 DEF MuxInv, EndIsBroadcast
    <3> QED
      BY <2>1, <3>1, ToldAllReaches DEF EndIsBroadcast
  <2> QED
    BY <2>2, <2>3, <2>4, <2>5 DEF MuxInv
<1>4. CASE ~registered
  <2>1. UNCHANGED <<list, h, registered, timed, misused>>
    BY <1>4 DEF ConnectionError
  <2>2. Live' = Live
    BY <2>1 DEF Live
  <2> QED
    BY <1>1, <1>4, <2>1, <2>2
    DEF MuxInv, MuxTypeOK, TicksAddUp, AllScheduled, EndIsBroadcast, EndIsCovered
<1> QED
  BY <1>2, <1>3, <1>4

\* close() preserves the invariant: who is not in the list is late, or was told.
LEMMA CloseStep ==
  ASSUME MuxInv, Close
  PROVE  MuxInv'
<1>1. /\ ~misused /\ h' = ToldAll /\ registered' = FALSE /\ timed' = FALSE /\ conn' = "ended"
      /\ UNCHANGED <<list, timeout_interval, self_periodicity, max_periodicity, tick_count, held, clock, misused>>
  BY DEF Close, tickVars
<1>2. MuxTypeOK' /\ TicksAddUp'
  BY <1>1, ToldAllReaches DEF MuxInv, MuxTypeOK, TicksAddUp
<1>3. AllScheduled'
  BY <1>1, ToldAllReaches DEF MuxInv, AllScheduled
<1>4. EndIsCovered'
  BY <1>1 DEF EndIsCovered
<1>5. \A x \in Live : h[x].late \/ h[x].told >= 1 \/ x \in ToSet(list)
  BY <1>1 DEF MuxInv, MuxTypeOK, EndIsBroadcast, EndIsCovered
<1>6. EndIsBroadcast'
  <2>1. ASSUME NEW x \in Live PROVE h'[x].late \/ h'[x].told >= 1
    <3>1. /\ x \in Handlers /\ h'[x].late = h[x].late /\ h'[x].told >= h[x].told
          /\ h'[x].told \in Nat /\ h[x].told \in Nat
          /\ x \in ToSet(list) => h'[x].told >= 1
      BY <1>1, ToldAllReaches
    <3> QED
      BY <1>5, <3>1
  <2> QED
    BY <1>1, <2>1, ToldAllReaches DEF EndIsBroadcast
<1> QED
  BY <1>2, <1>3, <1>4, <1>6 DEF MuxInv

\* get_handler() preserves the invariant.
LEMMA GetHandlerStep ==
  ASSUME MuxInv, NEW x \in Handlers, GetHandler(x)
  PROVE  MuxInv'
<1>1. /\ ~misused /\ h[x].life = "none" /\ list' = Append(list, x) /\ h' = [h EXCEPT ![x] = NewHandler]
      /\ UNCHANGED <<timeout_interval, self_periodicity, max_periodicity, tick_count, registered,
                     timed, conn, held, clock, misused>>
  BY DEF GetHandler, tickVars
<1>2. /\ h \in [Handlers -> HandlerRecords] /\ list \in Seq(Handlers) /\ registered \in BOOLEAN
      /\ EndIsBroadcast /\ EndIsCovered /\ AllScheduled
  BY DEF MuxInv, MuxTypeOK
<1>3. /\ NewHandler \in HandlerRecords /\ NewHandler.late = ~registered /\ NewHandler.periodicity = 0
      /\ NewHandler.fired = 0 /\ NewHandler.life = "live"
  BY <1>2 DEF NewHandler, NoHandler, HandlerRecords
<1>4. /\ h' \in [Handlers -> HandlerRecords] /\ h'[x] = NewHandler
      /\ \A y \in Handlers : y # x => h'[y] = h[y]
  BY <1>1, <1>2, <1>3
<1>5. list' \in Seq(Handlers) /\ ToSet(list') = ToSet(list) \cup {x}
  <2>1. Len(list') = Len(list) + 1 /\ list'[Len(list) + 1] = x /\ \A i \in 1 .. Len(list) : list'[i] = list[i]
    BY <1>1, <1>2
  <2>2. DOMAIN list = 1 .. Len(list) /\ DOMAIN list' = 1 .. Len(list) + 1 /\ Len(list) \in Nat
    BY <1>1, <1>2, <2>1
  <2> QED
    BY <1>1, <1>2, <2>1, <2>2 DEF ToSet
<1>6. Live' = Live \cup {x} /\ x \notin Live
  BY <1>1, <1>3, <1>4 DEF Live
<1>7. MuxTypeOK' /\ TicksAddUp'
  BY <1>1, <1>4, <1>5 DEF MuxInv, MuxTypeOK, TicksAddUp
<1>8. AllScheduled'
  BY <1>1, <1>2, <1>3, <1>4, <1>5 DEF AllScheduled, Scheduled
<1>9. EndIsBroadcast'
  <2>1. registered => \A y \in Live' : ~h'[y].late => y \in ToSet(list')
    <3> SUFFICES ASSUME registered, NEW y \in Live', ~h'[y].late PROVE y \in ToSet(list')
      OBVIOUS
    <3>1. CASE y = x
      BY <1>5, <3>1
    <3>2. CASE y # x
      BY <1>2, <1>4, <1>5, <1>6, <3>2 DEF EndIsBroadcast, Live
    <3> QED
      BY <3>1, <3>2
  <2>2. conn = "ended" => \A y \in Live' : h'[y].late \/ h'[y].told >= 1
    <3> SUFFICES ASSUME conn = "ended", NEW y \in Live' PROVE h'[y].late \/ h'[y].told >= 1
      OBVIOUS
    <3>1. CASE y = x
      BY <1>1, <1>2, <1>3, <1>4, <3>1 DEF EndIsCovered
    <3>2. CASE y # x
      BY <1>1, <1>2, <1>4, <1>6, <3>2 DEF EndIsBroadcast, Live
    <3> QED
      BY <3>1, <3>2
  <2> QED
    BY <1>1, <2>1, <2>2 DEF EndIsBroadcast
<1>10. EndIsCovered'
  <2> SUFFICES ASSUME conn = "open", ~registered, NEW y \in Live' PROVE h'[y].late
    BY <1>1, <1>2 DEF EndIsCovered
  <2>1. CASE y = x
    BY <1>3, <1>4, <2>1
  <2>2. CASE y # x
    BY <1>2, <1>4, <1>6, <2>2 DEF EndIsCovered, Live
  <2> QED
    BY <2>1, <2>2
<1> QED
  BY <1>7, <1>8, <1>9, <1>10 DEF MuxInv

\* A handler the user drops leaves the others as they are.
LEMMA DropStep ==
  ASSUME MuxInv, NEW x \in Handlers, Drop(x)
  PROVE  MuxInv'
<1> DEFINE r == [NoHandler EXCEPT !.life = "dropped"]
<1>1. /\ h' = [h EXCEPT ![x] = r]
      /\ UNCHANGED <<list, timeout_interval, self_periodicity, max_periodicity, tick_count, registered,
                     timed, conn, held, clock, misused>>
  BY DEF Drop, tickVars
<1>2. r \in HandlerRecords /\ r.life = "dropped"
  BY DEF NoHandler, HandlerRecords
<1> HIDE DEF r
<1>3. /\ h' \in [Handlers -> HandlerRecords] /\ h'[x].life = "dropped"
      /\ \A y \in Handlers : y # x => h'[y] = h[y]
  BY <1>1, <1>2 DEF MuxInv, MuxTypeOK
<1>4. Live' \subseteq Live /\ x \notin Live' /\ Live \subseteq Handlers
  BY <1>3 DEF Live
<1>5. \A y \in Live' : y \in Live /\ h'[y] = h[y]
  BY <1>3, <1>4
<1>6. AllScheduled'
  BY <1>1, <1>3 DEF MuxInv, AllScheduled
<1>7. EndIsBroadcast' /\ EndIsCovered'
  BY <1>1, <1>5 DEF MuxInv, EndIsBroadcast, EndIsCovered
<1> QED
  BY <1>1, <1>3, <1>6, <1>7 DEF MuxInv, MuxTypeOK, TicksAddUp

-----------------------------------------------------------------------------

\* The invariant of the multiplexer holds for any number of handlers, any
\* periods and any length of time.
THEOREM MuxInvariance == Spec => []MuxInv
<1>1. Init => MuxInv
  <2> SUFFICES ASSUME Init PROVE MuxInv
    OBVIOUS
  <2>1. NoHandler \in HandlerRecords /\ NoHandler.life = "none"
    BY DEF NoHandler, HandlerRecords
  <2>2. MuxTypeOK /\ TicksAddUp
    <3>1. list \in Seq(Handlers)
      BY DEF Init
    <3>2. h \in [Handlers -> HandlerRecords]
      BY <2>1 DEF Init
    <3>3. /\ timeout_interval = 0 /\ self_periodicity = 1 /\ max_periodicity = 1 /\ tick_count = 0
          /\ registered = TRUE /\ timed = FALSE /\ conn = "open" /\ held = TRUE /\ clock = 0
          /\ misused = FALSE
      BY DEF Init
    <3>4. MuxTypeOK
      BY <3>1, <3>2, <3>3 DEF MuxTypeOK
    <3>5. TicksAddUp
      <4>1. 0 * 0 = 0
        OBVIOUS
      <4> QED
        BY <3>3, <4>1, Zenon DEF TicksAddUp
    <3> QED
      BY <3>4, <3>5
  <2>3. Live = {}
    BY <2>1 DEF Init, Live
  <2> QED
    BY <2>1, <2>2, <2>3 DEF Init, MuxInv, AllScheduled, EndIsBroadcast, EndIsCovered
<1>2. MuxInv /\ [Next]_vars => MuxInv'
  <2> SUFFICES ASSUME MuxInv, [Next]_vars PROVE MuxInv'
    OBVIOUS
  <2>1. CASE \E x \in Handlers : GetHandler(x)
    BY <2>1, GetHandlerStep
  <2>2. CASE \E x \in Handlers : Drop(x)
    BY <2>2, DropStep
  <2>3. CASE \E x \in Handlers, ms \in Periods : OnTimeout(x, ms)
    BY <2>3, OnTimeoutStep
  <2>4. CASE DropMultiplexer
    <3>1. Live' = Live /\ held' = FALSE
          /\ UNCHANGED <<list, h, timeout_interval, self_periodicity, max_periodicity, tick_count,
                         registered, timed, conn, clock, misused>>
      BY <2>4 DEF DropMultiplexer, Live, tickVars
    <3> QED
      BY <3>1 DEF MuxInv, MuxTypeOK, TicksAddUp, AllScheduled, EndIsBroadcast, EndIsCovered
  <2>5. CASE Tick
    BY <2>5, TickStep
  <2>6. CASE RequestSent
    BY <2>6, RequestSentStep
  <2>7. CASE ConnectionError
    BY <2>7, ConnectionErrorStep
  <2>8. CASE Close
    BY <2>8, CloseStep
  <2>9. CASE UNCHANGED vars
    <3>1. Live' = Live
          /\ UNCHANGED <<list, h, timeout_interval, self_periodicity, max_periodicity, tick_count,
                         registered, timed, conn, held, clock, misused>>
      BY <2>9 DEF vars, Live, tickVars
    <3> QED
      BY <3>1 DEF MuxInv, MuxTypeOK, TicksAddUp, AllScheduled, EndIsBroadcast, EndIsCovered
  <2> QED
    BY <2>1, <2>2, <2>3, <2>4, <2>5, <2>6, <2>7, <2>8, <2>9 DEF Next
<1> QED
  BY <1>1, <1>2, PTL DEF Spec

\* Rescaling loses no time: whatever periods were asked for and in whatever
\* order, a handler was called once for every multiple of its period that passed.
THEOREM MuxFiresOnSchedule == Spec => []FiresOnSchedule
<1>1. MuxInv => FiresOnSchedule
  <2> SUFFICES ASSUME MuxInv PROVE FiresOnSchedule
    OBVIOUS
  <2>1. TypeOK
    BY DEF MuxInv, MuxTypeOK, TypeOK, HandlerRecords
  <2>2. ASSUME NEW x \in Live \cap ToSet(list), h[x].periodicity # 0
        PROVE  /\ h[x].periodicity <= max_periodicity
               /\ h[x].periodicity * timeout_interval = h[x].got
               /\ h[x].fired = (clock \div h[x].got) - (h[x].since \div h[x].got)
    BY <2>2 DEF MuxInv, AllScheduled, Scheduled, Live
  <2> QED
    BY <2>1, <2>2 DEF MuxInv, TicksAddUp, FiresOnSchedule
<1> QED
  BY <1>1, MuxInvariance, PTL

\* Every live handler that was created while the callbacks were registered
\* stays in the list and hears of the end of the connection.
THEOREM MuxEndIsBroadcast == Spec => []EndIsBroadcast
<1>1. MuxInv => EndIsBroadcast
  BY DEF MuxInv
<1> QED
  BY <1>1, MuxInvariance, PTL
=============================================================================
