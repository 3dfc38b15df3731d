------------------------- MODULE ClientMultiplexer -------------------------
(***************************************************************************)
(* client_connection_multiplexer                                           *)
(* (src/src/http/client/client_connection_multiplexer.cpp): several        *)
(* handlers of a user share one client connection.  The multiplexer turns  *)
(* the one timeout of the connection into one per handler, ticking at the  *)
(* greatest common divisor of the periods asked for, and broadcasts the    *)
(* error that ends the connection.  The list holds weak pointers; handlers *)
(* hold the multiplexer; the callbacks given to the connection hold a raw  *)
(* pointer to it.                                                          *)
(***************************************************************************)
EXTENDS Integers, Sequences, FiniteSets, SequencesExt

CONSTANTS
  Handlers,  \* the handlers the user may create
  Periods,   \* timeouts the user may ask for, in milliseconds
  MaxClock,  \* bound: time during which the connection ticks
  MaxCloses  \* bound: calls of close()

ASSUME MuxAssumption ==
  Periods \subseteq Nat \ {0} /\ MaxClock \in Nat /\ MaxCloses \in Nat

VARIABLES
  list,              \* handlers_list
  h,                 \* the handlers
  timeout_interval, self_periodicity, max_periodicity, tick_count,
  registered,        \* the connection's error and request_sent callbacks are ours
  timed,             \* and so is its timeout
  conn,              \* the connection: "open" or "ended"
  closes,            \* calls of close()
  held,              \* the user holds the multiplexer
  clock,             \* time counted in complete ticks
  misused            \* a callback ran after the multiplexer was destroyed

tickVars == <<timeout_interval, self_periodicity, max_periodicity, tick_count>>
vars == <<list, h, tickVars, registered, timed, conn, closes, held, clock, misused>>

(***************************************************************************)
(* life: "none", "live" or "dropped" by the user.  periodicity: in ticks,  *)
(* 0 if none.  asked: the period the handler asked for first, 0 if none.   *)
(* got: the period that was first set for it, at time since.  fired, told: *)
(* timeouts and errors reported to it.  late: created while nothing was    *)
(* registered.                                                             *)
(***************************************************************************)
NoHandler == [life |-> "none", periodicity |-> 0, asked |-> 0, got |-> 0, since |-> 0,
              fired |-> 0, told |-> 0, late |-> FALSE]
NewHandler == [NoHandler EXCEPT !.life = "live", !.late = ~registered]

Live == {x \in Handlers : h[x].life = "live"}
MuxAlive == held \/ Live # {}

\* init() has registered the callbacks.
Init ==
  /\ list = <<>>
  /\ h = [x \in Handlers |-> NoHandler]
  /\ timeout_interval = 0 /\ self_periodicity = 1 /\ max_periodicity = 1 /\ tick_count = 0
  /\ registered = TRUE /\ timed = FALSE
  /\ conn = "open" /\ closes = 0 /\ held = TRUE /\ clock = 0 /\ misused = FALSE

-----------------------------------------------------------------------------
\* As GCD, but the loop ends one division early.
GCDStopsEarly(u, v) == IF v = 0 THEN u ELSE v

\* The loop of Euclid's algorithm.
EuclidLoop[p \in Nat \X Nat] == IF p[2] = 0 THEN p[1] ELSE EuclidLoop[<<p[2], p[1] % p[2]>>]
GCD(u, v) == EuclidLoop[<<u, v>>]

\* get_handler()
GetHandler(x) ==
  /\ MuxAlive /\ ~misused /\ h[x].life = "none"
  /\ list' = Append(list, x)
  /\ h' = [h EXCEPT ![x] = NewHandler]
  /\ UNCHANGED <<tickVars, registered, timed, conn, closes, held, clock, misused>>

\* As Rescaled, but the handlers keep their old number of ticks.
RescaledOnlyNew(r, count, multiplier, interval) ==
  IF r.life # "live" THEN r
  ELSE IF r.periodicity = 0
  THEN [r EXCEPT !.periodicity = count \div interval, !.got = count, !.since = clock]
  ELSE r

\* A handler without a period gets this one, whoever asked for it; the
\* others keep theirs, counted in the new, shorter ticks.
Rescaled(r, count, multiplier, interval) ==
  IF r.life # "live" THEN r
  ELSE IF r.periodicity = 0
  THEN [r EXCEPT !.periodicity = count \div interval, !.got = count, !.since = clock]
  ELSE [r EXCEPT !.periodicity = @ * multiplier]

\* As UpdateTimeout, but the count of ticks is not rescaled.
UpdateTimeoutKeepsCount(x, count) ==
  LET old == IF timeout_interval = 0 THEN count ELSE timeout_interval
      interval == GCD(count, old)
      multiplier == old \div interval
  IN /\ timeout_interval' = interval
     /\ self_periodicity' = self_periodicity * multiplier
     /\ UNCHANGED tick_count
     /\ max_periodicity' = Max({max_periodicity * multiplier, count \div interval})
     /\ h' = [y \in Handlers |->
                LET r == IF y = x /\ h[y].asked = 0 THEN [h[y] EXCEPT !.asked = count] ELSE h[y]
                IN IF y \in ToSet(list) THEN Rescaled(r, count, multiplier, interval) ELSE r]
     /\ timed' = TRUE

\* update_timeout(), called by handler x.
UpdateTimeout(x, count) ==
  LET old == IF timeout_interval = 0 THEN count ELSE timeout_interval
      interval == GCD(count, old)
      multiplier == old \div interval
  IN /\ timeout_interval' = interval
     /\ self_periodicity' = self_periodicity * multiplier
     /\ tick_count' = tick_count * multiplier
     /\ max_periodicity' = Max({max_periodicity * multiplier, count \div interval})
     /\ h' = [y \in Handlers |->
                LET r == IF y = x /\ h[y].asked = 0 THEN [h[y] EXCEPT !.asked = count] ELSE h[y]
                IN IF y \in ToSet(list) THEN Rescaled(r, count, multiplier, interval) ELSE r]
     /\ timed' = TRUE

\* client_connection_handler::on_timeout
OnTimeout(x, ms) ==
  /\ x \in Live /\ ~misused
  /\ UpdateTimeout(x, ms)
  /\ UNCHANGED <<list, registered, conn, closes, held, clock, misused>>

\* The user drops a handler, or the multiplexer.
Drop(x) ==
  /\ x \in Live /\ ~misused
  /\ h' = [h EXCEPT ![x] = [NoHandler EXCEPT !.life = "dropped"]]
  /\ UNCHANGED <<list, tickVars, registered, timed, conn, closes, held, clock, misused>>

DropMultiplexer ==
  /\ held /\ ~misused /\ held' = FALSE
  /\ UNCHANGED <<list, h, tickVars, registered, timed, conn, closes, clock, misused>>

-----------------------------------------------------------------------------
(* Callbacks of the connection. *)

\* As Expired, but every handler up to the last expired one is erased.
ExpiredToLast(l) ==
  LET gone == {i \in DOMAIN l : l[i] \notin Live} IN
  IF gone = {} THEN l ELSE SubSeq(l, Max(gone) + 1, Len(l))

\* The list without the expired handlers at its front; one behind a live
\* handler stays.
Expired(l) ==
  LET alive == {i \in DOMAIN l : l[i] \in Live} IN
  IF alive = {} THEN <<>> ELSE SubSeq(l, Min(alive), Len(l))

\* clear_expired(): with no handler left the callbacks are deregistered.
ClearExpired ==
  /\ list' = Expired(list)
  /\ registered' = (registered /\ Expired(list) # <<>>)
  /\ timed' = (timed /\ Expired(list) # <<>>)

(***************************************************************************)
(* timeout(): one tick of the connection.  The handlers' callbacks run     *)
(* inside the loop; what the user calls there, the model's user calls      *)
(* before or after the tick.                                               *)
(***************************************************************************)
Tick ==
  /\ conn = "open" /\ timed /\ ~misused
  /\ clock + timeout_interval <= MaxClock
  /\ IF ~MuxAlive
     THEN misused' = TRUE /\ UNCHANGED <<list, h, tick_count, registered, timed, clock>>
     ELSE /\ tick_count' = tick_count + 1
          /\ clock' = clock + timeout_interval
          /\ h' = [x \in Handlers |->
                     IF x \in Live \cap ToSet(list) /\ h[x].periodicity # 0
                          /\ tick_count' % h[x].periodicity = 0
                     THEN [h[x] EXCEPT !.fired = @ + 1] ELSE h[x]]
          /\ ClearExpired
          /\ UNCHANGED misused
  /\ UNCHANGED <<timeout_interval, self_periodicity, max_periodicity, conn, closes, held>>

\* on_request_sent
RequestSent ==
  /\ conn = "open" /\ registered /\ ~misused
  /\ IF MuxAlive THEN ClearExpired /\ UNCHANGED misused
     ELSE misused' = TRUE /\ UNCHANGED <<list, registered, timed>>
  /\ UNCHANGED <<h, tickVars, conn, closes, held, clock>>

ToldAll == [x \in Handlers |-> IF x \in Live \cap ToSet(list)
                               THEN [h[x] EXCEPT !.told = @ + 1] ELSE h[x]]

\* The connection reports its error: broadcast if the callback is ours.
ConnectionError ==
  /\ conn = "open" /\ ~misused
  /\ conn' = "ended"
  /\ IF registered /\ ~MuxAlive
     THEN misused' = TRUE /\ UNCHANGED <<list, h, registered, timed>>
     ELSE IF registered
     THEN h' = ToldAll /\ list' = <<>> /\ registered' = FALSE /\ timed' = FALSE
          /\ UNCHANGED misused
     ELSE UNCHANGED <<list, h, registered, timed, misused>>
  /\ UNCHANGED <<tickVars, closes, held, clock>>

\* close(): the list is kept.
Close ==
  /\ MuxAlive /\ ~misused /\ closes < MaxCloses
  /\ closes' = closes + 1
  /\ h' = ToldAll
  /\ registered' = FALSE /\ timed' = FALSE /\ conn' = "ended"
  /\ UNCHANGED <<list, tickVars, held, clock, misused>>

Next ==
  \/ \E x \in Handlers : GetHandler(x) \/ Drop(x) \/ \E ms \in Periods : OnTimeout(x, ms)
  \/ DropMultiplexer \/ Tick \/ RequestSent \/ ConnectionError \/ Close

Spec == Init /\ [][Next]_vars

-----------------------------------------------------------------------------
(* Properties. *)

\* The members have the values their declarations allow.
TypeOK ==
  /\ list \in Seq(Handlers) /\ conn \in {"open", "ended"}
  /\ \A v \in {timeout_interval, self_periodicity, max_periodicity, tick_count, clock} : v \in Nat
  /\ \A x \in Handlers : h[x].life \in {"none", "live", "dropped"}

(***************************************************************************)
(* Rescaling loses no time: however often the common divisor of the        *)
(* periods shrinks, the ticks so far add up to the time that has passed,   *)
(* the tick divides every period, no period exceeds max_periodicity, and a *)
(* handler has been called once for every multiple of its period since it  *)
(* was set.                                                                *)
(***************************************************************************)
FiresOnSchedule ==
  /\ TypeOK
  /\ tick_count * timeout_interval = clock
  /\ \A x \in Live \cap ToSet(list) : LET r == h[x] IN r.periodicity # 0 =>
       /\ r.periodicity <= max_periodicity
       /\ r.periodicity * timeout_interval = r.got
       /\ r.fired = (clock \div r.got) - (r.since \div r.got)

(***************************************************************************)
(* A handler that was created while the callbacks were registered hears of *)
(* the end of the connection: removing expired handlers never removes or   *)
(* silences a live one.                                                    *)
(***************************************************************************)
EndIsBroadcast ==
  /\ registered => \A x \in Live : ~h[x].late => x \in ToSet(list)
  /\ conn = "ended" /\ ~misused => \A x \in Live : h[x].late \/ h[x].told >= 1

\* A live handler hears of the end, whenever it was created.
EveryHandlerHears == conn = "ended" /\ ~misused => \A x \in Live : h[x].told >= 1

\* A handler is called with the period it asked for.
AskedIsGranted == \A x \in Live : h[x].asked # 0 => h[x].got = h[x].asked

\* The end is reported once.
ToldOnce == \A x \in Handlers : h[x].told <= 1

\* The connection calls no destroyed multiplexer.
CallbacksHaveMultiplexer == ~misused

=============================================================================
