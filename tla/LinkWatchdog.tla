---------------------------- MODULE LinkWatchdog ----------------------------
(***************************************************************************)
(* The watchdogs of an established Link (src/shared/rns/index.js) against  *)
(* a clock: RnsLink counts silent periods, this module measures them.      *)
(*                                                                         *)
(* One unit of time passes at once for both ends and for all packets.      *)
(* Packets take at most Delay units and at most MaxLost of them are lost.  *)
(* A timer fires when it is due or up to Late units later.  Applications   *)
(* may send at any time: the initiator packets nobody answers, the         *)
(* responder only what the other end answers (requests, Channel messages). *)
(* A Link of which this can not be said is a hazard of its own: the        *)
(* initiator pings after inbound silence only.                             *)
(***************************************************************************)
EXTENDS Integers, FiniteSets

CONSTANTS
  Keepalive,      \* Keepalive[e]: keepaliveMs of end e, from its RTT
  Grace,          \* RTT * KEEPALIVE_TIMEOUT_FACTOR + STALE_GRACE
  Delay, Late, MaxLost

(* The responder's RTT is the larger one, and the grace covers round trips.*)
ASSUME WatchdogAssumption ==
  /\ Keepalive \in [{"initiator", "responder"} -> Nat \ {0}]
  /\ Keepalive["initiator"] <= Keepalive["responder"]
  /\ Grace \in Nat \ {0} /\ Delay \in Nat /\ Late \in Nat /\ MaxLost \in Nat

LinkEnds == {"initiator", "responder"}
Stale(e) == 2 * Keepalive[e]           \* staleTimeMs, STALE_FACTOR = 2
Longest(e) == Stale(e) + Grace + 3 * Late

VARIABLES
  status,       \* status[e]: "ACTIVE", "STALE" or "CLOSED"
  running,      \* the ends that still run
  silence,      \* silence[e]: time since lastInbound
  pinged,       \* time since lastKeepaliveSent
  due,          \* due[e]: time until the watchdog timer is due
  air,          \* packets under way: what, to whom, for how long
  lost          \* packets lost

watchdogVars == <<status, running, silence, pinged, due, air, lost>>

What == {"ping", "pong", "note", "ask", "reply"}
To(what) == IF what \in {"ping", "note", "reply"} THEN "responder" ELSE "initiator"

WatchdogTypeOK ==
  /\ status \in [LinkEnds -> {"ACTIVE", "STALE", "CLOSED"}]
  /\ running \subseteq LinkEnds
  /\ silence \in [LinkEnds -> Nat] /\ pinged \in 0 .. Keepalive["initiator"]
  /\ due \in [LinkEnds -> Int]
  /\ air \subseteq What \X (0 .. Delay)
  /\ lost \in 0 .. MaxLost

(* _activateWatchdog() at both ends.                                       *)
WatchdogInit ==
  /\ status = [e \in LinkEnds |-> "ACTIVE"] /\ running = LinkEnds
  /\ silence = [e \in LinkEnds |-> 0]
  /\ pinged = Keepalive["initiator"]
  /\ due = Keepalive
  /\ air = {} /\ lost = 0

Open(e) == e \in running /\ status[e] # "CLOSED"

(* Packets to an end that is gone make no difference any more.             *)
Carried(a) == air' = {p \in a : Open(To(p[1]))'}

---------------------------------------------------------------------------
PingWhenStale(e) == e = "initiator" /\ silence[e] >= Stale(e)   \* mutant

(* _watchdogTick() of an ACTIVE link whose timer fired.  Times above the   *)
(* keepalive are not told apart for the last ping.                         *)
PingDue(e) == e = "initiator" /\ silence[e] >= Keepalive[e] /\ pinged >= Keepalive[e]

CheckSlow(e) ==                                       \* mutant
  /\ IF silence[e] >= Stale(e)
     THEN /\ status' = [status EXCEPT ![e] = "STALE"]
          /\ due' = [due EXCEPT ![e] = Grace]
     ELSE /\ due' = [due EXCEPT ![e] = Stale(e)]
          /\ UNCHANGED status
  /\ pinged' = IF PingDue(e) THEN 0 ELSE pinged
  /\ UNCHANGED <<running, silence, lost>>
  /\ Carried(IF PingDue(e) THEN air \cup {<<"ping", 0>>} ELSE air)

Check(e) ==
  /\ IF silence[e] >= Stale(e)
     THEN /\ status' = [status EXCEPT ![e] = "STALE"]
          /\ due' = [due EXCEPT ![e] = Grace]
     ELSE /\ due' = [due EXCEPT ![e] = IF silence[e] >= Keepalive[e] THEN Keepalive[e]
                                       ELSE Keepalive[e] - silence[e]]
          /\ UNCHANGED status
  /\ pinged' = IF PingDue(e) THEN 0 ELSE pinged
  /\ UNCHANGED <<running, silence, lost>>
  /\ Carried(IF PingDue(e) THEN air \cup {<<"ping", 0>>} ELSE air)

(* ... and of a STALE one.                                                 *)
GiveUp(e) ==
  /\ status' = [status EXCEPT ![e] = "CLOSED"]
  /\ UNCHANGED <<running, silence, pinged, due, lost>>
  /\ Carried(air)

TimerFires(e) ==
  /\ Open(e) /\ due[e] <= 0
  /\ IF status[e] = "ACTIVE" THEN Check(e) ELSE GiveUp(e)

(* A packet arrives: _noteInbound() ends the silence and sets the timer    *)
(* anew, then pings and what applications ask for are answered.            *)
Answer(what) ==
  CASE what = "ping" -> {<<"pong", 0>>}
    [] what = "ask" -> {<<"reply", 0>>}
    [] OTHER -> {}

PacketArrives(p) ==
  LET e == To(p[1]) IN
  /\ p \in air
  /\ status' = [status EXCEPT ![e] = "ACTIVE"]
  /\ silence' = [silence EXCEPT ![e] = 0]
  /\ due' = [due EXCEPT ![e] = Keepalive[e]]
  /\ UNCHANGED <<running, pinged, lost>>
  /\ Carried((air \ {p}) \cup Answer(p[1]))

PacketLost(p) ==
  /\ p \in air /\ lost < MaxLost
  /\ lost' = lost + 1
  /\ air' = air \ {p}
  /\ UNCHANGED <<status, running, silence, pinged, due>>

(* The applications send.                                                  *)
Use(e) ==
  /\ Open(e)
  /\ UNCHANGED <<status, running, silence, pinged, due, lost>>
  /\ Carried(air \cup {<<IF e = "initiator" THEN "note" ELSE "ask", 0>>})

(* An end stops without a word.                                            *)
Die(e) ==
  /\ running = LinkEnds
  /\ running' = running \ {e}
  /\ UNCHANGED <<status, silence, pinged, due, lost>>
  /\ Carried(air)

(* Time passes unless a packet or a timer has to be attended to first.  It *)
(* stands still for an end that is gone.                                   *)
TimePasses ==
  /\ \A p \in air : p[2] < Delay
  /\ \A e \in LinkEnds : Open(e) => due[e] > -Late
  /\ silence' = [e \in LinkEnds |-> IF Open(e) THEN silence[e] + 1 ELSE silence[e]]
  /\ due' = [e \in LinkEnds |-> IF Open(e) THEN due[e] - 1 ELSE due[e]]
  /\ pinged' = IF pinged < Keepalive["initiator"] THEN pinged + 1 ELSE pinged
  /\ air' = {<<p[1], p[2] + 1>> : p \in air}
  /\ UNCHANGED <<status, running, lost>>

WatchdogNext ==
  \/ TimePasses
  \/ \E e \in LinkEnds : TimerFires(e) \/ Use(e) \/ Die(e)
  \/ \E p \in air : PacketArrives(p) \/ PacketLost(p)

WatchdogSpec == WatchdogInit /\ [][WatchdogNext]_watchdogVars

---------------------------------------------------------------------------
(* Properties.                                                             *)

(* While both ends run, neither gives the link up, whether the             *)
(* applications use it or not, although packets and timers are late and    *)
(* some packets are lost.                                                  *)
HealthyLinkStays == running = LinkEnds => \A e \in LinkEnds : status[e] # "CLOSED"

(* An end that runs has the link open for no longer than two keepalive     *)
(* periods and the grace after the last word of the other end.             *)
SilenceEndsLink == \A e \in LinkEnds : Open(e) => silence[e] <= Longest(e)
=============================================================================
