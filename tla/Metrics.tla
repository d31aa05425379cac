------------------------------ MODULE Metrics -------------------------------
(***************************************************************************)
(* The counters and observations of src/common/metrics.py, as the threads  *)
(* of the gateway use them (src/gateway/gateway.py): the handlers call inc *)
(* and observe while HTTP threads take snapshots for the health page.      *)
(*                                                                         *)
(* inc reads and writes a counter, _Stats.add assigns one field after the  *)
(* other, and snapshot copies one thing after the other.  Only the lock    *)
(* makes each of them one; so the lock, and the steps under it, are what   *)
(* is modelled.                                                            *)
(***************************************************************************)
EXTENDS Naturals, Sequences, FiniteSets, Functions

CONSTANTS
    Handlers,     \* handler threads of the gateway
    Pages,        \* HTTP threads of the health server
    None,         \* nobody
    Values,       \* what is observed
    Infinity,     \* float("inf"): more than every value
    MaxMessages   \* bound: messages read from the wire

ASSUME MetricsAssumption ==
    /\ None \notin Handlers \cup Pages
    /\ Handlers \cap Pages = {}
    /\ IsFiniteSet(Handlers)
    /\ Values \subseteq Nat \ {0}
    /\ Infinity \in Nat \ {0}
    /\ \A v \in Values : v < Infinity
    /\ MaxMessages \in Nat

VARIABLES
    lock,      \* the thread that holds _lock
    counters,  \* _counters
    stats,     \* _stats
    stage,     \* the call of Metrics that each thread is in
    at,        \* how far it is in this call
    value,     \* what it has read of a counter, or is adding to a stat
    page,      \* the snapshot that each HTTP thread is making
    incs,      \* history: calls of inc for each counter that took effect
    seen       \* history: the values observed for each stat

shared == <<lock, counters, stats>>
local == <<stage, at, value, page>>
vars == <<shared, local, incs, seen>>

Threads  == Handlers \cup Pages
Counters == {"messages_received", "messages_processed",
             "messages_rejected", "messages_forwarded", "errors"}
Stats    == {"forward_s", "payload_bytes"}
Calls    == Counters \cup Stats \cup {"snapshot"}

Stat == [count : Nat, total : Nat, min : 1 .. Infinity, max : Nat]

(* _Stats.__init__.  The unit of a stat is the same in every call.         *)
NewStats == [count |-> 0, total |-> 0, min |-> Infinity, max |-> 0]

NoPage == [counters |-> [n \in Counters |-> 0],
           stats    |-> [n \in Stats |-> NewStats]]

Init ==
    /\ lock = None
    /\ counters = [n \in Counters |-> 0]
    /\ stats = [n \in Stats |-> NewStats]
    /\ stage = [t \in Threads |-> "idle"]
    /\ at = [t \in Threads |-> "outside"]
    /\ value = [t \in Threads |-> 0]
    /\ page = [p \in Pages |-> NoPage]
    /\ incs = [n \in Counters |-> 0]
    /\ seen = [n \in Stats |-> <<>>]

-----------------------------------------------------------------------------
(* The threads.                                                            *)

(* The call of Metrics that follows a call in _serve_legacy, or in _handle *)
(* if send_reading fails.  Mutant: the time of a forward is recorded before*)
(* the forward is counted.                                                 *)
AfterCallSwapped(call) ==
    CASE call = "messages_received"  -> {"messages_processed",
                                         "messages_rejected"}
      [] call = "messages_processed" -> {"forward_s", "errors"}
      [] call = "forward_s"          -> {"payload_bytes"}
      [] call = "payload_bytes"      -> {"messages_forwarded"}
      [] OTHER                       -> {"idle"}
AfterCall(call) ==
    CASE call = "messages_received"  -> {"messages_processed",
                                         "messages_rejected"}
      [] call = "messages_processed" -> {"messages_forwarded", "errors"}
      [] call = "messages_forwarded" -> {"forward_s"}
      [] call = "forward_s"          -> {"payload_bytes"}
      [] OTHER                       -> {"idle"}

(* read_message returns or raises.  A thread that ends makes room for that *)
(* of the next connection.                                                 *)
NextMessage(h) ==
    /\ stage[h] = "idle"
    /\ incs["messages_received"] + incs["errors"]
         + Cardinality({t \in Handlers : stage[t] # "idle"}) < MaxMessages
    /\ \E call \in {"messages_received", "errors"} :
          stage' = [stage EXCEPT ![h] = call]
    /\ UNCHANGED <<shared, at, value, page, incs, seen>>

(* A request for the health page comes to "**metrics.snapshot()".          *)
Request(p) ==
    /\ stage[p] \in {"idle", "shown"}
    /\ stage' = [stage EXCEPT ![p] = "snapshot"]
    /\ page' = [page EXCEPT ![p] = NoPage]
    /\ UNCHANGED <<shared, at, value, incs, seen>>

-----------------------------------------------------------------------------
(* The lock.  Mutant: "with self._lock" is missing in snapshot.            *)
FreeForPages(t) == lock = None \/ t \in Pages
Free(t)         == lock = None

Acquire(t) ==
    /\ stage[t] \in Calls
    /\ at[t] = "outside"
    /\ Free(t)
    /\ lock' = t
    /\ at' = [at EXCEPT ![t] = "inside"]
    /\ UNCHANGED <<counters, stats, stage, value, page, incs, seen>>

(* The first of two steps under the lock.                                  *)
Half(t) == at[t] = "inside" /\ at' = [at EXCEPT ![t] = "half"]

(* The last statement under the lock, and what comes next.                 *)
Return(t, next) ==
    /\ lock' = None
    /\ at' = [at EXCEPT ![t] = "outside"]
    /\ stage' = [stage EXCEPT ![t] = next]

-----------------------------------------------------------------------------
(* inc.                                                                    *)

GetCounter(h) ==
    /\ stage[h] \in Counters
    /\ Half(h)
    /\ value' = [value EXCEPT ![h] = counters[stage[h]]]
    /\ UNCHANGED <<shared, stage, page, incs, seen>>

SetCounter(h) ==
    /\ stage[h] \in Counters
    /\ at[h] = "half"
    /\ counters' = [counters EXCEPT ![stage[h]] = value[h] + 1]
    /\ incs' = [incs EXCEPT ![stage[h]] = @ + 1]
    /\ \E next \in AfterCall(stage[h]) : Return(h, next)
    /\ value' = [value EXCEPT ![h] = 0]
    /\ UNCHANGED <<stats, page, seen>>

(* observe: _Stats.add in two steps.                                       *)

Counted(stat, v) == [stat EXCEPT !.count = @ + 1, !.total = @ + v]

AddTotal(h) ==
    /\ stage[h] \in Stats
    /\ Half(h)
    /\ \E v \in Values :
          /\ value' = [value EXCEPT ![h] = v]
          /\ stats' = [stats EXCEPT ![stage[h]] = Counted(@, v)]
          /\ seen' = [seen EXCEPT ![stage[h]] = Append(@, v)]
    /\ UNCHANGED <<lock, counters, stage, page, incs>>

Smaller(v, w) == IF v < w THEN v ELSE w
Larger(v, w)  == IF v > w THEN v ELSE w

Ranged(stat, v) ==
    [stat EXCEPT !.min = Smaller(@, v), !.max = Larger(@, v)]

AddRange(h) ==
    /\ stage[h] \in Stats
    /\ at[h] = "half"
    /\ stats' = [stats EXCEPT ![stage[h]] = Ranged(@, value[h])]
    /\ \E next \in AfterCall(stage[h]) : Return(h, next)
    /\ value' = [value EXCEPT ![h] = 0]
    /\ UNCHANGED <<counters, page, incs, seen>>

(* snapshot: the stats one after the other, then the counters.             *)

CopyStat(p, name, from, to) ==
    /\ stage[p] = "snapshot"
    /\ at[p] = from
    /\ at' = [at EXCEPT ![p] = to]
    /\ page' = [page EXCEPT ![p].stats[name] = stats[name]]
    /\ UNCHANGED <<shared, stage, value, incs, seen>>

CopyForward(p) == CopyStat(p, "forward_s", "inside", "half")
CopyPayload(p) == CopyStat(p, "payload_bytes", "half", "last")

CopyCounters(p) ==
    /\ stage[p] = "snapshot"
    /\ at[p] = "last"
    /\ page' = [page EXCEPT ![p].counters = counters]
    /\ Return(p, "shown")
    /\ UNCHANGED <<counters, stats, value, incs, seen>>

-----------------------------------------------------------------------------
Handler(h) ==
    \/ NextMessage(h)
    \/ Acquire(h)
    \/ GetCounter(h)
    \/ SetCounter(h)
    \/ AddTotal(h)
    \/ AddRange(h)

Http(p) ==
    \/ Request(p)
    \/ Acquire(p)
    \/ CopyForward(p)
    \/ CopyPayload(p)
    \/ CopyCounters(p)

Next == (\E h \in Handlers : Handler(h)) \/ (\E p \in Pages : Http(p))

Spec == Init /\ [][Next]_vars

-----------------------------------------------------------------------------
(* Properties.                                                             *)

(* Every variable has its type.                                            *)
TypeOK ==
    /\ lock \in Threads \cup {None}
    /\ counters \in [Counters -> Nat]
    /\ stats \in [Stats -> Stat]
    /\ stage \in [Threads -> Calls \cup {"idle", "shown"}]
    /\ at \in [Threads -> {"outside", "inside", "half", "last"}]
    /\ value \in [Threads -> Nat]
    /\ page \in [Pages -> [counters : [Counters -> Nat],
                           stats    : [Stats -> Stat]]]
    /\ incs \in [Counters -> Nat]
    /\ seen \in [Stats -> Seq(Values)]

(* No count is lost, whatever threads call inc for the same counter at the *)
(* same time ("Thread-safe counters", metrics.py:43).                      *)
CountersExact == counters = incs

(* What a stat says of the values vs.                                      *)
Summary(vs) ==
    [count |-> Len(vs),
     total |-> SumFunction(vs),
     min   |-> IF vs = <<>> THEN Infinity
               ELSE CHOOSE v \in Range(vs) : \A w \in Range(vs) : v <= w,
     max   |-> IF vs = <<>> THEN 0
               ELSE CHOOSE v \in Range(vs) : \A w \in Range(vs) : v >= w]

(* A stat on a page sums up the first so many of the values observed, as   *)
(* the reference definition does: never a value whose count is in and whose*)
(* minimum or maximum is not, so that the average is between the two.      *)
StatsExact ==
    \A p \in Pages, n \in Stats :
        stage[p] = "shown" =>
            LET stat == page[p].stats[n]
            IN  /\ stat.count <= Len(seen[n])
                /\ stat = Summary(SubSeq(seen[n], 1, stat.count))

(* A page is a cut through the history of all threads: what it counts of a *)
(* message, it also counts of what comes before on the message's way, in   *)
(* the counters and in the observations, though they are copied one after  *)
(* the other.                                                              *)
Ordered(p) ==
    /\ p.stats["payload_bytes"].count <= p.stats["forward_s"].count
    /\ p.stats["forward_s"].count <= p.counters["messages_forwarded"]
    /\ p.counters["messages_forwarded"] <= p.counters["messages_processed"]
    /\ p.counters["messages_processed"] <= p.counters["messages_received"]

PageIsACut == \A p \in Pages : stage[p] = "shown" => Ordered(page[p])
=============================================================================
