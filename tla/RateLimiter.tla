---------------------------- MODULE RateLimiter ----------------------------
(***************************************************************************)
(* The per-IP budget shared by the HTTP threads and the MCP loop           *)
(* (src/krzykacz/ratelimit.py).  A call reads the clock first and takes    *)
(* the lock afterwards, so calls may be decided in another order than the  *)
(* one they read the clock in, and a reading may be old when it is used.   *)
(***************************************************************************)
EXTENDS Integers, FiniteSets

CONSTANTS
    Calls,       \* the calls of allow(), each made by a thread of its own
    Ips,         \* the source addresses
    IpOf,        \* IpOf[c]: where call c comes from
    Intervals,   \* the values min_interval may be configured to, in ticks
    PruneAbove,  \* the table is pruned when it has more entries (1000)
    MaxClock     \* bound: the clock stops here

ASSUME LimiterAssumption ==
    /\ IpOf \in [Calls -> Ips]
    /\ Intervals \subseteq Int
    /\ PruneAbove \in Nat
    /\ MaxClock \in Nat

VARIABLES
    interval,   \* min_interval, fixed when the limiter is made; <= 0 disables
    clock,      \* time.monotonic()
    call,       \* call[c]: how far allow() got, and what it answered
    now,        \* now[c]: the call's reading of the clock
    lastCall,   \* the table: address -> reading of its last admitted call
    pruned,     \* auxiliary: the newest reading the table was pruned with
    overtaken   \* auxiliary: calls decided with a reading older than that

lvars == <<interval, clock, call, now, lastCall, pruned, overtaken>>

Phases == {"idle", "timed", "admitted", "limited"}

Never == -1

LTypeOK ==
    /\ interval \in Intervals
    /\ clock \in 0..MaxClock
    /\ call \in [Calls -> Phases]
    /\ now \in [Calls -> 0..MaxClock]
    /\ DOMAIN lastCall \subseteq Ips
    /\ \A ip \in DOMAIN lastCall : lastCall[ip] \in 0..MaxClock
    /\ pruned \in 0..MaxClock \cup {Never}
    /\ overtaken \subseteq Calls

LInit ==
    /\ interval \in Intervals
    /\ clock = 0
    /\ call = [c \in Calls |-> "idle"]
    /\ now = [c \in Calls |-> 0]
    /\ lastCall = [ip \in {} |-> 0]
    /\ pruned = Never
    /\ overtaken = {}

Tick ==
    /\ clock < MaxClock
    /\ clock' = clock + 1
    /\ UNCHANGED <<interval, call, now, lastCall, pruned, overtaken>>

\* min_interval <= 0: every call is allowed, and nothing is recorded.
AllowAll(c) ==
    /\ call[c] = "idle"
    /\ interval <= 0
    /\ call' = [call EXCEPT ![c] = "admitted"]
    /\ UNCHANGED <<interval, clock, now, lastCall, pruned, overtaken>>

\* The clock is read before the lock is taken.
ReadClock(c) ==
    /\ call[c] = "idle"
    /\ interval > 0
    /\ call' = [call EXCEPT ![c] = "timed"]
    /\ now' = [now EXCEPT ![c] = clock]
    /\ UNCHANGED <<interval, clock, lastCall, pruned, overtaken>>

\* Mutant: a call exactly one interval later is still too early.
SpentTooLong(c) ==
    /\ IpOf[c] \in DOMAIN lastCall
    /\ now[c] - lastCall[IpOf[c]] <= interval

\* Mutant: one tick of grace.
SpentTooShort(c) ==
    /\ IpOf[c] \in DOMAIN lastCall
    /\ now[c] - lastCall[IpOf[c]] < interval - 1

Spent(c) ==
    /\ IpOf[c] \in DOMAIN lastCall
    /\ now[c] - lastCall[IpOf[c]] < interval

\* Under the lock: refused, nothing changes.
Limit(c) ==
    /\ call[c] = "timed"
    /\ Spent(c)
    /\ call' = [call EXCEPT ![c] = "limited"]
    /\ UNCHANGED <<interval, clock, now, lastCall, pruned, overtaken>>

\* The entries a prune keeps, judged by the reading of the pruning call.
Fresh(table, reading) ==
    {ip \in DOMAIN table : table[ip] > reading - interval}

Recorded(c) ==
    [ip \in DOMAIN lastCall \cup {IpOf[c]} |->
        IF ip = IpOf[c] THEN now[c] ELSE lastCall[ip]]

TooLong(table) == Cardinality(DOMAIN table) > PruneAbove

\* Under the lock: recorded, and the table pruned if it got too long.
Admit(c) ==
    LET table == Recorded(c)
    IN  /\ call[c] = "timed"
        /\ ~Spent(c)
        /\ call' = [call EXCEPT ![c] = "admitted"]
        /\ overtaken' = IF now[c] < pruned THEN overtaken \cup {c} ELSE overtaken
        /\ \/ /\ TooLong(table)
              /\ lastCall' = [ip \in Fresh(table, now[c]) |-> table[ip]]
              /\ pruned' = IF now[c] > pruned THEN now[c] ELSE pruned
           \/ /\ ~TooLong(table)
              /\ lastCall' = table
              /\ UNCHANGED pruned
        /\ UNCHANGED <<interval, clock, now>>

LNext ==
    \/ Tick
    \/ \E c \in Calls : AllowAll(c) \/ ReadClock(c) \/ Limit(c) \/ Admit(c)

LSpec == LInit /\ [][LNext]_lvars

-----------------------------------------------------------------------------
Admitted == {c \in Calls : call[c] = "admitted"}

Apart(a, b) == now[a] - now[b] >= interval \/ now[b] - now[a] >= interval

\* Two admitted calls of one address read the clock at least interval apart,
\* whatever the order in which they got the lock (ratelimit.py:11), as long
\* as neither was overtaken by a prune with a newer reading.
Spaced ==
    interval > 0 =>
        \A a, b \in Admitted \ overtaken :
            a # b /\ IpOf[a] = IpOf[b] => Apart(a, b)

\* A call is only limited because of another call from its own address that
\* was admitted less than interval before it, or after it.
LimitedForCause ==
    \A c \in Calls : call[c] = "limited" =>
        \E a \in Admitted : IpOf[a] = IpOf[c] /\ now[c] - now[a] < interval
=============================================================================
