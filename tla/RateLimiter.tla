---------------------------- MODULE RateLimiter ----------------------------
(***************************************************************************)
(* McpRateLimiter: sliding windows in memory over calls by caller and kind *)
(* of call.  A prefix is what the windows of a caller have in common, a    *)
(* key is one window of a prefix, and hits maps the keys there are to the  *)
(* times of the calls that were let through.                               *)
(***************************************************************************)
EXTENDS Integers, Sequences, SequencesExt, FiniteSets, FiniteSetsExt, Functions

CONSTANTS Second, Minute, Day,  \* in ticks
          LimitOf,     \* calls in a minute by kind: "read", "write", "ip", "user"
          DailyWrites, \* writes in a day
          SweepSize    \* keys from which old ones are dropped: 5000

ASSUME LimiterAssumption ==
    /\ {Second, Minute, Day, DailyWrites} \subseteq Nat \ {0} /\ Minute < Day
    /\ \A k \in {"read", "write", "ip", "user"} : LimitOf[k] \in Nat \ {0}

Windows(kind) ==
    {[name |-> "min", ms |-> Minute, limit |-> LimitOf[kind]]}
    \cup IF kind = "write" THEN {[name |-> "day", ms |-> Day, limit |-> DailyWrites]} ELSE {}

Key(p, w) == <<p, w.name>>

Stamps(hits, k) == IF k \in DOMAIN hits THEN hits[k] ELSE <<>>

\* The times later than t.
After(times, t) ==
    LET kept[n \in 0 .. Len(times)] ==
          IF n = 0 THEN <<>>
          ELSE IF times[n] > t THEN Append(kept[n - 1], times[n]) ELSE kept[n - 1]
    IN  kept[Len(times)]

\* prune: what still counts in a window at time t.
Recent(hits, p, w, t) == After(Stamps(hits, Key(p, w)), t - w.ms)

Full(hits, p, t) == {w \in Windows(p.kind) : Len(Recent(hits, p, w, t)) >= w.limit}

\* When the last of the full windows makes room, or 0.
RetryAfterTicks(hits, p, t) ==
    Max({0} \cup {Head(Recent(hits, p, w, t)) + w.ms - t : w \in Full(hits, p, t)})

Allowed(hits, p, t) == RetryAfterTicks(hits, p, t) = 0

\* In whole seconds, rounded up.
RetryAfterSeconds(hits, p, t) == Max({1, (RetryAfterTicks(hits, p, t) + Second - 1) \div Second})

\* sweepIfLarge: what nobody has called within a day is dropped.
Swept(hits, t) ==
    IF Cardinality(DOMAIN hits) < SweepSize THEN hits
    ELSE Restrict(hits, {k \in DOMAIN hits : hits[k] # <<>> /\ Last(hits[k]) >= t - Day})

\* (Every window with room counts the call.)
PushedWhereRoom(hits, p, t, w) ==
    Recent(hits, p, w, t) \o IF w \in Full(hits, p, t) THEN <<>> ELSE <<t>>

\* A call counts in all the windows of its prefix, or, refused, in none.
Pushed(hits, p, t, w) ==
    Recent(hits, p, w, t) \o IF Allowed(hits, p, t) THEN <<t>> ELSE <<>>

\* consume: what remains after a call at time t.
Consume(hits, p, t) ==
    LET new == [k \in {Key(p, w) : w \in Windows(p.kind)} |->
                    Pushed(hits, p, t, CHOOSE w \in Windows(p.kind) : Key(p, w) = k)]
        all == [k \in DOMAIN hits \cup DOMAIN new |-> IF k \in DOMAIN new THEN new[k] ELSE hits[k]]
    IN IF Allowed(hits, p, t) THEN Swept(all, t) ELSE all
=============================================================================
