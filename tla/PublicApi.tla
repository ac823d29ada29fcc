------------------------------ MODULE PublicApi ------------------------------
(***************************************************************************)
(* What the API keeps in Redis with a time limit, beside sessions: the     *)
(* rate counter of the middleware and the cached catalog of rewards.       *)
(* Requests of clients and edits of the rewards table interleave; a        *)
(* request is cut off at its deadline, and Redis may lose its data.        *)
(* Redis runs a command within the deadline of its request, or not at all. *)
(* One tick of the clock stands for some seconds.                          *)
(***************************************************************************)
EXTENDS Naturals

CONSTANTS
    Clients,    \* addresses requests come from
    Limit,      \* requests of a counter that pass: 120 in the code
    Minute,     \* ticks a counter lives: 60 seconds
    Slots,      \* GET /api/rewards at once: a bound
    TTL,        \* ticks the cached catalog lives: 30 seconds
    Deadline,   \* ticks a request lives: 10 seconds
    Edits,      \* edits of the rewards table: a bound
    None

VARIABLES
    count,      \* the rate counter of each client
    age,        \* history: ticks since that counter was made
    cache,      \* the cached catalog
    table,      \* the version of the rewards table
    past,       \* history: ticks since a version was replaced
    request,    \* the requests for the catalog
    lag         \* history: past of the version last served

vars == <<count, age, cache, table, past, request, lag>>
rewards == <<cache, table, past, request, lag>>

Versions == 0..Edits
Oldest == TTL + Deadline + 1    \* a bound of past
Free == [pc |-> "free", items |-> None, left |-> 0]

Init ==
    /\ count = [c \in Clients |-> None] /\ age = [c \in Clients |-> 0]
    /\ cache = None /\ table = 0
    /\ past = [v \in Versions |-> 0]
    /\ request = [q \in Slots |-> Free]
    /\ lag = 0

-----------------------------------------------------------------------------
(* The rate limit of requests that change something.                       *)

Capped(n) == IF n > Limit THEN Limit + 1 ELSE n

\* Bug: every request renews the expiry.
BugCounted(counter) ==
    [n |-> IF counter = None THEN 1 ELSE Capped(counter.n + 1), left |-> Minute]

\* The script: INCR, and EXPIRE when that made the counter.  Numbers past the
\* limit are taken as one, a bound.
Counted(counter) ==
    IF counter = None THEN [n |-> 1, left |-> Minute]
    ELSE [counter EXCEPT !.n = Capped(counter.n + 1)]

\* The request is admitted, or refused with 429, as n says.
Count(c) ==
    /\ count' = [count EXCEPT ![c] = Counted(count[c])]
    /\ age' = IF count[c] = None THEN [age EXCEPT ![c] = 0] ELSE age
    /\ UNCHANGED rewards

-----------------------------------------------------------------------------
(* The catalog.                                                            *)

Serve(q, v) ==
    /\ request' = [request EXCEPT ![q] = Free]
    /\ lag' = past[v]

Get(q) ==
    /\ request[q].pc = "free"
    /\ request' = [request EXCEPT ![q] = [pc |-> "cached", items |-> None, left |-> Deadline]]
    /\ UNCHANGED <<count, age, cache, table, past, lag>>

\* Bug: a hit renews the cached entry.
BugReadCache(q) ==
    /\ request[q].pc = "cached"
    /\ IF cache # None
       THEN Serve(q, cache.items) /\ cache' = [cache EXCEPT !.left = TTL]
       ELSE request' = [request EXCEPT ![q].pc = "table"] /\ UNCHANGED <<lag, cache>>
    /\ UNCHANGED <<count, age, table, past>>

\* When Redis fails or has nothing, the table is read.
ReadCache(q) ==
    /\ request[q].pc = "cached"
    /\ \/ cache # None /\ Serve(q, cache.items)
       \/ request' = [request EXCEPT ![q].pc = "table"] /\ UNCHANGED lag
    /\ UNCHANGED <<count, age, cache, table, past>>

ReadTable(q) ==
    /\ request[q].pc = "table"
    /\ request' = [request EXCEPT ![q].pc = "set", ![q].items = table]
    /\ UNCHANGED <<count, age, cache, table, past, lag>>

\* What was read is served whether or not Redis could keep it.
WriteCache(q) ==
    /\ request[q].pc = "set"
    /\ cache' \in {cache, [items |-> request[q].items, left |-> TTL]}
    /\ Serve(q, request[q].items)
    /\ UNCHANGED <<count, age, table, past>>

\* A query fails, the client leaves, or the deadline passes.
Cut(q) ==
    /\ request[q].pc # "free"
    /\ request' = [request EXCEPT ![q] = Free]
    /\ UNCHANGED <<count, age, cache, table, past, lag>>

-----------------------------------------------------------------------------
(* The operator, Redis, and time.                                          *)

Edit ==
    /\ table < Edits
    /\ table' = table + 1
    /\ UNCHANGED <<count, age, cache, past, request, lag>>

LoseRedis ==
    /\ count' = [c \in Clients |-> None] /\ cache' = None
    /\ UNCHANGED <<age, table, past, request, lag>>

\* A key sees as many ticks as it was given, and expires before the next one.
Later(key) == IF key = None \/ key.left = 0 THEN None ELSE [key EXCEPT !.left = @ - 1]

Expire ==
    /\ \/ /\ cache # None /\ cache.left = 0
          /\ cache' = None /\ count' = count
       \/ \E c \in Clients :
          /\ count[c] # None /\ count[c].left = 0
          /\ count' = [count EXCEPT ![c] = None] /\ cache' = cache
    /\ UNCHANGED <<age, table, past, request, lag>>

Tick ==
    /\ \A q \in Slots : request[q].pc = "free" \/ request[q].left > 0
    /\ count' = [c \in Clients |-> Later(count[c])]
    /\ age' = [c \in Clients |-> IF count[c] = None \/ age[c] = Minute + 1 THEN age[c] ELSE age[c] + 1]
    /\ cache' = Later(cache)
    /\ past' = [v \in Versions |-> IF v >= table \/ past[v] = Oldest THEN past[v] ELSE past[v] + 1]
    /\ request' = [q \in Slots |->
          IF request[q].pc = "free" THEN Free ELSE [request[q] EXCEPT !.left = @ - 1]]
    /\ UNCHANGED <<table, lag>>

Next ==
    \/ \E c \in Clients : Count(c)
    \/ \E q \in Slots : Get(q) \/ ReadCache(q) \/ ReadTable(q) \/ WriteCache(q) \/ Cut(q)
    \/ Edit \/ LoseRedis \/ Expire \/ Tick

Spec == Init /\ [][Next]_vars

-----------------------------------------------------------------------------
\* Every variable has its type; no key is left when its time is over.
TypeOK ==
    /\ \A c \in Clients : count[c] = None \/ count[c] \in [n : 1..Limit + 1, left : 0..Minute]
    /\ age \in [Clients -> 0..Minute + 1]
    /\ cache = None \/ cache \in [items : Versions, left : 0..TTL]
    /\ table \in Versions /\ past \in [Versions -> 0..Oldest] /\ lag \in 0..Oldest
    /\ \A q \in Slots :
          /\ request[q].pc \in {"free", "cached", "table", "set"}
          /\ request[q].items \in Versions \cup {None} /\ request[q].left \in 0..Deadline

\* A client that keeps asking while it is refused is let in again: no counter
\* outlives its minute.  (api.go:69: "Too many requests. Try again in a minute.")
RefusalsEnd == \A c \in Clients : count[c] # None => age[c] <= Minute

\* However requests, edits of the table and expiries interleave, a catalog
\* that is served was the table's own not longer ago than the cache's time to
\* live and one request's deadline.
CatalogIsRecent == lag <= TTL + Deadline
=============================================================================
