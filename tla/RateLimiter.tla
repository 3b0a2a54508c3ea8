---------------------------- MODULE RateLimiter ----------------------------
(***************************************************************************)
(* The per-caller rate limiter of the HTTP transport (ratelimit.go): a     *)
(* fixed-window counter per caller address behind one mutex, called by one *)
(* goroutine per HTTP request.                                             *)
(*                                                                         *)
(* A request is two steps.  Arrive derives the bucket key from the headers *)
(* and reads time.Now(); OpenWindow, CountRequest and Deny are the three   *)
(* ways through rateLimiter.allow, under the mutex.                        *)
(* The clock moves between the two, so a bucket can be judged with an old  *)
(* "now": MaxDelay bounds how old.                                         *)
(*                                                                         *)
(* Time is counted in ticks, TicksPerSecond to the second: Retry-After is  *)
(* truncated to seconds, everything else is compared at full precision.    *)
(***************************************************************************)
EXTENDS Integers, Sequences, FiniteSets

CONSTANTS
  Clients,           (* the addresses of the clients                       *)
  Edges,             (* the addresses of the proxies in front of us        *)
  Blank,             (* a header that is absent or only white space        *)
  Ports,             (* the client ports of a RemoteAddr                   *)
  Procs,             (* the goroutines that may be in the middleware       *)
  Limit,             (* MCP_RATE_LIMIT_PER_MIN: 0 and less mean no limiter *)
  Window,            (* rateWindow, in ticks                               *)
  TicksPerSecond,
  MaxTracked,        (* maxTrackedCallers                                  *)
  MaxDelay,          (* bound: ticks between time.Now() and the lock       *)
  MaxClock,          (* bound: the last tick of the model                  *)
  MaxRequests        (* bound: the requests made in all                    *)

ASSUME AddressAssumption == Blank \notin Clients

ASSUME NumberAssumption ==
  /\ Limit \in Nat \ {0}
  /\ Window \in Nat \ {0}
  /\ TicksPerSecond \in Nat \ {0}
  /\ MaxTracked \in Nat
  /\ MaxDelay \in Nat
  /\ MaxClock \in Nat
  /\ MaxRequests \in Nat

VARIABLES
  clock,             (* the wall clock                                     *)
  seen,              (* the limiter's map: key -> [count, resetAt]         *)
  pending,           (* requests that read the time and wait for the lock  *)
  asked,             (* requests made so far (bounds the model)            *)
  hist               (* history: the instants each client was admitted at  *)

vars == <<clock, seen, pending, asked, hist>>

Bucket == [count : Nat, resetAt : Nat]
Request == [proc : Procs, client : Clients, key : Clients, now : Nat]

(* The map's keys, like those of waiting requests, are addresses of        *)
(* clients, whatever headers the requests came with (callerKey).           *)
TypeOK ==
  /\ clock \in Nat
  /\ \E tracked \in SUBSET Clients : seen \in [tracked -> Bucket]
  /\ pending \in SUBSET Request
  /\ asked \in Nat
  /\ hist \in [Clients -> Seq(Nat)]

-----------------------------------------------------------------------------
(***************************************************************************)
(* callerKey: CF-Connecting-IP first, then the first entry of              *)
(* X-Forwarded-For, then X-Real-IP, then the host of RemoteAddr, which     *)
(* net/http always writes as host and port: the fallback for one that does *)
(* not split (ratelimit.go:122) is left out.                               *)
(***************************************************************************)
FirstForwarded(h) == IF h.xff = <<>> THEN Blank ELSE h.xff[1]

(* Mutants of callerKey: X-Forwarded-For comes first; its first entry is   *)
(* taken even when it is empty.                                            *)
callerKeyForwardedFirst(h) ==
  IF FirstForwarded(h) # Blank THEN FirstForwarded(h)
  ELSE IF h.cf # Blank THEN h.cf
  ELSE IF h.realip # Blank THEN h.realip
  ELSE h.remote.host

callerKeyEvenEmpty(h) ==
  IF h.cf # Blank THEN h.cf
  ELSE IF h.xff # <<>> THEN h.xff[1]
  ELSE IF h.realip # Blank THEN h.realip
  ELSE h.remote.host

callerKey(h) ==
  IF h.cf # Blank THEN h.cf
  ELSE IF FirstForwarded(h) # Blank THEN FirstForwarded(h)
  ELSE IF h.realip # Blank THEN h.realip
  ELSE h.remote.host

(***************************************************************************)
(* The headers a request of client c carries in the deployments the code   *)
(* is written for.  Behind Cloudflare the reverse proxy writes the edge it *)
(* saw, which rotates, into X-Forwarded-For.  A proxy sets X-Forwarded-For *)
(* or X-Real-IP; an X-Forwarded-For whose first entry is empty counts as   *)
(* none.  Without a proxy only RemoteAddr is there.                        *)
(***************************************************************************)
Headers(cf, xff, realip, host) ==
  {[cf |-> cf, xff |-> xff, realip |-> realip,
    remote |-> [host |-> host, port |-> port]] : port \in Ports}

ForwardedBy(c, edge, proxy) ==
  Headers(c, <<edge>>, Blank, proxy) \cup
  Headers(Blank, <<c>>, Blank, proxy) \cup
  Headers(Blank, <<c, edge>>, proxy, proxy) \cup
  Headers(Blank, <<Blank, edge>>, c, proxy) \cup
  Headers(Blank, <<>>, c, proxy) \cup
  Headers(Blank, <<>>, Blank, c)

Forwarded(c) ==
  UNION {ForwardedBy(c, edge, proxy) : edge \in Edges, proxy \in Edges}

-----------------------------------------------------------------------------
(***************************************************************************)
(* rateLimiter.allow, one call of it, for the request r.                   *)
(***************************************************************************)
Expired(b, now) == now > b.resetAt

(* Mutant of Swept: a map over its bound is emptied. *)
SweptClean(now) ==
  IF Cardinality(DOMAIN seen) > MaxTracked THEN [k \in {} |-> seen[k]] ELSE seen

(* The sweep: only when the map is over its bound, only expired buckets. *)
Swept(now) ==
  IF Cardinality(DOMAIN seen) > MaxTracked
  THEN [k \in {j \in DOMAIN seen : ~Expired(seen[j], now)} |-> seen[k]]
  ELSE seen

HasOpenWindow(map, r) ==
  r.key \in DOMAIN map /\ ~Expired(map[r.key], r.now)

(* Go's map assignment: the key is added when it is not there. *)
Assign(map, key, b) ==
  [k \in DOMAIN map \cup {key} |-> IF k = key THEN b ELSE map[k]]

(* Mutant of NewBucket: the request that opens a window is not counted. *)
UncountedBucket(r) == [count |-> 0, resetAt |-> r.now + Window]

NewBucket(r) == [count |-> 1, resetAt |-> r.now + Window]

(* The seconds of the 429's Retry-After, from time.Until at the lock. *)
RetryAfter(b) ==
  LET left == IF b.resetAt > clock
              THEN (b.resetAt - clock) \div TicksPerSecond
              ELSE 0
  IN  IF left < 1 THEN 1 ELSE left

Served(r) == pending' = pending \ {r}

Admit(r) == hist' = [hist EXCEPT ![r.client] = Append(@, clock)]

(* The first request of a window. *)
OpenWindow(r) ==
  /\ ~HasOpenWindow(Swept(r.now), r)
  /\ seen' = Assign(Swept(r.now), r.key, NewBucket(r))
  /\ Served(r)
  /\ Admit(r)
  /\ UNCHANGED <<clock, asked>>

(* Mutant of Incremented: a copy of the bucket is counted up. *)
IncrementedCopy(map, r) == map

(* Mutant of Incremented: every request starts the window anew. *)
IncrementedAndMoved(map, r) ==
  [map EXCEPT ![r.key] = [count |-> @.count + 1, resetAt |-> r.now + Window]]

Incremented(map, r) ==
  [map EXCEPT ![r.key] = [count |-> @.count + 1, resetAt |-> @.resetAt]]

(* A further request of an open window, within the limit. *)
CountRequest(r) ==
  /\ HasOpenWindow(Swept(r.now), r)
  /\ Swept(r.now)[r.key].count + 1 <= Limit
  /\ seen' = Incremented(Swept(r.now), r)
  /\ Served(r)
  /\ Admit(r)
  /\ UNCHANGED <<clock, asked>>

(* Over the limit: counted all the same, answered 429. *)
Deny(r) ==
  /\ HasOpenWindow(Swept(r.now), r)
  /\ Swept(r.now)[r.key].count + 1 > Limit
  /\ seen' = Incremented(Swept(r.now), r)
  /\ Served(r)
  /\ UNCHANGED <<clock, asked, hist>>

(* rateLimitMiddleware: callerKey(req) and time.Now(), before the lock. *)
Arrive(p, c) ==
  /\ \A r \in pending : r.proc # p
  /\ asked < MaxRequests
  /\ \E key \in {callerKey(h) : h \in Forwarded(c)} :
       pending' = pending \cup
         {[proc |-> p, client |-> c, key |-> key, now |-> clock]}
  /\ asked' = asked + 1
  /\ UNCHANGED <<clock, seen, hist>>

Tick ==
  /\ clock < MaxClock
  /\ \A r \in pending : clock - r.now < MaxDelay
  /\ clock' = clock + 1
  /\ UNCHANGED <<seen, pending, asked, hist>>

(* The bounds are used up: no more time, no more requests. *)
Finished ==
  /\ clock = MaxClock
  /\ pending = {}
  /\ asked = MaxRequests
  /\ UNCHANGED vars

Init ==
  /\ clock = 0
  /\ seen = [k \in {} |-> [count |-> 0, resetAt |-> 0]]
  /\ pending = {}
  /\ asked = 0
  /\ hist = [c \in Clients |-> <<>>]

Next ==
  \/ Tick
  \/ \E p \in Procs, c \in Clients : Arrive(p, c)
  \/ \E r \in pending : OpenWindow(r)
  \/ \E r \in pending : CountRequest(r)
  \/ \E r \in pending : Deny(r)
  \/ Finished

Spec == Init /\ [][Next]_vars

-----------------------------------------------------------------------------
(* Request r got its 429 in this step. *)
Denied(r) == r \in pending /\ r \notin pending' /\ hist' = hist

(***************************************************************************)
(* A 429 is the client's own doing: the last Limit of its own admissions   *)
(* lie within one window before the denied request.  Other clients, other  *)
(* goroutines, the sweep and earlier denials (which are counted too) never *)
(* cost anyone a request, and nobody is locked out for longer than one     *)
(* window after the budget was spent (allow, callerKey).                   *)
(***************************************************************************)
SpentOwnBudget(r) ==
  LET h == hist[r.client]
  IN  /\ Len(h) >= Limit
      /\ h[Len(h) - Limit + 1] >= r.now - Window

DenialJustified == [][\A r \in pending : Denied(r) => SpentOwnBudget(r)]_vars

(***************************************************************************)
(* What a fixed window really bounds: of any 2*Limit + 1 admissions of a   *)
(* client in a row, the first and the last are more than a window apart,   *)
(* less the time a request may wait for the lock.  Stale "now"s, the sweep *)
(* and a sweep racing an older request do not widen it (allow).            *)
(***************************************************************************)
SlidingBound ==
  \A c \in Clients : \A i \in 1 .. (Len(hist[c]) - 2 * Limit) :
    hist[c][i + 2 * Limit] - hist[c][i] > Window - MaxDelay

(***************************************************************************)
(* No budget is handed back early: a bucket whose window is open on the    *)
(* wall clock is neither swept, replaced, moved nor counted down, whatever *)
(* "now" the running request carries (allow's sweep and its reset test).   *)
(***************************************************************************)
NoEarlyRefill ==
  [][\A k \in DOMAIN seen : clock <= seen[k].resetAt =>
       /\ k \in DOMAIN seen'
       /\ seen'[k].resetAt = seen[k].resetAt
       /\ seen'[k].count >= seen[k].count]_vars

(***************************************************************************)
(* Waiting helps: a denied client that waits a second longer than its      *)
(* Retry-After finds its window over, however old the instant was that it  *)
(* was opened with, since truncation costs less than that second and being *)
(* denied does not move the end (allow, ratelimit.go:78-83).               *)
(***************************************************************************)
WaitingHelps ==
  [][\A r \in pending : Denied(r) =>
       clock + (RetryAfter(seen[r.key]) + 1) * TicksPerSecond > seen'[r.key].resetAt]_vars

(***************************************************************************)
(* The inductive invariant behind the three properties above.  A pending   *)
(* request carries its own client's key and a "now" at most MaxDelay old.  *)
(***************************************************************************)
RequestsCurrent ==
  \A r \in pending :
    /\ r.key = r.client
    /\ r.now <= clock
    /\ clock <= r.now + MaxDelay

HistoryPast ==
  \A c \in Clients : \A i \in 1 .. Len(hist[c]) : hist[c][i] <= clock

(* The admissions a bucket has given out, and the instant it was opened at. *)
Used(b) == IF b.count < Limit THEN b.count ELSE Limit

OpenedAt(b) == b.resetAt - Window

(***************************************************************************)
(* A bucket accounts for its client's admissions: the latest Used of them  *)
(* are its own, made since its "now"; older ones were made before it was   *)
(* opened, and those older than the Limit before it more than a window     *)
(* (less the delay) before its first.                                      *)
(***************************************************************************)
BucketAccounted(h, b) ==
  LET before == Len(h) - Used(b)
  IN  /\ b.count >= 1
      /\ before >= 0
      /\ \A i \in before + 1 .. Len(h) : h[i] >= OpenedAt(b)
      /\ \A i \in 1 .. before : h[i] <= OpenedAt(b) + MaxDelay
      /\ \A i \in 1 .. before - Limit : h[i] < h[before + 1] - Window + MaxDelay

BucketsAccounted ==
  \A k \in DOMAIN seen : BucketAccounted(hist[k], seen[k])

(* A client without a bucket spent at most its last Limit admissions late. *)
UntrackedSpaced ==
  \A c \in Clients \ DOMAIN seen : \A i \in 1 .. Len(hist[c]) - Limit :
    hist[c][i] < clock - Window + MaxDelay

IInv ==
  /\ TypeOK
  /\ RequestsCurrent
  /\ HistoryPast
  /\ BucketsAccounted
  /\ UntrackedSpaced
  /\ SlidingBound

-----------------------------------------------------------------------------
(***************************************************************************)
(* ratelimit.go:53, "maxTrackedCallers bounds the map so a caller cycling  *)
(* source addresses cannot grow it without limit": the map never holds     *)
(* more than one key above the bound (the sweep runs before the insert).   *)
(***************************************************************************)
MapBounded == Cardinality(DOMAIN seen) <= MaxTracked + 1

=============================================================================
