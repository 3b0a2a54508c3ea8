------------------------- MODULE RateLimiterProofs -------------------------
(***************************************************************************)
(* The limiter's properties for any number of clients and goroutines, any  *)
(* Limit >= 1, any window, any bound on the delay at the lock.             *)
(***************************************************************************)
EXTENDS RateLimiter, TLAPS

(***************************************************************************)
(* In every deployment the code is written for, the bucket key is the      *)
(* address of the client that made the request (callerKey).                *)
(***************************************************************************)
LEMMA KeyIsClient ==
  ASSUME NEW c \in Clients, NEW h \in Forwarded(c)
  PROVE  callerKey(h) = c
<1>0. PICK e \in Edges, f \in Edges : h \in ForwardedBy(c, e, f)
  BY DEF Forwarded
<1>1. \/ h \in Headers(c, <<e>>, Blank, f)
      \/ h \in Headers(Blank, <<c>>, Blank, f)
      \/ h \in Headers(Blank, <<c, e>>, f, f)
      \/ h \in Headers(Blank, <<Blank, e>>, c, f)
      \/ h \in Headers(Blank, <<>>, c, f)
      \/ h \in Headers(Blank, <<>>, Blank, c)
  BY <1>0 DEF ForwardedBy
<1>2. c # Blank
  BY AddressAssumption
<1>3. ASSUME NEW cf, NEW xff, NEW realip, NEW host,
             h \in Headers(cf, xff, realip, host)
      PROVE  /\ h.cf = cf /\ h.xff = xff /\ h.realip = realip
             /\ h.remote.host = host
  BY <1>3 DEF Headers
<1>4. CASE h \in Headers(c, <<e>>, Blank, f)
  BY <1>2, <1>3, <1>4 DEF callerKey
<1>5. CASE h \in Headers(Blank, <<c>>, Blank, f)
  <2>1. h.cf = Blank /\ h.xff = <<c>>
    BY <1>3, <1>5
  <2>2. FirstForwarded(h) = c
    BY <2>1 DEF FirstForwarded
  <2> QED BY <1>2, <2>1, <2>2 DEF callerKey
<1>6. CASE h \in Headers(Blank, <<c, e>>, f, f)
  <2>1. h.cf = Blank /\ h.xff = <<c, e>>
    BY <1>3, <1>6
  <2>2. FirstForwarded(h) = c
    BY <2>1 DEF FirstForwarded
  <2> QED BY <1>2, <2>1, <2>2 DEF callerKey
<1>7. CASE h \in Headers(Blank, <<Blank, e>>, c, f)
  <2>1. h.cf = Blank /\ h.xff = <<Blank, e>> /\ h.realip = c
    BY <1>3, <1>7
  <2>2. FirstForwarded(h) = Blank
    BY <2>1 DEF FirstForwarded
  <2> QED BY <1>2, <2>1, <2>2 DEF callerKey
<1>8. CASE h \in Headers(Blank, <<>>, c, f)
  <2>1. h.cf = Blank /\ FirstForwarded(h) = Blank /\ h.realip = c
    BY <1>3, <1>8 DEF FirstForwarded
  <2> QED BY <1>2, <2>1 DEF callerKey
<1>9. CASE h \in Headers(Blank, <<>>, Blank, c)
  <2>1. /\ h.cf = Blank /\ FirstForwarded(h) = Blank /\ h.realip = Blank
        /\ h.remote.host = c
    BY <1>3, <1>9 DEF FirstForwarded
  <2> QED BY <2>1 DEF callerKey
<1> QED BY <1>1, <1>4, <1>5, <1>6, <1>7, <1>8, <1>9

(***************************************************************************)
(* What the map is after the sweep: some expired buckets fewer, the rest   *)
(* untouched.                                                              *)
(***************************************************************************)
LEMMA SweptMap ==
  ASSUME TypeOK, NEW now \in Nat
  PROVE  /\ Swept(now) \in [DOMAIN Swept(now) -> Bucket]
         /\ DOMAIN Swept(now) \subseteq DOMAIN seen
         /\ DOMAIN seen \subseteq Clients
         /\ \A k \in DOMAIN Swept(now) : Swept(now)[k] = seen[k]
         /\ \A k \in DOMAIN seen \ DOMAIN Swept(now) : now > seen[k].resetAt
  BY DEF TypeOK, Swept, Expired

(***************************************************************************)
(* The effect of admitting a request on the histories.                     *)
(***************************************************************************)
LEMMA AdmitHistory ==
  ASSUME TypeOK, NEW r \in pending, Admit(r)
  PROVE  /\ r.client \in Clients /\ r.key \in Clients
         /\ r.now \in Nat /\ r.proc \in Procs
         /\ hist' \in [Clients -> Seq(Nat)]
         /\ Len(hist'[r.client]) = Len(hist[r.client]) + 1
         /\ Len(hist[r.client]) \in Nat
         /\ hist'[r.client][Len(hist[r.client]) + 1] = clock
         /\ \A i \in 1 .. Len(hist[r.client]) :
              /\ hist'[r.client][i] = hist[r.client][i]
              /\ hist[r.client][i] \in Nat
         /\ \A c \in Clients \ {r.client} : hist'[c] = hist[c]
<1>1. r \in Request
  BY DEF TypeOK
<1>2. hist[r.client] \in Seq(Nat) /\ clock \in Nat
  BY <1>1 DEF TypeOK, Request
<1>3. hist'[r.client] = Append(hist[r.client], clock)
  BY <1>1 DEF TypeOK, Admit, Request
<1>4. \A c \in Clients \ {r.client} : hist'[c] = hist[c]
  BY <1>1 DEF TypeOK, Admit, Request
<1>5. hist' \in [Clients -> Seq(Nat)]
  BY <1>1, <1>2 DEF TypeOK, Admit, Request
<1> QED BY <1>1, <1>2, <1>3, <1>4, <1>5 DEF Request

(***************************************************************************)
(* Types.                                                                  *)
(***************************************************************************)
LEMMA TypeStep == TypeOK /\ [Next]_vars => TypeOK'
<1> SUFFICES ASSUME TypeOK, [Next]_vars
             PROVE  TypeOK'
  OBVIOUS
<1> USE NumberAssumption
<1>1. CASE UNCHANGED vars
  BY <1>1 DEF TypeOK, vars
<1>2. CASE Tick
  BY <1>2 DEF Tick, TypeOK
<1>3. ASSUME NEW p \in Procs, NEW c \in Clients, Arrive(p, c)
      PROVE  TypeOK'
  <2>1. PICK key \in {callerKey(h) : h \in Forwarded(c)} :
          pending' = pending \cup
            {[proc |-> p, client |-> c, key |-> key, now |-> clock]}
    BY <1>3 DEF Arrive
  <2>2. key = c
    BY KeyIsClient
  <2>3. pending' \in SUBSET Request
    BY <2>1, <2>2 DEF TypeOK, Request
  <2> QED BY <1>3, <2>3 DEF Arrive, TypeOK
<1>4. ASSUME NEW r \in pending, OpenWindow(r)
      PROVE  TypeOK'
  <2>1. r.key \in Clients /\ r.now \in Nat /\ hist' \in [Clients -> Seq(Nat)]
    BY <1>4, AdmitHistory DEF OpenWindow
  <2>2. /\ Swept(r.now) \in [DOMAIN Swept(r.now) -> Bucket]
        /\ DOMAIN Swept(r.now) \subseteq Clients
    BY <2>1, SweptMap
  <2>3. NewBucket(r) \in Bucket
    BY <2>1 DEF NewBucket, Bucket
  <2>4. seen' \in [DOMAIN Swept(r.now) \cup {r.key} -> Bucket]
    BY <1>4, <2>2, <2>3 DEF OpenWindow, Assign
  <2>5. DOMAIN Swept(r.now) \cup {r.key} \in SUBSET Clients
    BY <2>1, <2>2
  <2> QED BY <1>4, <2>1, <2>4, <2>5 DEF OpenWindow, Served, TypeOK
<1>5. ASSUME NEW r \in pending,
             HasOpenWindow(Swept(r.now), r), seen' = Incremented(Swept(r.now), r)
      PROVE  \E tracked \in SUBSET Clients : seen' \in [tracked -> Bucket]
  <2>1. r.now \in Nat
    BY DEF TypeOK, Request
  <2>2. /\ Swept(r.now) \in [DOMAIN Swept(r.now) -> Bucket]
        /\ DOMAIN Swept(r.now) \in SUBSET Clients
        /\ r.key \in DOMAIN Swept(r.now)
    BY <1>5, <2>1, SweptMap DEF HasOpenWindow
  <2>3. seen' \in [DOMAIN Swept(r.now) -> Bucket]
    BY <1>5, <2>2 DEF Incremented, Bucket
  <2> QED BY <2>2, <2>3
<1>6. ASSUME NEW r \in pending, CountRequest(r)
      PROVE  TypeOK'
  BY <1>5, <1>6, AdmitHistory DEF CountRequest, Served, TypeOK
<1>7. ASSUME NEW r \in pending, Deny(r)
      PROVE  TypeOK'
  BY <1>5, <1>7 DEF Deny, Served, TypeOK
<1>8. CASE Finished
  BY <1>8 DEF Finished, vars, TypeOK
<1> QED BY <1>1, <1>2, <1>3, <1>4, <1>6, <1>7, <1>8 DEF Next

(***************************************************************************)
(* A new limiter has an empty map (newRateLimiter).                        *)
(***************************************************************************)
LEMMA TypeInit == Init => TypeOK
<1>1. ASSUME Init PROVE seen \in [{} -> Bucket]
  BY <1>1 DEF Init
<1> QED BY <1>1 DEF Init, TypeOK

(***************************************************************************)
(* The limiter's map only ever tracks clients, under their own address.    *)
(***************************************************************************)
THEOREM TypeCorrect == Spec => []TypeOK
  BY TypeInit, TypeStep, PTL DEF Spec

(***************************************************************************)
(* Serving a request: the parts of the invariant every outcome preserves.  *)
(***************************************************************************)
LEMMA ServedRequests ==
  ASSUME RequestsCurrent, NEW r \in pending, Served(r), clock' = clock
  PROVE  RequestsCurrent'
  BY DEF RequestsCurrent, Served

(***************************************************************************)
(* An admission records the request's instant, which is not after the clock: *)
(* the histories stay in the past.                                         *)
(***************************************************************************)
LEMMA AdmitPast ==
  ASSUME TypeOK, HistoryPast, NEW r \in pending, Admit(r), clock' = clock
  PROVE  HistoryPast'
<1> SUFFICES ASSUME NEW c \in Clients, NEW i \in 1 .. Len(hist'[c])
             PROVE  hist'[c][i] <= clock
  BY DEF HistoryPast
<1>1. clock \in Nat
  BY DEF TypeOK
<1>2. CASE c = r.client
  <2>1. CASE i = Len(hist[c]) + 1
    BY <1>1, <1>2, <2>1, AdmitHistory
  <2>2. CASE i # Len(hist[c]) + 1
    <3>1. i \in 1 .. Len(hist[c])
      BY <1>2, <2>2, AdmitHistory
    <3> QED BY <1>2, <3>1, AdmitHistory DEF HistoryPast
  <2> QED BY <2>1, <2>2
<1>3. CASE c # r.client
  BY <1>3, AdmitHistory DEF HistoryPast
<1> QED BY <1>2, <1>3

(***************************************************************************)
(* A sweep leaves the untracked clients spaced: what it drops is a bucket  *)
(* whose window is over.                                                   *)
(***************************************************************************)
LEMMA SweptSpaced ==
  ASSUME IInv, NEW r \in pending,
         NEW c \in Clients, ~(c \in DOMAIN Swept(r.now) /\ ~Expired(Swept(r.now)[c], r.now)),
         NEW i \in 1 .. Len(hist[c]) - Limit
  PROVE  hist[c][i] < clock - Window + MaxDelay
<1> USE NumberAssumption
<1>1. r.now \in Nat /\ r.now <= clock /\ clock \in Nat
  BY DEF IInv, TypeOK, Request, RequestsCurrent
<1>2. CASE c \notin DOMAIN seen
  BY <1>2 DEF IInv, UntrackedSpaced
<1>3. CASE c \in DOMAIN seen
  <2>1. r.now > seen[c].resetAt
    BY <1>1, <1>3, SweptMap DEF IInv, Expired
  <2>2. seen[c] \in Bucket /\ hist[c] \in Seq(Nat)
    BY <1>3 DEF IInv, TypeOK
  <2>3. BucketAccounted(hist[c], seen[c])
    BY <1>3 DEF IInv, BucketsAccounted
  <2>4. Used(seen[c]) \in 1 .. Limit
    BY <2>2, <2>3 DEF Used, BucketAccounted, Bucket
  <2>5. i \in 1 .. Len(hist[c]) - Used(seen[c]) /\ hist[c][i] \in Nat
    BY <2>2, <2>4
  <2>6. hist[c][i] <= OpenedAt(seen[c]) + MaxDelay
    BY <2>3, <2>5 DEF BucketAccounted
  <2>7. /\ seen[c].resetAt \in Nat
        /\ hist[c][i] <= seen[c].resetAt - Window + MaxDelay
    BY <2>2, <2>6 DEF OpenedAt, Bucket
  <2>8. Window \in Nat /\ MaxDelay \in Nat
    OBVIOUS
  <2>9. hist[c][i] \in Nat
    BY <2>5
  <2> QED BY ONLY <1>1, <2>1, <2>7, <2>8, <2>9
<1> QED BY <1>2, <1>3

(***************************************************************************)
(* A bucket's account holds as long as its opening, its spent budget and   *)
(* its client's history stay what they are.                                *)
(***************************************************************************)
LEMMA AccountKept ==
  ASSUME NEW h, NEW b \in Bucket, NEW d \in Bucket, BucketAccounted(h, b),
         d.resetAt = b.resetAt, d.count >= b.count, Used(d) = Used(b)
  PROVE  BucketAccounted(h, d)
  BY DEF BucketAccounted, OpenedAt, Bucket

(***************************************************************************)
(* SlidingBound survives an admission that comes more than a window, less  *)
(* the delay, after everything older than the latest 2*Limit - 1.          *)
(***************************************************************************)
LEMMA AdmitBound ==
  ASSUME IInv, NEW r \in pending, Admit(r),
         \A i \in 1 .. Len(hist[r.client]) + 1 - 2 * Limit :
           hist[r.client][i] < clock - Window + MaxDelay
  PROVE  SlidingBound'
<1> USE NumberAssumption
<1> SUFFICES ASSUME NEW c \in Clients, NEW i \in 1 .. Len(hist'[c]) - 2 * Limit
             PROVE  hist'[c][i + 2 * Limit] - hist'[c][i] > Window - MaxDelay
  BY DEF SlidingBound
<1>1. TypeOK /\ SlidingBound
  BY DEF IInv
<1>2. CASE c # r.client
  BY <1>1, <1>2, AdmitHistory DEF SlidingBound
<1>3. CASE c = r.client
  <2> DEFINE n == Len(hist[c])
  <2>1. n \in Nat /\ Len(hist'[c]) = n + 1 /\ clock \in Nat
    BY <1>1, <1>3, AdmitHistory DEF TypeOK
  <2>2. \A j \in 1 .. n : hist'[c][j] = hist[c][j] /\ hist[c][j] \in Nat
    BY <1>1, <1>3, AdmitHistory
  <2>3. hist'[c][n + 1] = clock
    BY <1>1, <1>3, AdmitHistory
  <2>4. CASE i + 2 * Limit = n + 1
    <3>1. i \in 1 .. n /\ i \in 1 .. n + 1 - 2 * Limit
      BY <2>1, <2>4
    <3>2. hist[c][i] < clock - Window + MaxDelay
      BY <1>3, <3>1
    <3>3. hist'[c][i + 2 * Limit] = clock /\ hist'[c][i] = hist[c][i] /\ hist[c][i] \in Nat
      BY <2>2, <2>3, <2>4, <3>1
    <3> QED BY <2>1, <3>2, <3>3
  <2>5. CASE i + 2 * Limit # n + 1
    <3>1. i \in 1 .. n - 2 * Limit /\ i \in 1 .. n /\ i + 2 * Limit \in 1 .. n
      BY <2>1, <2>5
    <3>2. hist[c][i + 2 * Limit] - hist[c][i] > Window - MaxDelay
      BY <1>1, <3>1 DEF SlidingBound
    <3> QED BY <2>2, <3>1, <3>2
  <2> QED BY <2>4, <2>5
<1> QED BY <1>2, <1>3

(***************************************************************************)
(* One lemma per action: each step keeps the inductive invariant.          *)
(***************************************************************************)
LEMMA OpenWindowStep ==
  ASSUME IInv, NEW r \in pending, OpenWindow(r)
  PROVE  IInv'
<1> USE NumberAssumption
<1> DEFINE c == r.client
           h == hist[c]
           n == Len(h)
           map == Swept(r.now)
<1>1. TypeOK /\ Admit(r) /\ Served(r) /\ clock' = clock /\ TypeOK'
  BY TypeStep DEF OpenWindow, IInv, Next
<1>2. r.now \in Nat /\ r.now <= clock /\ clock <= r.now + MaxDelay /\ clock \in Nat
  BY DEF IInv, TypeOK, Request, RequestsCurrent
<1>3. c \in Clients /\ r.key = c
  BY DEF IInv, TypeOK, Request, RequestsCurrent
<1>4. /\ n \in Nat /\ Len(hist'[c]) = n + 1 /\ hist'[c][n + 1] = clock
      /\ \A i \in 1 .. n : hist'[c][i] = h[i] /\ h[i] \in Nat
      /\ \A d \in Clients \ {c} : hist'[d] = hist[d]
  BY <1>1, AdmitHistory
<1>5. /\ DOMAIN map \subseteq DOMAIN seen
      /\ DOMAIN seen \subseteq Clients
      /\ \A k \in DOMAIN map : map[k] = seen[k]
  BY <1>1, <1>2, SweptMap
<1>6. ~(c \in DOMAIN map /\ ~Expired(map[c], r.now))
  BY <1>3 DEF OpenWindow, HasOpenWindow
<1>7. \A i \in 1 .. n - Limit : h[i] < clock - Window + MaxDelay
  BY <1>3, <1>6, SweptSpaced
<1>8. /\ DOMAIN seen' = DOMAIN map \cup {c}
      /\ seen'[c] = NewBucket(r)
      /\ \A k \in DOMAIN map \ {c} : seen'[k] = seen[k]
  BY <1>3, <1>5 DEF OpenWindow, Assign
<1>9. RequestsCurrent'
  BY <1>1, ServedRequests DEF IInv
<1>10. HistoryPast'
  BY <1>1, AdmitPast DEF IInv
<1>11. BucketsAccounted'
  <2> SUFFICES ASSUME NEW k \in DOMAIN seen'
               PROVE  BucketAccounted(hist'[k], seen'[k])
    BY DEF BucketsAccounted
  <2>1. CASE k = c
    <3>1. /\ seen'[k].count = 1 /\ Used(seen'[k]) = 1
          /\ OpenedAt(seen'[k]) = r.now
      BY <1>2, <1>8, <2>1 DEF NewBucket, Used, OpenedAt
    <3>2. \A i \in 1 .. n : h[i] <= r.now + MaxDelay
      BY <1>2, <1>3, <1>4 DEF IInv, HistoryPast
    <3>3. \A i \in n + 1 .. n + 1 : hist'[k][i] >= r.now
      BY <1>2, <1>4, <2>1
    <3>4. \A i \in 1 .. n : hist'[k][i] <= r.now + MaxDelay
      BY <1>4, <2>1, <3>2
    <3>5. \A i \in 1 .. n - Limit : hist'[k][i] < hist'[k][n + 1] - Window + MaxDelay
      BY <1>4, <1>7, <2>1
    <3>6. Len(hist'[k]) - Used(seen'[k]) = n /\ Len(hist'[k]) = n + 1
      BY <1>4, <2>1, <3>1
    <3> QED BY <1>4, <3>1, <3>3, <3>4, <3>5, <3>6 DEF BucketAccounted
  <2>2. CASE k # c
    BY <1>4, <1>5, <1>8, <2>2 DEF IInv, BucketsAccounted
  <2> QED BY <2>1, <2>2
<1>12. UntrackedSpaced'
  <2> SUFFICES ASSUME NEW d \in Clients \ DOMAIN seen', NEW i \in 1 .. Len(hist'[d]) - Limit
               PROVE  hist'[d][i] < clock - Window + MaxDelay
    BY <1>1 DEF UntrackedSpaced
  <2>1. d # c /\ d \notin DOMAIN map /\ hist'[d] = hist[d]
    BY <1>4, <1>8
  <2> QED BY <2>1, SweptSpaced
<1>13. SlidingBound'
  <2>1. \A i \in 1 .. n + 1 - 2 * Limit : h[i] < clock - Window + MaxDelay
    BY <1>4, <1>7
  <2> QED BY <1>1, <2>1, AdmitBound
<1> QED BY <1>1, <1>9, <1>10, <1>11, <1>12, <1>13 DEF IInv

(***************************************************************************)
(* What a request of an open window does to the map: its own bucket counts *)
(* one more, every other bucket that survives the sweep is untouched.      *)
(***************************************************************************)
LEMMA IncrementedMap ==
  ASSUME TypeOK, RequestsCurrent, NEW r \in pending,
         HasOpenWindow(Swept(r.now), r), seen' = Incremented(Swept(r.now), r)
  PROVE  /\ r.client \in Clients /\ r.key = r.client
         /\ DOMAIN seen' = DOMAIN Swept(r.now)
         /\ DOMAIN seen' \subseteq DOMAIN seen
         /\ r.client \in DOMAIN seen'
         /\ seen[r.client] \in Bucket
         /\ Swept(r.now)[r.client] = seen[r.client]
         /\ ~Expired(seen[r.client], r.now)
         /\ seen'[r.client] = [count |-> seen[r.client].count + 1,
                                resetAt |-> seen[r.client].resetAt]
         /\ \A k \in DOMAIN seen' \ {r.client} : seen'[k] = seen[k]
<1>1. r.client \in Clients /\ r.key = r.client /\ r.now \in Nat
  BY DEF TypeOK, Request, RequestsCurrent
<1>2. /\ DOMAIN Swept(r.now) \subseteq DOMAIN seen
      /\ \A k \in DOMAIN Swept(r.now) : Swept(r.now)[k] = seen[k]
  BY <1>1, SweptMap
<1>3. r.client \in DOMAIN Swept(r.now) /\ ~Expired(seen[r.client], r.now)
  BY <1>1, <1>2 DEF HasOpenWindow
<1>4. seen[r.client] \in Bucket
  BY <1>2, <1>3 DEF TypeOK
<1>5. /\ DOMAIN seen' = DOMAIN Swept(r.now)
      /\ \A k \in DOMAIN seen' \ {r.client} : seen'[k] = seen[k]
      /\ seen'[r.client] = [count |-> seen[r.client].count + 1,
                             resetAt |-> seen[r.client].resetAt]
  BY <1>1, <1>2, <1>3 DEF Incremented
<1> QED BY <1>1, <1>2, <1>3, <1>4, <1>5

(***************************************************************************)
(* A bucket within its limit stays accounted for when it admits one more,  *)
(* and that admission is far from everything older than its predecessor's. *)
(***************************************************************************)
LEMMA AccountExtended ==
  ASSUME NEW h \in Seq(Nat), NEW t \in Nat, NEW b \in Bucket, NEW d \in Bucket,
         BucketAccounted(h, b), b.count + 1 <= Limit,
         d.count = b.count + 1, d.resetAt = b.resetAt,
         \A i \in 1 .. Len(h) : h[i] <= t
  PROVE  /\ BucketAccounted(Append(h, t), d)
         /\ \A i \in 1 .. Len(h) + 1 - 2 * Limit : h[i] < t - Window + MaxDelay
<1> USE NumberAssumption
<1>1. PICK n \in Nat, u \in Nat, o \in Int, g \in Seq(Nat) :
        n = Len(h) /\ u = b.count /\ o = OpenedAt(b) /\ g = Append(h, t)
  <2>1. Len(h) \in Nat /\ Append(h, t) \in Seq(Nat)
    OBVIOUS
  <2>2. b.count \in Nat /\ OpenedAt(b) \in Int
    BY DEF Bucket, OpenedAt
  <2> QED BY <2>1, <2>2
<1>2. Used(b) = u /\ Used(d) = u + 1 /\ OpenedAt(d) = o /\ d.count = u + 1
  BY <1>1 DEF Used, OpenedAt, Bucket
<1>3. /\ Len(g) = n + 1 /\ g[n + 1] = t
      /\ \A i \in 1 .. n : g[i] = h[i] /\ h[i] \in Nat /\ h[i] <= t
  BY <1>1
<1>4. PICK m \in Int : m = n - u
  BY <1>1
<1>5. /\ u >= 1 /\ m >= 0 /\ u + 1 <= Limit
      /\ \A i \in m + 1 .. n : h[i] >= o
      /\ \A i \in 1 .. m : h[i] <= o + MaxDelay
      /\ \A i \in 1 .. m - Limit : h[i] < h[m + 1] - Window + MaxDelay
  BY <1>1, <1>2, <1>4 DEF BucketAccounted
<1>6. m + 1 \in m + 1 .. n /\ m + 1 \in 1 .. n
  BY <1>4, <1>5
<1>7. h[m + 1] \in Nat /\ h[m + 1] <= t /\ o <= t /\ g[m + 1] = h[m + 1]
  BY <1>1, <1>3, <1>5, <1>6
<1>8. BucketAccounted(g, d)
  <2>1. Len(g) - Used(d) = m
    BY <1>2, <1>3, <1>4
  <2>2. \A i \in m + 1 .. n + 1 : g[i] >= o
    <3> SUFFICES ASSUME NEW i \in m + 1 .. n + 1 PROVE g[i] >= o
      OBVIOUS
    <3>1. CASE i = n + 1
      BY <1>3, <1>7, <3>1
    <3>2. CASE i # n + 1
      <4>1. i \in m + 1 .. n /\ i \in 1 .. n
        BY <1>4, <1>5, <3>2
      <4> QED BY <1>3, <1>5, <4>1
    <3> QED BY <3>1, <3>2
  <2>3. \A i \in 1 .. m : i \in 1 .. n
    BY <1>4
  <2>4. \A i \in 1 .. m : g[i] <= o + MaxDelay
    BY <1>3, <1>5, <2>3
  <2>5. \A i \in 1 .. m - Limit : i \in 1 .. n
    BY <1>4
  <2>6. \A i \in 1 .. m - Limit : g[i] < g[m + 1] - Window + MaxDelay
    BY <1>3, <1>5, <1>7, <2>5
  <2> QED BY <1>2, <1>3, <1>5, <2>1, <2>2, <2>4, <2>6 DEF BucketAccounted
<1>9. ASSUME NEW i \in 1 .. n + 1 - 2 * Limit
      PROVE  h[i] < t - Window + MaxDelay
  <2>1. i \in 1 .. m - Limit /\ i \in 1 .. n
    BY <1>4, <1>5
  <2>2. h[i] < h[m + 1] - Window + MaxDelay /\ h[i] \in Nat
    BY <1>3, <1>5, <2>1
  <2> QED BY <1>7, <2>2
<1> QED BY <1>1, <1>8, <1>9

(***************************************************************************)
(* A request counted in its open window and admitted (allow, the branch that *)
(* increments and returns true).                                           *)
(***************************************************************************)
LEMMA CountRequestStep ==
  ASSUME IInv, NEW r \in pending, CountRequest(r)
  PROVE  IInv'
<1> USE NumberAssumption
<1> DEFINE c == r.client
<1>1. TypeOK /\ Admit(r) /\ Served(r) /\ clock' = clock /\ TypeOK'
  BY TypeStep DEF CountRequest, IInv, Next
<1>2. clock \in Nat /\ DOMAIN seen \subseteq Clients
  BY <1>1 DEF TypeOK
<1>3. /\ c \in Clients /\ DOMAIN seen' = DOMAIN Swept(r.now)
      /\ DOMAIN seen' \subseteq DOMAIN seen
      /\ c \in DOMAIN seen' /\ seen[c] \in Bucket
      /\ seen[c].count + 1 <= Limit
      /\ seen'[c] = [count |-> seen[c].count + 1, resetAt |-> seen[c].resetAt]
      /\ \A k \in DOMAIN seen' \ {c} : seen'[k] = seen[k]
  BY IncrementedMap DEF CountRequest, IInv
<1>4. /\ hist[c] \in Seq(Nat) /\ hist'[c] = Append(hist[c], clock)
      /\ \A d \in Clients \ {c} : hist'[d] = hist[d]
  BY <1>1, <1>3 DEF TypeOK, Admit
<1>5. /\ seen'[c] \in Bucket
      /\ seen'[c].count = seen[c].count + 1 /\ seen'[c].resetAt = seen[c].resetAt
  BY <1>3 DEF Bucket
<1>6. BucketAccounted(hist[c], seen[c]) /\ \A i \in 1 .. Len(hist[c]) : hist[c][i] <= clock
  BY <1>3 DEF IInv, BucketsAccounted, HistoryPast
<1>7. /\ BucketAccounted(hist'[c], seen'[c])
      /\ \A i \in 1 .. Len(hist[c]) + 1 - 2 * Limit :
           hist[c][i] < clock - Window + MaxDelay
  BY <1>2, <1>3, <1>4, <1>5, <1>6, AccountExtended
<1>8. RequestsCurrent'
  BY <1>1, ServedRequests DEF IInv
<1>9. HistoryPast'
  BY <1>1, AdmitPast DEF IInv
<1>10. BucketsAccounted'
  <2> SUFFICES ASSUME NEW k \in DOMAIN seen', k # c
               PROVE  BucketAccounted(hist'[k], seen'[k])
    BY <1>7 DEF BucketsAccounted
  <2> QED BY <1>2, <1>3, <1>4 DEF IInv, BucketsAccounted
<1>11. UntrackedSpaced'
  <2> SUFFICES ASSUME NEW d \in Clients \ DOMAIN seen', NEW i \in 1 .. Len(hist'[d]) - Limit
               PROVE  hist'[d][i] < clock - Window + MaxDelay
    BY <1>1 DEF UntrackedSpaced
  <2>1. d \notin DOMAIN Swept(r.now) /\ hist'[d] = hist[d]
    BY <1>3, <1>4
  <2> QED BY <2>1, SweptSpaced
<1>12. SlidingBound'
  BY <1>1, <1>7, AdmitBound
<1> QED BY <1>1, <1>8, <1>9, <1>10, <1>11, <1>12 DEF IInv

(***************************************************************************)
(* A request counted in its open window and denied: the count grows past the *)
(* limit, the budget it stands for does not.                               *)
(***************************************************************************)
LEMMA DenyStep ==
  ASSUME IInv, NEW r \in pending, Deny(r)
  PROVE  IInv'
<1> USE NumberAssumption
<1> DEFINE c == r.client
<1>1. TypeOK /\ Served(r) /\ clock' = clock /\ hist' = hist /\ TypeOK'
  BY TypeStep DEF Deny, IInv, Next
<1>2. /\ c \in Clients /\ DOMAIN seen' = DOMAIN Swept(r.now)
      /\ DOMAIN seen' \subseteq DOMAIN seen
      /\ c \in DOMAIN seen' /\ seen[c] \in Bucket
      /\ seen[c].count + 1 > Limit
      /\ seen'[c] = [count |-> seen[c].count + 1, resetAt |-> seen[c].resetAt]
      /\ \A k \in DOMAIN seen' \ {c} : seen'[k] = seen[k]
  BY IncrementedMap DEF Deny, IInv
<1>3. RequestsCurrent'
  BY <1>1, ServedRequests DEF IInv
<1>4. HistoryPast' /\ SlidingBound'
  BY <1>1 DEF IInv, HistoryPast, SlidingBound
<1>5. BucketsAccounted'
  <2> SUFFICES ASSUME NEW k \in DOMAIN seen'
               PROVE  BucketAccounted(hist[k], seen'[k])
    BY <1>1 DEF BucketsAccounted
  <2>1. BucketAccounted(hist[k], seen[k])
    BY <1>2 DEF IInv, BucketsAccounted
  <2>2. CASE k = c
    <3>1. seen'[c] \in Bucket /\ Used(seen'[c]) = Used(seen[c])
          /\ seen'[c].count >= seen[c].count /\ seen'[c].resetAt = seen[c].resetAt
      BY <1>2 DEF Bucket, Used
    <3> QED BY <1>2, <2>1, <2>2, <3>1, AccountKept
  <2>3. CASE k # c
    BY <1>2, <2>1, <2>3
  <2> QED BY <2>2, <2>3
<1>6. UntrackedSpaced'
  <2> SUFFICES ASSUME NEW d \in Clients \ DOMAIN seen', NEW i \in 1 .. Len(hist[d]) - Limit
               PROVE  hist[d][i] < clock - Window + MaxDelay
    BY <1>1 DEF UntrackedSpaced
  <2> QED BY <1>2, SweptSpaced
<1> QED BY <1>1, <1>3, <1>4, <1>5, <1>6 DEF IInv

(***************************************************************************)
(* A request arrives at the limiter with the clock as its instant.         *)
(***************************************************************************)
LEMMA ArriveStep ==
  ASSUME IInv, NEW p \in Procs, NEW c \in Clients, Arrive(p, c)
  PROVE  IInv'
<1> USE NumberAssumption
<1>1. TypeOK' /\ clock \in Nat /\ UNCHANGED <<clock, seen, hist>>
  BY TypeStep DEF Arrive, IInv, TypeOK, Next
<1>2. RequestsCurrent'
  <2>1. PICK key \in {callerKey(h) : h \in Forwarded(c)} :
          pending' = pending \cup
            {[proc |-> p, client |-> c, key |-> key, now |-> clock]}
    BY DEF Arrive
  <2>2. key = c
    BY KeyIsClient
  <2> QED BY <1>1, <2>1, <2>2 DEF IInv, RequestsCurrent
<1> QED BY <1>1, <1>2
        DEF IInv, HistoryPast, BucketsAccounted, UntrackedSpaced, SlidingBound

(***************************************************************************)
(* The clock moves, but never further than MaxDelay from a waiting request. *)
(***************************************************************************)
LEMMA TickStep ==
  ASSUME IInv, Tick
  PROVE  IInv'
<1> USE NumberAssumption
<1>1. TypeOK' /\ clock \in Nat /\ clock' = clock + 1
      /\ UNCHANGED <<seen, pending, hist>>
  BY TypeStep DEF Tick, IInv, TypeOK, Next
<1>2. RequestsCurrent'
  BY <1>1 DEF IInv, TypeOK, Request, RequestsCurrent, Tick
<1>3. HistoryPast'
  <2> SUFFICES ASSUME NEW c \in Clients, NEW i \in 1 .. Len(hist[c])
               PROVE  hist[c][i] <= clock + 1
    BY <1>1 DEF HistoryPast
  <2>1. hist[c][i] \in Nat /\ hist[c][i] <= clock
    BY DEF IInv, TypeOK, HistoryPast
  <2> QED BY <1>1, <2>1
<1>4. UntrackedSpaced'
  <2> SUFFICES ASSUME NEW c \in Clients \ DOMAIN seen, NEW i \in 1 .. Len(hist[c]) - Limit
               PROVE  hist[c][i] < clock + 1 - Window + MaxDelay
    BY <1>1 DEF UntrackedSpaced
  <2>1. hist[c] \in Seq(Nat) /\ i \in 1 .. Len(hist[c])
    BY DEF IInv, TypeOK
  <2>2. hist[c][i] \in Nat /\ hist[c][i] < clock - Window + MaxDelay
    BY <2>1 DEF IInv, UntrackedSpaced
  <2> QED BY <1>1, <2>2
<1> QED BY <1>1, <1>2, <1>3, <1>4
        DEF IInv, BucketsAccounted, SlidingBound

(***************************************************************************)
(* A system that has served everything stays as it is.                     *)
(***************************************************************************)
LEMMA Finishing ==
  ASSUME IInv, UNCHANGED vars \/ Finished
  PROVE  IInv'
<1>1. UNCHANGED <<clock, seen, pending, asked, hist>>
  BY DEF Finished, vars
<1> QED BY <1>1 DEF IInv, TypeOK, RequestsCurrent, HistoryPast, BucketsAccounted,
                    UntrackedSpaced, SlidingBound

(***************************************************************************)
(* The inductive invariant holds of a new limiter.                         *)
(***************************************************************************)
LEMMA InvInit == Init => IInv
<1> SUFFICES ASSUME Init PROVE IInv
  OBVIOUS
<1> USE NumberAssumption
<1>1. TypeOK /\ DOMAIN seen = {} /\ pending = {} /\ \A c \in Clients : hist[c] = <<>>
  BY TypeInit DEF Init
<1> QED BY <1>1 DEF IInv, RequestsCurrent, HistoryPast, BucketsAccounted,
                    UntrackedSpaced, SlidingBound

(***************************************************************************)
(* Every step of the limiter keeps the inductive invariant.                *)
(***************************************************************************)
LEMMA InvStep == IInv /\ [Next]_vars => IInv'
<1> SUFFICES ASSUME IInv, [Next]_vars
             PROVE  IInv'
  OBVIOUS
<1>1. CASE Next
  BY <1>1, TickStep, ArriveStep, OpenWindowStep, CountRequestStep, DenyStep, Finishing
     DEF Next
<1>2. CASE UNCHANGED vars
  BY <1>2, Finishing
<1> QED BY <1>1, <1>2

(***************************************************************************)
(* IInv always holds: every bucket accounts for the latest admissions of its *)
(* client, and the admissions of a client without one are already spaced.  *)
(***************************************************************************)
THEOREM InductiveInvariant == Spec => []IInv
  BY InvInit, InvStep, PTL DEF Spec

(***************************************************************************)
(* Any 2*Limit + 1 consecutive admissions of a client span more than a     *)
(* window, less the delay at the lock.                                     *)
(***************************************************************************)
THEOREM SlidingBoundHolds == Spec => []SlidingBound
<1>1. IInv => SlidingBound
  BY DEF IInv
<1> QED BY <1>1, InductiveInvariant, PTL

(***************************************************************************)
(* A 429 always means the client itself spent Limit requests within the    *)
(* window before it.                                                       *)
(***************************************************************************)
LEMMA DeniedIsDeny ==
  ASSUME TypeOK, Next, NEW r \in pending, Denied(r)
  PROVE  Deny(r)
<1>1. \A q \in pending : ~OpenWindow(q) /\ ~CountRequest(q)
  <2> SUFFICES ASSUME NEW q \in pending, Admit(q)
               PROVE  FALSE
    BY DEF OpenWindow, CountRequest
  <2>1. Len(hist'[q.client]) = Len(hist[q.client]) + 1 /\ Len(hist[q.client]) \in Nat
    BY AdmitHistory
  <2> QED BY <2>1 DEF Denied
<1>2. ~Tick /\ ~Finished /\ \A p \in Procs, c \in Clients : ~Arrive(p, c)
  BY DEF Denied, Tick, Finished, vars, Arrive
<1> QED BY <1>1, <1>2 DEF Next, Deny, Served, Denied

(***************************************************************************)
(* A 429 is always the client's own doing, whatever other clients, sweeps and *)
(* stale instants do (allow, callerKey, rateLimitMiddleware).              *)
(***************************************************************************)
THEOREM DenialsJustified == Spec => DenialJustified
<1> USE NumberAssumption
<1>1. ASSUME IInv, Next, NEW r \in pending, Denied(r)
      PROVE  SpentOwnBudget(r)
  <2> DEFINE c == r.client
  <2>1. TypeOK /\ Deny(r)
    BY <1>1, DeniedIsDeny DEF IInv
  <2>2. /\ c \in Clients /\ c \in DOMAIN seen /\ seen[c] \in Bucket
        /\ seen[c].count + 1 > Limit /\ ~Expired(seen[c], r.now)
    BY <1>1, <2>1, IncrementedMap DEF Deny, IInv
  <2>3. r.now \in Nat /\ hist[c] \in Seq(Nat)
    BY <2>1, <2>2 DEF TypeOK, Request
  <2>4. Used(seen[c]) = Limit /\ OpenedAt(seen[c]) >= r.now - Window /\ OpenedAt(seen[c]) \in Int
    BY <2>2, <2>3 DEF Used, Expired, OpenedAt, Bucket
  <2>5. /\ Len(hist[c]) - Limit >= 0
        /\ \A i \in Len(hist[c]) - Limit + 1 .. Len(hist[c]) :
             hist[c][i] >= OpenedAt(seen[c])
    BY <1>1, <2>2, <2>4 DEF IInv, BucketsAccounted, BucketAccounted
  <2>6. Len(hist[c]) - Limit + 1 \in Len(hist[c]) - Limit + 1 .. Len(hist[c])
        /\ Len(hist[c]) - Limit + 1 \in 1 .. Len(hist[c])
    BY <2>3, <2>5
  <2>7. hist[c][Len(hist[c]) - Limit + 1] \in Nat
    BY <2>3, <2>6
  <2>8. hist[c][Len(hist[c]) - Limit + 1] >= OpenedAt(seen[c])
    BY <2>5, <2>6
  <2>9. \A x \in Nat, o \in Int, w \in Int : x >= o /\ o >= w => x >= w
    OBVIOUS
  <2>10. hist[c][Len(hist[c]) - Limit + 1] >= r.now - Window
    BY <2>3, <2>4, <2>7, <2>8, <2>9
  <2>11. Len(hist[c]) >= Limit
    BY <2>3, <2>5
  <2> QED BY <2>10, <2>11 DEF SpentOwnBudget
<1>2. ASSUME IInv, [Next]_vars
      PROVE  [\A r \in pending : Denied(r) => SpentOwnBudget(r)]_vars
  BY <1>1, <1>2
<1> QED BY <1>2, InductiveInvariant, PTL DEF Spec, DenialJustified

(***************************************************************************)
(* A bucket that is open on the wall clock is never dropped or refilled.   *)
(***************************************************************************)
THEOREM NoEarlyRefills == Spec => NoEarlyRefill
<1> USE NumberAssumption
<1> DEFINE Kept(k) == /\ k \in DOMAIN seen'
                      /\ seen'[k].resetAt = seen[k].resetAt
                      /\ seen'[k].count >= seen[k].count
<1>1. ASSUME IInv, Next, NEW k \in DOMAIN seen, clock <= seen[k].resetAt
      PROVE  Kept(k)
  <2>1. TypeOK /\ seen[k] \in Bucket /\ seen[k].count \in Nat /\ seen[k].resetAt \in Nat
    BY <1>1 DEF IInv, TypeOK, Bucket
  <2>2. ASSUME UNCHANGED seen PROVE Kept(k)
    BY <2>1, <2>2
  <2>3. ASSUME NEW r \in pending
        PROVE  /\ k \in DOMAIN Swept(r.now) /\ Swept(r.now)[k] = seen[k]
               /\ ~Expired(seen[k], r.now)
    <3>1. r.now \in Nat /\ r.now <= clock /\ clock \in Nat
      BY <1>1 DEF IInv, TypeOK, Request, RequestsCurrent
    <3>2. ~(r.now > seen[k].resetAt)
      BY <1>1, <2>1, <3>1
    <3> QED BY <1>1, <2>1, <3>1, <3>2, SweptMap DEF Expired
  <2>4. ASSUME NEW r \in pending, OpenWindow(r) PROVE Kept(k)
    <3>1. k # r.key
      BY <2>3, <2>4 DEF OpenWindow, HasOpenWindow
    <3> QED BY <2>1, <2>3, <2>4, <3>1 DEF OpenWindow, Assign
  <2>5. ASSUME NEW r \in pending, seen' = Incremented(Swept(r.now), r) PROVE Kept(k)
    BY <2>1, <2>3, <2>5 DEF Incremented
  <2>6. \A r \in pending : CountRequest(r) \/ Deny(r) => Kept(k)
    BY <2>5 DEF CountRequest, Deny
  <2>7. Tick \/ Finished \/ (\E p \in Procs, c \in Clients : Arrive(p, c)) => Kept(k)
    BY <2>2 DEF Tick, Finished, vars, Arrive
  <2> QED BY <1>1, <2>4, <2>6, <2>7 DEF Next
<1>2. ASSUME IInv, [Next]_vars
      PROVE  [\A k \in DOMAIN seen : clock <= seen[k].resetAt => Kept(k)]_vars
  BY <1>1, <1>2
<1> QED BY <1>2, InductiveInvariant, PTL DEF Spec, NoEarlyRefill

(***************************************************************************)
(* Whole seconds fall short of the time left by less than one.             *)
(***************************************************************************)
LEMMA SecondsShort ==
  ASSUME NEW left \in Nat, NEW ticks \in Nat \ {0}
  PROVE  /\ left \div ticks \in Nat
         /\ (left \div ticks + 1) * ticks > left
OBVIOUS

(* A second more than Retry-After outlasts the bucket it was read from. *)
LEMMA RetryAfterReaches ==
  ASSUME NEW b \in Bucket, clock \in Nat
  PROVE  clock + (RetryAfter(b) + 1) * TicksPerSecond > b.resetAt
<1> USE NumberAssumption
<1> DEFINE left == IF b.resetAt > clock THEN b.resetAt - clock ELSE 0
           whole == left \div TicksPerSecond
<1>1. left \in Nat /\ b.resetAt \in Nat /\ b.resetAt <= clock + left
  BY DEF Bucket
<1>2. whole \in Nat /\ (whole + 1) * TicksPerSecond > left
  BY <1>1, SecondsShort
<1>3. 0 \div TicksPerSecond = 0
  OBVIOUS
<1>4. RetryAfter(b) = IF whole < 1 THEN 1 ELSE whole
  BY <1>3 DEF RetryAfter
<1>5. CASE whole < 1
  <2>1. whole = 0 /\ RetryAfter(b) = 1 /\ left < TicksPerSecond
    BY <1>2, <1>4, <1>5
  <2> QED BY <1>1, <2>1
<1>6. CASE ~(whole < 1)
  BY <1>1, <1>2, <1>4, <1>6
<1> QED BY <1>5, <1>6

(***************************************************************************)
(* A denied client that waits a second longer than its Retry-After finds   *)
(* its window over.                                                        *)
(***************************************************************************)
THEOREM WaitingAlwaysHelps == Spec => WaitingHelps
<1>1. ASSUME IInv, NEW r \in pending, Denied(r), Next
      PROVE  clock + (RetryAfter(seen[r.key]) + 1) * TicksPerSecond > seen'[r.key].resetAt
  <2>1. TypeOK /\ Deny(r) /\ clock \in Nat
    BY <1>1, DeniedIsDeny DEF IInv, TypeOK
  <2>2. /\ r.key = r.client /\ seen[r.client] \in Bucket
        /\ seen'[r.client] = [count |-> seen[r.client].count + 1,
                               resetAt |-> seen[r.client].resetAt]
    BY <1>1, <2>1, IncrementedMap DEF Deny, IInv
  <2> QED BY <2>1, <2>2, RetryAfterReaches
<1>2. ASSUME IInv, [Next]_vars
      PROVE  [\A r \in pending : Denied(r) =>
                clock + (RetryAfter(seen[r.key]) + 1) * TicksPerSecond > seen'[r.key].resetAt]_vars
  BY <1>1, <1>2
<1> QED BY <1>2, InductiveInvariant, PTL DEF Spec, WaitingHelps

=============================================================================
