---------------------------- MODULE ServerProofs ----------------------------
(***************************************************************************)
(* The server for any clients, deployments, requests and outcomes of the   *)
(* upstream: what it logs, sends, answers and audits.                      *)
(***************************************************************************)
EXTENDS Server, SequenceTheorems, FiniteSetTheorems, TLAPS

(* The limiter with what is proved of it. *)
LimiterProofs == INSTANCE RateLimiterProofs

(* The outcomes of a call, and the requests it makes. *)
Ends == {"ok", "tool_error", "error"}
Stages == {"single", "page", "probe"}

(* What a call may have been sent for a traceparent. *)
Metas == Traces \cup {Idle.meta}
TracedSets == SUBSET (SUBSET Metas)

(***************************************************************************)
(* What is known of a goroutine's call, whatever the others do.            *)
(***************************************************************************)
CallRecord ==
  [phase : Phases, client : Clients \cup {Blank}, class : {"", "self", "external"},
   id : Nat, form : Form, meta : Metas, began : Nat, sent : Nat,
   left : Nat, stage : {"", "single", "page", "probe"}, pages : Nat,
   ctx : {"live", "cancelling", "cancelled"}, gone : BOOLEAN,
   outcome : {"", "ok", "tool_error", "error"}, requests : Nat,
   traced : TracedSets]

(* The class of a client's requests, whatever headers they came with. *)
OwnClass(client) ==
  IF ~config.http THEN ""
  ELSE IF client \in SelfCallers THEN "self" ELSE "external"

(* A request in flight is one the tool makes, and the probe comes after a  *)
(* page that upstream answered.                                            *)
Underway(c) ==
  /\ c.form.tool \in Tools
  /\ c.stage = "single" => c.form.tool # "check_stack"
  /\ c.stage \in {"page", "probe"} => c.form.tool = "check_stack"
  /\ c.stage = "probe" => config.base
  /\ c.stage \in Stages

(* Only upstream requests take time, each at most the client's timeout.    *)
OnTime(c) ==
  IF c.phase = "fetching"
  THEN /\ c.sent <= c.began + c.requests * UpstreamTimeout
       /\ c.sent <= clock
       /\ clock <= IF config.base THEN c.sent + UpstreamTimeout ELSE c.sent
  ELSE clock <= c.began + c.requests * UpstreamTimeout

(* Every request of a call carried the call's own trace context. *)
TracesJoined(c) == \A traces \in c.traced : traces = Carried(c.meta)

CallSound(c) ==
  /\ TracesJoined(c)
  /\ c.outcome = "" <=> c.phase \notin {"returned", "answering"}
  /\ c.phase = "idle" => c = Idle
  /\ c.phase # "idle" =>
       /\ c.id \in 1 .. asked
       /\ c.form \in Forms
       /\ c.client \in Clients
       /\ c.class = OwnClass(c.client)
       /\ OnTime(c)
  /\ c.phase = "fetching" => Underway(c)
  /\ c.phase = "returned" => c.form.tool # ""

CallsSound ==
  /\ call \in [Procs -> CallRecord]
  /\ \A p \in Procs : CallSound(call[p])

(***************************************************************************)
(* What goroutines share: ids are given once, a record belongs to a call   *)
(* that is over or about to be answered, with the trace id of its caller,  *)
(* and the limiter holds one request of each goroutine that waits for it.  *)
(***************************************************************************)
IdsOnce ==
  /\ \A p, q \in Procs :
       p # q /\ Phase(p) # "idle" /\ Phase(q) # "idle" => call[p].id # call[q].id
  /\ \A p \in Procs, i \in DOMAIN trail :
       trail[i].id = call[p].id =>
         Phase(p) \in {"idle", "answering"}

TrailSound ==
  /\ trail \in Seq({trail[i] : i \in DOMAIN trail})
  /\ \A i \in DOMAIN trail :
       /\ trail[i].id \in 1 .. asked
       /\ trail[i].values # {} => config.audit = "full"

WaitingMatches ==
  /\ \A r \in pending : r.proc \in Procs /\ Phase(r.proc) = "waiting"
  /\ \A p \in Procs : Phase(p) = "waiting" => \E r \in pending : r.proc = p
  /\ \A r, s \in pending : r.proc = s.proc => r = s

IInv ==
  /\ Limiter!TypeOK
  /\ config \in Setting
  /\ CallsSound
  /\ IdsOnce
  /\ TrailSound
  /\ WaitingMatches

-----------------------------------------------------------------------------
(* What a step makes of a call. *)

SameCall(c, d) ==
  /\ d.client = c.client /\ d.class = c.class /\ d.id = c.id
  /\ d.form = c.form /\ d.meta = c.meta /\ d.began = c.began
  /\ TracesJoined(c) => TracesJoined(d)

(* A goroutine without a call. *)
LEMMA IdleIsRecord ==
  Idle \in CallRecord /\ Idle.phase = "idle" /\ Idle.outcome = "" /\ TracesJoined(Idle)
<1>1. Idle.form \in Form
  <2> DEFINE f == [tool |-> "", raw |-> {}, given |-> {}, components |-> 0,
                   refused |-> FALSE, fits |-> TRUE]
  <2>1. f \in [tool : Tools \cup {"", "unknown"},
               raw : SUBSET (ArgumentNames \cup {"not an object", "another key"}),
               given : SUBSET ArgumentNames,
               components : Nat, refused : BOOLEAN, fits : BOOLEAN]
    OBVIOUS
  <2>2. f.tool # "unknown" /\ f.raw = {} /\ f.given = {}
    OBVIOUS
  <2>3. Idle.form = f
    BY DEF Idle
  <2> HIDE DEF f
  <2> QED BY <2>1, <2>2, <2>3 DEF Form
<1>2. PICK none : none = Idle.meta
  OBVIOUS
<1>3. none \in Metas
  BY <1>2 DEF Metas
<1>4. Idle \in CallRecord
  <2> DEFINE f == Idle.form
  <2>1. f \in Form /\ none \in Metas
    BY <1>1, <1>3
  <2>2. Idle = [phase |-> "idle", client |-> Blank, class |-> "", id |-> 0, form |-> f,
                meta |-> none, began |-> 0, sent |-> 0, left |-> 0, stage |-> "", pages |-> 0,
                ctx |-> "live", gone |-> FALSE, outcome |-> "", requests |-> 0, traced |-> {}]
    BY <1>2 DEF Idle
  <2> HIDE DEF f
  <2>3. {} \in TracedSets
    BY DEF TracedSets
  <2> QED BY <2>1, <2>2, <2>3 DEF CallRecord, Phases
<1>5. Idle.phase = "idle" /\ Idle.outcome = "" /\ Idle.traced = {}
  BY DEF Idle
<1> QED BY <1>4, <1>5 DEF TracesJoined

(* What the return of a handler makes of its call (main.go:246-261). *)
LEMMA ReturnFields ==
  \A c \in CallRecord, outcome \in Ends : \A d : d = Return(c, outcome) =>
    /\ d \in CallRecord /\ SameCall(c, d)
    /\ d.phase = "returned" /\ d.outcome = outcome /\ d.requests = c.requests
<1> TAKE c \in CallRecord, outcome \in Ends
<1> TAKE d
<1> HAVE d = Return(c, outcome)
<1>1. outcome \in {"ok", "tool_error", "error"}
  BY DEF Ends
<1> QED BY <1>1 DEF CallRecord, Return, SameCall, Phases, TracesJoined

(* What the start of an upstream request makes of a call                   *)
(* (client.go:209-225).                                                    *)
LEMMA AskingFields ==
  \A c \in CallRecord, stage \in Stages : \A d :
    clock \in Nat /\ d = Asking(c, stage) =>
      /\ d \in CallRecord /\ SameCall(c, d)
      /\ d.phase = "fetching" /\ d.stage = stage /\ d.sent = clock
      /\ d.outcome = c.outcome /\ d.requests = c.requests
<1> TAKE c \in CallRecord, stage \in Stages
<1> TAKE d
<1> HAVE clock \in Nat /\ d = Asking(c, stage)
<1> DEFINE ctx == IF c.ctx = "cancelling" THEN "cancelled" ELSE c.ctx
<1>1. ctx \in {"live", "cancelling", "cancelled"}
  BY DEF CallRecord
<1>2. d = [c EXCEPT !.phase = "fetching", !.stage = stage, !.sent = clock, !.ctx = ctx]
  BY DEF Asking
<1> HIDE DEF ctx
<1>3. d \in CallRecord
  BY <1>1, <1>2 DEF CallRecord, Phases, Stages
<1>4. SameCall(c, d) /\ d.outcome = c.outcome /\ d.requests = c.requests
  BY <1>2 DEF CallRecord, SameCall, TracesJoined
<1>5. d.phase = "fetching" /\ d.stage = stage /\ d.sent = clock
  BY <1>2 DEF CallRecord
<1> QED BY <1>3, <1>4, <1>5

(* The next component of a stack begins with a page, and after the last    *)
(* one the handler returns (main.go:714-738).                              *)
LEMMA NextComponentFields ==
  \A c \in CallRecord : \A d : clock \in Nat /\ d = NextComponent(c) =>
    /\ d \in CallRecord /\ SameCall(c, d) /\ d.requests = c.requests
    /\ \/ d.phase = "returned" /\ d.outcome = "ok"
       \/ /\ d.phase = "fetching" /\ d.stage = "page" /\ d.sent = clock
          /\ d.outcome = c.outcome
<1> TAKE c \in CallRecord
<1> TAKE d
<1> HAVE clock \in Nat /\ d = NextComponent(c)
<1>1. CASE c.left = 0
  BY <1>1, ReturnFields DEF NextComponent, Ends
<1>2. CASE c.left # 0
  <2> DEFINE e == [c EXCEPT !.left = @ - 1, !.pages = 0]
  <2>0. c.left \in Nat
    BY DEF CallRecord
  <2>1. c.left - 1 \in Nat
    BY <1>2, <2>0
  <2>2. e \in CallRecord /\ SameCall(c, e) /\ e.requests = c.requests /\ e.outcome = c.outcome
    BY <2>1 DEF CallRecord, SameCall, TracesJoined
  <2>3. d = Asking(e, "page")
    BY <1>2 DEF NextComponent
  <2> HIDE DEF e
  <2> QED BY <2>2, <2>3, AskingFields DEF SameCall, Stages
<1> QED BY <1>1, <1>2

(* A request is counted unless it could not be built (client.go:209-213);  *)
(* nothing else of its call changes.                                       *)
LEMMA CountedFields ==
  ASSUME call \in [Procs -> CallRecord], NEW p \in Procs, NEW r, NEW d, d = Counted(p, r)
  PROVE  /\ d \in CallRecord /\ SameCall(call[p], d) /\ d.outcome = call[p].outcome
         /\ d.phase = call[p].phase
         /\ d.requests = IF r = Unbuilt THEN call[p].requests ELSE call[p].requests + 1
<1> DEFINE n == IF r = Unbuilt THEN call[p].requests ELSE call[p].requests + 1
           t == IF r = Unbuilt THEN call[p].traced
                ELSE call[p].traced \cup {Carried(call[p].meta)}
<1>1. call[p] \in CallRecord /\ call[p].requests \in Nat /\ call[p].meta \in Metas
      /\ call[p].traced \in TracedSets
  BY DEF CallRecord
<1>2. n \in Nat
  BY <1>1
<1>3. t \in TracedSets
  <2>1. Carried(call[p].meta) \in SUBSET Metas
    BY <1>1 DEF Carried
  <2> QED BY <1>1, <2>1 DEF TracedSets
<1>4. d = [call[p] EXCEPT !.requests = n, !.traced = t]
  <2>1. CASE r = Unbuilt
    <3>1. d = call[p] /\ n = call[p].requests /\ t = call[p].traced
      BY <2>1 DEF Counted
    <3> HIDE DEF n, t
    <3> QED BY <1>1, <3>1 DEF CallRecord
  <2>2. CASE r # Unbuilt
    BY <2>2 DEF Counted
  <2> QED BY <2>1, <2>2
<1>5. \A traces \in t : traces \in call[p].traced \/ traces = Carried(call[p].meta)
  OBVIOUS
<1> HIDE DEF n, t
<1>6. d \in CallRecord /\ d.requests = n /\ d.traced = t /\ d.meta = call[p].meta
  BY <1>1, <1>2, <1>3, <1>4 DEF CallRecord
<1>7. TracesJoined(call[p]) => TracesJoined(d)
  BY <1>5, <1>6 DEF TracesJoined
<1>8. /\ d.client = call[p].client /\ d.class = call[p].class /\ d.id = call[p].id
      /\ d.form = call[p].form /\ d.began = call[p].began
      /\ d.outcome = call[p].outcome /\ d.phase = call[p].phase
  BY <1>1, <1>4 DEF CallRecord
<1> QED BY <1>6, <1>7, <1>8 DEF SameCall, n

-----------------------------------------------------------------------------
(* The limiter, as it is here and as it is proved. *)

(* The limiter inside Server and the one of RateLimiterProofs are the same *)
(* one, action by action.                                                  *)
LEMMA SameLimiter ==
  /\ LimiterProofs!TypeOK <=> Limiter!TypeOK
  /\ Limiter!Tick => LimiterProofs!Tick
  /\ \A p, c : Limiter!Arrive(p, c) => LimiterProofs!Arrive(p, c)
  /\ \A r : Limiter!OpenWindow(r) => LimiterProofs!OpenWindow(r)
  /\ \A r : Limiter!CountRequest(r) => LimiterProofs!CountRequest(r)
  /\ \A r : Limiter!Deny(r) => LimiterProofs!Deny(r)
<1>1. LimiterProofs!TypeOK <=> Limiter!TypeOK
  BY DEF Limiter!TypeOK, LimiterProofs!TypeOK, Limiter!Bucket, LimiterProofs!Bucket,
         Limiter!Request, LimiterProofs!Request
<1>2. Limiter!Tick => LimiterProofs!Tick
  BY DEF Limiter!Tick, LimiterProofs!Tick
<1>3. \A p, c : Limiter!Arrive(p, c) => LimiterProofs!Arrive(p, c)
  BY DEF Limiter!Arrive, LimiterProofs!Arrive, Limiter!Forwarded, LimiterProofs!Forwarded,
         Limiter!ForwardedBy, LimiterProofs!ForwardedBy, Limiter!Headers, LimiterProofs!Headers,
         Limiter!callerKey, LimiterProofs!callerKey,
         Limiter!FirstForwarded, LimiterProofs!FirstForwarded
<1>4. ASSUME NEW r
      PROVE  /\ Limiter!OpenWindow(r) => LimiterProofs!OpenWindow(r)
             /\ Limiter!CountRequest(r) => LimiterProofs!CountRequest(r)
             /\ Limiter!Deny(r) => LimiterProofs!Deny(r)
  <2> DEFINE map == Limiter!Swept(r.now)
  <2>0. LimiterProofs!Cardinality(DOMAIN seen) = Limiter!Cardinality(DOMAIN seen)
    BY Zenon DEF Limiter!Cardinality, LimiterProofs!Cardinality
  <2>1. LimiterProofs!Swept(r.now) = map
    BY <2>0 DEF Limiter!Swept, LimiterProofs!Swept, Limiter!Expired, LimiterProofs!Expired
  <2> HIDE DEF map
  <2>2. LimiterProofs!HasOpenWindow(map, r) <=> Limiter!HasOpenWindow(map, r)
    BY DEF Limiter!HasOpenWindow, LimiterProofs!HasOpenWindow,
           Limiter!Expired, LimiterProofs!Expired
  <2>3. LimiterProofs!Assign(map, r.key, LimiterProofs!NewBucket(r))
          = Limiter!Assign(map, r.key, Limiter!NewBucket(r))
    BY Zenon DEF Limiter!Assign, LimiterProofs!Assign, Limiter!NewBucket, LimiterProofs!NewBucket
  <2>4. LimiterProofs!Incremented(map, r) = Limiter!Incremented(map, r)
    BY Zenon DEF Limiter!Incremented, LimiterProofs!Incremented
  <2>5. /\ LimiterProofs!Served(r) <=> Limiter!Served(r)
        /\ LimiterProofs!Admit(r) <=> Limiter!Admit(r)
    BY DEF Limiter!Served, LimiterProofs!Served, Limiter!Admit, LimiterProofs!Admit
  <2>6. Limiter!OpenWindow(r) => LimiterProofs!OpenWindow(r)
    BY Zenon, <2>1, <2>2, <2>3, <2>5 DEF Limiter!OpenWindow, LimiterProofs!OpenWindow, map
  <2>7. Limiter!CountRequest(r) => LimiterProofs!CountRequest(r)
    BY Zenon, <2>1, <2>2, <2>4, <2>5 DEF Limiter!CountRequest, LimiterProofs!CountRequest, map
  <2>8. Limiter!Deny(r) => LimiterProofs!Deny(r)
    BY Zenon, <2>1, <2>2, <2>4, <2>5 DEF Limiter!Deny, LimiterProofs!Deny, map
  <2> QED BY <2>6, <2>7, <2>8
<1> QED BY <1>1, <1>2, <1>3, <1>4

(* Server's constants meet the assumptions of the limiter's theorems. *)
LEMMA LimiterAssumptions ==
  LimiterProofs!AddressAssumption /\ LimiterProofs!NumberAssumption
  BY LimiterAssumption
     DEF Limiter!AddressAssumption, Limiter!NumberAssumption,
         LimiterProofs!AddressAssumption, LimiterProofs!NumberAssumption

(* A step of the limiter keeps its types. *)
LEMMA LimiterTypes ==
  ASSUME Limiter!TypeOK,
         \/ Limiter!Tick
         \/ \E p \in Procs, c \in Clients : Limiter!Arrive(p, c)
         \/ \E r \in pending :
              Limiter!OpenWindow(r) \/ Limiter!CountRequest(r) \/ Limiter!Deny(r)
  PROVE  Limiter!TypeOK'
<1>1. LimiterProofs!Next
  BY SameLimiter DEF LimiterProofs!Next
<1>2. LimiterProofs!TypeOK'
  BY <1>1, SameLimiter, LimiterAssumptions, LimiterProofs!TypeStep
<1> QED BY <1>2 DEF Limiter!TypeOK, LimiterProofs!TypeOK, Limiter!Bucket, LimiterProofs!Bucket,
               Limiter!Request, LimiterProofs!Request

(* The key of a request is its client's address (callerKey). *)
LEMMA KeyOfClient ==
  ASSUME NEW c \in Clients, NEW h \in Limiter!Forwarded(c)
  PROVE  Limiter!callerKey(h) = c
<1>1. h \in LimiterProofs!Forwarded(c)
  BY DEF Limiter!Forwarded, LimiterProofs!Forwarded, Limiter!ForwardedBy,
         LimiterProofs!ForwardedBy, Limiter!Headers, LimiterProofs!Headers
<1>2. LimiterProofs!callerKey(h) = c
  BY <1>1, LimiterAssumptions, LimiterProofs!KeyIsClient
<1> QED BY <1>2 DEF Limiter!callerKey, LimiterProofs!callerKey,
               Limiter!FirstForwarded, LimiterProofs!FirstForwarded

(* An arriving request waits for the limiter once, with its client's key   *)
(* (ratelimit.go:162-168).                                                 *)
LEMMA ArrivesOnce ==
  ASSUME NEW p \in Procs, NEW c \in Clients, Limiter!Arrive(p, c)
  PROVE  /\ pending' = pending \cup {[proc |-> p, client |-> c, key |-> c, now |-> clock]}
         /\ \A r \in pending : r.proc # p
         /\ asked < MaxRequests /\ asked' = asked + 1
         /\ UNCHANGED <<clock, seen, hist>>
  BY KeyOfClient DEF Limiter!Arrive

(* The limiter serves one waiting request and no other                     *)
(* (ratelimit.go:63-87).                                                   *)
LEMMA LimiterServes ==
  ASSUME NEW r, Limiter!OpenWindow(r) \/ Limiter!CountRequest(r) \/ Limiter!Deny(r)
  PROVE  pending' = pending \ {r} /\ UNCHANGED <<clock, asked>>
  BY DEF Limiter!OpenWindow, Limiter!CountRequest, Limiter!Deny, Limiter!Served

-----------------------------------------------------------------------------
(* The steps of a goroutine. *)

(* What is known of a call stays known while clock and deployment stand.   *)
LEMMA StaysSound ==
  ASSUME NEW p, UNCHANGED <<clock, config>>, asked \in Nat,
         asked' \in Nat, asked <= asked', CallSound(call'[p])
  PROVE  CallSound(call[p])'
<1> DEFINE c == call'[p]
<1>1. OwnClass(c.client) = IF ~config'.http THEN ""
                           ELSE IF c.client \in SelfCallers THEN "self" ELSE "external"
  BY DEF OwnClass
<1>2. OnTime(c) => OnTime(call[p])'
  BY DEF OnTime
<1>3. Underway(c) => Underway(call[p])'
  BY DEF Underway
<1>4. c.id \in 1 .. asked => c.id \in 1 .. asked'
  OBVIOUS
<1>5. OwnClass(c.client) = OwnClass(call[p].client)'
  BY DEF OwnClass
<1>6. TracesJoined(c) => TracesJoined(call[p])'
  BY DEF TracesJoined
<1> QED BY <1>2, <1>3, <1>4, <1>5, <1>6 DEF CallSound

(***************************************************************************)
(* A goroutine that serves a call goes on with it, or leaves it behind.    *)
(***************************************************************************)
LEMMA OwnStep ==
  ASSUME IInv, NEW p \in Procs, NEW d \in CallRecord, call' = [call EXCEPT ![p] = d],
         UNCHANGED <<limiter, config, trail>>,
         Phase(p) \notin {"idle", "waiting"}, CallSound(d),
         \/ d = Idle
         \/ d.id = call[p].id /\ d.phase \notin {"idle", "waiting"} /\ Phase(p) # "answering"
  PROVE  IInv'
<1> USE DEF limiter
<1>1. call \in [Procs -> CallRecord] /\ call'[p] = d /\ \A q \in Procs : q # p => call'[q] = call[q]
  BY DEF IInv, CallsSound
<1>2. d.phase # "waiting"
  BY IdleIsRecord
<1>3. Limiter!TypeOK' /\ (config \in Setting)'
  BY DEF IInv, Limiter!TypeOK, Limiter!Bucket, Limiter!Request
<1>4. CallsSound'
  <2>1. call' \in [Procs -> CallRecord]
    BY <1>1
  <2>2. ASSUME NEW q \in Procs PROVE CallSound(call'[q])
    BY <1>1 DEF IInv, CallsSound
  <2>3. asked \in Nat /\ asked' = asked /\ clock' = clock
    BY DEF IInv, Limiter!TypeOK
  <2>4. \A q \in Procs : CallSound(call[q])'
    BY <2>2, <2>3, StaysSound
  <2> QED BY <2>1, <2>4 DEF CallsSound
<1>5. IdsOnce'
  <2>0. \A q, r \in Procs :
          q # r /\ call[q].phase # "idle" /\ call[r].phase # "idle" => call[q].id # call[r].id
    BY DEF IInv, IdsOnce, Phase
  <2>3. d.phase # "idle" => d.id = call[p].id /\ call[p].phase # "idle"
    BY IdleIsRecord DEF Phase
  <2>1. ASSUME NEW q \in Procs, NEW r \in Procs, q # r, call'[q].phase # "idle", call'[r].phase # "idle"
        PROVE  call'[q].id # call'[r].id
    <3>1. CASE q = p
      BY <1>1, <2>0, <2>1, <2>3, <3>1
    <3>2. CASE r = p
      BY <1>1, <2>0, <2>1, <2>3, <3>2
    <3>3. CASE q # p /\ r # p
      BY <1>1, <2>0, <2>1, <3>3
    <3> QED BY <3>1, <3>2, <3>3
  <2>2. ASSUME NEW q \in Procs, NEW i \in DOMAIN trail, trail[i].id = call'[q].id
        PROVE  call'[q].phase \in {"idle", "answering"}
    BY <1>1, <2>2, IdleIsRecord DEF IInv, IdsOnce, Phase
  <2> QED BY <2>1, <2>2 DEF IdsOnce, Phase
<1>6. TrailSound'
  BY DEF IInv, TrailSound
<1>7. WaitingMatches'
  <2>1. \A q \in Procs : (call'[q].phase = "waiting") = (call[q].phase = "waiting")
    BY <1>1, <1>2 DEF Phase
  <2>2. pending' = pending
    OBVIOUS
  <2> QED BY <2>1, <2>2 DEF IInv, WaitingMatches, Phase
<1> QED BY <1>3, <1>4, <1>5, <1>6, <1>7 DEF IInv

(* What a goroutine that serves a call knows of it. *)
LEMMA AtWork ==
  ASSUME IInv, NEW p \in Procs, Phase(p) \notin {"idle", "waiting"}
  PROVE  /\ call \in [Procs -> CallRecord] /\ call[p] \in CallRecord /\ CallSound(call[p])
         /\ call[p].form \in Form /\ clock \in Nat
         /\ Phase(p) \in {"serving", "fetching"} => call[p].outcome = ""
         /\ Phase(p) # "fetching" =>
              clock <= call[p].began + call[p].requests * UpstreamTimeout
<1>1. call \in [Procs -> CallRecord] /\ call[p] \in CallRecord /\ CallSound(call[p]) /\ clock \in Nat
  BY DEF IInv, CallsSound, Limiter!TypeOK
<1>2. call[p].form \in Form
  BY <1>1 DEF CallRecord
<1>3. Phase(p) \in {"serving", "fetching"} => call[p].outcome = ""
  BY <1>1 DEF CallSound, Phase
<1>4. Phase(p) # "fetching" => clock <= call[p].began + call[p].requests * UpstreamTimeout
  BY <1>1 DEF CallSound, OnTime, Phase
<1> QED BY <1>1, <1>2, <1>3, <1>4

(* Arguments that the SDK lets pass are of a tool that exists. *)
LEMMA AcceptedTool ==
  ASSUME NEW f \in Form, f.fits, f.tool # ""
  PROVE  f.tool \in Tools
  BY DEF Form

(* A request that is sent now is in time if the call is. *)
LEMMA InTime ==
  \A d : /\ clock \in Nat
         /\ clock <= d.began + d.requests * UpstreamTimeout
         /\ d.phase = "fetching" => d.sent = clock
         => OnTime(d)
<1>1. UpstreamTimeout \in Nat
  BY ServerAssumption
<1>2. ASSUME clock \in Nat PROVE clock <= clock /\ clock <= clock + UpstreamTimeout
  BY <1>1, <1>2
<1> QED BY Zenon, <1>2 DEF OnTime

(***************************************************************************)
(* A call that is still in time stays so when its handler returns, or asks *)
(* upstream (again) at once.                                               *)
(***************************************************************************)
LEMMA GoesOn ==
  ASSUME IInv, NEW p \in Procs, Phase(p) \notin {"idle", "waiting"},
         NEW e \in CallRecord, SameCall(call[p], e),
         clock <= e.began + e.requests * UpstreamTimeout,
         NEW d \in CallRecord, SameCall(e, d), d.requests = e.requests,
         \/ d.phase = "returned" /\ d.outcome # "" /\ d.form.tool # ""
         \/ d.phase = "answering" /\ d.outcome # ""
         \/ d.phase = "fetching" /\ d.outcome = "" /\ d.sent = clock /\ Underway(d)
  PROVE  CallSound(d) /\ d.id = call[p].id /\ d.phase \notin {"idle", "waiting"}
<1>1. call[p] \in CallRecord /\ CallSound(call[p]) /\ clock \in Nat
  BY AtWork
<1>2. /\ d.id = call[p].id /\ d.form = call[p].form /\ d.client = call[p].client
      /\ d.class = call[p].class
  BY DEF SameCall
<1>3. d.id \in 1 .. asked /\ d.form \in Forms /\ d.client \in Clients /\ d.class = OwnClass(d.client)
  BY <1>1, <1>2 DEF CallSound, Phase
<1>4. clock <= d.began + d.requests * UpstreamTimeout
  BY DEF SameCall
<1>5. OnTime(d)
  BY <1>1, <1>4, InTime, Zenon
<1>6. TracesJoined(d)
  BY <1>1 DEF CallSound, SameCall
<1> QED BY <1>2, <1>3, <1>5, <1>6 DEF CallSound

-----------------------------------------------------------------------------
(* The goroutine's own actions keep the invariant. *)

(* A request that is no tools/call passes the audit middleware without a   *)
(* record (audit.go:97-101).                                               *)
LEMMA ProtocolStep ==
  ASSUME IInv, NEW p \in Procs, ServeProtocol(p)
  PROVE  IInv'
<1> DEFINE d == [call[p] EXCEPT !.phase = "answering", !.outcome = "ok"]
<1>1. Phase(p) = "serving" /\ Goes(p, d)
  BY DEF ServeProtocol
<1>2. d \in CallRecord /\ SameCall(call[p], d) /\ d.requests = call[p].requests
  BY <1>1, AtWork DEF CallRecord, SameCall, TracesJoined, Phases
<1>3. d.phase = "answering" /\ d.outcome = "ok"
  BY <1>1, AtWork DEF CallRecord
<1>4. SameCall(call[p], call[p])
  BY DEF SameCall
<1> HIDE DEF d
<1>5. CallSound(d) /\ d.id = call[p].id
  BY <1>1, <1>2, <1>3, <1>4, AtWork, GoesOn
<1> QED BY <1>1, <1>2, <1>3, <1>5, OwnStep DEF Goes

(* The handler returns. *)
IsToolCall(c) == c.form.tool # ""

(* A handler that returns, however it came to that, keeps the invariant. *)
LEMMA ToReturned ==
  ASSUME IInv, NEW p \in Procs, Phase(p) \in {"serving", "fetching"},
         IsToolCall(call[p]),
         NEW e \in CallRecord, SameCall(call[p], e),
         clock <= e.began + e.requests * UpstreamTimeout,
         NEW outcome \in Ends,
         call' = [call EXCEPT ![p] = Return(e, outcome)], UNCHANGED <<limiter, config, trail>>
  PROVE  IInv'
<1> DEFINE d == Return(e, outcome)
<1>0. d = Return(e, outcome)
  OBVIOUS
<1>1. call' = [call EXCEPT ![p] = d]
  OBVIOUS
<1> HIDE DEF d
<1>2. /\ d \in CallRecord /\ SameCall(e, d)
      /\ d.phase = "returned" /\ d.outcome = outcome /\ d.requests = e.requests
  BY <1>0, ReturnFields
<1>3. d.form.tool # "" /\ d.outcome # ""
  BY <1>2 DEF SameCall, Ends, IsToolCall
<1>4. CallSound(d) /\ d.id = call[p].id /\ d.phase \notin {"idle", "waiting"}
  BY <1>2, <1>3, GoesOn
<1> QED BY <1>1, <1>2, <1>4, OwnStep

(* The handler asks upstream. *)
LEMMA ToAsking ==
  ASSUME IInv, NEW p \in Procs, Phase(p) \in {"serving", "fetching"},
         call[p].form.tool \in Tools,
         NEW e \in CallRecord, SameCall(call[p], e), e.outcome = call[p].outcome,
         clock <= e.began + e.requests * UpstreamTimeout,
         NEW stage \in Stages, stage = "single" <=> call[p].form.tool # "check_stack",
         stage = "probe" => config.base,
         call' = [call EXCEPT ![p] = Asking(e, stage)], UNCHANGED <<limiter, config, trail>>
  PROVE  IInv'
<1> DEFINE d == Asking(e, stage)
<1>1. d = Asking(e, stage) /\ call' = [call EXCEPT ![p] = d]
  OBVIOUS
<1> HIDE DEF d
<1>2. clock \in Nat
  BY AtWork
<1>3. /\ d \in CallRecord /\ SameCall(e, d) /\ d.requests = e.requests
      /\ d.phase = "fetching" /\ d.stage = stage /\ d.sent = clock
      /\ d.outcome = e.outcome
  BY <1>1, <1>2, AskingFields
<1>4. d.form = call[p].form
  BY <1>3 DEF SameCall
<1>5. Underway(d)
  BY <1>3, <1>4 DEF Underway, Stages
<1>6. d.outcome = ""
  BY <1>3, AtWork
<1>7. CallSound(d) /\ d.id = call[p].id /\ d.phase \notin {"idle", "waiting"}
  BY <1>3, <1>5, <1>6, GoesOn
<1> QED BY <1>1, <1>3, <1>7, OwnStep

(* The next component of a check_stack call, or its report.                *)
LEMMA ToNextComponent ==
  ASSUME IInv, NEW p \in Procs, Phase(p) \in {"serving", "fetching"},
         call[p].form.tool = "check_stack",
         NEW e \in CallRecord, SameCall(call[p], e), e.outcome = "",
         clock <= e.began + e.requests * UpstreamTimeout,
         call' = [call EXCEPT ![p] = NextComponent(e)], UNCHANGED <<limiter, config, trail>>
  PROVE  IInv'
<1> DEFINE d == NextComponent(e)
<1>1. clock \in Nat
  BY AtWork
<1>2. /\ d \in CallRecord /\ SameCall(e, d) /\ d.requests = e.requests
      /\ \/ d.phase = "returned" /\ d.outcome = "ok"
         \/ /\ d.phase = "fetching" /\ d.stage = "page" /\ d.sent = clock
            /\ d.outcome = ""
  BY <1>1, NextComponentFields
<1> HIDE DEF d
<1>3. d.form.tool = "check_stack"
  BY <1>2 DEF SameCall
<1>4. d.phase = "fetching" => Underway(d)
  BY <1>2, <1>3 DEF Underway, Tools, Stages
<1>5. CallSound(d) /\ d.id = call[p].id /\ d.phase \notin {"idle", "waiting"}
  BY <1>2, <1>3, <1>4, GoesOn
<1>6. call' = [call EXCEPT ![p] = d]
  BY DEF d
<1> QED BY <1>2, <1>5, <1>6, OwnStep

(* A refusal of the SDK or of the tool itself keeps the invariant. *)
LEMMA RefusedStep ==
  ASSUME IInv, NEW p \in Procs, SdkRefuses(p) \/ ToolRefuses(p)
  PROVE  IInv'
<1>1. /\ Phase(p) = "serving" /\ call[p].form.tool # ""
      /\ \E outcome \in {"error", "tool_error"} : Goes(p, Return(call[p], outcome))
  BY DEF SdkRefuses, ToolRefuses, Accepted
<1>2. PICK outcome \in Ends : Goes(p, Return(call[p], outcome))
  BY <1>1 DEF Ends
<1>3. /\ call[p] \in CallRecord /\ SameCall(call[p], call[p])
      /\ clock <= call[p].began + call[p].requests * UpstreamTimeout
  BY <1>1, AtWork DEF SameCall
<1> QED BY <1>1, <1>2, <1>3, ToReturned DEF Goes, IsToolCall

(* The one request of a pass-through tool keeps the invariant              *)
(* (main.go:269-376).                                                      *)
LEMMA AskSingleStep ==
  ASSUME IInv, NEW p \in Procs, AskSingle(p)
  PROVE  IInv'
<1>1. /\ Phase(p) = "serving" /\ call[p].form.fits /\ call[p].form.tool # ""
      /\ call[p].form.tool # "check_stack" /\ Goes(p, Asking(call[p], "single"))
  BY DEF AskSingle, Accepted
<1>2. call[p].form.tool \in Tools
  BY <1>1, AtWork, AcceptedTool
<1>3. /\ call[p] \in CallRecord /\ SameCall(call[p], call[p])
      /\ clock <= call[p].began + call[p].requests * UpstreamTimeout
  BY <1>1, AtWork DEF SameCall
<1>4. PICK stage \in Stages : stage = "single"
  BY DEF Stages
<1>5. stage # "probe" /\ Goes(p, Asking(call[p], stage))
  BY <1>1, <1>4
<1> QED BY <1>1, <1>2, <1>3, <1>4, <1>5, ToAsking DEF Goes

(* The first request of a stack, or its return when it has no component to *)
(* ask about, keeps the invariant (main.go:670-715).                       *)
LEMMA AskStackStep ==
  ASSUME IInv, NEW p \in Procs, AskStack(p)
  PROVE  IInv'
<1> DEFINE e == [call[p] EXCEPT !.left = call[p].form.components]
<1>1. /\ Phase(p) = "serving" /\ call[p].form.tool = "check_stack"
      /\ Goes(p, NextComponent(e))
  BY DEF AskStack, Accepted
<1>2. call[p] \in CallRecord /\ call[p].outcome = ""
      /\ clock <= call[p].began + call[p].requests * UpstreamTimeout
  BY <1>1, AtWork
<1>3. call[p].form.components \in Nat
  BY <1>1, AtWork DEF Form
<1>4. e \in CallRecord /\ SameCall(call[p], e) /\ e.outcome = call[p].outcome
      /\ e.requests = call[p].requests /\ e.began = call[p].began
  BY <1>2, <1>3 DEF CallRecord, SameCall, TracesJoined
<1>5. call' = [call EXCEPT ![p] = NextComponent(e)] /\ UNCHANGED <<limiter, config, trail>>
  BY <1>1 DEF Goes
<1> HIDE DEF e
<1> QED BY <1>1, <1>2, <1>4, <1>5, ToNextComponent

(* A request that ended is one more of the call's, unless it was not made. *)
LEMMA HeardCall ==
  ASSUME IInv, NEW p \in Procs, Fetching(p), NEW r, May(call[p], r),
         NEW e, e = Counted(p, r)
  PROVE  /\ e \in CallRecord /\ SameCall(call[p], e) /\ e.outcome = call[p].outcome
         /\ clock <= e.began + e.requests * UpstreamTimeout
         /\ r # Unbuilt => config.base
         /\ Underway(call[p])
<1>1. /\ call \in [Procs -> CallRecord] /\ call[p] \in CallRecord /\ CallSound(call[p])
      /\ clock \in Nat
  BY AtWork DEF Fetching
<1>2. /\ e \in CallRecord /\ SameCall(call[p], e) /\ e.outcome = call[p].outcome
      /\ e.requests = IF r = Unbuilt THEN call[p].requests ELSE call[p].requests + 1
  BY <1>1, CountedFields
<1>3. Underway(call[p]) /\ OnTime(call[p])
  BY <1>1 DEF CallSound, Fetching, Phase
<1>4. IF config.base THEN r # Unbuilt ELSE r = Unbuilt
  BY DEF May
<1>5. clock <= e.began + e.requests * UpstreamTimeout
  <2> DEFINE b == call[p].began
             n == call[p].requests
             t == UpstreamTimeout
             s == call[p].sent
  <2>1. b \in Nat /\ n \in Nat /\ t \in Nat /\ s \in Nat /\ e.began = b
    BY <1>1, <1>2, ServerAssumption DEF CallRecord, SameCall, TracesJoined
  <2>2. s <= b + n * t /\ clock <= IF config.base THEN s + t ELSE s
    BY <1>3 DEF OnTime, Fetching, Phase
  <2>3. e.requests = IF config.base THEN n + 1 ELSE n
    BY <1>2, <1>4
  <2> HIDE DEF b, n, t, s
  <2>4. n * t \in Nat /\ (n + 1) * t = n * t + t
    BY <2>1
  <2>5. clock <= b + e.requests * t
    BY <1>1, <2>1, <2>2, <2>3, <2>4
  <2> QED BY <2>1, <2>5 DEF t
<1> QED BY <1>2, <1>3, <1>4, <1>5

(* The end of an upstream request, whatever it came to, keeps the          *)
(* invariant (client.go:225-260).                                          *)
LEMMA HearStep ==
  ASSUME IInv, NEW p \in Procs, Hear(p)
  PROVE  IInv'
<1>1. PICK r \in Results :
        \/ FetchSingle(p, r) \/ FetchMore(p, r) \/ FetchLast(p, r)
        \/ FetchEmpty(p, r) \/ FetchFails(p, r) \/ Probe(p, r)
  BY DEF Hear
<1> DEFINE e == Counted(p, r)
<1>2. Fetching(p) /\ Phase(p) \in {"serving", "fetching"} /\ May(call[p], r)
  BY <1>1 DEF FetchSingle, FetchMore, FetchLast, FetchEmpty, FetchFails, Probe, Stage, Hears,
              Fetching
<1>3. /\ e \in CallRecord /\ SameCall(call[p], e) /\ e.outcome = call[p].outcome
      /\ clock <= e.began + e.requests * UpstreamTimeout
      /\ r # Unbuilt => config.base
      /\ Underway(call[p])
  BY <1>2, HeardCall
<1>4. CASE FetchSingle(p, r)
  <2>1. PICK outcome \in Ends : Hears(p, r, Return(e, outcome))
    BY <1>4 DEF FetchSingle, Ends
  <2>2. call[p].form.tool # ""
    BY <1>3 DEF Underway, Tools
  <2> HIDE DEF e
  <2> QED BY <1>2, <1>3, <2>1, <2>2, ToReturned DEF Hears, IsToolCall
<1>5. CASE FetchMore(p, r)
  <2> DEFINE f == [e EXCEPT !.pages = @ + 1]
  <2>1. Hears(p, r, Asking(f, "page")) /\ call[p].stage = "page"
    BY <1>5 DEF FetchMore, Stage
  <2> HIDE DEF e
  <2>0. e.pages \in Nat
    BY <1>3 DEF CallRecord
  <2>2. e.pages + 1 \in Nat
    BY <2>0
  <2>3. /\ f \in CallRecord /\ SameCall(e, f) /\ f.outcome = e.outcome
        /\ f.began = e.began /\ f.requests = e.requests
    BY <1>3, <2>2 DEF CallRecord, SameCall, TracesJoined
  <2>4. call[p].form.tool = "check_stack" /\ call[p].form.tool \in Tools
    BY <1>3, <2>1 DEF Underway
  <2>5. PICK stage \in Stages : stage = "page"
    BY DEF Stages
  <2>6. Hears(p, r, Asking(f, stage)) /\ stage # "probe" /\ stage # "single"
    BY <2>1, <2>5
  <2> HIDE DEF f
  <2>7. SameCall(call[p], f) /\ f.outcome = call[p].outcome
        /\ clock <= f.began + f.requests * UpstreamTimeout
    BY <1>3, <2>3 DEF SameCall
  <2> QED BY <1>2, <2>3, <2>4, <2>6, <2>7, ToAsking DEF Hears
<1>6. CASE FetchEmpty(p, r)
  <2>1. /\ Hears(p, r, Asking(e, "probe")) /\ call[p].stage = "page"
        /\ r = AnswerOf(200, "whole")
    BY <1>6 DEF FetchEmpty, Stage, GetSucceeds
  <2>2. config.base
    <3>1. r.at = "answer"
      BY <2>1 DEF AnswerOf
    <3>2. Unbuilt.at = "build"
      BY DEF Unbuilt
    <3> QED BY <1>3, <3>1, <3>2
  <2>3. call[p].form.tool = "check_stack" /\ call[p].form.tool \in Tools
    BY <1>3, <2>1 DEF Underway
  <2>4. PICK stage \in Stages : stage = "probe"
    BY DEF Stages
  <2>5. Hears(p, r, Asking(e, stage)) /\ stage # "single"
    BY <2>1, <2>4
  <2> HIDE DEF e
  <2> QED BY <1>2, <1>3, <2>2, <2>3, <2>5, ToAsking DEF Hears
<1>7. CASE FetchLast(p, r) \/ FetchFails(p, r) \/ Probe(p, r)
  <2>1. Hears(p, r, NextComponent(e)) /\ call[p].stage \in {"page", "probe"}
    BY <1>7 DEF FetchLast, FetchFails, Probe, Stage
  <2>2. call[p].form.tool = "check_stack" /\ call[p].outcome = ""
    BY <1>2, <1>3, <2>1, AtWork DEF Underway
  <2> HIDE DEF e
  <2> QED BY <1>2, <1>3, <2>1, <2>2, ToNextComponent DEF Hears
<1> QED BY <1>1, <1>4, <1>5, <1>6, <1>7

(* An answer that is written or lost frees its goroutine                   *)
(* (main.go:217-231).                                                      *)
LEMMA AnsweredStep ==
  ASSUME IInv, NEW p \in Procs, Deliver(p) \/ Lose(p)
  PROVE  IInv'
<1>1. Phase(p) = "answering" /\ Goes(p, Idle)
  BY DEF Deliver, Lose
<1>2. CallSound(Idle)
  BY IdleIsRecord DEF CallSound
<1> QED BY <1>1, <1>2, IdleIsRecord, OwnStep DEF Goes

(* A caller that leaves or cancels keeps the invariant. *)
LEMMA InterruptedStep ==
  ASSUME IInv, NEW p \in Procs, Leave(p) \/ Cancel(p)
  PROVE  IInv'
<1>1. PICK d : /\ Phase(p) = "fetching" /\ Goes(p, d)
               /\ \/ d = [call[p] EXCEPT !.gone = TRUE]
                  \/ d = [call[p] EXCEPT !.ctx = "cancelling"]
  BY DEF Leave, Cancel, Fetching
<1>2. call[p] \in CallRecord /\ CallSound(call[p])
  BY <1>1, AtWork
<1>3. d \in CallRecord
  BY <1>1, <1>2 DEF CallRecord
<1>4. /\ d.phase = call[p].phase /\ d.outcome = call[p].outcome /\ d.id = call[p].id
      /\ d.form = call[p].form /\ d.client = call[p].client /\ d.class = call[p].class
      /\ d.stage = call[p].stage /\ d.sent = call[p].sent /\ d.began = call[p].began
      /\ d.requests = call[p].requests /\ d.meta = call[p].meta /\ d.traced = call[p].traced
  BY <1>1, <1>2 DEF CallRecord
<1>5. OnTime(d) <=> OnTime(call[p])
  BY Zenon, <1>4 DEF OnTime
<1>6. Underway(d) <=> Underway(call[p])
  BY Zenon, <1>4 DEF Underway
<1>7. call[p].phase = "fetching"
  BY <1>1 DEF Phase
<1>8. d.phase = "fetching"
  BY <1>4, <1>7
<1>9. CallSound(d)
  <2>1. TracesJoined(d) <=> TracesJoined(call[p])
    BY Zenon, <1>4 DEF TracesJoined
  <2> QED BY <1>2, <1>4, <1>5, <1>6, <1>7, <1>8, <2>1 DEF CallSound
<1> QED BY <1>1, <1>3, <1>4, <1>8, <1>9, OwnStep DEF Goes

(* The audit record is written while the call's id is its own. *)
LEMMA AuditStep ==
  ASSUME IInv, NEW p \in Procs, Audit(p)
  PROVE  IInv'
<1> USE DEF limiter
<1> DEFINE d == [call[p] EXCEPT !.phase = "answering"]
<1>1. Phase(p) = "returned" /\ call' = [call EXCEPT ![p] = d] /\ UNCHANGED <<limiter, config>>
  BY DEF Audit
<1>2. call \in [Procs -> CallRecord] /\ call[p] \in CallRecord /\ CallSound(call[p]) /\ asked \in Nat
  BY <1>1, AtWork DEF IInv, Limiter!TypeOK
<1>3. d \in CallRecord
  BY <1>2 DEF CallRecord, Phases
<1>4. /\ d.phase = "answering" /\ d.outcome = call[p].outcome /\ d.id = call[p].id
      /\ d.form = call[p].form /\ d.client = call[p].client /\ d.class = call[p].class
      /\ d.began = call[p].began /\ d.requests = call[p].requests
      /\ d.meta = call[p].meta /\ d.traced = call[p].traced
  BY <1>2 DEF CallRecord
<1> HIDE DEF d
<1>5. CallSound(d)
  <2>1. call[p].phase = "returned"
    BY <1>1 DEF Phase
  <2>2. OnTime(d)
    BY <1>2, <1>4, <2>1 DEF CallSound, OnTime
  <2>3. TracesJoined(d) <=> TracesJoined(call[p])
    BY Zenon, <1>4 DEF TracesJoined
  <2> QED BY <1>2, <1>4, <2>1, <2>2, <2>3 DEF CallSound
<1>6. /\ call'[p] = d /\ (\A q \in Procs : q # p => call'[q] = call[q])
      /\ call' \in [Procs -> CallRecord]
  BY <1>1, <1>2, <1>3
<1>7. Limiter!TypeOK' /\ (config \in Setting)'
  BY <1>1 DEF IInv, Limiter!TypeOK, Limiter!Bucket, Limiter!Request
<1>8. CallsSound'
  <2>1. ASSUME NEW q \in Procs PROVE CallSound(call'[q])
    BY <1>5, <1>6 DEF IInv, CallsSound
  <2>2. asked' = asked /\ clock' = clock
    BY <1>1
  <2>3. \A q \in Procs : CallSound(call[q])'
    BY <1>1, <1>2, <2>1, <2>2, StaysSound
  <2> QED BY <1>6, <2>3 DEF CallsSound
<1> DEFINE record == Record(call[p])
<1>9. record.id = call[p].id /\ (record.values # {} => config.audit = "full")
  BY DEF Record, auditMode
<1> HIDE DEF record
<1>10. trail' = trail \/ trail' = Append(trail, record)
  BY DEF Audit, record
<1>11. trail \in Seq({trail[i] : i \in DOMAIN trail})
  BY DEF IInv, TrailSound
<1>12. ASSUME NEW i \in DOMAIN trail'
       PROVE  trail'[i] = record \/ (i \in DOMAIN trail /\ trail'[i] = trail[i])
  <2>1. CASE trail' = trail
    BY <2>1
  <2>2. CASE trail' = Append(trail, record)
    <3>1. /\ DOMAIN trail = 1 .. Len(trail) /\ Len(trail) \in Nat
      BY <1>11
    <3>2. DOMAIN trail' = 1 .. Len(trail) + 1
      BY <1>11, <2>2
    <3>3. i \in 1 .. Len(trail) \/ i = Len(trail) + 1
      BY <3>1, <3>2
    <3>4. CASE i \in 1 .. Len(trail)
      BY <1>11, <2>2, <3>1, <3>4
    <3>5. CASE i = Len(trail) + 1
      BY <1>11, <2>2, <3>5
    <3> QED BY <3>3, <3>4, <3>5
  <2> QED BY <1>10, <2>1, <2>2
<1>13. TrailSound'
  <2>1. trail' \in Seq({trail'[i] : i \in DOMAIN trail'})
    <3> DEFINE S == {trail[i] : i \in DOMAIN trail}
               T == S \cup {record}
    <3>1. trail \in Seq(T)
      BY <1>11
    <3>2. trail' \in Seq(T)
      BY <1>10, <3>1
    <3> HIDE DEF T
    <3>3. trail' \in [1 .. Len(trail') -> T] /\ Len(trail') \in Nat /\ DOMAIN trail' = 1 .. Len(trail')
      BY <3>2
    <3>4. trail' \in [1 .. Len(trail') -> {trail'[i] : i \in DOMAIN trail'}]
      BY <3>3
    <3> QED BY <3>3, <3>4, SeqDef
  <2>2. ASSUME NEW i \in DOMAIN trail'
        PROVE  trail'[i].id \in 1 .. asked /\ (trail'[i].values # {} => config.audit = "full")
    <3>1. CASE trail'[i] = record
      <4>1. call[p].id \in 1 .. asked
        BY <1>1, <1>2 DEF CallSound, Phase
      <4> QED BY <1>9, <3>1, <4>1
    <3>2. CASE i \in DOMAIN trail /\ trail'[i] = trail[i]
      BY <3>2 DEF IInv, TrailSound
    <3> QED BY <1>12, <3>1, <3>2
  <2> QED BY <1>1, <2>1, <2>2 DEF TrailSound
<1>14. IdsOnce'
  <2>1. \A q, r \in Procs :
          q # r /\ call[q].phase # "idle" /\ call[r].phase # "idle" => call[q].id # call[r].id
    BY DEF IInv, IdsOnce, Phase
  <2>2. call[p].phase # "idle" /\ d.phase # "idle"
    BY <1>1, <1>4 DEF Phase
  <2>3. ASSUME NEW q \in Procs, NEW r \in Procs, q # r, call'[q].phase # "idle", call'[r].phase # "idle"
        PROVE  call'[q].id # call'[r].id
    <3>1. CASE q = p
      BY <1>4, <1>6, <2>1, <2>2, <2>3, <3>1
    <3>2. CASE r = p
      BY <1>4, <1>6, <2>1, <2>2, <2>3, <3>2
    <3>3. CASE q # p /\ r # p
      BY <1>6, <2>1, <2>3, <3>3
    <3> QED BY <3>1, <3>2, <3>3
  <2>4. ASSUME NEW q \in Procs, NEW i \in DOMAIN trail', trail'[i].id = call'[q].id
        PROVE  call'[q].phase \in {"idle", "answering"}
    <3>1. CASE q = p
      BY <1>4, <1>6, <3>1
    <3>2. CASE q # p /\ trail'[i] = record
      BY <1>6, <1>9, <2>1, <2>2, <2>4, <3>2
    <3>3. CASE q # p /\ i \in DOMAIN trail /\ trail'[i] = trail[i]
      BY <1>6, <2>4, <3>3 DEF IInv, IdsOnce, Phase
    <3> QED BY <1>12, <3>1, <3>2, <3>3
  <2> QED BY <2>3, <2>4 DEF IdsOnce, Phase
<1>15. WaitingMatches'
  <2>1. \A q \in Procs : (call'[q].phase = "waiting") = (call[q].phase = "waiting")
    BY <1>1, <1>4, <1>6 DEF Phase
  <2>2. pending' = pending
    BY <1>1
  <2> QED BY <2>1, <2>2 DEF IInv, WaitingMatches, Phase
<1> QED BY <1>7, <1>8, <1>13, <1>14, <1>15 DEF IInv

-----------------------------------------------------------------------------
(* The front keeps the invariant. *)

(* A call whose request has just arrived. *)
NewCall(d, c, class, meta) ==
  /\ d.phase \in {"waiting", "serving"} /\ d.client = c /\ d.class = class
  /\ d.form \in Forms /\ d.meta = meta /\ d.id = asked + 1
  /\ d.began = clock /\ d.requests = 0 /\ d.outcome = "" /\ d.traced = {}

Classes == {"", "self", "external"}
FrontPhases == {"waiting", "serving"}

(* What is known of a call on arrival (main.go:201-203,                    *)
(* ratelimit.go:141-157).                                                  *)
LEMMA ArrivedFields ==
  IInv => \A c \in Clients, class \in Classes, form \in Forms, meta \in Traces,
             phase \in FrontPhases : \A d :
            d = [Arrived(c, class, form, meta) EXCEPT !.phase = phase] =>
              d \in CallRecord /\ NewCall(d, c, class, meta) /\ d.phase = phase
<1> HAVE IInv
<1>0. clock \in Nat /\ asked \in Nat
  BY DEF IInv, Limiter!TypeOK
<1> DEFINE id == asked + 1
<1>9. id \in Nat
  BY <1>0
<1>10. Forms \subseteq Form
  BY ServerAssumption
<1>1. clock \in Nat /\ id \in Nat /\ Forms \subseteq Form /\ Idle \in CallRecord
  BY <1>0, <1>9, <1>10, IdleIsRecord, Zenon
<1> TAKE c \in Clients, class \in Classes, form \in Forms, meta \in Traces,
         phase \in FrontPhases
<1> TAKE d
<1> HAVE d = [Arrived(c, class, form, meta) EXCEPT !.phase = phase]
<1>2. d = [Idle EXCEPT !.client = c, !.class = class, !.form = form, !.meta = meta,
                       !.id = id, !.began = clock, !.phase = phase]
  BY <1>1 DEF Arrived, CallRecord
<1> HIDE DEF id
<1>3. form \in Form
  BY <1>1
<1>4. d \in CallRecord
  <2>1. meta \in Metas
    BY DEF Metas
  <2> QED BY <1>1, <1>2, <1>3, <2>1 DEF CallRecord, Phases, Classes, FrontPhases
<1>5. /\ d.phase = phase /\ d.client = c /\ d.class = class /\ d.form = form
      /\ d.meta = meta /\ d.id = id /\ d.began = clock
  BY <1>1, <1>2 DEF CallRecord
<1>6. d.requests = Idle.requests /\ d.outcome = Idle.outcome /\ d.traced = Idle.traced
  BY <1>1, <1>2 DEF CallRecord
<1>7. Idle.requests = 0 /\ Idle.outcome = "" /\ Idle.traced = {}
  BY DEF Idle
<1>8. NewCall(d, c, class, meta)
  BY <1>5, <1>6, <1>7 DEF NewCall, FrontPhases, id
<1> QED BY <1>4, <1>5, <1>8

(***************************************************************************)
(* A request that arrives gets an id of its own, and the class of its own  *)
(* client.                                                                 *)
(***************************************************************************)
LEMMA ArrivedStep ==
  ASSUME IInv, NEW p \in Procs, Phase(p) = "idle",
         NEW c \in Clients, NEW meta \in Traces, NEW d \in CallRecord,
         NewCall(d, c, OwnClass(c), meta),
         call' = [call EXCEPT ![p] = d], asked' = asked + 1,
         UNCHANGED <<clock, config, trail>>, Limiter!TypeOK', WaitingMatches'
  PROVE  IInv'
<1>1. /\ call \in [Procs -> CallRecord] /\ asked \in Nat /\ clock \in Nat
      /\ \A q \in Procs : CallSound(call[q])
  BY DEF IInv, CallsSound, Limiter!TypeOK
<1>2. /\ call'[p] = d /\ (\A q \in Procs : q # p => call'[q] = call[q])
      /\ call' \in [Procs -> CallRecord]
  BY <1>1
<1>3. asked' \in Nat /\ asked <= asked' /\ asked + 1 \in 1 .. asked'
  BY <1>1
<1>4. CallsSound'
  <2>1. ASSUME NEW q \in Procs, q # p PROVE CallSound(call[q])'
    BY <1>1, <1>2, <1>3, <2>1, StaysSound
  <2>2. OnTime(call[p])'
    <3>1. clock <= clock + 0 * UpstreamTimeout
      BY <1>1, ServerAssumption
    <3>2. clock' <= call'[p].began + call'[p].requests * UpstreamTimeout
      BY <1>2, <3>1 DEF NewCall
    <3>3. call'[p].phase # "fetching"
      BY <1>2 DEF NewCall
    <3> QED BY <3>2, <3>3 DEF OnTime
  <2>3. (OwnClass(call[p].client))' = OwnClass(c)
    BY <1>2 DEF OwnClass, NewCall
  <2>5. TracesJoined(call[p])'
    BY <1>2 DEF TracesJoined, NewCall
  <2>4. CallSound(call[p])'
    BY <1>2, <1>3, <2>2, <2>3, <2>5 DEF CallSound, NewCall
  <2> QED BY <1>2, <2>1, <2>4 DEF CallsSound
<1>5. \A q \in Procs : call[q].phase # "idle" => call[q].id # d.id
  <2>1. \A q \in Procs : call[q].phase # "idle" => call[q].id \in 1 .. asked
    BY <1>1 DEF CallSound
  <2>2. asked + 1 \notin 1 .. asked
    BY <1>1
  <2> QED BY <2>1, <2>2 DEF NewCall
<1>6. \A i \in DOMAIN trail : trail[i].id # d.id
  <2>1. \A i \in DOMAIN trail : trail[i].id \in 1 .. asked
    BY DEF IInv, TrailSound
  <2>2. asked + 1 \notin 1 .. asked
    BY <1>1
  <2> QED BY <2>1, <2>2 DEF NewCall
<1>7. IdsOnce'
  <2>1. \A q, r \in Procs :
          q # r /\ call[q].phase # "idle" /\ call[r].phase # "idle" => call[q].id # call[r].id
    BY DEF IInv, IdsOnce, Phase
  <2>2. ASSUME NEW q \in Procs, NEW r \in Procs, q # r, call'[q].phase # "idle", call'[r].phase # "idle"
        PROVE  call'[q].id # call'[r].id
    <3>1. CASE q = p
      BY <1>2, <1>5, <2>2, <3>1
    <3>2. CASE r = p
      BY <1>2, <1>5, <2>2, <3>2
    <3>3. CASE q # p /\ r # p
      BY <1>2, <2>1, <2>2, <3>3
    <3> QED BY <3>1, <3>2, <3>3
  <2>3. ASSUME NEW q \in Procs, NEW i \in DOMAIN trail, trail[i].id = call'[q].id
        PROVE  call'[q].phase \in {"idle", "answering"}
    <3>1. CASE q = p
      BY <1>2, <1>6, <2>3, <3>1
    <3>2. CASE q # p
      BY <1>2, <2>3, <3>2 DEF IInv, IdsOnce, Phase
    <3> QED BY <3>1, <3>2
  <2> QED BY <2>2, <2>3 DEF IdsOnce, Phase
<1>8. TrailSound'
  <2>1. ASSUME NEW i \in DOMAIN trail PROVE trail[i].id \in 1 .. asked'
    <3>1. trail[i].id \in 1 .. asked
      BY DEF IInv, TrailSound
    <3>2. 1 .. asked \subseteq 1 .. asked'
      BY <1>1, <1>3
    <3> QED BY <3>1, <3>2
  <2> QED BY <2>1 DEF IInv, TrailSound
<1>9. (config \in Setting)'
  BY DEF IInv
<1> QED BY <1>4, <1>7, <1>8, <1>9 DEF IInv

(* An arrival without a limiter keeps the invariant                        *)
(* (ratelimit.go:149-165).                                                 *)
LEMMA ArriveUnlimitedStep ==
  ASSUME IInv, NEW p \in Procs, NEW c \in Clients, NEW form \in Forms, NEW meta \in Traces,
         ArriveUnlimited(p, c, form, meta)
  PROVE  IInv'
<1>1. PICK class :
        /\ class \in IF config.http
                      THEN {ClassOf(Limiter!callerKey(h)) : h \in Limiter!Forwarded(c)}
                      ELSE {""}
        /\ call' = [call EXCEPT ![p] =
                     [Arrived(c, class, form, meta) EXCEPT !.phase = "serving"]]
  BY DEF ArriveUnlimited
<1>2. class = OwnClass(c)
  BY <1>1, KeyOfClient DEF ClassOf, OwnClass
<1>3. class \in Classes
  BY <1>2 DEF OwnClass, Classes
<1> DEFINE d == [Arrived(c, class, form, meta) EXCEPT !.phase = "serving"]
<1>4. PICK phase \in FrontPhases : phase = "serving"
  BY DEF FrontPhases
<1>5. d = [Arrived(c, class, form, meta) EXCEPT !.phase = phase] /\ call' = [call EXCEPT ![p] = d]
  BY <1>1, <1>4
<1> HIDE DEF d
<1>6. d \in CallRecord /\ NewCall(d, c, class, meta) /\ d.phase = phase
  BY <1>3, <1>5, ArrivedFields
<1>7. /\ Phase(p) = "idle" /\ asked' = asked + 1
      /\ UNCHANGED <<clock, seen, pending, hist, config, trail>>
  BY DEF ArriveUnlimited
<1>8. Limiter!TypeOK'
  <2>1. asked \in Nat
    BY DEF IInv, Limiter!TypeOK
  <2>2. asked' \in Nat
    BY <1>7, <2>1
  <2> QED BY <1>7, <2>2 DEF IInv, Limiter!TypeOK, Limiter!Bucket, Limiter!Request
<1>9. WaitingMatches'
  <2>1. call \in [Procs -> CallRecord]
    BY DEF IInv, CallsSound
  <2>2. \A q \in Procs : (call'[q].phase = "waiting") = (call[q].phase = "waiting")
    BY <1>4, <1>5, <1>6, <1>7, <2>1 DEF Phase
  <2>3. pending' = pending
    BY <1>7
  <2> QED BY <2>2, <2>3 DEF IInv, WaitingMatches, Phase
<1> QED BY <1>2, <1>5, <1>6, <1>7, <1>8, <1>9, ArrivedStep

(* An arrival at the limiter's lock keeps the invariant                    *)
(* (ratelimit.go:149-168).                                                 *)
LEMMA ArriveLimitedStep ==
  ASSUME IInv, NEW p \in Procs, NEW c \in Clients, NEW form \in Forms, NEW meta \in Traces,
         ArriveLimited(p, c, form, meta)
  PROVE  IInv'
<1>1. /\ Phase(p) = "idle" /\ config.http /\ Limiter!Arrive(p, c)
      /\ UNCHANGED <<config, trail>>
  BY DEF ArriveLimited, Limited
<1> DEFINE request == [proc |-> p, client |-> c, key |-> c, now |-> clock]
<1>2. /\ pending' = pending \cup {request}
      /\ \A r \in pending : r.proc # p
      /\ asked' = asked + 1
      /\ UNCHANGED <<clock, seen, hist>>
  BY <1>1, ArrivesOnce
<1>3. request.proc = p /\ request.key = c
  OBVIOUS
<1> HIDE DEF request
<1>4. PICK r \in pending' :
        /\ r.proc = p
        /\ call' = [call EXCEPT ![p] =
                     [Arrived(c, ClassOf(r.key), form, meta) EXCEPT !.phase = "waiting"]]
  BY DEF ArriveLimited
<1>5. r = request
  BY <1>2, <1>4
<1> DEFINE class == ClassOf(r.key)
<1>6. class = OwnClass(c) /\ class \in Classes
  BY <1>1, <1>3, <1>5 DEF ClassOf, OwnClass, Classes
<1> DEFINE d == [Arrived(c, class, form, meta) EXCEPT !.phase = "waiting"]
<1>7. PICK phase \in FrontPhases : phase = "waiting"
  BY DEF FrontPhases
<1>8. d = [Arrived(c, class, form, meta) EXCEPT !.phase = phase] /\ call' = [call EXCEPT ![p] = d]
  BY <1>4, <1>7
<1> HIDE DEF class, d
<1>9. d \in CallRecord /\ NewCall(d, c, class, meta) /\ d.phase = phase
  BY <1>6, <1>8, ArrivedFields
<1>10. Limiter!TypeOK'
  BY <1>1, LimiterTypes DEF IInv
<1>11. WaitingMatches'
  <2>1. call \in [Procs -> CallRecord]
    BY DEF IInv, CallsSound
  <2>2. call'[p].phase = "waiting" /\ \A q \in Procs : q # p => call'[q] = call[q]
    BY <1>7, <1>8, <1>9, <2>1
  <2>3. \A s \in pending' : s = request \/ (s \in pending /\ s.proc # p)
    BY <1>2
  <2>4. \A s \in pending' : s.proc \in Procs /\ call'[s.proc].phase = "waiting"
    BY <1>3, <2>2, <2>3 DEF IInv, WaitingMatches, Phase
  <2>5. \A q \in Procs : call'[q].phase = "waiting" => \E s \in pending' : s.proc = q
    BY <1>2, <1>3, <2>2 DEF IInv, WaitingMatches, Phase
  <2>6. \A s, t \in pending' : s.proc = t.proc => s = t
    BY <1>3, <2>3 DEF IInv, WaitingMatches
  <2> QED BY <2>4, <2>5, <2>6 DEF WaitingMatches, Phase
<1> QED BY <1>1, <1>2, <1>6, <1>8, <1>9, <1>10, <1>11, ArrivedStep

(* The limiter's lock: the request goes on, or its goroutine is free.      *)
LEMMA ServedStep ==
  ASSUME IInv, NEW p \in Procs, Admit(p) \/ Deny(p)
  PROVE  IInv'
<1>1. PICK r \in pending :
        /\ r.proc = p
        /\ Limiter!OpenWindow(r) \/ Limiter!CountRequest(r) \/ Limiter!Deny(r)
        /\ \/ call' = [call EXCEPT ![p].phase = "serving"]
           \/ call' = [call EXCEPT ![p] = Idle]
        /\ UNCHANGED <<config, trail>>
  BY DEF Admit, Deny
<1>2. pending' = pending \ {r} /\ UNCHANGED <<clock, asked>>
  BY <1>1, LimiterServes
<1>3. Limiter!TypeOK'
  BY <1>1, LimiterTypes DEF IInv
<1>4. /\ call \in [Procs -> CallRecord] /\ call[p] \in CallRecord /\ CallSound(call[p])
      /\ asked \in Nat /\ asked' \in Nat /\ asked <= asked'
      /\ call[p].phase = "waiting"
  <2>1. call[p].phase = "waiting"
    BY <1>1 DEF IInv, WaitingMatches, Phase
  <2>2. asked \in Nat
    BY DEF IInv, Limiter!TypeOK
  <2>3. asked <= asked' /\ asked' \in Nat
    BY <1>2, <2>2
  <2> QED BY <2>1, <2>2, <2>3 DEF IInv, CallsSound
<1> DEFINE d == call'[p]
<1>5. /\ d \in CallRecord /\ call' \in [Procs -> CallRecord]
      /\ \A q \in Procs : q # p => call'[q] = call[q]
      /\ \/ d = Idle
         \/ d = [call[p] EXCEPT !.phase = "serving"]
  <2>1. [call[p] EXCEPT !.phase = "serving"] \in CallRecord
    BY <1>4 DEF CallRecord, Phases
  <2> QED BY <1>1, <1>4, <2>1, IdleIsRecord
<1> HIDE DEF d
<1>6. CallSound(d) /\ d.phase # "waiting" /\ (d = Idle \/ d.id = call[p].id)
  <2>1. CASE d = Idle
    BY <2>1, IdleIsRecord DEF CallSound
  <2>2. CASE d = [call[p] EXCEPT !.phase = "serving"]
    <3>1. /\ d.phase = "serving" /\ d.outcome = call[p].outcome /\ d.id = call[p].id
          /\ d.form = call[p].form /\ d.client = call[p].client /\ d.class = call[p].class
          /\ d.began = call[p].began /\ d.requests = call[p].requests
          /\ d.meta = call[p].meta /\ d.traced = call[p].traced
      BY <1>4, <2>2 DEF CallRecord
    <3>2. OnTime(d)
      BY <1>4, <3>1 DEF CallSound, OnTime
    <3>3. TracesJoined(d) <=> TracesJoined(call[p])
      BY Zenon, <3>1 DEF TracesJoined
    <3> QED BY <1>4, <3>1, <3>2, <3>3 DEF CallSound
  <2> QED BY <1>5, <2>1, <2>2
<1>7. CallsSound'
  <2>1. ASSUME NEW q \in Procs PROVE CallSound(call'[q])
    BY <1>5, <1>6 DEF IInv, CallsSound, d
  <2>2. \A q \in Procs : CallSound(call[q])'
    BY <1>1, <1>2, <1>4, <2>1, StaysSound
  <2> QED BY <1>5, <2>2 DEF CallsSound
<1>8. IdsOnce'
  <2>1. \A q, s \in Procs :
          q # s /\ call[q].phase # "idle" /\ call[s].phase # "idle" => call[q].id # call[s].id
    BY DEF IInv, IdsOnce, Phase
  <2>2. call[p].phase # "idle" /\ (d.phase # "idle" => d.id = call[p].id) /\ call'[p] = d
    BY <1>4, <1>6, IdleIsRecord DEF d
  <2>3. ASSUME NEW q \in Procs, NEW s \in Procs, q # s, call'[q].phase # "idle", call'[s].phase # "idle"
        PROVE  call'[q].id # call'[s].id
    <3>1. CASE q = p
      BY <1>5, <2>1, <2>2, <2>3, <3>1
    <3>2. CASE s = p
      BY <1>5, <2>1, <2>2, <2>3, <3>2
    <3>3. CASE q # p /\ s # p
      BY <1>5, <2>1, <2>3, <3>3
    <3> QED BY <3>1, <3>2, <3>3
  <2>4. ASSUME NEW q \in Procs, NEW i \in DOMAIN trail, trail[i].id = call'[q].id
        PROVE  call'[q].phase \in {"idle", "answering"}
    <3>1. CASE q = p /\ d = Idle
      BY <2>2, <3>1, IdleIsRecord
    <3>2. CASE q = p /\ d # Idle
      <4>1. trail[i].id = call[p].id
        BY <1>6, <2>2, <2>4, <3>2
      <4> QED BY <1>4, <4>1 DEF IInv, IdsOnce, Phase
    <3>3. CASE q # p
      BY <1>5, <2>4, <3>3 DEF IInv, IdsOnce, Phase
    <3> QED BY <3>1, <3>2, <3>3
  <2> QED BY <1>1, <2>3, <2>4 DEF IdsOnce, Phase
<1>9. TrailSound' /\ (config \in Setting)'
  BY <1>1, <1>2 DEF IInv, TrailSound
<1>10. WaitingMatches'
  <2>1. \A s \in pending' : s.proc # p
    BY <1>1, <1>2 DEF IInv, WaitingMatches
  <2>2. \A s \in pending' : s.proc \in Procs /\ call'[s.proc].phase = "waiting"
    BY <1>2, <1>5, <2>1 DEF IInv, WaitingMatches, Phase
  <2>3. ASSUME NEW q \in Procs, call'[q].phase = "waiting" PROVE \E s \in pending' : s.proc = q
    <3>1. q # p /\ call[q].phase = "waiting"
      BY <1>5, <1>6, <2>3 DEF d
    <3> QED BY <1>1, <1>2, <3>1 DEF IInv, WaitingMatches, Phase
  <2>4. \A s, t \in pending' : s.proc = t.proc => s = t
    BY <1>2 DEF IInv, WaitingMatches
  <2> QED BY <2>2, <2>3, <2>4 DEF WaitingMatches, Phase
<1> QED BY <1>3, <1>7, <1>8, <1>9, <1>10 DEF IInv

(***************************************************************************)
(* The clock moves while every call waits for upstream, and for none past  *)
(* the client's timeout.                                                   *)
(***************************************************************************)
LEMMA TickStep ==
  ASSUME IInv, Tick
  PROVE  IInv'
<1>1. /\ \A p \in Procs : Phase(p) = "idle" \/ Patient(call[p])
      /\ Limiter!Tick /\ UNCHANGED <<config, call, trail>>
  BY DEF Tick
<1>2. clock' = clock + 1 /\ UNCHANGED <<seen, pending, asked, hist>>
  BY <1>1 DEF Limiter!Tick
<1>3. Limiter!TypeOK'
  BY <1>1, LimiterTypes DEF IInv
<1>4. CallsSound'
  <2>1. call \in [Procs -> CallRecord] /\ clock \in Nat
    BY DEF IInv, CallsSound, Limiter!TypeOK
  <2>2. ASSUME NEW p \in Procs PROVE CallSound(call[p])'
    <3>1. call[p] \in CallRecord /\ CallSound(call[p])
      BY <2>1 DEF IInv, CallsSound
    <3>2. CASE Phase(p) = "idle"
      <4>1. call[p] = Idle
        BY <3>1, <3>2 DEF CallSound, Phase
      <4>2. call'[p] = Idle
        BY <1>1, <4>1
      <4> QED BY <4>2, IdleIsRecord DEF CallSound
    <3>3. CASE Patient(call[p])
      <4>1. /\ call[p].phase = "fetching" /\ config.base
            /\ clock - call[p].sent < UpstreamTimeout
        BY <3>3 DEF Patient
      <4>2. call[p].sent \in Nat /\ UpstreamTimeout \in Nat
        BY <3>1, ServerAssumption DEF CallRecord
      <4>3. call[p].sent <= clock
        BY <3>1, <4>1 DEF CallSound, OnTime
      <4>4. call[p].sent <= clock' /\ clock' <= call[p].sent + UpstreamTimeout
        <5> DEFINE s == call[p].sent
        <5>1. clock - s < UpstreamTimeout /\ s \in Nat /\ s <= clock
          BY <4>1, <4>2, <4>3
        <5> HIDE DEF s
        <5>2. s <= clock' /\ clock' <= s + UpstreamTimeout
          BY <1>2, <2>1, <4>2, <5>1
        <5> QED BY <5>2 DEF s
      <4>5. OnTime(call[p])'
        BY <1>1, <3>1, <4>1, <4>4 DEF CallSound, OnTime
      <4>6. TracesJoined(call[p])'
        BY <1>1, <3>1 DEF CallSound, TracesJoined
      <4> QED BY <1>1, <1>2, <3>1, <4>1, <4>5, <4>6 DEF CallSound, OwnClass, Underway
    <3> QED BY <1>1, <3>2, <3>3
  <2> QED BY <1>1, <2>1, <2>2 DEF CallsSound
<1>5. IdsOnce' /\ TrailSound' /\ WaitingMatches' /\ (config \in Setting)'
  BY <1>1, <1>2 DEF IInv, IdsOnce, TrailSound, WaitingMatches, Phase
<1> QED BY <1>3, <1>4, <1>5 DEF IInv

(* The invariant holds of an idle server in any deployment. *)
LEMMA InvInit == Init => IInv
<1> SUFFICES ASSUME Init PROVE IInv
  OBVIOUS
<1>1. Limiter!TypeOK
  <2>1. LimiterProofs!Init
    BY DEF Init, Limiter!Init, LimiterProofs!Init
  <2> QED BY <2>1, SameLimiter, LimiterAssumptions, LimiterProofs!TypeInit
<1>2. config \in Setting
  BY ServerAssumption DEF Init
<1>3. \A p \in Procs : call[p] = Idle
  BY DEF Init
<1>4. CallsSound
  <2>1. CallSound(Idle)
    BY IdleIsRecord DEF CallSound
  <2> QED BY <1>3, <2>1, IdleIsRecord DEF Init, CallsSound
<1>5. pending = {} /\ trail = <<>>
  BY DEF Init, Limiter!Init
<1>6. IdsOnce /\ WaitingMatches
  BY <1>3, <1>5, IdleIsRecord DEF IdsOnce, WaitingMatches, Phase
<1>7. TrailSound
  BY <1>5 DEF TrailSound
<1> QED BY <1>1, <1>2, <1>4, <1>6, <1>7 DEF IInv

(* Every step of a goroutine, of a caller and of the clock keeps the       *)
(* invariant.                                                              *)
LEMMA InvStep == IInv /\ [Next]_vars => IInv'
<1> SUFFICES ASSUME IInv, [Next]_vars PROVE IInv'
  OBVIOUS
<1>1. CASE Tick
  BY <1>1, TickStep
<1>2. CASE \E p \in Procs, c \in Clients, form \in Forms, meta \in Traces :
             ArriveLimited(p, c, form, meta) \/ ArriveUnlimited(p, c, form, meta)
  BY <1>2, ArriveLimitedStep, ArriveUnlimitedStep
<1>3. CASE \E p \in Procs : Run(p) \/ Hear(p)
  <2> SUFFICES ASSUME NEW p \in Procs, Run(p) \/ Hear(p) PROVE IInv'
    BY <1>3
  <2>1. CASE Hear(p)
    BY <2>1, HearStep
  <2>2. CASE Run(p)
    BY <2>2, ServedStep, ProtocolStep, RefusedStep, AskSingleStep, AskStackStep, AuditStep,
       AnsweredStep DEF Run
  <2> QED BY <2>1, <2>2
<1>4. CASE \E p \in Procs : Leave(p) \/ Cancel(p)
  BY <1>4, InterruptedStep
<1>5. CASE UNCHANGED vars
  <2>1. UNCHANGED <<clock, seen, pending, asked, hist, config, call, trail>>
    BY <1>5 DEF vars
  <2>2. Limiter!TypeOK' /\ (config \in Setting)'
    BY <2>1 DEF IInv, Limiter!TypeOK, Limiter!Bucket, Limiter!Request
  <2>3. CallsSound'
    <3>1. asked \in Nat /\ asked' \in Nat /\ asked <= asked'
      BY <2>1 DEF IInv, Limiter!TypeOK
    <3>2. \A p \in Procs : CallSound(call'[p])
      BY <2>1 DEF IInv, CallsSound
    <3>3. \A p \in Procs : CallSound(call[p])'
      BY <2>1, <3>1, <3>2, StaysSound
    <3> QED BY <2>1, <3>3 DEF IInv, CallsSound
  <2>4. IdsOnce' /\ TrailSound' /\ WaitingMatches'
    BY <2>1 DEF IInv, IdsOnce, TrailSound, WaitingMatches, Phase
  <2> QED BY <2>2, <2>3, <2>4 DEF IInv
<1> QED BY <1>1, <1>2, <1>3, <1>4, <1>5 DEF Next, Finished

(***************************************************************************)
(* The invariant behind the theorems below: whatever goroutines share,     *)
(* each serves its own call, under an id of its own, in time.              *)
(***************************************************************************)
THEOREM CallsInvariant == Spec => []IInv
  BY InvInit, InvStep, PTL DEF Spec

-----------------------------------------------------------------------------
(* What an upstream request leaves behind. *)

(***************************************************************************)
(* The kinds of a step, as its goroutine's caller, the log and the audit   *)
(* stream can tell them apart.                                             *)
(***************************************************************************)
Moves(p) ==
  /\ p \in Procs
  /\ \A q \in Procs : q # p => call'[q] = call[q]
  /\ UNCHANGED <<config, trail>>

Queues(p) ==
  Moves(p) /\ Phase(p) \in {"idle", "waiting"} /\ call'[p].phase \in {"idle", "waiting"}

TakesOn(p) ==
  /\ Moves(p) /\ call'[p].phase = "serving"
  /\ \/ Phase(p) = "idle" /\ call'[p].id = asked + 1
     \/ Phase(p) = "waiting" /\ SameCall(call[p], call'[p])

Works(p) ==
  /\ Moves(p) /\ SameCall(call[p], call'[p])
  /\ Phase(p) \in {"serving", "fetching"}
  /\ call'[p].phase \in {"serving", "fetching", "returned"}

Replies(p) ==
  /\ Moves(p) /\ SameCall(call[p], call'[p])
  /\ Phase(p) = "serving" /\ call[p].form.tool = "" /\ call'[p].phase = "answering"

Closes(p) ==
  Moves(p) /\ Phase(p) = "answering" /\ call'[p] = Idle

(* The request in flight of p ends with r, in a step of the same call. *)
Ended(p, r) ==
  /\ exchange' = {Exchanged(p, r)}
  /\ p \in Procs /\ r \in Results
  /\ call[p] \in CallRecord /\ CallSound(call[p]) /\ Underway(call[p]) /\ May(call[p], r)
  /\ Works(p)

(* A request that is heard of has ended in one of the ways it may end. *)
LEMMA HearsEnds ==
  ASSUME IInv, NEW p \in Procs, NEW r \in Results, Fetching(p),
         NEW d, Hears(p, r, d), SameCall(Counted(p, r), d), d.phase \in {"fetching", "returned"}
  PROVE  Ended(p, r)
<1>1. /\ call \in [Procs -> CallRecord] /\ call[p] \in CallRecord /\ CallSound(call[p])
  BY AtWork DEF Fetching
<1>2. May(call[p], r) /\ exchange' = {Exchanged(p, r)} /\ UNCHANGED <<config, trail>>
  BY DEF Hears
<1>3. SameCall(call[p], Counted(p, r)) /\ Underway(call[p])
  BY <1>2, HeardCall
<1>4. call'[p] = d /\ \A q \in Procs : q # p => call'[q] = call[q]
  BY <1>1 DEF Hears
<1>6. SameCall(call[p], call'[p])
  BY <1>3, <1>4 DEF SameCall
<1>5. Works(p)
  BY <1>2, <1>4, <1>6 DEF Works, Moves, Fetching
<1> QED BY <1>1, <1>2, <1>3, <1>5 DEF Ended

(* Whatever the tool does with it, a result heard is one the request ended *)
(* with.                                                                   *)
LEMMA HearEnds ==
  ASSUME IInv, NEW p \in Procs, Hear(p)
  PROVE  \E r \in Results : Ended(p, r)
<1>1. PICK r \in Results :
        \/ FetchSingle(p, r) \/ FetchMore(p, r) \/ FetchLast(p, r)
        \/ FetchEmpty(p, r) \/ FetchFails(p, r) \/ Probe(p, r)
  BY DEF Hear
<1> DEFINE e == Counted(p, r)
<1>2. Fetching(p) /\ May(call[p], r)
  BY <1>1 DEF FetchSingle, FetchMore, FetchLast, FetchEmpty, FetchFails, Probe, Stage, Hears
<1>3. e \in CallRecord /\ clock \in Nat
  BY <1>2, HeardCall, AtWork DEF Fetching
<1>4. \A d : Hears(p, r, d) /\ SameCall(e, d) /\ d.phase \in {"fetching", "returned"} => Ended(p, r)
  BY <1>2, HearsEnds
<1>5. CASE FetchSingle(p, r)
  <2>1. PICK outcome \in Ends : Hears(p, r, Return(e, outcome))
    BY <1>5 DEF FetchSingle, Ends
  <2> HIDE DEF e
  <2> QED BY <1>3, <1>4, <2>1, ReturnFields
<1>6. CASE FetchMore(p, r)
  <2> DEFINE f == [e EXCEPT !.pages = @ + 1]
  <2>1. Hears(p, r, Asking(f, "page"))
    BY <1>6 DEF FetchMore
  <2> HIDE DEF e
  <2>0. e.pages \in Nat
    BY <1>3 DEF CallRecord
  <2>2. e.pages + 1 \in Nat
    BY <2>0
  <2>3. f \in CallRecord /\ SameCall(e, f)
    BY <1>3, <2>2 DEF CallRecord, SameCall, TracesJoined
  <2>4. PICK stage \in Stages : stage = "page"
    BY DEF Stages
  <2>5. Hears(p, r, Asking(f, stage))
    BY <2>1, <2>4
  <2> HIDE DEF f
  <2>6. SameCall(f, Asking(f, stage)) /\ Asking(f, stage).phase = "fetching"
    BY <1>3, <2>3, AskingFields
  <2>7. SameCall(e, Asking(f, stage))
    BY <2>3, <2>6 DEF SameCall
  <2> QED BY <1>4, <2>5, <2>6, <2>7
<1>7. CASE FetchEmpty(p, r)
  <2>1. PICK stage \in Stages : Hears(p, r, Asking(e, stage))
    BY <1>7 DEF FetchEmpty, Stages
  <2> HIDE DEF e
  <2> QED BY <1>3, <1>4, <2>1, AskingFields
<1>8. CASE FetchLast(p, r) \/ FetchFails(p, r) \/ Probe(p, r)
  <2>1. Hears(p, r, NextComponent(e))
    BY <1>8 DEF FetchLast, FetchFails, Probe
  <2> HIDE DEF e
  <2> QED BY <1>3, <1>4, <2>1, NextComponentFields
<1> QED BY <1>1, <1>5, <1>6, <1>7, <1>8

(* Every step is of one of these kinds, writes an audit record, or is seen *)
(* by no call.                                                             *)
LEMMA StepKinds ==
  ASSUME IInv, [Next]_vars
  PROVE  \/ UNCHANGED <<config, call, trail>>
         \/ \E p \in Procs : \/ Queues(p) \/ TakesOn(p) \/ Works(p) \/ Replies(p) \/ Closes(p)
                             \/ Audit(p)
<1>1. call \in [Procs -> CallRecord] /\ clock \in Nat
  BY DEF IInv, CallsSound, Limiter!TypeOK
<1>2. \A p \in Procs : \A d : Goes(p, d) => Moves(p) /\ call'[p] = d
  BY <1>1 DEF Goes, Moves
<1>3. \A p \in Procs : call[p] \in CallRecord /\ SameCall(call[p], call[p])
  BY <1>1 DEF SameCall
<1>4. ASSUME NEW p \in Procs, Hear(p) PROVE Works(p)
  BY <1>4, HearEnds DEF Ended
<1>5. ASSUME NEW p \in Procs, Admit(p) \/ Deny(p) PROVE TakesOn(p) \/ Queues(p)
  <2>1. \E r \in pending : r.proc = p
    BY <1>5 DEF Admit, Deny
  <2>2. Phase(p) = "waiting"
    BY <2>1 DEF IInv, WaitingMatches
  <2>3. Moves(p)
    BY <1>1, <1>5 DEF Admit, Deny, Moves
  <2>4. CASE Deny(p)
    <3>1. call'[p] = Idle
      BY <1>1, <2>4 DEF Deny
    <3> QED BY <2>2, <2>3, <3>1, IdleIsRecord DEF Queues
  <2>5. CASE Admit(p)
    <3> DEFINE d == [call[p] EXCEPT !.phase = "serving"]
    <3>1. call'[p] = d
      BY <1>1, <2>5 DEF Admit
    <3>2. d.phase = "serving" /\ SameCall(call[p], d)
      BY <1>3 DEF CallRecord, SameCall, TracesJoined
    <3> QED BY <2>2, <2>3, <3>1, <3>2 DEF TakesOn
  <2> QED BY <1>5, <2>4, <2>5
<1>6. ASSUME NEW p \in Procs, ServeProtocol(p) PROVE Replies(p)
  <2> DEFINE d == [call[p] EXCEPT !.phase = "answering", !.outcome = "ok"]
  <2>1. Phase(p) = "serving" /\ call[p].form.tool = "" /\ Goes(p, d)
    BY <1>6 DEF ServeProtocol
  <2>2. d.phase = "answering" /\ SameCall(call[p], d)
    BY <1>3 DEF CallRecord, SameCall, TracesJoined
  <2> HIDE DEF d
  <2>3. Moves(p) /\ call'[p] = d
    BY <1>2, <2>1
  <2> QED BY <2>1, <2>2, <2>3 DEF Replies
<1>7. ASSUME NEW p \in Procs, SdkRefuses(p) \/ ToolRefuses(p) PROVE Works(p)
  <2>1. PICK outcome \in Ends : Goes(p, Return(call[p], outcome))
    BY <1>7 DEF SdkRefuses, ToolRefuses, Ends
  <2>2. Phase(p) = "serving"
    BY <1>7 DEF SdkRefuses, ToolRefuses, Accepted
  <2> QED BY <1>2, <1>3, <2>1, <2>2, ReturnFields DEF Works
<1>8. ASSUME NEW p \in Procs, AskSingle(p) PROVE Works(p)
  <2>1. PICK stage \in Stages : Goes(p, Asking(call[p], stage))
    BY <1>8 DEF AskSingle, Stages
  <2>2. Phase(p) = "serving"
    BY <1>8 DEF AskSingle, Accepted
  <2> QED BY <1>1, <1>2, <1>3, <2>1, <2>2, AskingFields DEF Works
<1>9. ASSUME NEW p \in Procs, AskStack(p) PROVE Works(p)
  <2> DEFINE e == [call[p] EXCEPT !.left = call[p].form.components]
  <2>1. Goes(p, NextComponent(e)) /\ Phase(p) = "serving"
    BY <1>9 DEF AskStack, Accepted
  <2>2. call[p].form.components \in Nat
    <3>1. call[p].form \in Form
      BY <1>3 DEF CallRecord
    <3> QED BY <3>1 DEF Form
  <2>3. e \in CallRecord /\ SameCall(call[p], e)
    BY <1>3, <2>2 DEF CallRecord, SameCall, TracesJoined
  <2> HIDE DEF e
  <2> DEFINE d == NextComponent(e)
  <2>4. SameCall(e, d) /\ d.phase \in {"fetching", "returned"}
    BY <1>1, <2>3, NextComponentFields
  <2>5. Moves(p) /\ call'[p] = d
    BY <1>2, <2>1
  <2> HIDE DEF d
  <2>6. SameCall(call[p], d)
    BY <2>3, <2>4 DEF SameCall
  <2> QED BY <2>1, <2>4, <2>5, <2>6 DEF Works
<1>10. ASSUME NEW p \in Procs, Deliver(p) \/ Lose(p) PROVE Closes(p)
  BY <1>2, <1>10 DEF Deliver, Lose, Closes
<1>11. ASSUME NEW p \in Procs, Leave(p) \/ Cancel(p) PROVE Works(p)
  <2>1. PICK d : /\ Phase(p) = "fetching" /\ Goes(p, d)
                 /\ \/ d = [call[p] EXCEPT !.gone = TRUE]
                    \/ d = [call[p] EXCEPT !.ctx = "cancelling"]
    BY <1>11 DEF Leave, Cancel, Fetching
  <2>2. d.phase = call[p].phase /\ SameCall(call[p], d)
    BY <1>3, <2>1 DEF CallRecord, SameCall, TracesJoined
  <2>3. call[p].phase = "fetching"
    BY <2>1 DEF Phase
  <2>4. Moves(p) /\ call'[p] = d
    BY <1>2, <2>1
  <2> QED BY <2>1, <2>2, <2>3, <2>4 DEF Works
<1>12. ASSUME NEW p \in Procs, NEW c \in Clients, NEW form \in Forms, NEW meta \in Traces,
              ArriveUnlimited(p, c, form, meta)
       PROVE  TakesOn(p)
  <2>1. PICK class :
          /\ class \in IF config.http
                       THEN {ClassOf(Limiter!callerKey(h)) : h \in Limiter!Forwarded(c)}
                       ELSE {""}
          /\ call' = [call EXCEPT ![p] =
                       [Arrived(c, class, form, meta) EXCEPT !.phase = "serving"]]
    BY <1>12 DEF ArriveUnlimited
  <2>2. class \in Classes
    BY <2>1 DEF ClassOf, Classes
  <2>3. PICK phase \in FrontPhases : phase = "serving"
    BY DEF FrontPhases
  <2> DEFINE d == [Arrived(c, class, form, meta) EXCEPT !.phase = phase]
  <2>4. call'[p] = d /\ \A q \in Procs : q # p => call'[q] = call[q]
    BY <1>1, <2>1, <2>3
  <2>5. NewCall(d, c, class, meta) /\ d.phase = phase
    BY <2>2, ArrivedFields
  <2> HIDE DEF d
  <2>6. Phase(p) = "idle" /\ UNCHANGED <<config, trail>>
    BY <1>12 DEF ArriveUnlimited
  <2> QED BY <2>3, <2>4, <2>5, <2>6 DEF TakesOn, Moves, NewCall
<1>13. ASSUME NEW p \in Procs, NEW c \in Clients, NEW form \in Forms, NEW meta \in Traces,
              ArriveLimited(p, c, form, meta)
       PROVE  Queues(p)
  <2>1. PICK r \in pending' :
          call' = [call EXCEPT ![p] =
                    [Arrived(c, ClassOf(r.key), form, meta) EXCEPT !.phase = "waiting"]]
    BY <1>13 DEF ArriveLimited
  <2>2. ClassOf(r.key) \in Classes
    BY DEF ClassOf, Classes
  <2>3. PICK phase \in FrontPhases : phase = "waiting"
    BY DEF FrontPhases
  <2> DEFINE d == [Arrived(c, ClassOf(r.key), form, meta) EXCEPT !.phase = phase]
  <2>4. call'[p] = d /\ \A q \in Procs : q # p => call'[q] = call[q]
    BY <1>1, <2>1, <2>3
  <2>5. d.phase = phase
    BY <2>2, ArrivedFields
  <2> HIDE DEF d
  <2>6. Phase(p) = "idle" /\ UNCHANGED <<config, trail>>
    BY <1>13 DEF ArriveLimited
  <2> QED BY <2>3, <2>4, <2>5, <2>6 DEF Queues, Moves
<1>14. ASSUME NEW p \in Procs, Run(p)
       PROVE  Queues(p) \/ TakesOn(p) \/ Works(p) \/ Replies(p) \/ Closes(p) \/ Audit(p)
  BY <1>5, <1>6, <1>7, <1>8, <1>9, <1>10, <1>14 DEF Run
<1>15. ASSUME Tick \/ Finished \/ UNCHANGED vars PROVE UNCHANGED <<config, call, trail>>
  BY <1>15 DEF Tick, Finished, vars
<1> QED BY <1>4, <1>11, <1>12, <1>13, <1>14, <1>15 DEF Next

(* A step ends at most one request. *)
LEMMA ExchangeStep ==
  ASSUME IInv, [Next]_vars
  PROVE  \/ UNCHANGED vars
         \/ exchange' = {}
         \/ \E p \in Procs, r \in Results : Ended(p, r)
<1>1. CASE \E p \in Procs : Hear(p)
  BY <1>1, HearEnds
<1>2. CASE \E p \in Procs : Run(p)
  BY <1>2 DEF Run, Admit, Deny, ServeProtocol, SdkRefuses, ToolRefuses, AskSingle, AskStack,
              Audit, Deliver, Lose, Goes
<1>3. CASE Tick \/ \E p \in Procs : Leave(p) \/ Cancel(p)
  BY <1>3 DEF Tick, Leave, Cancel, Goes
<1>4. CASE \E p \in Procs, c \in Clients, form \in Forms, meta \in Traces :
             ArriveLimited(p, c, form, meta) \/ ArriveUnlimited(p, c, form, meta)
  BY <1>4 DEF ArriveLimited, ArriveUnlimited
<1> QED BY <1>1, <1>2, <1>3, <1>4 DEF Next, Finished

(* The endpoint that projectTracked names, and what a status tells.        *)
ProbeEndpoint == Literal("/v1/releases/{project}")
ServerError(r) == r.status >= 500
TooMany(r) == r.status = 429

(* The probe's route and its log sites name the same endpoint.             *)
LEMMA ProbeNames ==
  /\ ProbeRoute.endpoint = ProbeEndpoint
  /\ \A r : LogProbe(r) =
       CASE r.at = "request" -> {FailureLine(ProbeEndpoint, Literal(errKind(r.error)))}
         [] Answered(r) /\ ServerError(r) -> {StatusLine("ERROR", ProbeEndpoint, r.status)}
         [] OTHER -> {}
<1>1. \A pattern, inPath, query : Route(pattern, inPath, query).endpoint = Literal(pattern)
  BY DEF Route
<1>2. ProbeRoute.endpoint = ProbeEndpoint
  BY <1>1, Zenon DEF ProbeRoute, ProbeEndpoint
<1>3. \A r : LogProbe(r) =
       CASE r.at = "request" -> {FailureLine(ProbeEndpoint, Literal(errKind(r.error)))}
         [] Answered(r) /\ ServerError(r) -> {StatusLine("ERROR", ProbeEndpoint, r.status)}
         [] OTHER -> {}
  BY Zenon DEF LogProbe, ProbeEndpoint, ServerError
<1> QED BY <1>2, <1>3

(* The routes of a request: its endpoint is a literal of the source, and   *)
(* no path holds the upstream's address (client.go:270-376, 384-398).      *)
LEMMA RouteTexts ==
  \A c : Underway(c) =>
    /\ RouteOf(c).endpoint.holds = {}
    /\ "address" \notin RouteOf(c).path.holds
    /\ Probing(c) => RouteOf(c).endpoint = ProbeEndpoint
<1> TAKE c
<1> HAVE Underway(c)
<1>1. c.stage = "single" \/ c.stage = "page" \/ c.stage = "probe"
  BY DEF Underway, Stages
<1>2. \A pattern, inPath, query :
        /\ Route(pattern, inPath, query).endpoint = Literal(pattern)
        /\ Route(pattern, inPath, query).endpoint.holds = {}
        /\ Route(pattern, inPath, query).path.holds = inPath
  BY DEF Route, Literal, Text
<1>3. CASE c.stage = "page"
  <2>1. PICK query : RouteOf(c) = Route("/v1/changes", {}, query)
    BY <1>3 DEF RouteOf, PageRoute, ListChanges
  <2> QED BY <1>2, <1>3, <2>1 DEF Probing
<1>4. CASE c.stage = "probe"
  <2>1. RouteOf(c) = ProbeRoute
    BY <1>4 DEF RouteOf
  <2>2. RouteOf(c).endpoint = ProbeEndpoint /\ ProbeEndpoint.holds = {}
    BY <2>1, ProbeNames DEF ProbeEndpoint, Literal, Text
  <2>3. RouteOf(c).path.holds = {"project"}
    <3>1. PICK pattern : ProbeRoute = Route(pattern, {"project"}, {})
      BY Zenon DEF ProbeRoute
    <3> QED BY <2>1, <3>1 DEF Route, Text
  <2> QED BY <2>2, <2>3
<1>5. CASE c.stage = "single"
  <2>1. c.form.tool \in Tools \ {"check_stack"} /\ ~Probing(c)
    BY <1>5 DEF Underway, Probing
  <2>2. PICK tool, given : tool = c.form.tool /\ given = c.form.given
    OBVIOUS
  <2>3. RouteOf(c) = Single(tool, given)
    BY <1>5, <2>2 DEF RouteOf
  <2>4. PICK pattern, inPath, query :
          /\ Single(tool, given) = Route(pattern, inPath, query)
          /\ "address" \notin inPath
    <3>1. tool \in {"list_projects", "list_changes", "changes_by_entity", "list_releases",
                    "get_release", "get_matter"}
      BY <2>1, <2>2 DEF Tools
    <3>2. CASE tool \in {"list_projects", "list_changes", "changes_by_entity"}
      <4>1. PICK pattern, query : Single(tool, given) = Route(pattern, {}, query)
        BY <3>2 DEF Single, ListChanges
      <4> QED BY <4>1
    <3>3. CASE tool = "list_releases"
      <4>1. PICK pattern, query : Single(tool, given) = Route(pattern, {"project"}, query)
        BY <3>3 DEF Single
      <4> QED BY <4>1
    <3>4. CASE tool = "get_release" /\ "version" \notin given
      <4>1. PICK pattern, query : Single(tool, given) = Route(pattern, {"project"}, query)
        BY <3>4 DEF Single
      <4> QED BY <4>1
    <3>5. CASE tool = "get_release" /\ "version" \in given
      <4>1. PICK pattern, query :
              Single(tool, given) = Route(pattern, {"project", "version"}, query)
        BY <3>5 DEF Single
      <4> QED BY <4>1
    <3>6. CASE tool = "get_matter"
      <4>1. PICK pattern, query : Single(tool, given) = Route(pattern, {"matter_key"}, query)
        BY <3>6 DEF Single
      <4> QED BY <4>1
    <3> QED BY <3>1, <3>2, <3>3, <3>4, <3>5, <3>6
  <2>5. RouteOf(c) = Route(pattern, inPath, query)
    BY <2>3, <2>4
  <2>6. RouteOf(c).endpoint.holds = {} /\ RouteOf(c).path.holds = inPath
    BY <1>2, <2>5
  <2> QED BY <2>1, <2>4, <2>6
<1> QED BY <1>1, <1>3, <1>4, <1>5

(* What may come of a request, by where it ended. *)
LEMMA ResultFields ==
  \A r \in Result :
    /\ r.at \in {"build", "request", "body", "answer"} /\ r.status \in Nat
    /\ r.at = "build" => r = Unbuilt
<1> TAKE r \in Result
<1>1. Unbuilt.at = "build" /\ Unbuilt.status = 0
  BY DEF Unbuilt
<1>2. \A e : NoAnswer(e).at = "request" /\ NoAnswer(e).status = 0
  BY DEF NoAnswer
<1>3. \A e, status : Broken(e, status).at = "body" /\ Broken(e, status).status = status
  BY DEF Broken
<1>4. \A status, body : AnswerOf(status, body).at = "answer" /\ AnswerOf(status, body).status = status
  BY DEF AnswerOf
<1>5. \/ r = Unbuilt
      \/ \E e \in Errors : r = NoAnswer(e)
      \/ \E e \in Errors, status \in Statuses : r = Broken(e, status)
      \/ \E status \in Statuses, body \in Bodies : r = AnswerOf(status, body)
  <2> DEFINE A == {NoAnswer(e) : e \in Errors}
             B == {Broken(e, status) : e \in Errors, status \in Statuses}
             C == {AnswerOf(status, body) : status \in Statuses, body \in Bodies}
  <2>1. r \in {Unbuilt} \cup A \cup B \cup C
    BY DEF Result
  <2>2. r \in A => \E e \in Errors : r = NoAnswer(e)
    OBVIOUS
  <2>3. r \in B => \E e \in Errors, status \in Statuses : r = Broken(e, status)
    OBVIOUS
  <2>4. r \in C => \E status \in Statuses, body \in Bodies : r = AnswerOf(status, body)
    OBVIOUS
  <2> HIDE DEF A, B, C
  <2>5. r = Unbuilt \/ r \in A \/ r \in B \/ r \in C
    BY <2>1
  <2> QED BY <2>2, <2>3, <2>4, <2>5
<1>6. \A status \in Statuses : status \in Nat
  BY DEF Statuses
<1>7. CASE r = Unbuilt
  BY <1>1, <1>7
<1>8. CASE \E e \in Errors : r = NoAnswer(e)
  BY <1>2, <1>8
<1>9. CASE \E e \in Errors, status \in Statuses : r = Broken(e, status)
  BY <1>3, <1>6, <1>9
<1>10. CASE \E status \in Statuses, body \in Bodies : r = AnswerOf(status, body)
  BY <1>4, <1>6, <1>10
<1> QED BY <1>5, <1>7, <1>8, <1>9, <1>10

(* An idle goroutine has no request in flight. *)
LEMMA IdleNotUnderway == ~Underway(Idle)
  BY DEF Underway, Idle, Tools

-----------------------------------------------------------------------------
(***************************************************************************)
(* A goroutine waits for the limiter's lock exactly when it has a request  *)
(* there, a call has an outcome exactly from its handler's return to its   *)
(* answer, and a step ends at most one upstream request.                   *)
(***************************************************************************)
THEOREM TypesHold == Spec => []TypeOK
<1> DEFINE ExchangeTyped ==
      \A x \in exchange : x.proc \in Procs /\ x.result \in Results /\ Cardinality(exchange) = 1
<1>1. Init => ExchangeTyped
  BY DEF Init
<1>2. IInv /\ ExchangeTyped /\ [Next]_vars => ExchangeTyped'
  <2> SUFFICES ASSUME IInv, ExchangeTyped, [Next]_vars PROVE ExchangeTyped'
    OBVIOUS
  <2>1. CASE UNCHANGED vars
    BY <2>1 DEF vars
  <2>2. CASE exchange' = {}
    BY <2>2
  <2>3. ASSUME NEW p \in Procs, NEW r \in Results, Ended(p, r) PROVE ExchangeTyped'
    <3>1. exchange' = {Exchanged(p, r)}
      BY <2>3 DEF Ended
    <3>2. Cardinality(exchange') = 1
      BY <3>1, FS_Singleton
    <3>3. \A x \in exchange' : x.proc = p /\ x.result = r
      BY <3>1 DEF Exchanged
    <3> QED BY <3>2, <3>3
  <2> QED BY <2>1, <2>2, <2>3, ExchangeStep
<1>3. IInv /\ ExchangeTyped => TypeOK
  <2> SUFFICES ASSUME IInv, ExchangeTyped PROVE TypeOK
    OBVIOUS
  <2>1. ASSUME NEW p \in Procs
        PROVE  LET c == call[p] IN
               /\ c.phase \in Phases
               /\ c.phase = "waiting" <=> \E r \in pending : r.proc = p
               /\ c.phase # "idle" => c.id \in 1 .. asked /\ c.form \in Forms /\ c.client \in Clients
               /\ Fetching(p) => c.stage \in {"single", "page", "probe"}
               /\ c.outcome = "" <=> c.phase \notin {"returned", "answering"}
               /\ c.ctx \in {"live", "cancelling", "cancelled"}
    <3>1. call[p] \in CallRecord /\ CallSound(call[p])
      BY DEF IInv, CallsSound
    <3>2. call[p].phase \in Phases /\ call[p].ctx \in {"live", "cancelling", "cancelled"}
      BY <3>1 DEF CallRecord
    <3>3. call[p].phase = "waiting" <=> \E r \in pending : r.proc = p
      BY DEF IInv, WaitingMatches, Phase
    <3>4. Fetching(p) => call[p].stage \in {"single", "page", "probe"}
      BY <3>1 DEF CallSound, Underway, Stages, Fetching, Phase
    <3>5. /\ call[p].phase # "idle" =>
               call[p].id \in 1 .. asked /\ call[p].form \in Forms /\ call[p].client \in Clients
          /\ call[p].outcome = "" <=> call[p].phase \notin {"returned", "answering"}
      BY <3>1 DEF CallSound
    <3> QED BY <3>2, <3>3, <3>4, <3>5
  <2>2. \A i \in DOMAIN trail : trail[i].id \in 1 .. asked
    BY DEF IInv, TrailSound
  <2> QED BY <2>1, <2>2 DEF TypeOK, IInv
<1> QED BY <1>1, <1>2, <1>3, CallsInvariant, PTL DEF Spec

(* What the two lines that the log sites write are made of. *)
LEMMA LineFields ==
  /\ \A endpoint, kind :
       /\ FailureLine(endpoint, kind).level = "ERROR"
       /\ FailureLine(endpoint, kind).upstream = endpoint
       /\ FailureLine(endpoint, kind).kind = kind
  /\ \A level, endpoint, status :
       /\ StatusLine(level, endpoint, status).level = level
       /\ StatusLine(level, endpoint, status).upstream = endpoint
       /\ StatusLine(level, endpoint, status).kind = Literal("")
  BY DEF FailureLine, StatusLine

(* A literal holds nothing of a request. *)
LEMMA LiteralHoldsNothing == \A says : Literal(says).says = says /\ Literal(says).holds = {}
  BY DEF Literal, Text

(* What get and projectTracked hand the log for a request. *)
Logged(probe, r, route) == IF probe THEN LogProbe(r) ELSE LogGet(r, route)

(* The two statuses that get tells apart by name are below 500.            *)
LEMMA NamedStatuses ==
  \A r \in Result : ServerError(r) => r.status # 200 /\ r.status # 429
<1> SUFFICES ASSUME NEW r \in Result, ServerError(r) PROVE r.status # 200 /\ r.status # 429
  OBVIOUS
<1>1. \A n \in Nat : n >= 500 => n # 200 /\ n # 429
  OBVIOUS
<1>2. PICK n \in Nat : n = r.status
  BY ResultFields
<1>3. n >= 500
  BY <1>2 DEF ServerError
<1>4. n # 200 /\ n # 429
  BY <1>1, <1>3
<1> QED BY <1>2, <1>4

(* The level of an answer goes by its status (client.go:242-254).          *)
LEMMA LevelOfAnswer ==
  \A r, route : \E level \in {"DEBUG", "WARN", "ERROR"} :
    /\ LogAnswer(r, route) = StatusLine(level, route.endpoint, r.status)
    /\ level = "ERROR" => ServerError(r)
    /\ level = "WARN" => TooMany(r)
<1> TAKE r, route
<1>1. CASE r.status = 200
  <2>1. LogAnswer(r, route) = StatusLine("DEBUG", route.endpoint, r.status)
    BY <1>1 DEF LogAnswer
  <2> QED BY <2>1
<1>2. CASE r.status # 200 /\ r.status = 429
  <2>1. LogAnswer(r, route) = StatusLine("WARN", route.endpoint, r.status)
    BY <1>2 DEF LogAnswer
  <2> QED BY <1>2, <2>1 DEF TooMany
<1>3. CASE r.status # 200 /\ r.status # 429 /\ r.status >= 500
  <2>1. LogAnswer(r, route) = StatusLine("ERROR", route.endpoint, r.status)
    BY <1>3 DEF LogAnswer
  <2> QED BY <1>3, <2>1 DEF ServerError
<1>4. CASE r.status # 200 /\ r.status # 429 /\ ~(r.status >= 500)
  <2>1. LogAnswer(r, route) = StatusLine("DEBUG", route.endpoint, r.status)
    BY <1>4 DEF LogAnswer
  <2> QED BY <2>1
<1> QED BY <1>1, <1>2, <1>3, <1>4

(* Each of the log sites of get and projectTracked, in turn: what it       *)
(* writes names the endpoint it is given, or the probe's own, with the     *)
(* kind of the error or a status (client.go:225-254, 399-415).             *)
LEMMA LogSites ==
  \A probe \in BOOLEAN : \A r \in Result : \A route : \A m \in Logged(probe, r, route) :
    /\ m.upstream = ProbeEndpoint \/ m.upstream = route.endpoint
    /\ m.kind = Literal("") \/ m.kind = Literal(errKind(r.error))
    /\ \/ Lost(probe, r)
       \/ /\ HasStatus(probe, r)
          /\ m.level = "ERROR" => ServerError(r)
          /\ m.level = "WARN" => TooMany(r)
<1> SUFFICES ASSUME NEW probe \in BOOLEAN, NEW r \in Result, NEW route,
                    NEW m \in Logged(probe, r, route)
             PROVE  /\ \/ m.upstream = ProbeEndpoint
                       \/ m.upstream = route.endpoint
                    /\ m.kind = Literal("") \/ m.kind = Literal(errKind(r.error))
                    /\ \/ Lost(probe, r)
                       \/ /\ HasStatus(probe, r)
                          /\ m.level = "ERROR" => ServerError(r)
                          /\ m.level = "WARN" => TooMany(r)
  OBVIOUS
<1>1. r.at \in {"build", "request", "body", "answer"}
  BY ResultFields
<1>2. PICK kind : kind = Literal(errKind(r.error))
  OBVIOUS
<1>3. CASE probe
  <2>1. m \in LogProbe(r)
    BY <1>3 DEF Logged
  <2> DEFINE endpoint == ProbeEndpoint
  <2>2. CASE r.at = "request"
    <3>1. m = FailureLine(endpoint, kind)
      BY <1>2, <2>1, <2>2, ProbeNames DEF Answered
    <3>2. Lost(probe, r)
      BY <2>2 DEF Lost
    <3>3. m.upstream = endpoint /\ m.kind = kind
      BY <3>1, LineFields
    <3> QED BY <1>2, <3>2, <3>3
  <2>3. CASE Answered(r) /\ ServerError(r)
    <3>1. r.at # "request"
      BY <2>3 DEF Answered
    <3>2. m = StatusLine("ERROR", endpoint, r.status)
      BY <2>1, <2>3, <3>1, ProbeNames
    <3>3. HasStatus(probe, r)
      BY <1>3, <2>3 DEF HasStatus
    <3>4. m.level = "ERROR" /\ m.upstream = endpoint /\ m.kind = Literal("")
      BY <3>2 DEF StatusLine
    <3> QED BY <2>3, <3>3, <3>4
  <2>4. CASE r.at # "request" /\ ~(Answered(r) /\ ServerError(r))
    BY <2>1, <2>4, ProbeNames
  <2> QED BY <2>2, <2>3, <2>4
<1>4. CASE ~probe
  <2>1. m \in LogGet(r, route)
    BY <1>4 DEF Logged
  <2> DEFINE endpoint == route.endpoint
  <2>2. CASE r.at \in {"request", "body"}
    <3>1. m = FailureLine(endpoint, kind)
      BY <1>2, <2>1, <2>2 DEF LogGet
    <3>2. Lost(probe, r)
      BY <1>4, <2>2 DEF Lost
    <3>3. m.upstream = endpoint /\ m.kind = kind
      BY <3>1, LineFields
    <3> QED BY <1>2, <3>2, <3>3
  <2>3. CASE r.at = "answer"
    <3>1. m = LogAnswer(r, route)
      BY <2>1, <2>3 DEF LogGet
    <3>2. PICK level \in {"DEBUG", "WARN", "ERROR"} :
            /\ m = StatusLine(level, route.endpoint, r.status)
            /\ level = "ERROR" => ServerError(r)
            /\ level = "WARN" => TooMany(r)
      BY <3>1, LevelOfAnswer, Zenon
    <3>3. HasStatus(probe, r)
      BY <2>3 DEF HasStatus
    <3>4. m.level = level /\ m.upstream = endpoint /\ m.kind = Literal("")
      BY <2>1, <3>2 DEF StatusLine
    <3> QED BY <3>2, <3>3, <3>4
  <2>4. CASE r.at = "build"
    BY <2>1, <2>4 DEF LogGet
  <2> QED BY <1>1, <2>2, <2>3, <2>4
<1> QED BY <1>3, <1>4

(* So no site's text holds anything, if the endpoint's does not.           *)
LEMMA SitesHoldNothing ==
  \A probe \in BOOLEAN : \A r \in Result : \A route : \A m \in Logged(probe, r, route) :
    route.endpoint.holds = {} => m.upstream.holds = {} /\ m.kind.holds = {}
<1> SUFFICES ASSUME NEW probe \in BOOLEAN, NEW r \in Result, NEW route,
                    NEW m \in Logged(probe, r, route), route.endpoint.holds = {}
             PROVE  m.upstream.holds = {} /\ m.kind.holds = {}
  OBVIOUS
<1>1. /\ m.upstream = ProbeEndpoint \/ m.upstream = route.endpoint
      /\ m.kind = Literal("") \/ m.kind = Literal(errKind(r.error))
  BY LogSites, Zenon
<1>2. ProbeEndpoint.holds = {}
  BY LiteralHoldsNothing, Zenon DEF ProbeEndpoint
<1> QED BY <1>1, <1>2, LiteralHoldsNothing

(* The lines of a request are what its log sites wrote, stamped.           *)
LEMMA LinesAreLogged ==
  ASSUME NEW p \in Procs, NEW r \in Results, NEW x, x = Exchanged(p, r)
  PROVE  /\ r \in Result /\ Probing(call[p]) \in BOOLEAN
         /\ \A l \in x.lines : \E m \in Logged(Probing(call[p]), r, RouteOf(call[p])) :
              /\ l.level = m.level /\ l.upstream = m.upstream /\ l.kind = m.kind
              /\ l.tool = call[p].form.tool
              /\ l.trace = TraceIds(Carried(call[p].meta))
         /\ \A m \in Logged(Probing(call[p]), r, RouteOf(call[p])) :
              Written(m.level, config.log) =>
                \E l \in x.lines : /\ l.level = m.level /\ l.upstream = m.upstream
                                   /\ l.kind = m.kind /\ l.tool = call[p].form.tool
<1> DEFINE c == call[p]
           logged == Logged(Probing(c), r, RouteOf(c))
           stamped(m) == Stamped(m, c.form.tool, c.meta)
<1>1. r \in Result /\ Probing(c) \in BOOLEAN
  BY ServerAssumption DEF Probing
<1>2. x.lines = {stamped(l) : l \in {m \in logged : Written(m.level, config.log)}}
  BY DEF Exchanged, Logged
<1>3. \A m : /\ stamped(m).level = m.level /\ stamped(m).upstream = m.upstream
             /\ stamped(m).kind = m.kind /\ stamped(m).tool = c.form.tool
             /\ stamped(m).trace = TraceIds(Carried(c.meta))
  BY DEF Stamped, TraceIds
<1> HIDE DEF logged, stamped
<1>4. \A l \in x.lines : \E m \in logged : l = stamped(m)
  BY <1>2
<1>5. \A m \in logged : Written(m.level, config.log) => stamped(m) \in x.lines
  BY <1>2
<1>6. /\ \A l \in x.lines : \E m \in logged :
              /\ l.level = m.level /\ l.upstream = m.upstream /\ l.kind = m.kind
              /\ l.tool = c.form.tool /\ l.trace = TraceIds(Carried(c.meta))
      /\ \A m \in logged : Written(m.level, config.log) =>
              \E l \in x.lines : /\ l.level = m.level /\ l.upstream = m.upstream
                                 /\ l.kind = m.kind /\ l.tool = c.form.tool
  BY <1>3, <1>4, <1>5
<1> QED BY <1>1, <1>6 DEF logged

(***************************************************************************)
(* No text that get or projectTracked hands the log holds an argument of   *)
(* the call or the upstream's address, at any of their log sites, whatever *)
(* is asked and whatever comes of it (client.go:225-254, 399-415).         *)
(***************************************************************************)
THEOREM ArgumentsStayHomeHolds == Spec => []ArgumentsStayHome
<1>1. Init => ArgumentsStayHome
  BY DEF Init, ArgumentsStayHome
<1>2. IInv /\ ArgumentsStayHome /\ [Next]_vars => ArgumentsStayHome'
  <2> SUFFICES ASSUME IInv, ArgumentsStayHome, [Next]_vars PROVE ArgumentsStayHome'
    OBVIOUS
  <2>1. CASE UNCHANGED vars
    BY <2>1 DEF vars, ArgumentsStayHome
  <2>2. CASE exchange' = {}
    BY <2>2 DEF ArgumentsStayHome
  <2>3. ASSUME NEW p \in Procs, NEW r \in Results, Ended(p, r) PROVE ArgumentsStayHome'
    <3> SUFFICES ASSUME NEW x \in exchange', NEW l \in x.lines
                 PROVE  l.upstream.holds \cup l.kind.holds = {}
      BY DEF ArgumentsStayHome
    <3>1. x = Exchanged(p, r) /\ Underway(call[p])
      BY <2>3 DEF Ended
    <3>2. PICK probe, route : probe = Probing(call[p]) /\ route = RouteOf(call[p])
      OBVIOUS
    <3>3. PICK m \in Logged(probe, r, route) : l.upstream = m.upstream /\ l.kind = m.kind
      BY <3>1, <3>2, LinesAreLogged
    <3>4. r \in Result /\ probe \in BOOLEAN
      BY <3>1, <3>2, LinesAreLogged
    <3>5. route.endpoint.holds = {}
      BY <3>1, <3>2, RouteTexts
    <3>6. m.upstream.holds = {} /\ m.kind.holds = {}
      BY <3>3, <3>4, <3>5, SitesHoldNothing, Zenon
    <3> QED BY <3>3, <3>6
  <2> QED BY <2>1, <2>2, <2>3, ExchangeStep
<1> QED BY <1>1, <1>2, CallsInvariant, PTL DEF Spec

(***************************************************************************)
(* No error that a tool returns has the upstream's address in it: get      *)
(* hides it, and the probe that would not comes after a page of the same   *)
(* base URL.                                                               *)
(***************************************************************************)
THEOREM UpstreamStaysHiddenHolds == Spec => []UpstreamStaysHidden
<1>1. Init => UpstreamStaysHidden
  BY DEF Init, UpstreamStaysHidden
<1>2. IInv /\ UpstreamStaysHidden /\ [Next]_vars => UpstreamStaysHidden'
  <2> SUFFICES ASSUME IInv, UpstreamStaysHidden, [Next]_vars PROVE UpstreamStaysHidden'
    OBVIOUS
  <2>1. CASE UNCHANGED vars
    BY <2>1 DEF vars, UpstreamStaysHidden
  <2>2. CASE exchange' = {}
    BY <2>2 DEF UpstreamStaysHidden
  <2>3. ASSUME NEW p \in Procs, NEW r \in Results, Ended(p, r) PROVE UpstreamStaysHidden'
    <3> SUFFICES ASSUME NEW x \in exchange' PROVE "address" \notin x.says
      BY DEF UpstreamStaysHidden
    <3>0. x = Exchanged(p, r)
      BY <2>3 DEF Ended
    <3>1. x.says = IF Probing(call[p]) THEN ProbeError(r) ELSE GetError(r, RouteOf(call[p]))
      BY <3>0 DEF Exchanged
    <3>2. Underway(call[p]) /\ May(call[p], r)
      BY <2>3 DEF Ended
    <3>3. "address" \notin GetError(r, RouteOf(call[p]))
      <4>1. "address" \notin RouteOf(call[p]).path.holds
        BY <3>2, RouteTexts
      <4> DEFINE path == RouteOf(call[p]).path.holds
      <4>2. GetError(r, RouteOf(call[p])) \in {{"kind"}, {"status", "body"} \cup path, {}}
        BY DEF GetError
      <4> HIDE DEF path
      <4>3. "address" \notin path
        BY <4>1 DEF path
      <4> QED BY <4>2, <4>3
    <3>4. Probing(call[p]) => "address" \notin ProbeError(r)
      <4> HAVE Probing(call[p])
      <4>1. config.base
        BY <3>2 DEF Probing, Underway
      <4>2. r # Unbuilt
        BY <3>2, <4>1 DEF May
      <4>3. r.at # "build"
        BY <4>2, ResultFields, ServerAssumption
      <4>4. ProbeError(r) \in {{"kind"}, {"status"}, {}}
        BY <4>3 DEF ProbeError
      <4> QED BY <4>4
    <3> QED BY <3>1, <3>3, <3>4
  <2> QED BY <2>1, <2>2, <2>3, ExchangeStep
<1> QED BY <1>1, <1>2, CallsInvariant, PTL DEF Spec

(***************************************************************************)
(* Upstream is told the class of the call's own client, whichever headers  *)
(* it came with and whichever calls run beside it.                         *)
(***************************************************************************)
THEOREM CallersStayApartHolds == Spec => []CallersStayApart
<1>1. Init => CallersStayApart
  BY DEF Init, CallersStayApart
<1>2. IInv /\ CallersStayApart /\ [Next]_vars => CallersStayApart'
  <2> SUFFICES ASSUME IInv, CallersStayApart, [Next]_vars PROVE CallersStayApart'
    OBVIOUS
  <2>1. CASE UNCHANGED vars
    BY <2>1 DEF vars, CallersStayApart
  <2>2. CASE exchange' = {}
    BY <2>2 DEF CallersStayApart
  <2>3. ASSUME NEW p \in Procs, NEW r \in Results, Ended(p, r) PROVE CallersStayApart'
    <3>1. /\ call'[p].client = call[p].client /\ config' = config
          /\ CallSound(call[p])
      BY <2>3 DEF Ended, SameCall, Works, Moves
    <3>2. call[p].phase # "idle"
      BY <2>3, IdleNotUnderway DEF Ended, CallSound
    <3>3. call[p].class = OwnClass(call[p].client)
      BY <3>1, <3>2 DEF CallSound
    <3>4. \A x \in exchange' : x.proc = p /\ \A h \in x.sent : h.class = call[p].class
      BY <2>3 DEF Ended, Exchanged
    <3> QED BY <3>1, <3>3, <3>4 DEF CallersStayApart, OwnClass
  <2> QED BY <2>1, <2>2, <2>3, ExchangeStep
<1> QED BY <1>1, <1>2, CallsInvariant, PTL DEF Spec

(* A kind is "canceled" only of an error that was cancelled, and of one    *)
(* that was nothing else (errKind).                                        *)
LEMMA KindOfCanceled ==
  \A e : /\ "canceled" \notin e => errKind(e) # "canceled"
         /\ "canceled" \in e /\ e \subseteq {"canceled", "dns"} => errKind(e) = "canceled"
<1> TAKE e
<1> DEFINE A == e \cap {"deadline", "net timeout"} = {}
           B == e \cap {"deadline", "net timeout", "refused"} = {}
           C == e \cap {"deadline", "net timeout", "refused", "canceled"} = {}
<1>1. /\ (B <=> A /\ "refused" \notin e)
      /\ (C <=> B /\ "canceled" \notin e)
  OBVIOUS
<1>2. errKind(e) = CASE ~A -> "timeout"
                     [] A /\ "refused" \in e -> "connection_refused"
                     [] B /\ "canceled" \in e -> "canceled"
                     [] C /\ "dns" \in e -> "dns"
                     [] OTHER -> "transport"
  BY DEF errKind
<1>3. e \subseteq {"canceled", "dns"} => B
  OBVIOUS
<1> HIDE DEF A, B, C
<1>4. ASSUME "canceled" \notin e PROVE errKind(e) # "canceled"
  <2>1. errKind(e) \in {"timeout", "connection_refused", "dns", "transport"}
    BY <1>1, <1>2, <1>4
  <2> QED BY <2>1
<1>5. ASSUME "canceled" \in e, B PROVE errKind(e) = "canceled"
  BY <1>1, <1>2, <1>5
<1> QED BY <1>3, <1>4, <1>5

(* An outage is told as such, a request that its caller cancelled as such, *)
(* and no other request as either.                                         *)
LogTells(probe, r, route) ==
  /\ Outage(probe, r) => \E m \in Logged(probe, r, route) :
       m.level = "ERROR" /\ m.upstream = route.endpoint /\ m.kind.says # "canceled"
  /\ ~Outage(probe, r) /\ Lost(probe, r) /\ r.error \subseteq {"canceled", "dns"} =>
       \A m \in Logged(probe, r, route) : m.kind.says = "canceled"
  /\ ~Outage(probe, r) /\ ~Lost(probe, r) => \A m \in Logged(probe, r, route) :
       m.level # "ERROR" /\ (m.level = "WARN" => TooMany(r))

(* What get and projectTracked hand the log of an outage, of a request     *)
(* that its caller cancelled, and of any other (client.go:225-254,         *)
(* 399-415).                                                               *)
LEMMA LogTold ==
  \A probe \in BOOLEAN : \A r \in Result : \A route :
    (probe => route.endpoint = ProbeEndpoint) => LogTells(probe, r, route)
<1> SUFFICES ASSUME NEW probe \in BOOLEAN, NEW r \in Result, NEW route,
                    probe => route.endpoint = ProbeEndpoint
             PROVE  LogTells(probe, r, route)
  OBVIOUS
<1>1. r.at \in {"build", "request", "body", "answer"} /\ r.status \in Nat
  BY ResultFields
<1>2. ASSUME Lost(probe, r)
      PROVE  Logged(probe, r, route) = {FailureLine(route.endpoint, Literal(errKind(r.error)))}
  <2>1. CASE probe
    <3>1. r.at = "request"
      BY <1>2, <2>1 DEF Lost
    <3> QED BY <2>1, <3>1, ProbeNames DEF Logged, Answered
  <2>2. CASE ~probe
    <3>1. r.at \in {"request", "body"}
      BY <1>2 DEF Lost
    <3> QED BY <2>2, <3>1 DEF Logged, LogGet
  <2> QED BY <2>1, <2>2
<1>3. ASSUME HasStatus(probe, r), ServerError(r)
      PROVE  StatusLine("ERROR", route.endpoint, r.status) \in Logged(probe, r, route)
  <2>1. CASE probe
    <3>1. Answered(r) /\ r.at # "request"
      BY <1>3 DEF HasStatus, Answered
    <3>2. LogProbe(r) = {StatusLine("ERROR", ProbeEndpoint, r.status)}
      BY <1>3, <3>1, ProbeNames
    <3> QED BY <2>1, <3>2 DEF Logged
  <2>2. CASE ~probe
    <3>1. r.at = "answer"
      BY <1>3, <2>2 DEF HasStatus
    <3>2. r.status # 200 /\ r.status # 429
      BY <1>3, NamedStatuses
    <3>3. LogAnswer(r, route) = StatusLine("ERROR", route.endpoint, r.status)
      BY <1>3, <3>2 DEF LogAnswer, ServerError
    <3> QED BY <2>2, <3>1, <3>3 DEF Logged, LogGet
  <2> QED BY <2>1, <2>2
<1>4. ASSUME Outage(probe, r)
      PROVE  \E m \in Logged(probe, r, route) :
               m.level = "ERROR" /\ m.upstream = route.endpoint /\ m.kind.says # "canceled"
  <2>1. CASE Lost(probe, r) /\ "canceled" \notin r.error
    <3>1. PICK kind : kind = errKind(r.error)
      OBVIOUS
    <3>2. kind # "canceled"
      BY <2>1, <3>1, KindOfCanceled
    <3>3. PICK m : m = FailureLine(route.endpoint, Literal(kind))
      OBVIOUS
    <3>4. m \in Logged(probe, r, route)
      BY <1>2, <2>1, <3>1, <3>3
    <3>5. m.level = "ERROR" /\ m.upstream = route.endpoint /\ m.kind = Literal(kind)
      BY <3>3, LineFields
    <3>6. m.kind.says = kind
      BY <3>5, LiteralHoldsNothing
    <3> QED BY <3>2, <3>4, <3>5, <3>6
  <2>2. CASE HasStatus(probe, r) /\ ServerError(r)
    <3>1. PICK m : m = StatusLine("ERROR", route.endpoint, r.status)
      OBVIOUS
    <3>2. m \in Logged(probe, r, route)
      BY <1>3, <2>2, <3>1
    <3>3. m.level = "ERROR" /\ m.upstream = route.endpoint /\ m.kind = Literal("")
      BY <3>1 DEF StatusLine
    <3>4. m.kind.says = ""
      BY <3>3, LiteralHoldsNothing, Zenon
    <3> QED BY <3>2, <3>3, <3>4
  <2> QED BY <1>4, <2>1, <2>2 DEF Outage, ServerError
<1>5. ASSUME ~Outage(probe, r), Lost(probe, r), r.error \subseteq {"canceled", "dns"},
             NEW m \in Logged(probe, r, route)
      PROVE  m.kind.says = "canceled"
  <2>1. PICK kind : kind = errKind(r.error)
    OBVIOUS
  <2>2. "canceled" \in r.error
    BY <1>5 DEF Outage
  <2>3. kind = "canceled"
    BY <1>5, <2>1, <2>2, KindOfCanceled
  <2>4. m = FailureLine(route.endpoint, Literal(kind))
    BY <1>2, <1>5, <2>1
  <2>5. m.kind = Literal(kind)
    BY <2>4, LineFields, Zenon
  <2>6. m.kind.says = kind
    BY <2>5, LiteralHoldsNothing, Zenon
  <2> QED BY <2>3, <2>6
<1>6. ASSUME ~Outage(probe, r), ~Lost(probe, r), NEW m \in Logged(probe, r, route)
      PROVE  m.level # "ERROR" /\ (m.level = "WARN" => TooMany(r))
  <2>1. /\ HasStatus(probe, r)
        /\ m.level = "ERROR" => ServerError(r)
        /\ m.level = "WARN" => TooMany(r)
    BY <1>6, LogSites, Zenon
  <2> QED BY <1>6, <2>1 DEF Outage, ServerError
<1> QED BY <1>4, <1>5, <1>6 DEF LogTells

(* No MCP_LOG silences an ERROR line. *)
LEMMA ErrorsWritten ==
  \A log : Written("ERROR", log)
<1>1. \A log : Threshold(log) \in {0, 1, 2, 3}
  BY DEF Threshold
<1>2. Rank["ERROR"] = 3
  BY DEF Rank
<1>3. \A n \in {0, 1, 2, 3} : 3 >= n
  OBVIOUS
<1> QED BY <1>1, <1>2, <1>3 DEF Written

(***************************************************************************)
(* The log tells an outage from its caller's doing for any arguments,      *)
(* deployments and outcomes of a request (get, projectTracked, errKind):   *)
(* an ERROR line whatever MCP_LOG is, and not of kind "canceled", only     *)
(* that kind when the caller cancelled, and none for what a caller asked   *)
(* amiss.                                                                  *)
(***************************************************************************)
THEOREM OutagesAreLoggedHolds == Spec => []OutagesAreLogged
<1>1. Init => OutagesAreLogged
  BY DEF Init, OutagesAreLogged
<1>2. IInv /\ OutagesAreLogged /\ [Next]_vars => OutagesAreLogged'
  <2> SUFFICES ASSUME IInv, OutagesAreLogged, [Next]_vars PROVE OutagesAreLogged'
    OBVIOUS
  <2>1. CASE UNCHANGED vars
    BY <2>1 DEF vars, OutagesAreLogged
  <2>2. CASE exchange' = {}
    BY <2>2 DEF OutagesAreLogged
  <2>3. ASSUME NEW p \in Procs, NEW r \in Results, Ended(p, r) PROVE OutagesAreLogged'
    <3> SUFFICES ASSUME NEW x \in exchange'
                 PROVE  LET errors == {l \in x.lines : l.level = "ERROR"}
                            res == x.result
                        IN  CASE Outage(x.probe, res) ->
                                   \E l \in errors :
                                     /\ l.tool = x.tool /\ l.upstream.says = x.endpoint
                                     /\ l.kind.says # "canceled"
                              [] ~Outage(x.probe, res) /\ Lost(x.probe, res) ->
                                   res.error \subseteq {"canceled", "dns"} =>
                                     \A l \in errors : l.kind.says = "canceled"
                              [] OTHER ->
                                   /\ errors = {}
                                   /\ (\E l \in x.lines : l.level = "WARN") => res.status = 429
      BY DEF OutagesAreLogged
    <3>1. x = Exchanged(p, r) /\ Underway(call[p])
      BY <2>3 DEF Ended
    <3>2. PICK probe, route : probe = Probing(call[p]) /\ route = RouteOf(call[p])
      OBVIOUS
    <3>3. /\ x.probe = probe /\ x.result = r /\ x.tool = call[p].form.tool
          /\ x.endpoint = route.endpoint.says
      BY <3>1, <3>2 DEF Exchanged
    <3>4. /\ r \in Result /\ probe \in BOOLEAN
          /\ \A l \in x.lines : \E m \in Logged(probe, r, route) :
               l.level = m.level /\ l.upstream = m.upstream /\ l.kind = m.kind
          /\ \A m \in Logged(probe, r, route) : Written(m.level, config.log) =>
               \E l \in x.lines : /\ l.level = m.level /\ l.upstream = m.upstream
                                  /\ l.kind = m.kind /\ l.tool = call[p].form.tool
      BY <3>1, <3>2, LinesAreLogged
    <3>5. probe => route.endpoint = ProbeEndpoint
      BY <3>1, <3>2, RouteTexts
    <3>6. LogTells(probe, r, route)
      BY <3>4, <3>5, LogTold, Zenon
    <3>7. CASE Outage(probe, r)
      <4>1. PICK m \in Logged(probe, r, route) :
              m.level = "ERROR" /\ m.upstream = route.endpoint /\ m.kind.says # "canceled"
        BY <3>6, <3>7 DEF LogTells
      <4>2. PICK l \in x.lines : /\ l.level = m.level /\ l.upstream = m.upstream
                                 /\ l.kind = m.kind /\ l.tool = call[p].form.tool
        BY <3>4, <4>1, ErrorsWritten
      <4> QED BY <3>3, <3>7, <4>1, <4>2
    <3>8. CASE ~Outage(probe, r) /\ Lost(probe, r)
      <4>1. ASSUME r.error \subseteq {"canceled", "dns"}, NEW l \in x.lines
            PROVE  l.kind.says = "canceled"
        BY <3>4, <3>6, <3>8, <4>1 DEF LogTells
      <4> QED BY <3>3, <3>8, <4>1
    <3>9. CASE ~Outage(probe, r) /\ ~Lost(probe, r)
      <4>1. \A l \in x.lines : l.level # "ERROR" /\ (l.level = "WARN" => r.status = 429)
        BY <3>4, <3>6, <3>9 DEF LogTells, TooMany
      <4> QED BY <3>3, <3>9, <4>1
    <3> QED BY <3>7, <3>8, <3>9
  <2> QED BY <2>1, <2>2, <2>3, ExchangeStep
<1> QED BY <1>1, <1>2, CallsInvariant, PTL DEF Spec

(***************************************************************************)
(* An answer is lost only when its caller left or its upstream requests    *)
(* can take the write deadline in all.                                     *)
(***************************************************************************)
THEOREM ShortCallsAreHeardHolds == Spec => ShortCallsAreHeard
<1>1. ASSUME IInv, [Next]_vars, NEW p \in Procs, Lose(p)
      PROVE  call[p].gone \/ call[p].requests * UpstreamTimeout >= WriteTimeout
  <2>1. Phase(p) = "answering" /\ ~CanWrite(call[p])
    BY <1>1 DEF Lose
  <2>2. /\ call[p] \in CallRecord /\ clock \in Nat
        /\ clock <= call[p].began + call[p].requests * UpstreamTimeout
    BY <1>1, <2>1, AtWork
  <2>3. CASE call[p].gone
    BY <2>3
  <2>4. CASE ~call[p].gone
    <3>1. ~(clock - call[p].began < WriteTimeout)
      BY <2>1, <2>4 DEF CanWrite
    <3> DEFINE b == call[p].began
               n == call[p].requests
    <3>2. b \in Nat /\ n \in Nat /\ UpstreamTimeout \in Nat /\ WriteTimeout \in Nat
      BY <2>2, ServerAssumption DEF CallRecord
    <3>3. ~(clock - b < WriteTimeout) /\ clock <= b + n * UpstreamTimeout
      BY <2>2, <3>1
    <3> HIDE DEF b, n
    <3>4. n * UpstreamTimeout \in Nat
      BY <3>2
    <3> DEFINE t == n * UpstreamTimeout
    <3>5. t \in Nat /\ clock <= b + t
      BY <3>3, <3>4
    <3> HIDE DEF t
    <3>6. t >= WriteTimeout
      BY <2>2, <3>2, <3>3, <3>5
    <3> QED BY <3>6 DEF t, n
  <2> QED BY <2>3, <2>4
<1>2. IInv /\ [Next]_vars =>
        [\A p \in Procs : Lose(p) =>
           call[p].gone \/ call[p].requests * UpstreamTimeout >= WriteTimeout]_vars
  BY <1>1
<1> QED BY <1>2, CallsInvariant, PTL DEF Spec, ShortCallsAreHeard

(* What auditMiddleware appends, and what it leaves alone. *)
LEMMA AuditAppends ==
  ASSUME IInv, NEW p \in Procs, Audit(p)
  PROVE  /\ call[p] \in CallRecord /\ CallSound(call[p]) /\ SameCall(call[p], call'[p])
         /\ Phase(p) = "returned" /\ call'[p].phase = "answering"
         /\ call'[p].outcome = call[p].outcome
         /\ \A q \in Procs : q # p => call'[q] = call[q]
         /\ config' = config
         /\ trail' = IF auditMode = "off" THEN trail ELSE Append(trail, Record(call[p]))
         /\ trail \in Seq({trail[i] : i \in DOMAIN trail})
<1>1. Phase(p) = "returned" /\ call' = [call EXCEPT ![p].phase = "answering"]
  BY DEF Audit
<1>2. call \in [Procs -> CallRecord] /\ call[p] \in CallRecord /\ CallSound(call[p])
  BY <1>1, AtWork
<1> DEFINE d == [call[p] EXCEPT !.phase = "answering"]
<1>3. call'[p] = d /\ \A q \in Procs : q # p => call'[q] = call[q]
  BY <1>1, <1>2
<1>4. d.phase = "answering" /\ d.outcome = call[p].outcome /\ SameCall(call[p], d)
  BY <1>2 DEF CallRecord, SameCall, TracesJoined
<1> HIDE DEF d
<1>5. /\ config' = config
      /\ trail' = IF auditMode = "off" THEN trail ELSE Append(trail, Record(call[p]))
  BY DEF Audit
<1>6. trail \in Seq({trail[i] : i \in DOMAIN trail})
  BY DEF IInv, TrailSound
<1> QED BY <1>1, <1>2, <1>3, <1>4, <1>5, <1>6

(* The trail, one record longer. *)
LEMMA Longer ==
  ASSUME NEW S, NEW s \in Seq(S), NEW e, NEW t, t = Append(s, e)
  PROVE  /\ DOMAIN s = 1 .. Len(s) /\ Len(s) \in Nat
         /\ DOMAIN t = 1 .. Len(s) + 1
         /\ t[Len(s) + 1] = e
         /\ \A i \in 1 .. Len(s) : t[i] = s[i] /\ i \in DOMAIN t
<1>1. s \in Seq(S \cup {e}) /\ e \in S \cup {e}
  OBVIOUS
<1> QED BY <1>1

(* Where the two checks of a traceparent agree: the record's id is the     *)
(* header's (log.go:32-48, audit.go:130-134).                              *)
LEMMA ChecksAgree ==
  \A meta : /\ AuditTrace(meta) = TraceIds(Carried(meta))
            /\ \A t \in Carried(meta) : t = meta /\ t.wellFormed
  BY DEF AuditTrace, TraceIds, Carried

(***************************************************************************)
(* One trace id joins a call's requests, their log lines and the record,   *)
(* and it is its caller's, however calls interleave and though the context *)
(* is checked once and the record again.                                   *)
(***************************************************************************)
THEOREM TraceJoinsHolds == Spec => []TraceJoins
<1> DEFINE
     Joined == \A x \in exchange : \A h \in x.sent :
       /\ \A l \in x.lines : l.trace = TraceIds(h.trace)
       /\ \A t \in h.trace : t = call[x.proc].meta /\ t.wellFormed
     Kept == \A p \in Procs, i \in DOMAIN trail :
       Phase(p) = "answering" /\ trail[i].id = call[p].id =>
         trail[i].trace = AuditTrace(call[p].meta)
<1>1. Init => Joined /\ Kept
  BY DEF Init
<1>2. IInv /\ Joined /\ [Next]_vars => Joined'
  <2> SUFFICES ASSUME IInv, Joined, [Next]_vars PROVE Joined'
    OBVIOUS
  <2>1. CASE UNCHANGED vars
    BY <2>1 DEF vars
  <2>2. CASE exchange' = {}
    BY <2>2
  <2>3. ASSUME NEW p \in Procs, NEW r \in Results, Ended(p, r) PROVE Joined'
    <3>1. exchange' = {Exchanged(p, r)} /\ call'[p].meta = call[p].meta
      BY <2>3 DEF Ended, Works, SameCall
    <3> SUFFICES ASSUME NEW x \in exchange', NEW h \in x.sent
                 PROVE  /\ \A l \in x.lines : l.trace = TraceIds(h.trace)
                        /\ \A t \in h.trace : t = call'[x.proc].meta /\ t.wellFormed
      OBVIOUS
    <3>2. x = Exchanged(p, r)
      BY <3>1
    <3>3. x.proc = p /\ h.trace = Carried(call[p].meta)
      BY <3>2 DEF Exchanged
    <3>4. \A l \in x.lines : l.trace = TraceIds(Carried(call[p].meta))
      BY <3>2, LinesAreLogged
    <3> QED BY <3>1, <3>3, <3>4, ChecksAgree
  <2> QED BY <2>1, <2>2, <2>3, ExchangeStep
<1>3. IInv /\ Kept /\ [Next]_vars => Kept'
  <2> SUFFICES ASSUME IInv, Kept, [Next]_vars,
                      NEW q \in Procs, NEW i \in DOMAIN trail',
                      call'[q].phase = "answering", trail'[i].id = call'[q].id
               PROVE  trail'[i].trace = AuditTrace(call'[q].meta)
    BY DEF Phase
  <2>1. CASE UNCHANGED <<config, call, trail>>
    BY <2>1 DEF Phase
  <2>2. ASSUME NEW p \in Procs,
               Queues(p) \/ TakesOn(p) \/ Works(p) \/ Replies(p) \/ Closes(p)
        PROVE  trail'[i].trace = AuditTrace(call'[q].meta)
    <3>1. Moves(p)
      BY <2>2 DEF Queues, TakesOn, Works, Replies, Closes
    <3>2. CASE q # p
      <4>1. call'[q] = call[q] /\ trail' = trail
        BY <3>1, <3>2 DEF Moves
      <4> QED BY <4>1 DEF Phase
    <3>3. CASE q = p /\ Replies(p)
      <4>1. trail' = trail /\ call'[p].id = call[p].id /\ Phase(p) = "serving"
        BY <3>1, <3>3 DEF Moves, Replies, SameCall
      <4>2. i \in DOMAIN trail /\ trail[i].id = call[p].id
        BY <3>3, <4>1
      <4> QED BY <4>1, <4>2 DEF IInv, IdsOnce
    <3>4. CASE q = p /\ ~Replies(p)
      <4>1. call'[p].phase # "answering"
        BY <2>2, <3>4, IdleIsRecord DEF Queues, TakesOn, Works, Closes
      <4> QED BY <3>4, <4>1
    <3> QED BY <3>2, <3>3, <3>4
  <2>3. ASSUME NEW p \in Procs, Audit(p) PROVE trail'[i].trace = AuditTrace(call'[q].meta)
    <3> DEFINE record == Record(call[p])
    <3>1. /\ SameCall(call[p], call'[p]) /\ Phase(p) = "returned"
          /\ \A s \in Procs : s # p => call'[s] = call[s]
          /\ trail' = trail \/ trail' = Append(trail, record)
          /\ trail \in Seq({trail[j] : j \in DOMAIN trail})
      BY <2>3, AuditAppends
    <3>2. record.id = call[p].id /\ record.trace = AuditTrace(call[p].meta)
      BY DEF Record
    <3> HIDE DEF record
    <3>3. trail'[i] = record \/ (i \in DOMAIN trail /\ trail'[i] = trail[i])
      <4>1. CASE trail' = Append(trail, record)
        <5>1. /\ DOMAIN trail = 1 .. Len(trail) /\ Len(trail) \in Nat
              /\ DOMAIN trail' = 1 .. Len(trail) + 1 /\ trail'[Len(trail) + 1] = record
              /\ \A j \in 1 .. Len(trail) : trail'[j] = trail[j]
          BY <3>1, <4>1, Longer
        <5>2. i \in 1 .. Len(trail) \/ i = Len(trail) + 1
          BY <5>1
        <5> QED BY <5>1, <5>2
      <4> QED BY <3>1, <4>1
    <3>4. CASE q = p /\ trail'[i] = record
      BY <3>1, <3>2, <3>4 DEF SameCall
    <3>5. CASE q = p /\ i \in DOMAIN trail /\ trail'[i] = trail[i]
      <4>1. trail[i].id = call[p].id
        BY <3>1, <3>5 DEF SameCall
      <4> QED BY <3>1, <3>5, <4>1 DEF IInv, IdsOnce
    <3>6. CASE q # p /\ trail'[i] = record
      <4>1. call'[q] = call[q] /\ call[q].id = call[p].id /\ call[q].phase = "answering"
        BY <3>1, <3>2, <3>6
      <4> QED BY <3>1, <3>6, <4>1 DEF IInv, IdsOnce, Phase
    <3>7. CASE q # p /\ i \in DOMAIN trail /\ trail'[i] = trail[i]
      <4>1. call'[q] = call[q]
        BY <3>1, <3>7
      <4> QED BY <3>7, <4>1 DEF Phase
    <3> QED BY <3>3, <3>4, <3>5, <3>6, <3>7
  <2> QED BY <2>1, <2>2, <2>3, StepKinds
<1>4. IInv /\ Joined /\ Kept => TraceJoins
  <2> SUFFICES ASSUME IInv, Joined, Kept, NEW p \in Procs, NEW i \in DOMAIN trail,
                      Phase(p) = "answering", trail[i].id = call[p].id,
                      NEW traces \in call[p].traced
               PROVE  trail[i].trace = TraceIds(traces)
    BY DEF TraceJoins
  <2>1. traces = Carried(call[p].meta)
    BY DEF IInv, CallsSound, CallSound, TracesJoined
  <2> QED BY <2>1, ChecksAgree
<1> QED BY <1>1, <1>2, <1>3, <1>4, CallsInvariant, PTL DEF Spec

-----------------------------------------------------------------------------
(* The server keeps what AuditedCalls promises, liveness aside. *)

Ticket(p) == [id |-> call[p].id, form |-> Asked(call[p].form)]
Outcome(p) == [id |-> call[p].id, outcome |-> call[p].outcome]
OpenCalls == {Ticket(p) : p \in {q \in Procs : TakenOn(q)}}
Answers(p) == Phase(p) = "answering" /\ call[p].form.tool # ""
ClosedCalls == {Outcome(p) : p \in {q \in Procs : Answers(q)}}
InStream(record) ==
  [id |-> record.id, tool |-> record.tool, outcome |-> record.outcome,
   names |-> record.names, values |-> record.values]
Records == [i \in DOMAIN trail |-> InStream(trail[i])]

(* Calls taken on, and outcomes, are told apart by their ids. *)
LEMMA Tickets ==
  ASSUME IInv
  PROVE  /\ \A p, q \in Procs : TakenOn(p) /\ TakenOn(q) /\ Ticket(p).id = Ticket(q).id => p = q
         /\ \A p, q \in Procs : Answers(p) /\ Answers(q) /\ Outcome(p).id = Outcome(q).id => p = q
<1>1. \A p, q \in Procs :
        p # q /\ Phase(p) # "idle" /\ Phase(q) # "idle" => call[p].id # call[q].id
  BY DEF IInv, IdsOnce
<1>2. \A p : TakenOn(p) \/ Answers(p) => Phase(p) # "idle"
  BY DEF TakenOn, Answers
<1>3. \A p : Ticket(p).id = call[p].id /\ Outcome(p).id = call[p].id
  BY DEF Ticket, Outcome
<1> QED BY <1>1, <1>2, <1>3

(* A goroutine that another step leaves alone has its ticket and outcome.  *)
LEMMA OthersKept ==
  ASSUME NEW q, call'[q] = call[q]
  PROVE  /\ (TakenOn(q)' <=> TakenOn(q)) /\ (Answers(q)' <=> Answers(q))
         /\ Ticket(q)' = Ticket(q) /\ Outcome(q)' = Outcome(q)
  BY DEF TakenOn, Answers, Ticket, Outcome, Asked, Phase

(* A step that opens no call and closes none. *)
LEMMA SameCalls ==
  ASSUME NEW p \in Procs, Moves(p), TakenOn(p)' <=> TakenOn(p), Answers(p)' <=> Answers(p),
         TakenOn(p) => Ticket(p)' = Ticket(p), Answers(p) => Outcome(p)' = Outcome(p)
  PROVE  OpenCalls' = OpenCalls /\ ClosedCalls' = ClosedCalls
<1>1. \A q \in Procs : /\ (TakenOn(q)' <=> TakenOn(q)) /\ (Answers(q)' <=> Answers(q))
                       /\ (TakenOn(q) => Ticket(q)' = Ticket(q))
                       /\ (Answers(q) => Outcome(q)' = Outcome(q))
  BY OthersKept DEF Moves
<1>2. OpenCalls' = {Ticket(q)' : q \in {s \in Procs : TakenOn(s)'}}
  BY DEF OpenCalls
<1>3. ClosedCalls' = {Outcome(q)' : q \in {s \in Procs : Answers(s)'}}
  BY DEF ClosedCalls
<1>4. OpenCalls' = OpenCalls
  BY <1>1, <1>2 DEF OpenCalls
<1>5. ClosedCalls' = ClosedCalls
  BY <1>1, <1>3 DEF ClosedCalls
<1> QED BY <1>4, <1>5

(* The requests are counted (bound of the model). *)
LEMMA AskedBound ==
  asked \in Nat /\ asked <= MaxRequests /\ [Next]_vars => asked' <= MaxRequests
<1> SUFFICES ASSUME asked \in Nat, asked <= MaxRequests, [Next]_vars PROVE asked' <= MaxRequests
  OBVIOUS
<1>0. MaxRequests \in Nat
  BY LimiterAssumption DEF Limiter!NumberAssumption
<1>1. asked' = asked \/ (asked < MaxRequests /\ asked' = asked + 1)
  <2>1. CASE \E p \in Procs : Hear(p)
    BY <2>1 DEF Hear, FetchSingle, FetchMore, FetchLast, FetchEmpty, FetchFails, Probe, Hears,
                limiter
  <2>2. CASE \E p \in Procs : Run(p)
    <3>1. PICK p \in Procs : Run(p)
      BY <2>2
    <3>2. CASE Admit(p) \/ Deny(p)
      BY <3>2, LimiterServes DEF Admit, Deny
    <3>3. CASE ~(Admit(p) \/ Deny(p))
      BY <3>1, <3>3 DEF Run, ServeProtocol, SdkRefuses, ToolRefuses, AskSingle, AskStack,
                        Audit, Deliver, Lose, Goes, limiter
    <3> QED BY <3>2, <3>3
  <2>3. CASE Tick \/ \E p \in Procs : Leave(p) \/ Cancel(p)
    BY <2>3 DEF Tick, Limiter!Tick, Leave, Cancel, Goes, limiter
  <2>4. CASE \E p \in Procs, c \in Clients, form \in Forms, meta \in Traces :
               ArriveLimited(p, c, form, meta) \/ ArriveUnlimited(p, c, form, meta)
    BY <2>4, ArrivesOnce DEF ArriveLimited, ArriveUnlimited
  <2>5. CASE Finished \/ UNCHANGED vars
    BY <2>5 DEF Finished, vars
  <2> QED BY <2>1, <2>2, <2>3, <2>4, <2>5 DEF Next
<1> QED BY <1>0, <1>1

(* A request the SDK takes on opens a call of the abstract specification. *)
LEMMA BeginStep ==
  ASSUME IInv, IInv', asked' <= MaxRequests, NEW p \in Procs, TakesOn(p), TakenOn(p)'
  PROVE  Audited!Next
<1>1. Moves(p) /\ Phase(p) \in {"idle", "waiting"} /\ call'[p].phase = "serving"
  BY DEF TakesOn
<1>2. call'[p] \in CallRecord /\ CallSound(call[p])' /\ asked' \in Nat
  BY DEF IInv, CallsSound, Limiter!TypeOK
<1>3. call'[p].id \in 1 .. MaxRequests
  <2>1. call'[p].id \in 1 .. asked' /\ MaxRequests \in Nat
    BY <1>1, <1>2, LimiterAssumption DEF CallSound, Limiter!NumberAssumption
  <2>2. 1 .. asked' \subseteq 1 .. MaxRequests
    BY <1>2, <2>1
  <2> QED BY <2>1, <2>2
<1>4. Asked(call'[p].form) \in {Asked(f) : f \in Forms}
  <2>1. call'[p].form \in Forms
    BY <1>1, <1>2 DEF CallSound
  <2> QED BY <2>1
<1>0. PICK id \in 1 .. MaxRequests : id = call'[p].id
  BY <1>3
<1>16. PICK form \in {Asked(f) : f \in Forms} : form = Asked(call'[p].form)
  BY <1>4
<1>5. Ticket(p)' = [id |-> id, form |-> form]
  BY <1>0, <1>16 DEF Ticket
<1>6. \A q \in Procs : q # p /\ (TakenOn(q) \/ Answers(q)) => call[q].id # id
  <2>1. \A q \in Procs : q # p => call'[q] = call[q]
    BY <1>1 DEF Moves
  <2>2. \A q \in Procs : q # p /\ call'[q].phase # "idle" => call'[q].id # id
    BY <1>0, <1>1 DEF IInv, IdsOnce, Phase
  <2> QED BY <2>1, <2>2 DEF TakenOn, Answers, Phase
<1>7. ~TakenOn(p) /\ ~Answers(p) /\ ~Answers(p)'
  BY <1>1 DEF TakenOn, Answers, Phase
<1>8. \A i \in DOMAIN trail : trail[i].id # id
  <2>1. \A i \in DOMAIN trail' : trail'[i].id = call'[p].id => call'[p].phase \in {"idle", "answering"}
    BY DEF IInv, IdsOnce, Phase
  <2>2. trail' = trail
    BY <1>1 DEF Moves
  <2> QED BY <1>0, <1>1, <2>1, <2>2
<1>9. \A c \in OpenCalls \cup ClosedCalls : c.id # id
  <2>1. \A q : Ticket(q).id = call[q].id /\ Outcome(q).id = call[q].id
    BY DEF Ticket, Outcome
  <2> QED BY <1>6, <1>7, <2>1 DEF OpenCalls, ClosedCalls
<1>10. \A i \in DOMAIN Records : Records[i].id # id
  BY <1>8 DEF Records, InStream
<1>11. OpenCalls' = OpenCalls \cup {[id |-> id, form |-> form]}
  <2>1. \A q \in Procs : q # p =>
          (TakenOn(q)' <=> TakenOn(q)) /\ Ticket(q)' = Ticket(q)
    BY <1>1, OthersKept DEF Moves
  <2>2. OpenCalls' = {Ticket(q)' : q \in {s \in Procs : TakenOn(s)'}}
    BY DEF OpenCalls
  <2> QED BY <1>5, <1>7, <2>1, <2>2 DEF OpenCalls
<1>12. ClosedCalls' = ClosedCalls
  <2>1. \A q \in Procs : q # p =>
          (Answers(q)' <=> Answers(q)) /\ Outcome(q)' = Outcome(q)
    BY <1>1, OthersKept DEF Moves
  <2>2. ClosedCalls' = {Outcome(q)' : q \in {s \in Procs : Answers(s)'}}
    BY DEF ClosedCalls
  <2> QED BY <1>7, <2>1, <2>2 DEF ClosedCalls
<1>13. Records' = Records /\ auditMode' = auditMode
  BY <1>1 DEF Moves, Records, auditMode
<1>14. Audited!Fresh(id)
  BY <1>9, <1>10 DEF Audited!Fresh, OpenCalls, ClosedCalls, Records, Ticket, Outcome, InStream,
                     Answers
<1>15. Audited!Begin(id, form)
  BY <1>11, <1>12, <1>13, <1>14
     DEF Audited!Begin, OpenCalls, ClosedCalls, Records, Ticket, Outcome, InStream, Answers
<1> QED BY <1>15, Zenon DEF Audited!Next

(* The step that writes a call's record is the one in which it ends. *)
LEMMA EndStep ==
  ASSUME IInv, NEW p \in Procs, Audit(p)
  PROVE  Audited!Next
<1>1. /\ call[p] \in CallRecord /\ CallSound(call[p]) /\ SameCall(call[p], call'[p])
      /\ Phase(p) = "returned" /\ call'[p].phase = "answering"
      /\ call'[p].outcome = call[p].outcome
      /\ \A q \in Procs : q # p => call'[q] = call[q]
      /\ config' = config
      /\ trail' = IF auditMode = "off" THEN trail ELSE Append(trail, Record(call[p]))
      /\ trail \in Seq({trail[i] : i \in DOMAIN trail})
  BY AuditAppends
<1>2. call[p].outcome \in {"ok", "tool_error", "error"}
  <2>1. call[p].outcome \in {"", "ok", "tool_error", "error"}
    BY <1>1 DEF CallRecord
  <2>2. call[p].outcome # ""
    BY <1>1 DEF CallSound, Phase
  <2> QED BY <2>1, <2>2
<1>3. call[p].form.tool # ""
  BY <1>1 DEF CallSound, Phase
<1>4. PICK c : c = Ticket(p)
  OBVIOUS
<1>5. PICK outcome \in {"ok", "tool_error", "error"} : outcome = call[p].outcome
  BY <1>2
<1>6. c \in OpenCalls /\ TakenOn(p) /\ ~TakenOn(p)'
  BY <1>1, <1>3, <1>4 DEF OpenCalls, TakenOn, Phase
<1>7. ~Answers(p) /\ Answers(p)' /\ Outcome(p)' = [id |-> c.id, outcome |-> outcome]
  BY <1>1, <1>3, <1>4, <1>5 DEF Answers, Phase, SameCall, Outcome, Ticket
<1>8. \A q \in Procs : q # p =>
        /\ (TakenOn(q)' <=> TakenOn(q)) /\ (Answers(q)' <=> Answers(q))
        /\ Ticket(q)' = Ticket(q) /\ Outcome(q)' = Outcome(q)
  BY <1>1, OthersKept
<1>9. OpenCalls' = OpenCalls \ {c}
  <2>1. \A q \in Procs : q # p /\ TakenOn(q) => Ticket(q) # c
    BY <1>4, <1>6, Tickets
  <2>2. OpenCalls' = {Ticket(q)' : q \in {s \in Procs : TakenOn(s)'}}
    BY DEF OpenCalls
  <2> QED BY <1>4, <1>6, <1>8, <2>1, <2>2 DEF OpenCalls
<1>10. ClosedCalls' = ClosedCalls \cup {[id |-> c.id, outcome |-> outcome]}
  <2>1. ClosedCalls' = {Outcome(q)' : q \in {s \in Procs : Answers(s)'}}
    BY DEF ClosedCalls
  <2> QED BY <1>7, <1>8, <2>1 DEF ClosedCalls
<1>11. auditMode' = auditMode
  BY <1>1 DEF auditMode
<1>12. PICK e : e = Audited!Entry(c.id, c.form, outcome)
  OBVIOUS
<1>13. e = InStream(Record(call[p]))
  BY <1>4, <1>5, <1>12 DEF Audited!Entry, InStream, Record, Ticket, Asked
<1>14. Records' = IF auditMode = "off" THEN Records ELSE Append(Records, e)
  <2> DEFINE record == Record(call[p])
  <2>0. e = InStream(record)
    BY <1>13
  <2> HIDE DEF record
  <2>1. CASE auditMode = "off"
    BY <1>1, <2>1 DEF Records
  <2>2. CASE auditMode # "off"
    <3>1. trail' = Append(trail, record)
      BY <1>1, <2>2 DEF record
    <3>2. /\ DOMAIN trail = 1 .. Len(trail) /\ Len(trail) \in Nat
          /\ DOMAIN trail' = 1 .. Len(trail) + 1 /\ trail'[Len(trail) + 1] = record
          /\ \A i \in 1 .. Len(trail) : trail'[i] = trail[i]
      BY <1>1, <3>1, Longer
    <3>3. Records' = [i \in DOMAIN trail' |-> InStream(trail'[i])]
      BY DEF Records, InStream
    <3>4. PICK n \in Nat : n = Len(trail)
      BY <3>2
    <3>5. Records = [i \in 1 .. n |-> InStream(trail[i])]
      BY <3>2, <3>4 DEF Records
    <3>6. /\ Records \in Seq({InStream(trail[i]) : i \in 1 .. n} \cup {e}) /\ Len(Records) = n
      BY <3>5
    <3>7. Append(Records, e) = [i \in 1 .. n + 1 |-> IF i = n + 1 THEN e ELSE Records[i]]
      <4>1. PICK S : e \in S /\ Records \in Seq(S)
        BY <3>6
      <4>2. PICK s : s = Append(Records, e)
        OBVIOUS
      <4>3. s \in Seq(S) /\ Len(s) = n + 1 /\ s[n + 1] = e /\ \A i \in 1 .. n : s[i] = Records[i]
        BY <3>6, <4>1, <4>2, AppendProperties
      <4>4. s = [i \in 1 .. n + 1 |-> s[i]]
        BY <4>3, LenProperties
      <4>5. \A i \in 1 .. n + 1 : s[i] = IF i = n + 1 THEN e ELSE Records[i]
        <5>1. \A i \in 1 .. n + 1 : i = n + 1 \/ i \in 1 .. n
          BY <3>4
        <5> QED BY <4>3, <5>1
      <4>6. s = [i \in 1 .. n + 1 |-> IF i = n + 1 THEN e ELSE Records[i]]
        BY <4>4, <4>5, Zenon
      <4> QED BY <4>2, <4>6
    <3> QED BY <2>0, <2>2, <3>2, <3>3, <3>4, <3>5, <3>7
  <2> QED BY <2>1, <2>2
<1>15. Audited!End(c, outcome)
  BY <1>9, <1>10, <1>11, <1>12, <1>14
     DEF Audited!End, OpenCalls, ClosedCalls, Records, Ticket, Outcome, InStream, Answers
<1>16. \E c_ \in OpenCalls, o_ \in {"ok", "tool_error", "error"} : Audited!End(c_, o_)
  BY <1>6, <1>15
<1> QED BY <1>16, Zenon DEF Audited!Next, OpenCalls, Ticket

(* The answer that is delivered, or lost, is closed no more. *)
LEMMA AnswerStep ==
  ASSUME IInv, NEW p \in Procs, Closes(p)
  PROVE  \/ Audited!Next
         \/ OpenCalls' = OpenCalls /\ ClosedCalls' = ClosedCalls
<1>1. Moves(p) /\ Phase(p) = "answering" /\ call'[p] = Idle
  BY DEF Closes
<1>2. ~TakenOn(p) /\ ~TakenOn(p)' /\ ~Answers(p)'
  BY <1>1, IdleIsRecord DEF TakenOn, Answers, Phase
<1>3. CASE ~Answers(p)
  BY <1>1, <1>2, <1>3, SameCalls
<1>4. CASE Answers(p)
  <2>1. PICK e : e = Outcome(p)
    OBVIOUS
  <2>2. e \in ClosedCalls
    BY <1>4, <2>1 DEF ClosedCalls
  <2>3. \A q \in Procs : q # p =>
          /\ (TakenOn(q)' <=> TakenOn(q)) /\ (Answers(q)' <=> Answers(q))
          /\ Ticket(q)' = Ticket(q) /\ Outcome(q)' = Outcome(q)
    BY <1>1, OthersKept DEF Moves
  <2>4. ClosedCalls' = ClosedCalls \ {e}
    <3>1. \A q \in Procs : q # p /\ Answers(q) => Outcome(q) # e
      BY <1>4, <2>1, Tickets
    <3>2. ClosedCalls' = {Outcome(q)' : q \in {s \in Procs : Answers(s)'}}
      BY DEF ClosedCalls
    <3> QED BY <1>2, <1>4, <2>1, <2>3, <3>1, <3>2 DEF ClosedCalls
  <2>5. OpenCalls' = OpenCalls
    <3>1. OpenCalls' = {Ticket(q)' : q \in {s \in Procs : TakenOn(s)'}}
      BY DEF OpenCalls
    <3> QED BY <1>2, <2>3, <3>1 DEF OpenCalls
  <2>6. Records' = Records /\ auditMode' = auditMode
    BY <1>1 DEF Moves, Records, auditMode
  <2>7. Audited!Answer(e)
    BY <2>4, <2>5, <2>6
       DEF Audited!Answer, OpenCalls, ClosedCalls, Records, Ticket, Outcome, InStream, Answers
  <2>8. \E e_ \in ClosedCalls : Audited!Answer(e_)
    BY <2>2, <2>7
  <2> QED BY <2>8, Zenon DEF Audited!Next, ClosedCalls, Outcome, Answers
<1> QED BY <1>3, <1>4

(* A step that opens and closes no call is a stutter of the promise. *)
LEMMA Stutters ==
  ASSUME OpenCalls' = OpenCalls, ClosedCalls' = ClosedCalls, Records' = Records,
         auditMode' = auditMode
  PROVE  UNCHANGED Audited!vars
BY DEF Audited!vars, OpenCalls, ClosedCalls, Records, Ticket, Outcome, InStream, Answers

(* Every step of the server begins a call, ends one, answers one, or is    *)
(* none of the audit stream's business.                                    *)
LEMMA AuditedStep ==
  IInv /\ IInv' /\ asked' <= MaxRequests /\ [Next]_vars => [Audited!Next]_Audited!vars
<1> SUFFICES ASSUME IInv, IInv', asked' <= MaxRequests, [Next]_vars
             PROVE  Audited!Next \/ UNCHANGED Audited!vars
  OBVIOUS
<1>1. ASSUME UNCHANGED <<config, call, trail>> PROVE UNCHANGED Audited!vars
  BY <1>1 DEF Audited!vars, TakenOn, Phase, Asked, auditMode
<1>2. ASSUME NEW p \in Procs, Moves(p), TakenOn(p)' <=> TakenOn(p), Answers(p)' <=> Answers(p),
             TakenOn(p) => Ticket(p)' = Ticket(p), Answers(p) => Outcome(p)' = Outcome(p)
      PROVE  UNCHANGED Audited!vars
  <2>1. OpenCalls' = OpenCalls /\ ClosedCalls' = ClosedCalls
    BY <1>2, SameCalls
  <2>2. Records' = Records /\ auditMode' = auditMode
    BY <1>2 DEF Moves, Records, auditMode
  <2> QED BY <2>1, <2>2, Stutters
<1>3. ASSUME NEW p \in Procs, Queues(p) PROVE UNCHANGED Audited!vars
  BY <1>2, <1>3 DEF Queues, TakenOn, Answers, Phase
<1>4. ASSUME NEW p \in Procs, TakesOn(p) PROVE Audited!Next \/ UNCHANGED Audited!vars
  <2>1. CASE TakenOn(p)'
    BY <1>4, <2>1, BeginStep
  <2>2. CASE ~TakenOn(p)'
    BY <1>2, <1>4, <2>2 DEF TakesOn, TakenOn, Answers, Phase
  <2> QED BY <2>1, <2>2
<1>5. ASSUME NEW p \in Procs, Works(p) PROVE UNCHANGED Audited!vars
  <2>1. Moves(p) /\ SameCall(call[p], call'[p]) /\ Phase(p) \in {"serving", "fetching"}
        /\ call'[p].phase \in {"serving", "fetching", "returned"}
    BY <1>5 DEF Works
  <2>2. (TakenOn(p)' <=> TakenOn(p)) /\ ~Answers(p) /\ ~Answers(p)'
    BY <2>1 DEF TakenOn, Answers, Phase, SameCall
  <2>3. Ticket(p)' = Ticket(p)
    BY <2>1 DEF Ticket, Asked, SameCall
  <2> QED BY <1>2, <2>1, <2>2, <2>3
<1>6. ASSUME NEW p \in Procs, Replies(p) PROVE UNCHANGED Audited!vars
  BY <1>2, <1>6 DEF Replies, TakenOn, Answers, Phase, SameCall
<1>7. ASSUME NEW p \in Procs, Closes(p) PROVE Audited!Next \/ UNCHANGED Audited!vars
  <2>1. Records' = Records /\ auditMode' = auditMode
    BY <1>7 DEF Closes, Moves, Records, auditMode
  <2> QED BY <1>7, <2>1, AnswerStep, Stutters
<1>8. ASSUME NEW p \in Procs, Audit(p) PROVE Audited!Next
  BY <1>8, EndStep
<1> QED BY <1>1, <1>3, <1>4, <1>5, <1>6, <1>7, <1>8, StepKinds

(* The server starts as the audit stream does. *)
LEMMA AuditedInit == Init => Audited!Init
<1> SUFFICES ASSUME Init PROVE Audited!Init
  OBVIOUS
<1>1. \A p \in Procs : Phase(p) = "idle"
  BY IdleIsRecord DEF Init, Phase
<1>2. \A p \in Procs : ~TakenOn(p) /\ ~Answers(p)
  BY <1>1 DEF TakenOn, Answers
<1>3. OpenCalls = {} /\ ClosedCalls = {}
  BY <1>2 DEF OpenCalls, ClosedCalls
<1>4. Records = <<>>
  BY DEF Init, Records
<1>5. auditMode \in {"off", "metadata", "full"}
  BY DEF auditMode
<1> QED BY <1>3, <1>4, <1>5
       DEF Audited!Init, OpenCalls, ClosedCalls, Records, Ticket, Outcome, InStream, Answers

(***************************************************************************)
(* The server keeps the audit stream's promise, its liveness aside: each   *)
(* call taken on ends once, in the one step that writes its record, with   *)
(* the outcome its caller is about to read (auditMiddleware), whatever     *)
(* goroutines and callers do meanwhile.                                    *)
(***************************************************************************)
THEOREM KeepsAuditedCalls == Spec => Audited!Spec
<1> DEFINE Bounded == asked <= MaxRequests
<1>1. IInv => asked \in Nat
  BY DEF IInv, Limiter!TypeOK
<1>2. Init => Bounded
  BY LimiterAssumption DEF Init, Limiter!Init, Limiter!NumberAssumption
<1>3. IInv /\ Bounded /\ [Next]_vars => Bounded'
  BY <1>1, AskedBound
<1>4. IInv /\ IInv' /\ Bounded' /\ [Next]_vars => [Audited!Next]_Audited!vars
  BY AuditedStep
<1> HIDE DEF Bounded
<1> QED BY <1>2, <1>3, <1>4, CallsInvariant, AuditedInit, PTL DEF Spec, Audited!Spec

-----------------------------------------------------------------------------
(* With a limit set, the limiter in the server is RateLimiter. *)

(* A step of the server is at most one step of its limiter. *)
LEMMA LimiterStep ==
  Limited /\ [Next]_vars => [Limiter!Next]_limiter
<1> SUFFICES ASSUME Limited, [Next]_vars PROVE Limiter!Next \/ UNCHANGED limiter
  OBVIOUS
<1>1. CASE Tick
  BY <1>1 DEF Tick, Limiter!Next
<1>2. ASSUME NEW p \in Procs, NEW c \in Clients, NEW form \in Forms, NEW meta \in Traces,
             ArriveLimited(p, c, form, meta) \/ ArriveUnlimited(p, c, form, meta)
      PROVE  Limiter!Next
  <2>1. Limiter!Arrive(p, c)
    BY <1>2 DEF ArriveLimited, ArriveUnlimited
  <2> QED BY <2>1 DEF Limiter!Next
<1>3. ASSUME NEW p \in Procs, Admit(p) \/ Deny(p) PROVE Limiter!Next
  BY <1>3 DEF Admit, Deny, Limiter!Next
<1>4. ASSUME NEW p \in Procs, Run(p), ~(Admit(p) \/ Deny(p)) PROVE UNCHANGED limiter
  BY <1>4 DEF Run, ServeProtocol, SdkRefuses, ToolRefuses, AskSingle, AskStack, Audit, Deliver,
              Lose, Goes
<1>5. ASSUME NEW p \in Procs, Hear(p) PROVE UNCHANGED limiter
  BY <1>5 DEF Hear, FetchSingle, FetchMore, FetchLast, FetchEmpty, FetchFails, Probe, Hears
<1>6. ASSUME NEW p \in Procs, Leave(p) \/ Cancel(p) PROVE UNCHANGED limiter
  BY <1>6 DEF Leave, Cancel, Goes
<1>7. CASE Finished \/ UNCHANGED vars
  BY <1>7 DEF Finished, vars, limiter
<1> QED BY <1>1, <1>2, <1>3, <1>4, <1>5, <1>6, <1>7 DEF Next

(* The deployment is for good. *)
LEMMA SettingKept == [Next]_vars => config' = config
<1> SUFFICES ASSUME [Next]_vars PROVE config' = config
  OBVIOUS
<1>1. ASSUME NEW p \in Procs, Run(p) PROVE config' = config
  BY <1>1 DEF Run, Admit, Deny, ServeProtocol, SdkRefuses, ToolRefuses, AskSingle, AskStack,
              Audit, Deliver, Lose, Goes
<1>2. ASSUME NEW p \in Procs, Hear(p) PROVE config' = config
  BY <1>2 DEF Hear, FetchSingle, FetchMore, FetchLast, FetchEmpty, FetchFails, Probe, Hears
<1>3. ASSUME NEW p \in Procs, Leave(p) \/ Cancel(p) PROVE config' = config
  BY <1>3 DEF Leave, Cancel, Goes
<1>4. CASE Tick \/ Finished \/ UNCHANGED vars
  BY <1>4 DEF Tick, Finished, vars
<1>5. CASE \E p \in Procs, c \in Clients, form \in Forms, meta \in Traces :
             ArriveLimited(p, c, form, meta) \/ ArriveUnlimited(p, c, form, meta)
  BY <1>5 DEF ArriveLimited, ArriveUnlimited
<1> QED BY <1>1, <1>2, <1>3, <1>4, <1>5 DEF Next

(***************************************************************************)
(* The limiter inside the server is the limiter on its own: no other part  *)
(* of the front touches its map, its clock or its waiting requests         *)
(* (rateLimitMiddleware around the mux), so that what is proved of         *)
(* RateLimiter holds of a deployed server.                                 *)
(***************************************************************************)
THEOREM KeepsRateLimiter == Spec /\ Limited => Limiter!Spec
<1>1. Init => Limiter!Init
  BY DEF Init
<1>2. Limited /\ [Next]_vars => Limited'
  BY SettingKept DEF Limited
<1>3. Limited /\ [Next]_vars => [Limiter!Next]_Limiter!vars
  BY LimiterStep DEF limiter, Limiter!vars
<1> QED BY <1>1, <1>2, <1>3, PTL DEF Spec, Limiter!Spec

(***************************************************************************)
(* So a deployed server denies only clients that spent their own budget,   *)
(* admits none beyond the sliding bound, and tells the denied how long to  *)
(* wait.                                                                   *)
(***************************************************************************)
THEOREM DeployedLimits ==
  Spec /\ Limited => []Limiter!SlidingBound /\ Limiter!DenialJustified /\ WaitingHelps
<1>1. Limiter!Init => LimiterProofs!Init
  BY DEF Limiter!Init, LimiterProofs!Init
<1>2. [Limiter!Next]_Limiter!vars => [LimiterProofs!Next]_LimiterProofs!vars
  <2>1. Limiter!Finished => LimiterProofs!Finished
    BY DEF Limiter!Finished, LimiterProofs!Finished, Limiter!vars, LimiterProofs!vars
  <2>2. Limiter!Next => LimiterProofs!Next
    BY <2>1, SameLimiter, Zenon DEF Limiter!Next, LimiterProofs!Next
  <2>3. Limiter!vars = LimiterProofs!vars
    BY DEF Limiter!vars, LimiterProofs!vars
  <2> QED BY <2>2, <2>3 DEF Limiter!vars, LimiterProofs!vars
<1>3. LimiterProofs!Spec => /\ []LimiterProofs!SlidingBound
                            /\ LimiterProofs!DenialJustified /\ LimiterProofs!WaitingHelps
  BY LimiterAssumptions, LimiterProofs!SlidingBoundHolds, LimiterProofs!DenialsJustified,
     LimiterProofs!WaitingAlwaysHelps
<1>4. LimiterProofs!SlidingBound => Limiter!SlidingBound
  BY DEF Limiter!SlidingBound, LimiterProofs!SlidingBound
<1>5. [\A r \in pending : LimiterProofs!Denied(r) => LimiterProofs!SpentOwnBudget(r)]_LimiterProofs!vars
        => [\A r \in pending : Limiter!Denied(r) => Limiter!SpentOwnBudget(r)]_Limiter!vars
  BY DEF LimiterProofs!Denied, LimiterProofs!SpentOwnBudget, Limiter!Denied,
         Limiter!SpentOwnBudget, Limiter!vars, LimiterProofs!vars
<1>6. [\A r \in pending : LimiterProofs!Denied(r) =>
         clock + (LimiterProofs!RetryAfter(seen[r.key]) + 1) * TicksPerSecond
           > seen'[r.key].resetAt]_LimiterProofs!vars
        => [\A r \in pending : Limiter!Denied(r) =>
              clock + (Limiter!RetryAfter(seen[r.key]) + 1) * TicksPerSecond
                > seen'[r.key].resetAt]_Limiter!vars
  <2>1. \A b : Limiter!RetryAfter(b) = LimiterProofs!RetryAfter(b)
    BY DEF Limiter!RetryAfter, LimiterProofs!RetryAfter
  <2>2. \A r : Limiter!Denied(r) => LimiterProofs!Denied(r)
    BY DEF Limiter!Denied, LimiterProofs!Denied
  <2>3. Limiter!vars = LimiterProofs!vars
    BY DEF Limiter!vars, LimiterProofs!vars
  <2> QED BY <2>1, <2>2, <2>3 DEF Limiter!vars, LimiterProofs!vars
<1> QED BY <1>1, <1>2, <1>3, <1>4, <1>5, <1>6, KeepsRateLimiter, PTL
    DEF Limiter!Spec, LimiterProofs!Spec, Limiter!DenialJustified, LimiterProofs!DenialJustified,
        WaitingHelps, Limiter!WaitingHelps, LimiterProofs!WaitingHelps
=============================================================================
