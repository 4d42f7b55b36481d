------------------------------- MODULE Runner -------------------------------
(***************************************************************************)
(* The request path of pkg/runner/simple.go and pkg/engine/rate.go: a      *)
(* request goroutine borrows a lane, runs the preflight chain, sends its   *)
(* request, runs the postflight chain and returns the lane, and is tried   *)
(* once more when it fails.  Dispatch and chains share one rate limiter,   *)
(* whose rate the console may change.  What is captured by a chain is      *)
(* known by the step that captured it.                                     *)
(***************************************************************************)
EXTENDS Integers, Sequences, FiniteSets

CONSTANTS
  Workers,              \* the places of the thread limiter
  Chain, Post,          \* preflights and postflights in their chains
  Rate, Rates,          \* -rate, and what the console may change it to
  MaxTasks, MaxChanges  \* bounds of the requests and the rate commands

ASSUME RunnerAssumption ==
  /\ IsFiniteSet(Workers) /\ Workers # {}
  /\ Chain \in Nat /\ Post \in Nat
  /\ Rate \in Int /\ Rates \subseteq Int
  /\ MaxTasks \in Nat /\ MaxChanges \in Nat

VARIABLES
  perThread, ignore,    \* -preflight-mode per-thread, -preflight-error ignore
  task,                 \* what each place of the limiter works on
  lanes, free,          \* every lane made, and the stack of those not lent
  tick,                 \* whether the ticker's channel holds a tick
  rate, period, ring, filled, changes,
  issued, taken, sent   \* requests dispatched, ticks taken, all requests sent

config   == <<perThread, ignore>>
pool     == <<lanes, free>>
throttle == <<rate, period, ring, filled, changes>>
volume   == <<issued, taken, sent>>
vars     == <<config, task, pool, tick, throttle, volume>>

Places == {"idle", "lane", "tick", "flight", "send", "end"}

(* Variables of a chain: the steps that captured one, whether a value would
   move a request to another host, and the lane they belong to. *)
Vars(got, moves, from) == [got |-> got, moves |-> moves, from |-> from]
NoVars == Vars({}, FALSE, 0)

Idle == [at |-> "idle", chain |-> "pre", step |-> 1, attempt |-> 1,
         lane |-> 0, vars |-> NoVars]

-----------------------------------------------------------------------------
(* The rate limiter *)
Threads == Cardinality(Workers)

\* A period in microseconds.
Period(r) == IF r <= 0 \/ r > 1000000 THEN 1 ELSE 1000000 \div r

RingSize(r) == IF r > 0 THEN r * 5 ELSE Threads * 5

NewRateThrottle(r) ==
  /\ rate = r /\ period = Period(r) /\ ring = RingSize(r)
  /\ filled = 0 /\ changes = 0

\* Faulty: no lower limit of the period.
ChangeRateUnclamped(r) ==
  /\ changes < MaxChanges /\ changes' = changes + 1
  /\ rate' = r /\ ring' = RingSize(r) /\ filled' = 0
  /\ period' = IF r > 0 THEN 1000000 \div r ELSE 1
  /\ UNCHANGED <<config, task, pool, tick, volume>>

(* The console's rate command: a new ring, and a new period of the ticker. *)
ChangeRate(r) ==
  /\ changes < MaxChanges /\ changes' = changes + 1
  /\ rate' = r /\ ring' = RingSize(r) /\ filled' = 0
  /\ period' = Period(r)
  /\ UNCHANGED <<config, task, pool, tick, volume>>

(* The ticker drops a tick that nobody has taken. *)
TickerFires ==
  /\ period > 0 /\ ~tick
  /\ tick' = TRUE
  /\ UNCHANGED <<config, task, pool, throttle, volume>>

Take == tick /\ tick' = FALSE /\ taken' = taken + 1

(* Tick: one more entry of the ring, which wraps around. *)
Tick == /\ filled' = IF filled < ring THEN filled + 1 ELSE ring
        /\ UNCHANGED <<rate, period, ring, changes>>

-----------------------------------------------------------------------------
(* The lanes *)
Init == /\ perThread \in BOOLEAN /\ ignore \in BOOLEAN
        /\ task = [w \in Workers |-> Idle]
        /\ lanes = <<>> /\ free = <<>>
        /\ tick = FALSE
        /\ NewRateThrottle(IF Rate < 0 THEN 0 ELSE Rate)
        /\ issued = 0 /\ taken = 0 /\ sent = 0

\* Faulty: the lane that is lent stays in the pool.
getKeeps(l) == IF free = <<>>
               THEN /\ l = Len(lanes) + 1
                    /\ lanes' = Append(lanes, [initialized |-> FALSE,
                                               vars |-> NoVars])
                    /\ free' = <<l>>
               ELSE l = free[Len(free)] /\ UNCHANGED pool

(* get: the lane l is the last one returned, or a new one. *)
get(l) == IF free = <<>>
          THEN /\ l = Len(lanes) + 1
               /\ lanes' = Append(lanes, [initialized |-> FALSE,
                                          vars |-> NoVars])
               /\ UNCHANGED free
          ELSE /\ l = free[Len(free)]
               /\ free' = SubSeq(free, 1, Len(free) - 1)
               /\ UNCHANGED lanes

(* put: only a borrowed lane is returned. *)
put(l) == free' = IF l = 0 THEN free ELSE Append(free, l)

-----------------------------------------------------------------------------
(* runTask and Execute *)
Goto(w, place) == task' = [task EXCEPT ![w].at = place]

(* The main loop waits for a place in the limiter and for a tick. *)
Dispatch(w) ==
  /\ task[w].at = "idle" /\ issued < MaxTasks
  /\ Take
  /\ task' = [task EXCEPT ![w] = [Idle EXCEPT !.at = "lane"]]
  /\ issued' = issued + 1
  /\ UNCHANGED <<config, pool, throttle, sent>>

(* The first step of a chain, or past it when it has no steps. *)
StartChain(w, chain, l, v) ==
  task' = [task EXCEPT ![w] =
             [@ EXCEPT !.chain = chain, !.step = 1, !.lane = l, !.vars = v,
                       !.at = "tick"]]

(* Per thread, a lane is borrowed, and its variables are used if a chain has
   run in it; per request, the chain is run every time. *)
runPreflights(w) ==
  /\ task[w].at = "lane"
  /\ IF Chain = 0 THEN Goto(w, "send") /\ UNCHANGED pool
     ELSE IF perThread
     THEN \E l \in 1..(Len(lanes) + 1) :
            /\ get(l)
            /\ IF lanes'[l].initialized
               THEN task' = [task EXCEPT ![w].at = "send", ![w].lane = l,
                                         ![w].vars = lanes'[l].vars]
               ELSE StartChain(w, "pre", l, Vars({}, FALSE, l))
     ELSE StartChain(w, "pre", 0, NoVars) /\ UNCHANGED pool
  /\ UNCHANGED <<config, tick, throttle, volume>>

(* The lane goes back; a request that failed is tried once more, from its
   template, and then given up. *)
Fails(w) ==
  /\ put(task[w].lane)
  /\ task' = [task EXCEPT ![w] =
                [Idle EXCEPT !.at = IF task[w].attempt = 1 THEN "lane" ELSE "end",
                             !.attempt = 2]]

(* The chain of w is over with the variables v. *)
ChainOver(w, v) ==
  IF task[w].chain = "post"
  THEN /\ put(task[w].lane) /\ UNCHANGED lanes
       /\ task' = [task EXCEPT ![w] = [Idle EXCEPT !.at = "end"]]
  ELSE /\ task' = [task EXCEPT ![w].at = "send", ![w].vars = v]
       /\ lanes' = IF task[w].lane = 0 THEN lanes
                   ELSE [lanes EXCEPT ![task[w].lane] =
                           [initialized |-> TRUE, vars |-> v]]
       /\ UNCHANGED free

(* An error in a chain: a postflight that fails is only logged; a preflight
   that fails ends the chain, or fails the request. *)
ChainError(w) ==
  IF ignore \/ task[w].chain = "post" THEN ChainOver(w, task[w].vars)
                                      ELSE Fails(w) /\ UNCHANGED lanes

Steps(chain) == IF chain = "pre" THEN Chain ELSE Post

\* Faulty: one step past the end of the chain.
StepOverPast(w, v) ==
  IF task[w].step > Steps(task[w].chain) THEN ChainOver(w, v)
  ELSE /\ task' = [task EXCEPT ![w].at = "tick", ![w].step = @ + 1,
                               ![w].vars = v]
       /\ UNCHANGED pool

(* The step of w is over with the variables v. *)
StepOver(w, v) ==
  IF task[w].step = Steps(task[w].chain) THEN ChainOver(w, v)
  ELSE /\ task' = [task EXCEPT ![w].at = "tick", ![w].step = @ + 1,
                               ![w].vars = v]
       /\ UNCHANGED pool

(* A request of a chain that cannot be built fails before it takes a tick. *)
BuildFails(w) == /\ task[w].at = "tick"
                 /\ ChainError(w)
                 /\ UNCHANGED <<config, tick, throttle, volume>>

\* Faulty: a chain is not metered.
RateLimitFuncMissing(w) ==
  /\ task[w].at = "tick"
  /\ Goto(w, "flight")
  /\ UNCHANGED <<config, pool, tick, throttle, volume>>

RateLimitFunc(w) == /\ task[w].at = "tick"
                    /\ Take
                    /\ Goto(w, "flight")
                    /\ UNCHANGED <<config, pool, throttle, issued, sent>>

(* What a captured value makes of the variables of w; those that a postflight
   captures are of no use to anybody. *)
Captured(w) ==
  LET v == task[w].vars IN
  IF task[w].chain = "post" THEN {v}
  ELSE {Vars(v.got \cup {task[w].step}, v.moves \/ moves, v.from) :
          moves \in BOOLEAN}

\* Faulty: a variable that is not captured is passed over in either mode.
FlightLenient(w) ==
  /\ task[w].at = "flight"
  /\ sent' = sent + 1
  /\ \/ \E v \in Captured(w) \cup {task[w].vars} : StepOver(w, v)
     \/ ChainError(w)
  /\ UNCHANGED <<config, tick, throttle, issued, taken>>

(* A request of a chain: it captures its variable, or has nothing to capture
   it from, or fails. *)
Flight(w) ==
  /\ task[w].at = "flight"
  /\ sent' = sent + 1
  /\ \/ \E v \in Captured(w) : StepOver(w, v)
     \/ ignore /\ StepOver(w, task[w].vars)
     \/ ChainError(w)
  /\ UNCHANGED <<config, tick, throttle, issued, taken>>

(* Captured values that move the request to another host are refused. *)
Refuse(w) == /\ task[w].at = "send" /\ task[w].vars.moves
             /\ Fails(w)
             /\ UNCHANGED <<config, lanes, tick, throttle, volume>>

(* A request that is answered runs the postflights, in its lane. *)
Answered(w) ==
  IF Post > 0
  THEN StartChain(w, "post", task[w].lane, task[w].vars) /\ UNCHANGED pool
  ELSE /\ put(task[w].lane) /\ UNCHANGED lanes
       /\ task' = [task EXCEPT ![w] = [Idle EXCEPT !.at = "end"]]

Execute(w) == /\ task[w].at = "send" /\ ~task[w].vars.moves
              /\ sent' = sent + 1
              /\ Answered(w) \/ (Fails(w) /\ UNCHANGED lanes)
              /\ UNCHANGED <<config, tick, throttle, issued, taken>>

(* The end of the goroutine: the request is recorded in the ring. *)
End(w) == /\ task[w].at = "end"
          /\ Tick
          /\ task' = [task EXCEPT ![w] = Idle]
          /\ UNCHANGED <<config, pool, tick, volume>>

AllDone == /\ issued = MaxTasks /\ \A w \in Workers : task[w].at = "idle"
           /\ UNCHANGED vars

Step(w) == \/ runPreflights(w) \/ Flight(w) \/ Refuse(w)
           \/ Execute(w) \/ End(w)

Next == \/ TickerFires \/ \E r \in Rates : ChangeRate(r)
        \/ \E w \in Workers : \/ Dispatch(w) \/ BuildFails(w)
                              \/ RateLimitFunc(w) \/ Step(w)
        \/ AllDone

(* A goroutine that can run does, whatever becomes of its requests, and no
   request has to fail for it; the receivers of the ticker's channel wait
   in a queue, so that none of them is passed over for ever. *)
Fairness == /\ WF_vars(TickerFires)
            /\ \A w \in Workers : WF_vars(Step(w)) /\ SF_vars(RateLimitFunc(w))

Spec == Init /\ [][Next]_vars /\ Fairness

-----------------------------------------------------------------------------
Lent == {w \in Workers : task[w].lane # 0}

(* The types, and what the state of a goroutine says of its place.  A ticker
   panics on a period of 0, and a ring without a place cannot wrap around. *)
TypeOK ==
  /\ perThread \in BOOLEAN /\ ignore \in BOOLEAN /\ tick \in BOOLEAN
  /\ task \in [Workers -> [at : Places, chain : {"pre", "post"},
                           step : 1 .. (Chain + Post + 1), attempt : {1, 2},
                           lane : 0..Len(lanes),
                           vars : [got : SUBSET (1..Chain),
                                   moves : BOOLEAN, from : 0..Len(lanes)]]]
  /\ \A w \in Workers : task[w].at \in {"tick", "flight"} =>
                         task[w].step <= Steps(task[w].chain)
  /\ rate \in Int /\ changes \in 0..MaxChanges
  /\ period \in Nat \ {0} /\ ring \in Nat \ {0} /\ filled \in 0..ring
  /\ issued \in 0..MaxTasks /\ taken \in Nat /\ sent \in Nat

(* A lane is lent to one request at a time, or is in the pool, once: no two
   requests share a session, and no lane is lost. *)
LentOnce ==
  /\ \A i, j \in 1..Len(free) : free[i] = free[j] => i = j
  /\ \A v, w \in Lent : task[v].lane = task[w].lane => v = w
  /\ \A w \in Lent, i \in 1..Len(free) : free[i] # task[w].lane
  /\ \A l \in 1..Len(lanes) : \/ \E i \in 1..Len(free) : free[i] = l
                              \/ \E w \in Lent : task[w].lane = l

(* A request that works with the variables of a lane holds that lane, from
   the first preflight to the last postflight. *)
VarsBelongToLane ==
  \A w \in Workers : task[w].vars.from # 0 => task[w].lane = task[w].vars.from

(* There are never more lanes than threads, although the pool grows whenever
   it is found empty: so many sessions are the most a target will see. *)
LanesBounded == Len(lanes) <= Threads

(* The pool of lanes keeps its books through failures, retries and
   postflights (simple.go:68-92 and 544-560). *)
LanesAccounted == LentOnce /\ VarsBelongToLane /\ LanesBounded

(* With -preflight-error abort a request is sent only with everything that
   the chain should capture, in its lane or in its own run of the chain. *)
AbortSendsComplete ==
  \A w \in Workers :
    ~ignore /\ task[w].at = "send" => 1..Chain \subseteq task[w].vars.got

(* job.go:82: the rate bounds "total outgoing volume rather than only the
   fuzzing requests": all there is beyond the ticks is one more attempt of
   each request. *)
VolumeBounded == sent <= taken + issued

(* Every request that was dispatched ends, whatever fails: nobody waits for
   ever for a lane, nor for a tick that a chain took. *)
TasksEnd == \A w \in Workers : (task[w].at # "idle") ~> (task[w].at = "idle")
=============================================================================
