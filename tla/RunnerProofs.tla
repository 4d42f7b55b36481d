---------------------------- MODULE RunnerProofs ----------------------------
(***************************************************************************)
(* The request path for any number of threads, any chains, and any rates   *)
(* the console asks for.                                                   *)
(***************************************************************************)
EXTENDS Runner, FiniteSetTheorems, FunctionTheorems, SequenceTheorems, TLAPS

VarsOf(n) == [got : SUBSET (1..Chain), moves : BOOLEAN, from : 0..n]
TaskOf(n) == [at : Places, chain : {"pre", "post"},
              step : 1 .. (Chain + Post + 1), attempt : {1, 2}, lane : 0..n,
              vars : VarsOf(n)]
LaneOf(n) == [initialized : BOOLEAN, vars : VarsOf(n)]

(* The pool, and a lane whose chain has run holds its own variables. *)
PoolInv ==
  /\ lanes \in Seq(LaneOf(Len(lanes)))
  /\ free \in Seq(1..Len(lanes))
  /\ LentOnce
  /\ \A l \in 1..Len(lanes) : lanes[l].initialized => lanes[l].vars.from = l

(* A goroutine that is in a chain, or sends, works with the variables of the
   lane it holds; elsewhere it holds none. *)
TaskInv ==
  /\ task \in [Workers -> TaskOf(Len(lanes))]
  /\ \A w \in Workers :
       /\ task[w].vars.from = task[w].lane
       /\ task[w].at \in {"idle", "lane", "end"} => task[w].lane = 0
       /\ task[w].at \in {"tick", "flight"} =>
            task[w].step <= Steps(task[w].chain)

LanesInv == PoolInv /\ TaskInv /\ LanesBounded

-----------------------------------------------------------------------------
(* What borrowing and returning a lane does to the pool. *)

(* What a sequence is without its last element. *)
LEMMA AllButLast ==
  ASSUME NEW S, NEW s \in Seq(S), Len(s) > 0
  PROVE  /\ SubSeq(s, 1, Len(s) - 1) \in Seq(S)
         /\ Len(SubSeq(s, 1, Len(s) - 1)) = Len(s) - 1
         /\ \A k \in 1 .. Len(s) - 1 : SubSeq(s, 1, Len(s) - 1)[k] = s[k]
<1> DEFINE m == Len(s) - 1
<1>1. m \in Nat /\ \A k \in 1..m : s[k] \in S
  OBVIOUS
<1> HIDE DEF m
<1>2. /\ SubSeq(s, 1, m) \in Seq(S)
      /\ Len(SubSeq(s, 1, m)) = IF 1 <= m THEN m - 1 + 1 ELSE 0
      /\ \A k \in 1 .. m - 1 + 1 : SubSeq(s, 1, m)[k] = s[1 + k - 1]
  BY <1>1, SubSeqProperties
<1>3. /\ SubSeq(s, 1, m) \in Seq(S) /\ Len(SubSeq(s, 1, m)) = m
      /\ \A k \in 1..m : SubSeq(s, 1, m)[k] = s[k]
  BY <1>1, <1>2
<1> QED
  BY <1>3 DEF m

(* A type with more lanes. *)
LEMMA MoreLanes ==
  ASSUME NEW n \in Nat PROVE LaneOf(n) \subseteq LaneOf(n + 1)
<1>1. 0..n \subseteq 0 .. n + 1
  OBVIOUS
<1>2. VarsOf(n) \subseteq VarsOf(n + 1)
  BY <1>1 DEF VarsOf
<1> QED
  BY <1>2 DEF LaneOf

(* A lane that is borrowed leaves the pool, or is new. *)
LEMMA GetKeeps ==
  ASSUME LanesInv, NEW w \in Workers, task[w].lane = 0,
         NEW l \in 1 .. (Len(lanes) + 1), get(l), NEW t,
         task' = [task EXCEPT ![w] = t], t.lane = l
  PROVE  PoolInv' /\ Len(lanes') \in {Len(lanes), Len(lanes) + 1}
         /\ l \in 1 .. Len(lanes')
<1> DEFINE n == Len(lanes)
<1>0. /\ n \in Nat /\ lanes \in Seq(LaneOf(n)) /\ free \in Seq(1..n)
      /\ task \in [Workers -> TaskOf(n)]
      /\ \A v \in Workers : task'[v] = IF v = w THEN t ELSE task[v]
  BY DEF LanesInv, PoolInv, TaskInv
<1>1. Lent' = Lent \cup {w} /\ w \notin Lent
  BY <1>0 DEF Lent
<1>2. CASE free = <<>>
  <2>1. /\ l = n + 1 /\ free' = <<>>
        /\ lanes' = Append(lanes, [initialized |-> FALSE, vars |-> NoVars])
    BY <1>2 DEF get
  <2>2. /\ Len(lanes') = n + 1
        /\ lanes'[n + 1] = [initialized |-> FALSE, vars |-> NoVars]
        /\ \A k \in 1..n : lanes'[k] = lanes[k]
    BY <1>0, <2>1
  <2>3. lanes' \in Seq(LaneOf(n + 1))
    <3>1. \A k \in 1..n : lanes[k] \in LaneOf(n + 1)
      <4>1. \A k \in 1..n : lanes[k] \in LaneOf(n)
        BY <1>0
      <4> QED
        BY <1>0, <4>1, MoreLanes
    <3>2. lanes'[n + 1] \in LaneOf(n + 1)
      BY <1>0, <2>2 DEF LaneOf, VarsOf, NoVars, Vars
    <3> QED
      BY <1>0, <2>1, <2>2, <3>1, <3>2
  <2>4. \A v \in Lent : task[v].lane \in 1..n
    BY <1>0 DEF Lent, TaskOf
  <2>5. LentOnce'
    BY <1>0, <1>1, <1>2, <2>1, <2>2, <2>4 DEF LanesInv, PoolInv, LentOnce
  <2> QED
    BY <1>0, <2>1, <2>2, <2>3, <2>5 DEF LanesInv, PoolInv
<1>3. CASE free # <<>>
  <2> DEFINE m == Len(free)
  <2>1. /\ m \in Nat \ {0} /\ l = free[m] /\ lanes' = lanes
        /\ free' = SubSeq(free, 1, m - 1)
    BY <1>0, <1>3 DEF get
  <2>2. /\ Len(free') = m - 1 /\ free' \in Seq(1..n)
        /\ \A k \in 1 .. m - 1 : free'[k] = free[k]
        /\ DOMAIN free' = 1 .. m - 1
    BY <1>0, <2>1, AllButLast
  <2>3. l \in 1..n
    BY <1>0, <2>1
  <2>4. LentOnce'
    <3> USE DEF LanesInv, PoolInv, LentOnce
    <3>1. \A i, j \in 1..Len(free') : free'[i] = free'[j] => i = j
      <4>1. \A i \in 1 .. m - 1 : i \in 1..m
        BY <2>1
      <4>2. \A i, j \in 1..m : free[i] = free[j] => i = j
        OBVIOUS
      <4> HIDE DEF m, LanesInv, PoolInv, LentOnce
      <4> QED
        BY <2>2, <4>1, <4>2
    <3>2. \A u, v \in Lent' : task'[u].lane = task'[v].lane => u = v
      BY <1>0, <1>1, <2>1
    <3>3. \A v \in Lent', i \in 1..Len(free') : free'[i] # task'[v].lane
      BY <1>0, <1>1, <2>1, <2>2
    <3>4. ASSUME NEW k \in 1..Len(lanes')
          PROVE  \/ \E i \in 1..Len(free') : free'[i] = k
                 \/ \E v \in Lent' : task'[v].lane = k
      <4>1. CASE k = l
        BY <1>0, <1>1, <4>1
      <4>2. ASSUME k # l, NEW i \in 1..m, free[i] = k
            PROVE  \E j \in 1..Len(free') : free'[j] = k
        <5>1. i \in 1 .. m - 1
          BY <2>1, <4>2
        <5> QED
          BY <2>2, <4>2, <5>1
      <4>3. ASSUME k # l, NEW v \in Lent, task[v].lane = k
            PROVE  task'[v].lane = k
        BY <1>0, <1>1, <4>3
      <4> QED
        BY <1>1, <2>1, <4>1, <4>2, <4>3
    <3> QED
      BY <3>1, <3>2, <3>3, <3>4
  <2> QED
    BY <1>0, <2>1, <2>2, <2>3, <2>4 DEF LanesInv, PoolInv
<1> QED
  BY <1>2, <1>3

(* A lane that is returned goes to the end of the pool. *)
LEMMA PutKeeps ==
  ASSUME LanesInv, NEW w \in Workers, put(task[w].lane), NEW t,
         task' = [task EXCEPT ![w] = t], t.lane = 0,
         Len(lanes') = Len(lanes)
  PROVE  free' \in Seq(1..Len(lanes)) /\ LentOnce'
<1> DEFINE n == Len(lanes)
           l == task[w].lane
<1>0. /\ n \in Nat /\ lanes \in Seq(LaneOf(n)) /\ free \in Seq(1..n)
      /\ task \in [Workers -> TaskOf(n)]
      /\ \A v \in Workers : task'[v] = IF v = w THEN t ELSE task[v]
  BY DEF LanesInv, PoolInv, TaskInv
<1>1. Lent' = Lent \ {w}
  BY <1>0 DEF Lent
<1>2. CASE l = 0
  <2>1. free' = free /\ Lent' = Lent
    BY <1>0, <1>1, <1>2 DEF put, Lent
  <2> QED
    BY <1>0, <1>1, <2>1 DEF LanesInv, PoolInv, LentOnce, Lent
<1>3. CASE l # 0
  <2>1. free' = Append(free, l) /\ w \in Lent /\ l \in 1..n
    BY <1>0, <1>3 DEF put, Lent, TaskOf
  <2>2. /\ Len(free') = Len(free) + 1 /\ free'[Len(free) + 1] = l
        /\ \A k \in 1 .. Len(free) : free'[k] = free[k]
        /\ free' \in Seq(1..n)
    BY <1>0, <2>1
  <2>3. LentOnce'
    <3> USE DEF LanesInv, PoolInv, LentOnce
    <3>1. \A i, j \in 1..Len(free') : free'[i] = free'[j] => i = j
      BY <1>0, <2>1, <2>2
    <3>2. \A u, v \in Lent' : task'[u].lane = task'[v].lane => u = v
      BY <1>0, <1>1
    <3>3. \A v \in Lent', i \in 1..Len(free') : free'[i] # task'[v].lane
      BY <1>0, <1>1, <2>1, <2>2
    <3>4. ASSUME NEW k \in 1..Len(lanes')
          PROVE  \/ \E i \in 1..Len(free') : free'[i] = k
                 \/ \E v \in Lent' : task'[v].lane = k
      <4>1. CASE k = l
        BY <1>0, <2>2, <4>1
      <4>2. ASSUME NEW i \in 1..Len(free), free[i] = k
            PROVE  \E j \in 1..Len(free') : free'[j] = k
        BY <1>0, <2>2, <4>2
      <4>3. ASSUME k # l, NEW v \in Lent, task[v].lane = k
            PROVE  v \in Lent' /\ task'[v].lane = k
        BY <1>0, <1>1, <4>3
      <4> QED
        BY <4>1, <4>2, <4>3
    <3> QED
      BY <3>1, <3>2, <3>3, <3>4
  <2> QED
    BY <2>2, <2>3
<1> QED
  BY <1>2, <1>3

-----------------------------------------------------------------------------
(* What a step does to the record of its goroutine. *)

LEMMA TaskChange ==
  ASSUME TaskInv, Len(lanes) \in Nat, Len(lanes') \in {Len(lanes), Len(lanes) + 1},
         NEW w \in Workers, NEW t \in TaskOf(Len(lanes')),
         task' = [task EXCEPT ![w] = t],
         t.vars.from = t.lane,
         t.at \in {"idle", "lane", "end"} => t.lane = 0,
         t.at \in {"tick", "flight"} => t.step <= Steps(t.chain)
  PROVE  TaskInv'
<1>1. task \in [Workers -> TaskOf(Len(lanes'))]
  <2>1. 0 .. Len(lanes) \subseteq 0 .. Len(lanes')
    OBVIOUS
  <2>2. TaskOf(Len(lanes)) \subseteq TaskOf(Len(lanes'))
    BY <2>1 DEF TaskOf, VarsOf
  <2> QED
    BY <2>2 DEF TaskInv
<1>2. task' \in [Workers -> TaskOf(Len(lanes'))]
  BY <1>1
<1>3. \A v \in Workers : task'[v] = IF v = w THEN t ELSE task[v]
  BY <1>1
<1> QED
  BY <1>2, <1>3 DEF TaskInv, Steps

(* Nothing changes for the books while every lane keeps its holder. *)
LEMMA LentStays ==
  ASSUME LentOnce, Lent' = Lent, free' = free, Len(lanes') = Len(lanes),
         \A w \in Lent : task'[w].lane = task[w].lane
  PROVE  LentOnce'
<1>1. \A i, j \in 1..Len(free') : free'[i] = free'[j] => i = j
  BY DEF LentOnce
<1>2. \A v, w \in Lent' : task'[v].lane = task'[w].lane => v = w
  <2>1. \A v, w \in Lent : task[v].lane = task[w].lane => v = w
    BY DEF LentOnce
  <2> QED
    BY <2>1
<1>3. \A w \in Lent', i \in 1..Len(free') : free'[i] # task'[w].lane
  <2>1. \A w \in Lent, i \in 1..Len(free) : free[i] # task[w].lane
    BY DEF LentOnce
  <2> QED
    BY <2>1
<1>4. \A l \in 1..Len(lanes') : \/ \E i \in 1..Len(free') : free'[i] = l
                                \/ \E w \in Lent' : task'[w].lane = l
  <2>1. \A l \in 1..Len(lanes) : \/ \E i \in 1..Len(free) : free[i] = l
                                 \/ \E w \in Lent : task[w].lane = l
    BY DEF LentOnce
  <2> QED
    BY <2>1
<1> QED
  BY <1>1, <1>2, <1>3, <1>4 DEF LentOnce

(* Lanes that stay where they are. *)
LEMMA SamePool ==
  ASSUME LanesInv, UNCHANGED pool, NEW w \in Workers, NEW t,
         task' = [task EXCEPT ![w] = t], t.lane = task[w].lane
  PROVE  PoolInv' /\ LanesBounded'
<1>1. \A v \in Workers : task'[v] = IF v = w THEN t ELSE task[v]
  BY DEF LanesInv, TaskInv
<1>2. Lent' = Lent /\ \A v \in Workers : task'[v].lane = task[v].lane
  BY <1>1 DEF Lent
<1>3. lanes' = lanes /\ free' = free
  BY DEF pool
<1>4. LentOnce'
  <2>1. LentOnce /\ \A v \in Lent : v \in Workers
    BY DEF Lent, LanesInv, PoolInv
  <2> QED
    BY <1>2, <1>3, <2>1, LentStays
<1> QED
  BY <1>3, <1>4 DEF LanesInv, PoolInv, LanesBounded, Threads

(* The type of a record, and what an idle one holds. *)
LEMMA TaskFacts ==
  ASSUME LanesInv, NEW w \in Workers
  PROVE  /\ Len(lanes) \in Nat
         /\ task[w] \in TaskOf(Len(lanes))
         /\ task[w].vars \in VarsOf(Len(lanes))
         /\ task[w].lane \in 0 .. Len(lanes)
         /\ task[w].vars.from = task[w].lane
BY DEF LanesInv, PoolInv, TaskInv, TaskOf

LEMMA IdleFacts ==
  ASSUME NEW n \in Nat
  PROVE  /\ Idle \in TaskOf(n) /\ NoVars \in VarsOf(n)
         /\ Idle.lane = 0 /\ Idle.vars.from = 0
<1>1. {} \in SUBSET (1..Chain) /\ 0 \in 0..n /\ 1 \in 1 .. (Chain + Post + 1)
  BY RunnerAssumption
<1> QED
  BY <1>1 DEF Idle, NoVars, Vars, TaskOf, VarsOf, Places

(* A record that is reset but for its place and attempt, with its lane
   returned. *)
LEMMA ReturnKeeps ==
  ASSUME LanesInv, NEW w \in Workers, put(task[w].lane), UNCHANGED lanes,
         NEW p \in {"idle", "lane", "end"}, NEW a \in {1, 2},
         NEW t \in {[Idle EXCEPT !.at = p],
                    [Idle EXCEPT !.at = p, !.attempt = a]},
         task' = [task EXCEPT ![w] = t]
  PROVE  LanesInv'
<1>0. Len(lanes) \in Nat /\ Len(lanes') = Len(lanes)
  BY TaskFacts
<1>1. t \in TaskOf(Len(lanes)) /\ t.lane = 0 /\ t.vars.from = 0 /\ t.at = p
  <2>1. Idle \in TaskOf(Len(lanes)) /\ Idle.lane = 0 /\ Idle.vars.from = 0
    BY <1>0, IdleFacts
  <2>2. p \in Places
    BY DEF Places
  <2> HIDE DEF Idle
  <2> QED
    BY <2>1, <2>2 DEF TaskOf
<1>2. TaskInv'
  BY <1>0, <1>1, TaskChange DEF LanesInv
<1>3. free' \in Seq(1..Len(lanes)) /\ LentOnce'
  BY <1>0, <1>1, PutKeeps
<1>4. PoolInv' /\ LanesBounded'
  BY <1>0, <1>3 DEF LanesInv, PoolInv, LanesBounded
<1> QED
  BY <1>2, <1>4 DEF LanesInv

LEMMA FailsKeeps ==
  ASSUME LanesInv, NEW w \in Workers, Fails(w), UNCHANGED lanes
  PROVE  LanesInv'
<1> DEFINE p == IF task[w].attempt = 1 THEN "lane" ELSE "end"
<1>1. /\ put(task[w].lane)
      /\ task' = [task EXCEPT ![w] = [Idle EXCEPT !.at = p, !.attempt = 2]]
  BY DEF Fails
<1>2. p \in {"idle", "lane", "end"}
  OBVIOUS
<1> HIDE DEF p
<1> QED
  BY <1>1, <1>2, ReturnKeeps

(* A step within the lane that is held. *)
LEMMA StayKeeps ==
  ASSUME LanesInv, NEW w \in Workers, UNCHANGED pool,
         NEW t \in TaskOf(Len(lanes)), task' = [task EXCEPT ![w] = t],
         t.lane = task[w].lane, t.vars.from = t.lane,
         t.at \in {"idle", "lane", "end"} => t.lane = 0,
         t.at \in {"tick", "flight"} => t.step <= Steps(t.chain)
  PROVE  LanesInv'
<1>1. Len(lanes) \in Nat /\ lanes' = lanes
  BY TaskFacts DEF pool
<1>2. TaskInv'
  BY <1>1, TaskChange DEF LanesInv
<1> QED
  BY <1>2, SamePool DEF LanesInv

-----------------------------------------------------------------------------
(* The steps of a goroutine. *)

(* A pool that is empty has lent its lanes to others, so that there is a
   thread for one more. *)
LEMMA NewLaneFits ==
  ASSUME LanesInv, NEW w \in Workers, task[w].lane = 0, free = <<>>
  PROVE  Len(lanes) + 1 <= Threads
<1> DEFINE n == Len(lanes)
           others == Workers \ {w}
           lender == [l \in 1..n |-> CHOOSE v \in Lent : task[v].lane = l]
<1>1. n \in Nat
  BY TaskFacts
<1>2. \A l \in 1..n : \E v \in Lent : task[v].lane = l
  BY DEF LanesInv, PoolInv, LentOnce
<1>3. \A l \in 1..n : lender[l] \in Lent /\ task[lender[l]].lane = l
  BY <1>2
<1>4. Lent \subseteq others
  BY DEF Lent
<1>5. lender \in [1..n -> others]
  BY <1>3, <1>4
<1>6. \A k, l \in 1..n : lender[k] = lender[l] => k = l
  BY <1>3
<1> HIDE DEF lender
<1>7. lender \in Injection(1..n, others)
  BY <1>5, <1>6, Fun_IsInj
<1>8. IsFiniteSet(others) /\ Cardinality(others) = Threads - 1
  BY RunnerAssumption, FS_RemoveElement DEF Threads
<1>9. Cardinality(1..n) <= Cardinality(others) /\ Cardinality(1..n) = n
  BY <1>1, <1>7, <1>8, FS_Injection, FS_Interval
<1>10. Threads \in Nat
  BY RunnerAssumption, FS_CardinalityType DEF Threads
<1> QED
  BY <1>1, <1>8, <1>9, <1>10

LEMMA BorrowKeeps ==
  ASSUME LanesInv, NEW w \in Workers, task[w].at = "lane",
         NEW l \in 1 .. (Len(lanes) + 1), get(l), NEW t,
         task' = [task EXCEPT ![w] = t], t.lane = l
  PROVE  PoolInv' /\ LanesBounded' /\ Len(lanes') \in {Len(lanes), Len(lanes) + 1}
         /\ l \in 1 .. Len(lanes')
<1>1. task[w].lane = 0
  BY DEF LanesInv, TaskInv
<1>2. /\ PoolInv' /\ Len(lanes') \in {Len(lanes), Len(lanes) + 1}
      /\ l \in 1 .. Len(lanes')
  BY <1>1, GetKeeps
<1>3. LanesBounded'
  <2>1. CASE free = <<>>
    <3>1. Len(lanes) + 1 <= Threads /\ Len(lanes) \in Nat
      BY <1>1, <2>1, NewLaneFits, TaskFacts
    <3>2. Threads \in Nat /\ Threads' = Threads
      BY RunnerAssumption, FS_CardinalityType DEF Threads
    <3> QED
      BY <1>2, <3>1, <3>2 DEF LanesBounded
  <2>2. CASE free # <<>>
    BY <2>2 DEF get, LanesInv, LanesBounded, Threads
  <2> QED
    BY <2>1, <2>2
<1> QED
  BY <1>2, <1>3

LEMMA PreflightsKeep ==
  ASSUME LanesInv, NEW w \in Workers, runPreflights(w) PROVE LanesInv'
<1>0. /\ Len(lanes) \in Nat /\ task[w] \in TaskOf(Len(lanes))
      /\ task[w].lane = 0 /\ task[w].vars.from = 0 /\ task[w].at = "lane"
  BY TaskFacts DEF LanesInv, TaskInv, runPreflights
<1>1. CASE Chain = 0
  <2> DEFINE t == [task[w] EXCEPT !.at = "send"]
  <2>1. /\ t \in TaskOf(Len(lanes)) /\ t.lane = 0 /\ t.vars.from = 0
        /\ t.at = "send"
    BY <1>0 DEF TaskOf, Places
  <2>2. task' = [task EXCEPT ![w] = t] /\ UNCHANGED pool
    BY <1>1 DEF runPreflights, Goto
  <2> HIDE DEF t
  <2> QED
    BY <1>0, <2>1, <2>2, StayKeeps
<1>2. CASE Chain # 0 /\ ~perThread
  <2> DEFINE t == [task[w] EXCEPT !.chain = "pre", !.step = 1, !.lane = 0,
                                  !.vars = NoVars, !.at = "tick"]
  <2>1. /\ t \in TaskOf(Len(lanes)) /\ t.lane = 0 /\ t.vars.from = 0
        /\ t.step <= Steps(t.chain) /\ t.at = "tick"
    <3>1. NoVars \in VarsOf(Len(lanes)) /\ NoVars.from = 0
      BY <1>0, IdleFacts DEF NoVars, Vars
    <3>2. /\ 1 \in 1 .. (Chain + Post + 1) /\ 1 <= Chain
          /\ 0 \in 0 .. Len(lanes) /\ "tick" \in Places
      BY <1>0, <1>2, RunnerAssumption DEF Places
    <3> HIDE DEF NoVars
    <3> QED
      BY <1>0, <3>1, <3>2 DEF TaskOf, Steps
  <2>2. task' = [task EXCEPT ![w] = t] /\ UNCHANGED pool
    BY <1>2 DEF runPreflights, StartChain
  <2> HIDE DEF t
  <2> QED
    BY <1>0, <2>1, <2>2, StayKeeps
<1>3. CASE Chain # 0 /\ perThread
  <2>1. PICK l \in 1 .. (Len(lanes) + 1) :
          /\ get(l)
          /\ IF lanes'[l].initialized
             THEN task' = [task EXCEPT ![w].at = "send", ![w].lane = l,
                                       ![w].vars = lanes'[l].vars]
             ELSE StartChain(w, "pre", l, Vars({}, FALSE, l))
    BY <1>3 DEF runPreflights
  <2>2. CASE lanes'[l].initialized
    <3> DEFINE t == [task[w] EXCEPT !.at = "send", !.lane = l,
                                    !.vars = lanes'[l].vars]
    <3>1. task' = [task EXCEPT ![w] = t] /\ t.lane = l /\ t.at = "send"
          /\ t.vars = lanes'[l].vars
      BY <1>0, <2>1, <2>2 DEF TaskOf
    <3>2. /\ PoolInv' /\ LanesBounded'
          /\ Len(lanes') \in {Len(lanes), Len(lanes) + 1}
          /\ l \in 1 .. Len(lanes')
      <4> HIDE DEF t
      <4> QED
        BY <1>0, <2>1, <3>1, BorrowKeeps
    <3>3. lanes'[l].vars \in VarsOf(Len(lanes')) /\ lanes'[l].vars.from = l
      <4>1. lanes'[l] \in LaneOf(Len(lanes'))
        BY <3>2 DEF PoolInv
      <4> QED
        BY <2>2, <3>2, <4>1 DEF PoolInv, LaneOf
    <3>4. t \in TaskOf(Len(lanes'))
      <4>1. "send" \in Places /\ l \in 0 .. Len(lanes')
        BY <1>0, <3>2 DEF Places
      <4> QED
        BY <1>0, <3>3, <4>1 DEF TaskOf
    <3> HIDE DEF t
    <3>5. TaskInv'
      BY <1>0, <3>1, <3>2, <3>3, <3>4, TaskChange DEF LanesInv
    <3> QED
      BY <3>2, <3>5 DEF LanesInv
  <2>3. CASE ~lanes'[l].initialized
    <3> DEFINE v == Vars({}, FALSE, l)
               t == [task[w] EXCEPT !.chain = "pre", !.step = 1, !.lane = l,
                                    !.vars = v, !.at = "tick"]
    <3>1. task' = [task EXCEPT ![w] = t] /\ t.lane = l /\ t.at = "tick"
          /\ t.vars = v /\ t.step = 1 /\ t.chain = "pre"
      BY <1>0, <2>1, <2>3 DEF TaskOf, StartChain
    <3>2. /\ PoolInv' /\ LanesBounded'
          /\ Len(lanes') \in {Len(lanes), Len(lanes) + 1}
          /\ l \in 1 .. Len(lanes')
      <4> HIDE DEF t
      <4> QED
        BY <1>0, <2>1, <3>1, BorrowKeeps
    <3>3. v \in VarsOf(Len(lanes')) /\ v.from = l
      BY <3>2 DEF VarsOf, Vars
    <3>4. t \in TaskOf(Len(lanes')) /\ t.step <= Steps(t.chain)
      <4>1. /\ 1 \in 1 .. (Chain + Post + 1) /\ 1 <= Chain
            /\ l \in 0 .. Len(lanes') /\ "tick" \in Places
        BY <1>0, <1>3, <3>2, RunnerAssumption DEF Places
      <4> HIDE DEF v
      <4> QED
        BY <1>0, <3>3, <4>1 DEF TaskOf, Steps
    <3> HIDE DEF t, v
    <3>5. TaskInv'
      BY <1>0, <3>1, <3>2, <3>3, <3>4, TaskChange DEF LanesInv
    <3> QED
      BY <3>2, <3>5 DEF LanesInv
  <2> QED
    BY <2>2, <2>3
<1> QED
  BY <1>1, <1>2, <1>3

LEMMA EndsKeeps ==
  ASSUME LanesInv, NEW w \in Workers, put(task[w].lane), UNCHANGED lanes,
         NEW p \in {"idle", "lane", "end"},
         task' = [task EXCEPT ![w] = [Idle EXCEPT !.at = p]]
  PROVE  LanesInv'
BY ReturnKeeps

LEMMA ChainOverKeeps ==
  ASSUME LanesInv, NEW w \in Workers, task[w].at \in {"tick", "flight"},
         NEW v \in VarsOf(Len(lanes)), v.from = task[w].lane, ChainOver(w, v)
  PROVE  LanesInv'
<1>1. CASE task[w].chain = "post"
  BY <1>1, EndsKeeps DEF ChainOver
<1>2. CASE task[w].chain # "post"
  <2> DEFINE t == [task[w] EXCEPT !.at = "send", !.vars = v]
             n == Len(lanes)
             l == task[w].lane
  <2>0. n \in Nat /\ task[w] \in TaskOf(n) /\ l \in 0..n
    BY TaskFacts
  <2>1. /\ t \in TaskOf(n) /\ t.lane = l /\ t.vars.from = l /\ t.at = "send"
        /\ task' = [task EXCEPT ![w] = t] /\ free' = free
    BY <1>2, <2>0 DEF ChainOver, TaskOf, Places
  <2> HIDE DEF t
  <2>2. CASE l = 0
    <3>1. UNCHANGED pool
      BY <1>2, <2>1, <2>2 DEF ChainOver, pool
    <3> QED
      BY <2>1, <3>1, StayKeeps
  <2>3. CASE l # 0
    <3> DEFINE new == [initialized |-> TRUE, vars |-> v]
    <3>1. lanes' = [lanes EXCEPT ![l] = new] /\ l \in 1..n
      BY <1>2, <2>0, <2>3 DEF ChainOver
    <3>2. new \in LaneOf(n)
      BY DEF LaneOf
    <3>3. /\ lanes' \in Seq(LaneOf(n)) /\ Len(lanes') = n
          /\ \A k \in 1..n : lanes'[k] = IF k = l THEN new ELSE lanes[k]
      <4> HIDE DEF new
      <4> QED
        BY <3>1, <3>2 DEF LanesInv, PoolInv
    <3>4. TaskInv'
      BY <2>0, <2>1, <3>3, TaskChange DEF LanesInv
    <3>5. LentOnce'
      <4>1. \A u \in Workers : task'[u].lane = task[u].lane
        BY <2>1 DEF LanesInv, TaskInv
      <4>2. Lent' = Lent /\ \A u \in Lent : u \in Workers
        BY <4>1 DEF Lent
      <4>3. LentOnce /\ free' = free /\ Len(lanes') = Len(lanes)
        BY <2>1, <3>3 DEF LanesInv, PoolInv
      <4> QED
        BY <4>1, <4>2, <4>3, LentStays
    <3> QED
      BY <2>1, <3>3, <3>4, <3>5 DEF LanesInv, PoolInv, LanesBounded, Threads
  <2> QED
    BY <2>2, <2>3
<1> QED
  BY <1>1, <1>2

LEMMA ChainErrorKeeps ==
  ASSUME LanesInv, NEW w \in Workers, task[w].at \in {"tick", "flight"},
         ChainError(w)
  PROVE  LanesInv'
BY TaskFacts, ChainOverKeeps, FailsKeeps DEF ChainError

LEMMA StepOverKeeps ==
  ASSUME LanesInv, NEW w \in Workers, task[w].at \in {"tick", "flight"},
         NEW v \in VarsOf(Len(lanes)), v.from = task[w].lane, StepOver(w, v)
  PROVE  LanesInv'
<1>1. CASE task[w].step = Steps(task[w].chain)
  BY <1>1, ChainOverKeeps DEF StepOver
<1>2. CASE task[w].step # Steps(task[w].chain)
  <2> DEFINE t == [task[w] EXCEPT !.at = "tick", !.step = @ + 1, !.vars = v]
  <2>0. /\ Len(lanes) \in Nat /\ task[w] \in TaskOf(Len(lanes))
        /\ task[w].step <= Steps(task[w].chain)
    BY TaskFacts DEF LanesInv, TaskInv
  <2>1. /\ task[w].step + 1 \in 1 .. (Chain + Post + 1)
        /\ task[w].step + 1 <= Steps(task[w].chain)
    BY <1>2, <2>0, RunnerAssumption DEF TaskOf, Steps
  <2>2. /\ t \in TaskOf(Len(lanes)) /\ t.lane = task[w].lane
        /\ t.vars.from = t.lane /\ t.at = "tick" /\ t.step <= Steps(t.chain)
    BY <2>0, <2>1 DEF TaskOf, Places
  <2>3. task' = [task EXCEPT ![w] = t] /\ UNCHANGED pool
    BY <1>2, <2>0 DEF StepOver, TaskOf
  <2> HIDE DEF t
  <2> QED
    BY <2>2, <2>3, StayKeeps
<1> QED
  BY <1>1, <1>2

LEMMA CapturedType ==
  ASSUME LanesInv, NEW w \in Workers, task[w].at = "flight", NEW v \in Captured(w)
  PROVE  v \in VarsOf(Len(lanes)) /\ v.from = task[w].lane
<1>0. /\ Len(lanes) \in Nat /\ task[w] \in TaskOf(Len(lanes))
      /\ task[w].vars \in VarsOf(Len(lanes)) /\ task[w].vars.from = task[w].lane
      /\ task[w].step <= Steps(task[w].chain)
  BY TaskFacts DEF LanesInv, TaskInv
<1>1. CASE task[w].chain = "post"
  BY <1>0, <1>1 DEF Captured
<1>2. CASE task[w].chain # "post"
  <2>1. task[w].step \in 1..Chain
    BY <1>0, <1>2, RunnerAssumption DEF TaskOf, Steps
  <2>2. PICK m \in BOOLEAN :
          v = Vars(task[w].vars.got \cup {task[w].step},
                   task[w].vars.moves \/ m, task[w].vars.from)
    BY <1>2 DEF Captured
  <2> QED
    BY <1>0, <2>1, <2>2 DEF Vars, VarsOf
<1> QED
  BY <1>1, <1>2

LEMMA FlightKeeps ==
  ASSUME LanesInv, NEW w \in Workers, Flight(w) PROVE LanesInv'
<1>0. /\ task[w].at = "flight"
      /\ task[w].vars \in VarsOf(Len(lanes)) /\ task[w].vars.from = task[w].lane
  BY TaskFacts DEF Flight
<1>1. ASSUME NEW v \in Captured(w), StepOver(w, v) PROVE LanesInv'
  BY <1>0, <1>1, CapturedType, StepOverKeeps
<1>2. CASE StepOver(w, task[w].vars)
  BY <1>0, <1>2, StepOverKeeps
<1>3. CASE ChainError(w)
  BY <1>0, <1>3, ChainErrorKeeps
<1> QED
  BY <1>1, <1>2, <1>3 DEF Flight

LEMMA ExecuteKeeps ==
  ASSUME LanesInv, NEW w \in Workers, Execute(w) PROVE LanesInv'
<1>1. CASE Fails(w) /\ UNCHANGED lanes
  BY <1>1, FailsKeeps
<1>2. CASE Answered(w) /\ Post = 0
  BY <1>2, EndsKeeps DEF Answered
<1>3. CASE Answered(w) /\ Post > 0
  <2> DEFINE t == [task[w] EXCEPT !.chain = "post", !.step = 1,
                     !.lane = task[w].lane, !.vars = task[w].vars, !.at = "tick"]
  <2>0. /\ Len(lanes) \in Nat /\ task[w] \in TaskOf(Len(lanes))
        /\ task[w].vars.from = task[w].lane
    BY TaskFacts
  <2>1. /\ 1 \in 1 .. (Chain + Post + 1) /\ 1 <= Post /\ "tick" \in Places
    BY <1>3, RunnerAssumption DEF Places
  <2>2. /\ t \in TaskOf(Len(lanes)) /\ t.lane = task[w].lane
        /\ t.vars.from = t.lane /\ t.at = "tick" /\ t.step <= Steps(t.chain)
    BY <2>0, <2>1 DEF TaskOf, Steps
  <2>3. task' = [task EXCEPT ![w] = t] /\ UNCHANGED pool
    BY <1>3 DEF Answered, StartChain
  <2> HIDE DEF t
  <2> QED
    BY <2>2, <2>3, StayKeeps
<1> QED
  BY <1>1, <1>2, <1>3, RunnerAssumption DEF Execute

(* Going from one place to another, outside of the pool. *)
LEMMA GotoKeeps ==
  ASSUME LanesInv, NEW w \in Workers, UNCHANGED pool, task[w].at = "tick",
         Goto(w, "flight")
  PROVE  LanesInv'
<1> DEFINE t == [task[w] EXCEPT !.at = "flight"]
<1>0. /\ Len(lanes) \in Nat /\ task[w] \in TaskOf(Len(lanes))
      /\ task[w].vars.from = task[w].lane
      /\ task[w].step <= Steps(task[w].chain)
  BY TaskFacts DEF LanesInv, TaskInv
<1>1. /\ t \in TaskOf(Len(lanes)) /\ t.lane = task[w].lane
      /\ t.vars.from = t.lane /\ t.at = "flight" /\ t.step <= Steps(t.chain)
  BY <1>0 DEF TaskOf, Places
<1>2. task' = [task EXCEPT ![w] = t]
  BY DEF Goto
<1> HIDE DEF t
<1> QED
  BY <1>1, <1>2, StayKeeps

LEMMA DispatchKeeps ==
  ASSUME LanesInv, NEW w \in Workers, UNCHANGED pool,
         task[w].at \in {"idle", "end"}, NEW p \in {"lane", "idle"},
         task' = [task EXCEPT ![w] = [Idle EXCEPT !.at = p]]
  PROVE  LanesInv'
<1>1. task[w].lane = 0
  BY DEF LanesInv, TaskInv
<1>2. put(task[w].lane)
  BY <1>1 DEF put, pool
<1> QED
  BY <1>2, EndsKeeps DEF pool

LEMMA LanesStep == LanesInv /\ [Next]_vars => LanesInv'
<1> SUFFICES ASSUME LanesInv, [Next]_vars PROVE LanesInv'
  OBVIOUS
<1>1. ASSUME UNCHANGED <<task, pool>> PROVE LanesInv'
  BY <1>1 DEF LanesInv, PoolInv, TaskInv, LanesBounded, LentOnce, Lent, pool
<1>2. CASE TickerFires \/ AllDone \/ UNCHANGED vars
  BY <1>1, <1>2 DEF TickerFires, AllDone, vars
<1>3. ASSUME NEW r \in Rates, ChangeRate(r) PROVE LanesInv'
  BY <1>1, <1>3 DEF ChangeRate
<1>4. ASSUME NEW w \in Workers, Dispatch(w) PROVE LanesInv'
  BY <1>4, DispatchKeeps DEF Dispatch
<1>5. ASSUME NEW w \in Workers, BuildFails(w) PROVE LanesInv'
  BY <1>5, ChainErrorKeeps DEF BuildFails
<1>6. ASSUME NEW w \in Workers, RateLimitFunc(w) PROVE LanesInv'
  BY <1>6, GotoKeeps DEF RateLimitFunc
<1>7. ASSUME NEW w \in Workers, Step(w) PROVE LanesInv'
  <2>1. CASE runPreflights(w)
    BY <2>1, PreflightsKeep
  <2>2. CASE Flight(w)
    BY <2>2, FlightKeeps
  <2>3. CASE Refuse(w)
    BY <2>3, FailsKeeps DEF Refuse
  <2>4. CASE Execute(w)
    BY <2>4, ExecuteKeeps
  <2>5. CASE End(w)
    <3>1. [Idle EXCEPT !.at = "idle"] = Idle
      BY DEF Idle
    <3> QED
      BY <2>5, <3>1, DispatchKeeps DEF End
  <2> QED
    BY <1>7, <2>1, <2>2, <2>3, <2>4, <2>5 DEF Step
<1> QED
  BY <1>2, <1>3, <1>4, <1>5, <1>6, <1>7 DEF Next

LEMMA LanesInit == Init => LanesInv
<1> SUFFICES ASSUME Init PROVE LanesInv
  OBVIOUS
<1>1. /\ lanes = <<>> /\ free = <<>> /\ Len(lanes) = 0 /\ Lent = {}
      /\ \A w \in Workers : task[w] = Idle
  BY DEF Init, Lent, Idle
<1>2. Threads \in Nat
  BY RunnerAssumption, FS_CardinalityType DEF Threads
<1>3. /\ Idle \in TaskOf(0) /\ Idle.lane = 0 /\ Idle.vars.from = 0
      /\ Idle.at = "idle"
  BY IdleFacts DEF Idle
<1>4. task \in [Workers -> TaskOf(0)]
  BY <1>3 DEF Init
<1> HIDE DEF Idle
<1> QED
  BY <1>1, <1>2, <1>3, <1>4
     DEF LanesInv, PoolInv, TaskInv, LentOnce, LanesBounded

(* However chains fail and requests are retried: a lane is lent to one request
   or in the pool, a request works with the variables of the lane it holds,
   and there are no more lanes than threads. *)
THEOREM Lanes == Spec => []LanesAccounted
<1>1. LanesInv => LanesAccounted
  BY DEF LanesInv, PoolInv, TaskInv, LanesAccounted, VarsBelongToLane
<1> QED
  BY <1>1, LanesInit, LanesStep, PTL DEF Spec

-----------------------------------------------------------------------------
(* The types, and the limits of the ticker and its ring. *)
LEMMA PeriodType == ASSUME NEW r \in Int PROVE Period(r) \in Nat \ {0}
<1>1. CASE r <= 0 \/ r > 1000000
  BY <1>1 DEF Period
<1>2. CASE r > 0 /\ r <= 1000000
  <2>1. 1000000 \div r \in Nat \ {0}
    BY <1>2
  <2> QED
    BY <1>2, <2>1 DEF Period
<1> QED
  BY <1>1, <1>2

LEMMA RingType == ASSUME NEW r \in Int PROVE RingSize(r) \in Nat \ {0}
<1>1. Threads \in Nat \ {0}
  BY RunnerAssumption, FS_CardinalityType, FS_EmptySet DEF Threads
<1> QED
  BY <1>1 DEF RingSize

ThrottleInv ==
  /\ perThread \in BOOLEAN /\ ignore \in BOOLEAN /\ tick \in BOOLEAN
  /\ rate \in Int /\ changes \in 0..MaxChanges
  /\ period \in Nat \ {0} /\ ring \in Nat \ {0} /\ filled \in 0..ring
  /\ issued \in 0..MaxTasks /\ taken \in Nat /\ sent \in Nat

LEMMA ThrottleInit == Init => ThrottleInv
<1> SUFFICES ASSUME Init PROVE ThrottleInv
  OBVIOUS
<1> DEFINE r == IF Rate < 0 THEN 0 ELSE Rate
<1>1. r \in Int
  BY RunnerAssumption
<1>2. NewRateThrottle(r)
  BY DEF Init
<1> HIDE DEF r
<1>3. /\ rate = r /\ period = Period(r) /\ ring = RingSize(r)
      /\ filled = 0 /\ changes = 0
  BY <1>2 DEF NewRateThrottle
<1>4. Period(r) \in Nat \ {0} /\ RingSize(r) \in Nat \ {0}
  BY <1>1, PeriodType, RingType
<1>5. /\ rate \in Int /\ changes \in 0..MaxChanges
      /\ period \in Nat \ {0} /\ ring \in Nat \ {0} /\ filled \in 0..ring
  BY <1>1, <1>3, <1>4, RunnerAssumption
<1>6. issued \in 0..MaxTasks /\ taken \in Nat /\ sent \in Nat
  BY RunnerAssumption DEF Init
<1>7. perThread \in BOOLEAN /\ ignore \in BOOLEAN /\ tick \in BOOLEAN
  BY Zenon DEF Init
<1> QED
  BY <1>5, <1>6, <1>7 DEF ThrottleInv

LEMMA ThrottleStep == ThrottleInv /\ [Next]_vars => ThrottleInv'
<1> SUFFICES ASSUME ThrottleInv, [Next]_vars PROVE ThrottleInv'
  OBVIOUS
<1> USE DEF ThrottleInv, config, throttle, volume
<1>1. CASE TickerFires \/ AllDone \/ UNCHANGED vars
  BY <1>1 DEF TickerFires, AllDone, vars
<1>2. ASSUME NEW r \in Rates, ChangeRate(r) PROVE ThrottleInv'
  <2>1. r \in Int
    BY RunnerAssumption
  <2>2. Period(r) \in Nat \ {0} /\ RingSize(r) \in Nat \ {0}
    BY <2>1, PeriodType, RingType
  <2>3. /\ rate' \in Int /\ changes' \in 0..MaxChanges
        /\ period' \in Nat \ {0} /\ ring' \in Nat \ {0} /\ filled' \in 0..ring'
    BY <1>2, <2>1, <2>2, RunnerAssumption DEF ChangeRate
  <2> QED
    BY <1>2, <2>3 DEF ChangeRate
<1>3. ASSUME NEW w \in Workers, Dispatch(w) \/ RateLimitFunc(w) PROVE ThrottleInv'
  <2>1. /\ perThread' \in BOOLEAN /\ ignore' \in BOOLEAN /\ tick' \in BOOLEAN
        /\ UNCHANGED throttle
    BY <1>3, Zenon DEF Dispatch, RateLimitFunc, Take
  <2>2. taken' = taken + 1 /\ UNCHANGED sent
        /\ (UNCHANGED issued \/ (issued < MaxTasks /\ issued' = issued + 1))
    BY <1>3, Zenon DEF Dispatch, RateLimitFunc, Take
  <2>3. issued' \in 0..MaxTasks /\ taken' \in Nat /\ sent' \in Nat
    BY <2>2, RunnerAssumption
  <2> QED
    BY <2>1, <2>3
<1>4. ASSUME NEW w \in Workers, BuildFails(w) \/ runPreflights(w) \/ Refuse(w)
      PROVE  ThrottleInv'
  BY <1>4 DEF BuildFails, runPreflights, Refuse
<1>5. ASSUME NEW w \in Workers, Flight(w) \/ Execute(w) PROVE ThrottleInv'
  BY <1>5 DEF Flight, Execute
<1>6. ASSUME NEW w \in Workers, End(w) PROVE ThrottleInv'
  BY <1>6 DEF End, Tick
<1> QED
  BY <1>1, <1>2, <1>3, <1>4, <1>5, <1>6 DEF Next, Step

(* Whatever the rates are: the ticker's period is positive, the ring has
   places and is never overfull, and goroutines keep to their steps. *)
THEOREM TypeCorrect == Spec => []TypeOK
<1>1. LanesInv /\ ThrottleInv => TypeOK
  BY DEF LanesInv, TaskInv, TaskOf, VarsOf, ThrottleInv, TypeOK
<1> QED
  BY <1>1, LanesInit, LanesStep, ThrottleInit, ThrottleStep, PTL DEF Spec

-----------------------------------------------------------------------------
(* The volume: what a goroutine may still send without another tick. *)

Unsent(t) == \/ t.at = "lane" \/ t.at = "send"
             \/ t.at \in {"tick", "flight"} /\ t.chain = "pre"

Flying   == {w \in Workers : task[w].at = "flight"}
Due      == {w \in Workers : Unsent(task[w])}
FirstDue == {w \in Workers : Unsent(task[w]) /\ task[w].attempt = 1}

(* Each goroutine that has yet to send its request may send it, and once more
   if this is its first attempt; a chain's request in flight has its tick. *)
Balance == taken + issued - sent

VolumeInv ==
  Cardinality(Flying) + Cardinality(Due) + Cardinality(FirstDue) <= Balance

(* One place more or less in a set of places. *)
LEMMA OneChanges ==
  ASSUME NEW A \in SUBSET Workers, NEW B \in SUBSET Workers, NEW w \in Workers,
         \A v \in Workers \ {w} : v \in A <=> v \in B
  PROVE  /\ Cardinality(A) \in Nat /\ Cardinality(B) \in Nat
         /\ Cardinality(B) = Cardinality(A) - (IF w \in A THEN 1 ELSE 0)
                                            + (IF w \in B THEN 1 ELSE 0)
<1>1. /\ IsFiniteSet(A) /\ IsFiniteSet(B) /\ IsFiniteSet(A \ {w})
      /\ IsFiniteSet(B \ {w})
  BY RunnerAssumption, FS_Subset
<1>2. A \ {w} = B \ {w}
  OBVIOUS
<1>3. ASSUME NEW C, IsFiniteSet(C)
      PROVE  /\ Cardinality(C) \in Nat
             /\ Cardinality(C \ {w}) = IF w \in C THEN Cardinality(C) - 1
                                                  ELSE Cardinality(C)
  BY <1>3, FS_RemoveElement, FS_CardinalityType
<1>4. /\ Cardinality(A) \in Nat /\ Cardinality(B) \in Nat
      /\ Cardinality(A \ {w}) = IF w \in A THEN Cardinality(A) - 1
                                           ELSE Cardinality(A)
      /\ Cardinality(B \ {w}) = IF w \in B THEN Cardinality(B) - 1
                                           ELSE Cardinality(B)
  BY <1>1, <1>3
<1> QED
  BY <1>2, <1>4

Load(t) == (IF t.at = "flight" THEN 1 ELSE 0) + (IF Unsent(t) THEN 1 ELSE 0)
             + (IF Unsent(t) /\ t.attempt = 1 THEN 1 ELSE 0)

(* A step that changes the load of one goroutine and the counters in step. *)
LEMMA LoadChange ==
  ASSUME VolumeInv, ThrottleInv, task \in [Workers -> TaskOf(Len(lanes))],
         NEW w \in Workers, NEW t, task' = [task EXCEPT ![w] = t],
         NEW d \in Int, Balance' = Balance + d,
         Load(t) <= Load(task[w]) + d, ThrottleInv'
  PROVE  VolumeInv'
<1>1. \A v \in Workers : task'[v] = IF v = w THEN t ELSE task[v]
  OBVIOUS
<1> DEFINE change(A, B) == (IF w \in B THEN 1 ELSE 0) - (IF w \in A THEN 1 ELSE 0)
<1>2. /\ Cardinality(Flying) \in Nat /\ Cardinality(Flying') \in Nat
      /\ Cardinality(Flying') = Cardinality(Flying) + change(Flying, Flying')
  <2>1. \A v \in Workers \ {w} : v \in Flying <=> v \in Flying'
    BY <1>1 DEF Flying
  <2>2. Flying \in SUBSET Workers /\ Flying' \in SUBSET Workers
    BY DEF Flying
  <2> QED
    BY <2>1, <2>2, OneChanges
<1>3. /\ Cardinality(Due) \in Nat /\ Cardinality(Due') \in Nat
      /\ Cardinality(Due') = Cardinality(Due) + change(Due, Due')
  <2>1. \A v \in Workers \ {w} : v \in Due <=> v \in Due'
    BY <1>1 DEF Due
  <2>2. Due \in SUBSET Workers /\ Due' \in SUBSET Workers
    BY DEF Due
  <2> QED
    BY <2>1, <2>2, OneChanges
<1>4. /\ Cardinality(FirstDue) \in Nat /\ Cardinality(FirstDue') \in Nat
      /\ Cardinality(FirstDue') = Cardinality(FirstDue) + change(FirstDue, FirstDue')
  <2>1. \A v \in Workers \ {w} : v \in FirstDue <=> v \in FirstDue'
    BY <1>1 DEF FirstDue
  <2>2. FirstDue \in SUBSET Workers /\ FirstDue' \in SUBSET Workers
    BY DEF FirstDue
  <2> QED
    BY <2>1, <2>2, OneChanges
<1>5. change(Flying, Flying') + change(Due, Due') + change(FirstDue, FirstDue')
        = Load(t) - Load(task[w])
  <2>1. /\ w \in Flying <=> task[w].at = "flight"
        /\ w \in Flying' <=> t.at = "flight"
        /\ w \in Due <=> Unsent(task[w])
        /\ w \in Due' <=> Unsent(t)
        /\ w \in FirstDue <=> Unsent(task[w]) /\ task[w].attempt = 1
        /\ w \in FirstDue' <=> Unsent(t) /\ t.attempt = 1
    BY <1>1 DEF Flying, Due, FirstDue
  <2> QED
    BY <2>1 DEF Load
<1>6. Load(t) \in Int /\ Load(task[w]) \in Int
  BY DEF Load
<1>7. /\ taken \in Nat /\ issued \in Nat /\ sent \in Nat
      /\ taken' \in Nat /\ issued' \in Nat /\ sent' \in Nat
  BY DEF ThrottleInv
<1> HIDE DEF change
<1>8. /\ change(Flying, Flying') \in Int /\ change(Due, Due') \in Int
      /\ change(FirstDue, FirstDue') \in Int
  BY DEF change
<1> DEFINE f == change(Flying, Flying')
           e == change(Due, Due')
           g == change(FirstDue, FirstDue')
           n == Cardinality(Flying) + Cardinality(Due) + Cardinality(FirstDue)
           k == Cardinality(Flying') + Cardinality(Due') + Cardinality(FirstDue')
<1>9. /\ n \in Int /\ k \in Int
      /\ f \in Int /\ e \in Int /\ g \in Int
  <2>1. n \in Int
    BY <1>2, <1>3, <1>4
  <2>2. k \in Int
    BY <1>2, <1>3, <1>4
  <2> QED
    BY <1>8, <2>1, <2>2
<1>10. k = n + (f + e + g)
  <2> HIDE DEF f, e, g
  <2>1. /\ Cardinality(Flying') = Cardinality(Flying) + f
        /\ Cardinality(Due') = Cardinality(Due) + e
        /\ Cardinality(FirstDue') = Cardinality(FirstDue) + g
    BY <1>2, <1>3, <1>4 DEF f, e, g
  <2> QED
    BY <1>2, <1>3, <1>4, <1>9, <2>1
<1>11. n <= Balance /\ Balance \in Int
  BY <1>7 DEF VolumeInv, Balance
<1>12. k <= n + d
  <2> DEFINE l == Load(task[w])
             m == Load(t)
  <2>1. /\ l \in Int /\ m \in Int /\ f + e + g = m - l /\ m <= l + d
    BY <1>5, <1>6
  <2> HIDE DEF f, e, g, l, m, n, k
  <2> QED
    BY <1>9, <1>10, <2>1
<1>13. k <= Balance'
  <2> HIDE DEF n, k
  <2> QED
    BY <1>9, <1>11, <1>12
<1> QED
  BY <1>13 DEF VolumeInv

(* The load of a goroutine apart from a chain's request in flight. *)
Owed(t) == (IF Unsent(t) THEN 1 ELSE 0)
             + (IF Unsent(t) /\ t.attempt = 1 THEN 1 ELSE 0)

(* A step of w that leaves it with a load of at most b. *)
Leaves(w, b) == \E t : task' = [task EXCEPT ![w] = t] /\ Load(t) <= b

LEMMA LoadOwed ==
  ASSUME NEW t
  PROVE  /\ Load(t) \in 0..3 /\ Owed(t) \in 0..2
         /\ t.at = "flight" => Load(t) = Owed(t) + 1
         /\ t.at # "flight" => Load(t) = Owed(t)
BY DEF Load, Owed

(* A failure uses up an attempt. *)
LEMMA FailsLeaves ==
  ASSUME NEW w \in Workers, NEW n \in Nat, task[w] \in TaskOf(n),
         Unsent(task[w]), Fails(w)
  PROVE  Leaves(w, Owed(task[w]) - 1)
<1> DEFINE p == IF task[w].attempt = 1 THEN "lane" ELSE "end"
           t == [Idle EXCEPT !.at = p, !.attempt = 2]
<1>1. t.at = p /\ t.attempt = 2 /\ task' = [task EXCEPT ![w] = t]
  BY DEF Fails, Idle
<1>2. task[w].attempt \in {1, 2}
  BY DEF TaskOf
<1> HIDE DEF t
<1>3. Load(t) <= Owed(task[w]) - 1
  BY <1>1, <1>2 DEF Load, Owed, Unsent
<1> QED
  BY <1>1, <1>3 DEF Leaves

LEMMA EndsLeaves ==
  ASSUME NEW w \in Workers, NEW p \in {"end", "idle"},
         task' = [task EXCEPT ![w] = [Idle EXCEPT !.at = p]]
  PROVE  Leaves(w, 0)
<1> DEFINE t == [Idle EXCEPT !.at = p]
<1>1. t.at = p
  BY DEF Idle
<1> HIDE DEF t
<1>2. Load(t) <= 0 /\ task' = [task EXCEPT ![w] = t]
  BY <1>1 DEF Load, Unsent, t
<1> QED
  BY <1>2 DEF Leaves

(* The end of a chain, and its error, leave no more than was owed. *)
LEMMA ChainOverLeaves ==
  ASSUME NEW w \in Workers, NEW n \in Nat, task[w] \in TaskOf(n),
         task[w].at \in {"tick", "flight"}, NEW v, ChainOver(w, v)
  PROVE  Leaves(w, Owed(task[w]))
<1>1. CASE task[w].chain = "post"
  <2>1. Leaves(w, 0)
    BY <1>1, EndsLeaves DEF ChainOver
  <2>2. Owed(task[w]) = 0
    BY <1>1 DEF Owed, Unsent
  <2> QED
    BY <2>1, <2>2
<1>2. CASE task[w].chain # "post"
  <2> DEFINE t == [task[w] EXCEPT !.at = "send", !.vars = v]
  <2>1. /\ t.at = "send" /\ t.attempt = task[w].attempt
        /\ task' = [task EXCEPT ![w] = t] /\ Unsent(task[w])
    BY <1>2 DEF ChainOver, TaskOf, Unsent
  <2> HIDE DEF t
  <2>2. Load(t) <= Owed(task[w])
    BY <2>1 DEF Load, Owed, Unsent
  <2> QED
    BY <2>1, <2>2 DEF Leaves
<1> QED
  BY <1>1, <1>2

LEMMA ChainErrorLeaves ==
  ASSUME NEW w \in Workers, NEW n \in Nat, task[w] \in TaskOf(n),
         task[w].at \in {"tick", "flight"}, ChainError(w)
  PROVE  Leaves(w, Owed(task[w]))
<1>1. CASE ignore \/ task[w].chain = "post"
  BY <1>1, ChainOverLeaves DEF ChainError
<1>2. CASE ~(ignore \/ task[w].chain = "post")
  <2>1. Unsent(task[w])
    BY <1>2 DEF TaskOf, Unsent
  <2>2. Leaves(w, Owed(task[w]) - 1)
    BY <1>2, <2>1, FailsLeaves DEF ChainError
  <2>3. PICK t : task' = [task EXCEPT ![w] = t] /\ Load(t) <= Owed(task[w]) - 1
    BY <2>2 DEF Leaves
  <2>4. Load(t) \in Int /\ Owed(task[w]) \in Int
    BY LoadOwed
  <2>5. Load(t) <= Owed(task[w])
    BY <2>3, <2>4
  <2> QED
    BY <2>3, <2>5 DEF Leaves
<1> QED
  BY <1>1, <1>2

LEMMA StepOverLeaves ==
  ASSUME NEW w \in Workers, NEW n \in Nat, task[w] \in TaskOf(n),
         task[w].at \in {"tick", "flight"}, NEW v, StepOver(w, v)
  PROVE  Leaves(w, Owed(task[w]))
<1>1. CASE task[w].step = Steps(task[w].chain)
  BY <1>1, ChainOverLeaves DEF StepOver
<1>2. CASE task[w].step # Steps(task[w].chain)
  <2> DEFINE t == [task[w] EXCEPT !.at = "tick", !.step = @ + 1, !.vars = v]
  <2>1. /\ t.at = "tick" /\ t.attempt = task[w].attempt
        /\ t.chain = task[w].chain /\ task' = [task EXCEPT ![w] = t]
    BY <1>2 DEF StepOver, TaskOf
  <2> HIDE DEF t
  <2>2. Load(t) <= Owed(task[w])
    BY <2>1 DEF Load, Owed, Unsent
  <2> QED
    BY <2>1, <2>2 DEF Leaves
<1> QED
  BY <1>1, <1>2

(* Answered, a request leaves nothing to send but postflights. *)
LEMMA AnsweredLeaves ==
  ASSUME NEW w \in Workers, NEW n \in Nat, task[w] \in TaskOf(n), Answered(w)
  PROVE  Leaves(w, 0)
<1>1. CASE Post > 0
  <2> DEFINE t == [task[w] EXCEPT !.chain = "post", !.step = 1,
                     !.lane = task[w].lane, !.vars = task[w].vars, !.at = "tick"]
  <2>1. t.at = "tick" /\ t.chain = "post" /\ task' = [task EXCEPT ![w] = t]
    BY <1>1 DEF Answered, StartChain, TaskOf
  <2> HIDE DEF t
  <2>2. Load(t) <= 0
    BY <2>1 DEF Load, Unsent
  <2> QED
    BY <2>1, <2>2 DEF Leaves
<1>2. CASE ~(Post > 0)
  BY <1>2, EndsLeaves DEF Answered
<1> QED
  BY <1>1, <1>2

LEMMA PreflightsLeave ==
  ASSUME NEW w \in Workers, NEW n \in Nat, task[w] \in TaskOf(n),
         runPreflights(w)
  PROVE  Leaves(w, Owed(task[w]))
<1>1. ASSUME NEW t, task' = [task EXCEPT ![w] = t], t.attempt = task[w].attempt,
             t.at = "send" \/ (t.at = "tick" /\ t.chain = "pre")
      PROVE  Leaves(w, Owed(task[w]))
  <2>1. task[w].at = "lane"
    BY DEF runPreflights
  <2>2. Load(t) <= Owed(task[w])
    BY <1>1, <2>1 DEF Load, Owed, Unsent
  <2> QED
    BY <1>1, <2>2 DEF Leaves
<1>2. ASSUME NEW l, NEW v, StartChain(w, "pre", l, v)
      PROVE  Leaves(w, Owed(task[w]))
  <2> DEFINE t == [task[w] EXCEPT !.chain = "pre", !.step = 1, !.lane = l,
                                  !.vars = v, !.at = "tick"]
  <2>1. /\ t.attempt = task[w].attempt /\ t.at = "tick" /\ t.chain = "pre"
        /\ task' = [task EXCEPT ![w] = t]
    BY <1>2 DEF StartChain, TaskOf
  <2> HIDE DEF t
  <2> QED
    BY <1>1, <2>1
<1>3. CASE Goto(w, "send")
  <2> DEFINE t == [task[w] EXCEPT !.at = "send"]
  <2>1. /\ t.attempt = task[w].attempt /\ t.at = "send"
        /\ task' = [task EXCEPT ![w] = t]
    BY <1>3 DEF Goto, TaskOf
  <2> HIDE DEF t
  <2> QED
    BY <1>1, <2>1
<1>4. ASSUME NEW l, task' = [task EXCEPT ![w].at = "send", ![w].lane = l,
                                         ![w].vars = lanes'[l].vars]
      PROVE  Leaves(w, Owed(task[w]))
  <2> DEFINE t == [task[w] EXCEPT !.at = "send", !.lane = l,
                                  !.vars = lanes'[l].vars]
  <2>1. /\ t.attempt = task[w].attempt /\ t.at = "send"
        /\ task' = [task EXCEPT ![w] = t]
    BY <1>4 DEF TaskOf
  <2> HIDE DEF t
  <2> QED
    BY <1>1, <2>1
<1> QED
  BY <1>2, <1>3, <1>4 DEF runPreflights

LEMMA BalanceChange ==
  ASSUME VolumeInv, ThrottleInv, ThrottleInv',
         task \in [Workers -> TaskOf(Len(lanes))], NEW w \in Workers,
         NEW b \in Int, Leaves(w, b), b - Load(task[w]) <= Balance' - Balance
  PROVE  VolumeInv'
<1> DEFINE d == Balance' - Balance
<1>0. Balance \in Int /\ Balance' \in Int
  <2>1. /\ taken \in Nat /\ issued \in Nat /\ sent \in Nat
        /\ taken' \in Nat /\ issued' \in Nat /\ sent' \in Nat
    BY DEF ThrottleInv
  <2> QED
    BY <2>1 DEF Balance
<1>1. PICK t : task' = [task EXCEPT ![w] = t] /\ Load(t) <= b
  BY DEF Leaves
<1>2. Load(t) \in Int /\ Load(task[w]) \in Int
  BY LoadOwed
<1>3. d \in Int /\ b - Load(task[w]) <= d
  BY <1>0
<1>4. Balance' = Balance + d
  <2> DEFINE x == Balance
             y == Balance'
  <2>1. x \in Int /\ y \in Int /\ d = y - x
    BY <1>0
  <2> HIDE DEF x, y, d
  <2>2. y = x + d
    BY <2>1
  <2> QED
    BY <2>2 DEF x, y
<1> HIDE DEF d
<1>5. Load(t) <= Load(task[w]) + d
  BY <1>1, <1>2, <1>3
<1> QED
  BY <1>1, <1>3, <1>4, <1>5, LoadChange

LEMMA VolumeStep ==
  LanesInv /\ ThrottleInv /\ ThrottleInv' /\ VolumeInv /\ [Next]_vars => VolumeInv'
<1> SUFFICES ASSUME LanesInv, ThrottleInv, ThrottleInv', VolumeInv, [Next]_vars
             PROVE  VolumeInv'
  OBVIOUS
<1> USE DEF volume
<1>0. /\ Len(lanes) \in Nat /\ task \in [Workers -> TaskOf(Len(lanes))]
      /\ taken \in Nat /\ issued \in Nat /\ sent \in Nat
  BY TaskFacts DEF LanesInv, PoolInv, TaskInv, ThrottleInv
<1>1. \A w \in Workers : task[w] \in TaskOf(Len(lanes))
  BY <1>0
<1>2. \A w \in Workers : /\ Load(task[w]) \in Int /\ Owed(task[w]) \in Int
                         /\ Owed(task[w]) >= 0
  BY LoadOwed
<1>3. ASSUME UNCHANGED <<task, volume>> PROVE VolumeInv'
  BY <1>3 DEF VolumeInv, Flying, Due, FirstDue, Balance
<1>4. Balance \in Int /\ (UNCHANGED volume => Balance' - Balance = 0)
  BY <1>0 DEF Balance
<1>5. CASE TickerFires \/ AllDone \/ UNCHANGED vars
  BY <1>3, <1>5 DEF TickerFires, AllDone, vars
<1>6. ASSUME NEW r \in Rates, ChangeRate(r) PROVE VolumeInv'
  BY <1>3, <1>6 DEF ChangeRate
<1>7. ASSUME NEW w \in Workers, Dispatch(w) PROVE VolumeInv'
  <2> DEFINE t == [Idle EXCEPT !.at = "lane"]
  <2>1. t.at = "lane" /\ task' = [task EXCEPT ![w] = t]
    BY <1>7 DEF Dispatch, Idle
  <2> HIDE DEF t
  <2>2. Load(t) <= 2 /\ 0 <= Load(task[w])
    BY <2>1 DEF Load, Unsent
  <2>3. Leaves(w, 2)
    BY <2>1, <2>2 DEF Leaves
  <2>4. Balance' - Balance = 2
    BY <1>0, <1>7 DEF Dispatch, Take, Balance
  <2>5. 2 - Load(task[w]) <= Balance' - Balance
    BY <1>2, <2>2, <2>4
  <2> QED
    BY <1>0, <2>3, <2>5, BalanceChange
<1>8. ASSUME NEW w \in Workers, RateLimitFunc(w) PROVE VolumeInv'
  <2> DEFINE t == [task[w] EXCEPT !.at = "flight"]
  <2>0. task[w].at = "tick"
    BY <1>8 DEF RateLimitFunc
  <2>1. /\ t.at = "flight" /\ t.chain = task[w].chain
        /\ t.attempt = task[w].attempt /\ task' = [task EXCEPT ![w] = t]
    BY <1>1, <1>8 DEF RateLimitFunc, Goto, TaskOf
  <2> HIDE DEF t
  <2> DEFINE b == Load(task[w]) + 1
  <2>2. Load(t) <= b
    BY <2>0, <2>1 DEF Load, Unsent
  <2>3. Balance' - Balance = 1
    BY <1>0, <1>8 DEF RateLimitFunc, Take, Balance
  <2>4. b \in Int /\ b - Load(task[w]) <= Balance' - Balance
    BY <1>2, <2>3
  <2> HIDE DEF b
  <2>5. Leaves(w, b)
    BY <2>1, <2>2 DEF Leaves
  <2> QED
    BY <1>0, <2>4, <2>5, BalanceChange
<1>9. ASSUME NEW w \in Workers, BuildFails(w) \/ runPreflights(w) PROVE VolumeInv'
  <2>1. task[w].at # "flight" /\ UNCHANGED volume
    BY <1>9 DEF BuildFails, runPreflights
  <2>2. Leaves(w, Owed(task[w]))
    BY <1>0, <1>1, <1>9, PreflightsLeave, ChainErrorLeaves DEF BuildFails
  <2>3. Owed(task[w]) - Load(task[w]) <= Balance' - Balance
    BY <1>2, <1>4, <2>1, LoadOwed
  <2> QED
    BY <1>0, <1>2, <2>2, <2>3, BalanceChange
<1>10. ASSUME NEW w \in Workers, Flight(w) PROVE VolumeInv'
  <2>1. task[w].at = "flight"
    BY <1>10 DEF Flight
  <2>2. Leaves(w, Owed(task[w]))
    BY <1>0, <1>1, <1>10, <2>1, StepOverLeaves, ChainErrorLeaves DEF Flight
  <2>3. Load(task[w]) = Owed(task[w]) + 1
    BY <2>1, LoadOwed
  <2>4. Balance' - Balance = -1
    BY <1>0, <1>10 DEF Flight, Balance
  <2>5. Owed(task[w]) - Load(task[w]) <= Balance' - Balance
    BY <1>2, <2>3, <2>4
  <2> QED
    BY <1>0, <1>2, <2>2, <2>5, BalanceChange
<1>11. ASSUME NEW w \in Workers, task[w].at = "send"
       PROVE  /\ Unsent(task[w]) /\ Load(task[w]) = Owed(task[w])
              /\ Owed(task[w]) - 1 \in Nat
  BY <1>11, LoadOwed DEF Unsent, Owed
<1>12. ASSUME NEW w \in Workers, Refuse(w) PROVE VolumeInv'
  <2>1. task[w].at = "send" /\ Fails(w) /\ UNCHANGED volume
    BY <1>12 DEF Refuse
  <2>2. Leaves(w, Owed(task[w]) - 1)
    BY <1>0, <1>1, <1>11, <2>1, FailsLeaves
  <2> DEFINE b == Owed(task[w]) - 1
  <2>3. b \in Int /\ b - Load(task[w]) <= Balance' - Balance
    BY <1>2, <1>4, <1>11, <2>1
  <2>4. Leaves(w, b)
    BY <2>2
  <2> HIDE DEF b
  <2> QED
    BY <1>0, <2>3, <2>4, BalanceChange
<1>13. ASSUME NEW w \in Workers, Execute(w) PROVE VolumeInv'
  <2>1. task[w].at = "send" /\ Balance' - Balance = -1
    BY <1>0, <1>13 DEF Execute, Balance
  <2>2. CASE Answered(w)
    <3>1. Leaves(w, 0)
      BY <1>0, <1>1, <2>2, AnsweredLeaves
    <3>2. 0 - Load(task[w]) <= Balance' - Balance
      BY <1>2, <1>11, <2>1
    <3> QED
      BY <1>0, <3>1, <3>2, BalanceChange
  <2>3. CASE Fails(w)
    <3>1. Leaves(w, Owed(task[w]) - 1)
      BY <1>0, <1>1, <1>11, <2>1, <2>3, FailsLeaves
    <3> DEFINE b == Owed(task[w]) - 1
    <3>2. b \in Int /\ b - Load(task[w]) <= Balance' - Balance
      BY <1>2, <1>11, <2>1
    <3>3. Leaves(w, b)
      BY <3>1
    <3> HIDE DEF b
    <3> QED
      BY <1>0, <3>2, <3>3, BalanceChange
  <2> QED
    BY <1>13, <2>2, <2>3 DEF Execute
<1>14. ASSUME NEW w \in Workers, End(w) PROVE VolumeInv'
  <2>1. [Idle EXCEPT !.at = "idle"] = Idle
    BY DEF Idle
  <2>2. Leaves(w, 0) /\ UNCHANGED volume
    BY <1>14, <2>1, EndsLeaves DEF End
  <2>3. 0 - Load(task[w]) <= Balance' - Balance
    BY <1>4, <2>2, LoadOwed
  <2> QED
    BY <1>0, <2>2, <2>3, BalanceChange
<1> QED
  BY <1>5, <1>6, <1>7, <1>8, <1>9, <1>10, <1>12, <1>13, <1>14 DEF Next, Step

LEMMA VolumeInit == Init => VolumeInv
<1> SUFFICES ASSUME Init PROVE VolumeInv
  OBVIOUS
<1>1. \A w \in Workers : task[w].at = "idle"
  BY DEF Init, Idle
<1>2. Flying = {} /\ Due = {} /\ FirstDue = {}
  BY <1>1 DEF Flying, Due, FirstDue, Unsent
<1>3. Balance = 0
  BY DEF Init, Balance
<1> QED
  BY <1>2, <1>3, FS_EmptySet DEF VolumeInv

(* Whatever chains and retries there are, the requests that were sent exceed
   the ticks that were taken by at most one for each request dispatched. *)
THEOREM Volume == Spec => []VolumeBounded
<1>1. ThrottleInv /\ VolumeInv => VolumeBounded
  <2> SUFFICES ASSUME ThrottleInv, VolumeInv PROVE VolumeBounded
    OBVIOUS
  <2>1. taken \in Nat /\ issued \in Nat /\ sent \in Nat
    BY DEF ThrottleInv
  <2>2. ASSUME NEW A \in SUBSET Workers PROVE Cardinality(A) \in Nat
    BY <2>2, RunnerAssumption, FS_Subset, FS_CardinalityType
  <2>3. /\ Cardinality(Flying) \in Nat /\ Cardinality(Due) \in Nat
        /\ Cardinality(FirstDue) \in Nat
    BY <2>2 DEF Flying, Due, FirstDue
  <2> DEFINE n == Cardinality(Flying) + Cardinality(Due) + Cardinality(FirstDue)
  <2>4. n \in Nat /\ n <= Balance
    BY <2>3 DEF VolumeInv
  <2> HIDE DEF n
  <2>5. Balance >= 0
    BY <2>1, <2>4 DEF Balance
  <2> QED
    BY <2>1, <2>5 DEF VolumeBounded, Balance
<1>2. Spec => [](LanesInv /\ ThrottleInv)
  BY LanesInit, LanesStep, ThrottleInit, ThrottleStep, PTL DEF Spec
<1>3. LanesInv /\ ThrottleInv /\ VolumeInv /\ [Next]_vars => VolumeInv'
  BY VolumeStep, ThrottleStep
<1> QED
  BY <1>1, <1>2, <1>3, VolumeInit, PTL DEF Spec

-----------------------------------------------------------------------------
(* What a chain has captured. *)

(* A task in the preflights has what the steps before its own capture; one
   that sends has everything. *)
Captures(t) ==
  /\ t.at \in {"tick", "flight"} /\ t.chain = "pre" =>
       1 .. (t.step - 1) \subseteq t.vars.got
  /\ t.at = "send" => 1..Chain \subseteq t.vars.got

CompleteInv ==
  ~ignore => /\ \A w \in Workers : Captures(task[w])
             /\ \A l \in 1..Len(lanes) :
                  lanes[l].initialized => 1..Chain \subseteq lanes[l].vars.got

(* A step of one goroutine that touches no lane. *)
LEMMA CaptureChange ==
  ASSUME CompleteInv, task \in [Workers -> TaskOf(Len(lanes))],
         UNCHANGED <<ignore, lanes>>, NEW w \in Workers, NEW t,
         task' = [task EXCEPT ![w] = t], ~ignore => Captures(t)
  PROVE  CompleteInv'
<1>1. \A v \in Workers : task'[v] = IF v = w THEN t ELSE task[v]
  OBVIOUS
<1> QED
  BY <1>1 DEF CompleteInv

LEMMA IdleCaptures ==
  ASSUME CompleteInv, task \in [Workers -> TaskOf(Len(lanes))],
         UNCHANGED <<ignore, lanes>>, NEW w \in Workers,
         NEW p \in {"idle", "lane", "end"},
         NEW t \in {[Idle EXCEPT !.at = p],
                    [Idle EXCEPT !.at = p, !.attempt = 2]},
         task' = [task EXCEPT ![w] = t]
  PROVE  CompleteInv'
<1>1. t.at = p
  BY DEF Idle
<1>2. Captures(t)
  BY <1>1 DEF Captures
<1> QED
  BY <1>2, CaptureChange

LEMMA FailsCapture ==
  ASSUME CompleteInv, task \in [Workers -> TaskOf(Len(lanes))],
         UNCHANGED <<ignore, lanes>>, NEW w \in Workers, Fails(w)
  PROVE  CompleteInv'
<1> DEFINE p == IF task[w].attempt = 1 THEN "lane" ELSE "end"
<1>1. task' = [task EXCEPT ![w] = [Idle EXCEPT !.at = p, !.attempt = 2]]
  BY DEF Fails
<1>2. p \in {"idle", "lane", "end"}
  OBVIOUS
<1> HIDE DEF p
<1> QED
  BY <1>1, <1>2, IdleCaptures

(* The end of a chain whose variables are complete, or of postflights. *)
LEMMA ChainOverCaptures ==
  ASSUME LanesInv, CompleteInv, UNCHANGED ignore, NEW w \in Workers,
         task[w].at \in {"tick", "flight"},
         NEW v \in VarsOf(Len(lanes)), ChainOver(w, v),
         ~ignore /\ task[w].chain = "pre" => 1..Chain \subseteq v.got
  PROVE  CompleteInv'
<1>0. /\ Len(lanes) \in Nat /\ task \in [Workers -> TaskOf(Len(lanes))]
      /\ task[w] \in TaskOf(Len(lanes)) /\ lanes \in Seq(LaneOf(Len(lanes)))
      /\ task[w].lane \in 0..Len(lanes)
  BY TaskFacts DEF LanesInv, PoolInv, TaskInv
<1>1. CASE task[w].chain = "post"
  BY <1>0, <1>1, IdleCaptures DEF ChainOver
<1>2. CASE task[w].chain # "post"
  <2> DEFINE t == [task[w] EXCEPT !.at = "send", !.vars = v]
             l == task[w].lane
             new == [initialized |-> TRUE, vars |-> v]
  <2>1. /\ t.at = "send" /\ t.vars = v /\ task' = [task EXCEPT ![w] = t]
        /\ task[w].chain = "pre"
    BY <1>0, <1>2 DEF ChainOver, TaskOf
  <2>2. lanes' = IF l = 0 THEN lanes ELSE [lanes EXCEPT ![l] = new]
    BY <1>2 DEF ChainOver
  <2>3. new.vars = v
    OBVIOUS
  <2> HIDE DEF t, new
  <2>4. ~ignore => Captures(t)
    BY <2>1 DEF Captures
  <2>5. \A u \in Workers : task'[u] = IF u = w THEN t ELSE task[u]
    BY <1>0, <2>1
  <2>6. \A k \in 1..Len(lanes') : \/ lanes'[k] = lanes[k] /\ k \in 1..Len(lanes)
                                 \/ lanes'[k] = new
    BY <1>0, <2>2
  <2> QED
    BY <2>1, <2>3, <2>4, <2>5, <2>6 DEF CompleteInv
<1> QED
  BY <1>1, <1>2

LEMMA ChainErrorCaptures ==
  ASSUME LanesInv, CompleteInv, UNCHANGED ignore, NEW w \in Workers,
         task[w].at \in {"tick", "flight"}, ChainError(w)
  PROVE  CompleteInv'
<1>0. /\ task \in [Workers -> TaskOf(Len(lanes))]
      /\ task[w].vars \in VarsOf(Len(lanes))
  BY TaskFacts DEF LanesInv, TaskInv
<1>1. CASE ignore \/ task[w].chain = "post"
  BY <1>0, <1>1, ChainOverCaptures DEF ChainError
<1>2. CASE ~(ignore \/ task[w].chain = "post")
  BY <1>0, <1>2, FailsCapture DEF ChainError
<1> QED
  BY <1>1, <1>2

LEMMA StepOverCaptures ==
  ASSUME LanesInv, CompleteInv, UNCHANGED ignore, NEW w \in Workers,
         task[w].at \in {"tick", "flight"},
         NEW v \in VarsOf(Len(lanes)), StepOver(w, v),
         ~ignore /\ task[w].chain = "pre" => 1 .. task[w].step \subseteq v.got
  PROVE  CompleteInv'
<1>0. /\ task \in [Workers -> TaskOf(Len(lanes))]
      /\ task[w] \in TaskOf(Len(lanes)) /\ task[w].step \in Nat
  BY TaskFacts, RunnerAssumption DEF LanesInv, TaskInv, TaskOf
<1>1. CASE task[w].step = Steps(task[w].chain)
  BY <1>1, ChainOverCaptures DEF StepOver, Steps
<1>2. CASE task[w].step # Steps(task[w].chain)
  <2> DEFINE t == [task[w] EXCEPT !.at = "tick", !.step = @ + 1, !.vars = v]
  <2>1. /\ t.at = "tick" /\ t.step = task[w].step + 1 /\ t.vars = v
        /\ t.chain = task[w].chain /\ task' = [task EXCEPT ![w] = t]
        /\ UNCHANGED lanes
    BY <1>0, <1>2 DEF StepOver, TaskOf, pool
  <2> HIDE DEF t
  <2>2. t.step - 1 = task[w].step
    BY <1>0, <2>1
  <2>3. ~ignore => Captures(t)
    BY <2>1, <2>2 DEF Captures
  <2> QED
    BY <1>0, <2>1, <2>3, CaptureChange
<1> QED
  BY <1>1, <1>2

LEMMA FlightCaptures ==
  ASSUME LanesInv, CompleteInv, NEW w \in Workers, Flight(w)
  PROVE  CompleteInv'
<1>0. /\ task[w].at = "flight" /\ UNCHANGED ignore
      /\ task[w].vars \in VarsOf(Len(lanes)) /\ task[w].step \in Nat
      /\ task[w].chain \in {"pre", "post"}
  BY TaskFacts, RunnerAssumption DEF Flight, config, TaskOf
<1>1. ASSUME NEW v \in Captured(w), StepOver(w, v) PROVE CompleteInv'
  <2>1. v \in VarsOf(Len(lanes))
    BY <1>0, CapturedType
  <2>2. ASSUME ~ignore, task[w].chain = "pre" PROVE 1 .. task[w].step \subseteq v.got
    <3>1. 1 .. (task[w].step - 1) \subseteq task[w].vars.got
      BY <1>0, <2>2 DEF CompleteInv, Captures
    <3>2. v.got = task[w].vars.got \cup {task[w].step}
      BY <2>2 DEF Captured, Vars
    <3> QED
      BY <1>0, <3>1, <3>2
  <2> QED
    BY <1>0, <1>1, <2>1, <2>2, StepOverCaptures
<1>2. CASE ignore /\ StepOver(w, task[w].vars)
  BY <1>0, <1>2, StepOverCaptures
<1>3. CASE ChainError(w)
  BY <1>0, <1>3, ChainErrorCaptures
<1> QED
  BY <1>1, <1>2, <1>3 DEF Flight

LEMMA PreflightsCapture ==
  ASSUME LanesInv, CompleteInv, NEW w \in Workers, runPreflights(w)
  PROVE  CompleteInv'
<1>0. /\ Len(lanes) \in Nat /\ task \in [Workers -> TaskOf(Len(lanes))]
      /\ task[w] \in TaskOf(Len(lanes)) /\ lanes \in Seq(LaneOf(Len(lanes)))
      /\ UNCHANGED ignore /\ task[w].at = "lane"
  BY TaskFacts DEF LanesInv, PoolInv, TaskInv, runPreflights, config
<1>1. ASSUME NEW l, NEW v, StartChain(w, "pre", l, v)
      PROVE  \E t : task' = [task EXCEPT ![w] = t] /\ Captures(t)
  <2> DEFINE t == [task[w] EXCEPT !.chain = "pre", !.step = 1, !.lane = l,
                                  !.vars = v, !.at = "tick"]
  <2>1. t.at = "tick" /\ t.step = 1 /\ task' = [task EXCEPT ![w] = t]
    BY <1>0, <1>1 DEF StartChain, TaskOf
  <2> HIDE DEF t
  <2>2. Captures(t)
    BY <2>1 DEF Captures
  <2> QED
    BY <2>1, <2>2
<1>2. CASE Chain = 0
  <2> DEFINE t == [task[w] EXCEPT !.at = "send"]
  <2>1. t.at = "send" /\ task' = [task EXCEPT ![w] = t] /\ UNCHANGED lanes
    BY <1>0, <1>2 DEF runPreflights, Goto, TaskOf, pool
  <2> HIDE DEF t
  <2>2. Captures(t)
    BY <1>2, <2>1 DEF Captures
  <2> QED
    BY <1>0, <2>1, <2>2, CaptureChange
<1>3. CASE Chain # 0 /\ ~perThread
  BY <1>0, <1>1, <1>3, CaptureChange DEF runPreflights, pool
<1>4. CASE Chain # 0 /\ perThread
  <2>1. PICK l \in 1..(Len(lanes) + 1) :
          /\ get(l)
          /\ IF lanes'[l].initialized
             THEN task' = [task EXCEPT ![w].at = "send", ![w].lane = l,
                                       ![w].vars = lanes'[l].vars]
             ELSE StartChain(w, "pre", l, Vars({}, FALSE, l))
    BY <1>4 DEF runPreflights
  <2>2. \A k \in 1..Len(lanes') :
          \/ k \in 1..Len(lanes) /\ lanes'[k] = lanes[k]
          \/ ~lanes'[k].initialized
    <3>1. CASE free = <<>>
      <4> DEFINE new == [initialized |-> FALSE, vars |-> NoVars]
      <4>1. lanes' = Append(lanes, new) /\ new.initialized = FALSE
        BY <2>1, <3>1 DEF get
      <4> HIDE DEF new
      <4> QED
        BY <1>0, <4>1
    <3>2. CASE free # <<>>
      BY <2>1, <3>2 DEF get
    <3> QED
      BY <3>1, <3>2
  <2>3. \E t : /\ task' = [task EXCEPT ![w] = t]
               /\ ~ignore => Captures(t)
    <3>1. CASE lanes'[l].initialized
      <4> DEFINE t == [task[w] EXCEPT !.at = "send", !.lane = l,
                                      !.vars = lanes'[l].vars]
      <4>1. /\ t.at = "send" /\ t.vars = lanes'[l].vars
            /\ task' = [task EXCEPT ![w] = t]
        BY <1>0, <2>1, <3>1 DEF TaskOf
      <4> HIDE DEF t
      <4>2. l \in 1..Len(lanes')
        <5>1. CASE free = <<>>
          BY <1>0, <2>1, <5>1 DEF get
        <5>2. CASE free # <<>>
          BY <1>0, <2>1, <5>2 DEF get, LanesInv, PoolInv
        <5> QED
          BY <5>1, <5>2
      <4>3. ~ignore => 1..Chain \subseteq lanes'[l].vars.got
        BY <2>2, <3>1, <4>2 DEF CompleteInv
      <4>4. ~ignore => Captures(t)
        BY <4>1, <4>3 DEF Captures
      <4> QED
        BY <4>1, <4>4
    <3>2. CASE ~lanes'[l].initialized
      BY <1>1, <2>1, <3>2
    <3> QED
      BY <3>1, <3>2
  <2>4. PICK t : task' = [task EXCEPT ![w] = t] /\ (~ignore => Captures(t))
    BY <2>3
  <2>5. \A u \in Workers : task'[u] = IF u = w THEN t ELSE task[u]
    BY <1>0, <2>4
  <2> QED
    BY <1>0, <2>2, <2>4, <2>5 DEF CompleteInv
<1> QED
  BY <1>2, <1>3, <1>4

LEMMA CompleteStep == LanesInv /\ CompleteInv /\ [Next]_vars => CompleteInv'
<1> SUFFICES ASSUME LanesInv, CompleteInv, [Next]_vars PROVE CompleteInv'
  OBVIOUS
<1> USE DEF config, pool
<1>0. /\ task \in [Workers -> TaskOf(Len(lanes))]
      /\ \A w \in Workers : task[w] \in TaskOf(Len(lanes))
  BY DEF LanesInv, TaskInv
<1>1. CASE UNCHANGED <<ignore, lanes, task>>
  BY <1>1 DEF CompleteInv
<1>2. CASE TickerFires \/ AllDone \/ UNCHANGED vars
  BY <1>1, <1>2 DEF TickerFires, AllDone, vars
<1>3. ASSUME NEW r \in Rates, ChangeRate(r) PROVE CompleteInv'
  BY <1>1, <1>3 DEF ChangeRate
<1>4. ASSUME NEW w \in Workers, Dispatch(w) PROVE CompleteInv'
  BY <1>0, <1>4, IdleCaptures DEF Dispatch
<1>5. ASSUME NEW w \in Workers, BuildFails(w) PROVE CompleteInv'
  BY <1>5, ChainErrorCaptures DEF BuildFails
<1>6. ASSUME NEW w \in Workers, RateLimitFunc(w) PROVE CompleteInv'
  <2> DEFINE t == [task[w] EXCEPT !.at = "flight"]
  <2>1. /\ t.at = "flight" /\ t.chain = task[w].chain /\ t.step = task[w].step
        /\ t.vars = task[w].vars /\ task' = [task EXCEPT ![w] = t]
        /\ task[w].at = "tick" /\ UNCHANGED <<ignore, lanes>>
    BY <1>0, <1>6 DEF RateLimitFunc, Goto, TaskOf
  <2> HIDE DEF t
  <2>2. ~ignore => Captures(t)
    BY <2>1 DEF CompleteInv, Captures
  <2> QED
    BY <1>0, <2>1, <2>2, CaptureChange
<1>7. ASSUME NEW w \in Workers, runPreflights(w) PROVE CompleteInv'
  BY <1>7, PreflightsCapture
<1>8. ASSUME NEW w \in Workers, Flight(w) PROVE CompleteInv'
  BY <1>8, FlightCaptures
<1>9. ASSUME NEW w \in Workers, Refuse(w) PROVE CompleteInv'
  BY <1>0, <1>9, FailsCapture DEF Refuse
<1>10. ASSUME NEW w \in Workers, Execute(w) PROVE CompleteInv'
  <2>1. CASE Fails(w) /\ UNCHANGED lanes
    BY <1>0, <1>10, <2>1, FailsCapture DEF Execute
  <2>2. CASE Answered(w) /\ Post = 0
    BY <1>0, <1>10, <2>2, IdleCaptures DEF Answered, Execute
  <2>3. CASE Answered(w) /\ Post > 0
    <3> DEFINE t == [task[w] EXCEPT !.chain = "post", !.step = 1,
                       !.lane = task[w].lane, !.vars = task[w].vars, !.at = "tick"]
    <3>1. /\ t.at = "tick" /\ t.chain = "post" /\ task' = [task EXCEPT ![w] = t]
          /\ UNCHANGED <<ignore, lanes>>
      BY <1>0, <1>10, <2>3 DEF Answered, StartChain, Execute, TaskOf
    <3> HIDE DEF t
    <3>2. Captures(t)
      BY <3>1 DEF Captures
    <3> QED
      BY <1>0, <3>1, <3>2, CaptureChange
  <2> QED
    BY <1>10, <2>1, <2>2, <2>3, RunnerAssumption DEF Execute
<1>11. ASSUME NEW w \in Workers, End(w) PROVE CompleteInv'
  <2>1. [Idle EXCEPT !.at = "idle"] = Idle
    BY DEF Idle
  <2> QED
    BY <1>0, <1>11, <2>1, IdleCaptures DEF End
<1> QED
  BY <1>2, <1>3, <1>4, <1>5, <1>6, <1>7, <1>8, <1>9, <1>10, <1>11 DEF Next, Step

(* With -preflight-error abort, however lanes are shared, initialised once and
   borrowed again after failures, no request is sent without what the whole
   chain should have captured. *)
THEOREM Complete == Spec => []AbortSendsComplete
<1>1. Init => CompleteInv
  BY DEF Init, CompleteInv, Captures, Idle
<1>2. CompleteInv => AbortSendsComplete
  BY DEF CompleteInv, Captures, AbortSendsComplete
<1> QED
  BY <1>1, <1>2, LanesInit, LanesStep, CompleteStep, PTL DEF Spec

-----------------------------------------------------------------------------
(* A request comes to its end. *)

(* Steps that are at most ahead of a goroutine in its attempt: one to wait for
   a tick and one to send for each request of a chain, and one to borrow a
   lane, to send the request and to return to the pool. *)
After(chain) == IF chain = "pre" THEN 2 * Post + 1 ELSE 0

Attempt == 2 * (Chain + Post) + 3

Left(t) ==
  CASE t.at = "idle"   -> 0
    [] t.at = "lane"   -> Attempt
    [] t.at = "tick"   -> 2 * (Steps(t.chain) - t.step) + 3 + After(t.chain)
    [] t.at = "flight" -> 2 * (Steps(t.chain) - t.step) + 2 + After(t.chain)
    [] t.at = "send"   -> 2 * Post + 2
    [] t.at = "end"    -> 1

(* A second attempt is ahead of the first one. *)
Ahead(t) ==
  Left(t) + IF t.at \notin {"idle", "end"} /\ t.attempt = 1 THEN Attempt ELSE 0

(* What is ahead of a goroutine, and that it gets less with each of its steps. *)
BoundedAhead == \A w \in Workers : Ahead(task[w]) \in 0 .. (2 * Attempt)
GetsOn == \A w \in Workers : task'[w] # task[w] /\ task[w].at # "idle" =>
                               Ahead(task'[w]) < Ahead(task[w])

(* A step of w that leaves less ahead of it. *)
Lowers(w) == \E t : task' = [task EXCEPT ![w] = t] /\ Ahead(t) < Ahead(task[w])

Again(t) == IF t.attempt = 1 THEN Attempt ELSE 0

(* What is ahead of a goroutine, place by place. *)
LEMMA AheadOf ==
  ASSUME NEW t
  PROVE  /\ t.at = "idle" => Ahead(t) = 0
         /\ t.at = "end" => Ahead(t) = 1
         /\ t.at = "lane" => Ahead(t) = Attempt + Again(t)
         /\ t.at = "send" => Ahead(t) = 2 * Post + 2 + Again(t)
         /\ t.at = "tick" =>
              Ahead(t) = 2 * (Steps(t.chain) - t.step) + 3 + After(t.chain) + Again(t)
         /\ t.at = "flight" =>
              Ahead(t) = 2 * (Steps(t.chain) - t.step) + 2 + After(t.chain) + Again(t)
<1>1. Again(t) \in Int /\ Attempt \in Int
  BY RunnerAssumption DEF Again, Attempt
<1>2. t.at = "idle" => Left(t) = 0 /\ Ahead(t) = Left(t) + 0
  BY DEF Ahead, Left
<1>3. t.at = "end" => Left(t) = 1 /\ Ahead(t) = Left(t) + 0
  BY DEF Ahead, Left
<1>4. t.at \notin {"idle", "end"} => Ahead(t) = Left(t) + Again(t)
  BY DEF Ahead, Again
<1>5. /\ t.at = "lane" => Left(t) = Attempt
      /\ t.at = "send" => Left(t) = 2 * Post + 2
  BY DEF Left
<1>6. t.at = "tick" => Left(t) = 2 * (Steps(t.chain) - t.step) + 3 + After(t.chain)
  BY DEF Left
<1>7. t.at = "flight" => Left(t) = 2 * (Steps(t.chain) - t.step) + 2 + After(t.chain)
  BY DEF Left
<1> QED
  BY <1>1, <1>2, <1>3, <1>4, <1>5, <1>6, <1>7

(* A goroutine in a chain has some of its steps, and what follows the chain,
   ahead of it. *)
LEMMA AheadInChain ==
  ASSUME NEW n \in Nat, NEW t \in TaskOf(n), t.at \in {"tick", "flight"},
         t.step <= Steps(t.chain)
  PROVE  /\ t.step \in Nat /\ Steps(t.chain) \in Nat /\ After(t.chain) \in Nat
         /\ Again(t) \in Nat /\ Attempt \in Nat /\ Ahead(t) \in Nat
         /\ Ahead(t) >= After(t.chain) + Again(t) + 2
         /\ Ahead(t) < Attempt + Again(t)
         /\ t.chain = "pre" => After(t.chain) = 2 * Post + 1
<1>1. /\ t.step \in Nat \ {0} /\ t.chain \in {"pre", "post"}
      /\ Chain \in Nat /\ Post \in Nat
  BY RunnerAssumption DEF TaskOf
<1>2. /\ t.chain = "pre" => Steps(t.chain) = Chain /\ After(t.chain) = 2 * Post + 1
      /\ t.chain # "pre" => Steps(t.chain) = Post /\ After(t.chain) = 0
  BY DEF Steps, After
<1>3. Attempt = 2 * (Chain + Post) + 3 /\ Again(t) \in {0, Attempt}
  BY DEF Again, Attempt
<1>4. \/ Ahead(t) = 2 * (Steps(t.chain) - t.step) + 3 + After(t.chain) + Again(t)
      \/ Ahead(t) = 2 * (Steps(t.chain) - t.step) + 2 + After(t.chain) + Again(t)
  BY AheadOf
<1> DEFINE s == Steps(t.chain)  f == After(t.chain)  g == Again(t)  a == Ahead(t)
           c == Attempt
<1>5. /\ s \in Nat /\ f \in Nat /\ g \in Nat /\ c \in Nat /\ a \in Nat
      /\ a >= f + g + 2 /\ a < c + g
  <2>1. /\ s \in Nat /\ f \in Nat /\ 2 * s + f <= 2 * Chain + 2 * Post + 1
        /\ t.step \in Nat \ {0} /\ t.step <= s
    BY <1>1, <1>2
  <2>2. c \in Nat /\ c = 2 * Chain + 2 * Post + 3 /\ g \in Nat
    BY <1>1, <1>3
  <2>3. a = 2 * (s - t.step) + 3 + f + g \/ a = 2 * (s - t.step) + 2 + f + g
    BY <1>4
  <2> HIDE DEF s, f, g, a, c
  <2> QED
    BY <1>1, <2>1, <2>2, <2>3
<1> QED
  BY <1>1, <1>2, <1>5

LEMMA AheadBound ==
  ASSUME NEW n \in Nat, NEW t \in TaskOf(n),
         t.at \in {"tick", "flight"} => t.step <= Steps(t.chain)
  PROVE  Ahead(t) \in 0 .. (2 * Attempt)
<1>1. /\ Attempt \in Nat /\ Again(t) \in {0, Attempt} /\ 2 * Post + 2 <= Attempt
      /\ Chain \in Nat /\ Post \in Nat /\ Attempt >= 1
  BY RunnerAssumption DEF Attempt, Again
<1>2. CASE t.at \in {"tick", "flight"}
  <2> DEFINE g == Again(t)  a == Ahead(t)
  <2>1. a \in Nat /\ a < Attempt + g
    BY <1>2, AheadInChain
  <2>2. g \in {0, Attempt}
    BY <1>1
  <2>3. a \in 0 .. (2 * Attempt)
    <3> HIDE DEF g, a
    <3> QED
      BY <1>1, <2>1, <2>2
  <2> QED
    BY <2>3
<1>3. CASE t.at \in {"idle", "end"}
  <2>1. Ahead(t) \in {0, 1}
    BY <1>3, AheadOf
  <2> QED
    BY <1>1, <2>1
<1>4. CASE t.at \in {"lane", "send"}
  <2> DEFINE g == Again(t)  a == Ahead(t)
  <2>1. a = Attempt + g \/ a = 2 * Post + 2 + g
    BY <1>4, AheadOf
  <2>2. g \in {0, Attempt}
    BY <1>1
  <2>3. a \in 0 .. (2 * Attempt)
    <3> HIDE DEF g, a
    <3> QED
      BY <1>1, <2>1, <2>2
  <2> QED
    BY <2>3
<1> QED
  BY <1>2, <1>3, <1>4 DEF TaskOf, Places

(* A failure, the first time, leaves an attempt ahead of what had one more. *)
LEMMA FailsLowers ==
  ASSUME NEW w \in Workers, NEW n \in Nat, task[w] \in TaskOf(n), Fails(w),
         Ahead(task[w]) \in Int, Ahead(task[w]) >= Again(task[w]) + 2
  PROVE  Lowers(w)
<1> DEFINE p == IF task[w].attempt = 1 THEN "lane" ELSE "end"
           t == [Idle EXCEPT !.at = p, !.attempt = 2]
<1>1. t.at = p /\ t.attempt = 2 /\ task' = [task EXCEPT ![w] = t]
  BY DEF Fails, Idle
<1>2. Attempt \in Nat /\ Again(task[w]) \in {0, Attempt}
  BY RunnerAssumption DEF Attempt, Again
<1> HIDE DEF t
<1>3. CASE task[w].attempt = 1
  <2>1. Ahead(t) = Attempt + 0 /\ Again(task[w]) = Attempt
    BY <1>1, <1>3, AheadOf DEF Again
  <2>2. Ahead(t) < Ahead(task[w])
    BY <1>2, <2>1
  <2> QED
    BY <1>1, <2>2 DEF Lowers
<1>4. CASE task[w].attempt # 1
  <2>1. Ahead(t) = 1 /\ Again(task[w]) = 0
    BY <1>1, <1>4, AheadOf DEF Again
  <2>2. Ahead(t) < Ahead(task[w])
    BY <2>1
  <2> QED
    BY <1>1, <2>2 DEF Lowers
<1> QED
  BY <1>3, <1>4

LEMMA EndsLowers ==
  ASSUME NEW w \in Workers, NEW p \in {"end", "idle"},
         task' = [task EXCEPT ![w] = [Idle EXCEPT !.at = p]],
         Ahead(task[w]) \in Int,
         Ahead(task[w]) >= IF p = "end" THEN 2 ELSE 1
  PROVE  Lowers(w)
<1> DEFINE t == [Idle EXCEPT !.at = p]
<1>1. t.at = p
  BY DEF Idle
<1>2. task' = [task EXCEPT ![w] = t]
  OBVIOUS
<1> HIDE DEF t
<1>3. CASE p = "end"
  <2>1. Ahead(t) = 1
    BY <1>1, <1>3, AheadOf
  <2>2. Ahead(t) < Ahead(task[w])
    BY <1>3, <2>1
  <2> QED
    BY <1>2, <2>2 DEF Lowers
<1>4. CASE p = "idle"
  <2>1. Ahead(t) = 0
    BY <1>1, <1>4, AheadOf
  <2>2. Ahead(t) < Ahead(task[w])
    BY <1>4, <2>1
  <2> QED
    BY <1>2, <2>2 DEF Lowers
<1> QED
  BY <1>3, <1>4

LEMMA ChainOverLowers ==
  ASSUME NEW w \in Workers, NEW n \in Nat, task[w] \in TaskOf(n),
         task[w].at \in {"tick", "flight"}, task[w].step <= Steps(task[w].chain),
         NEW v, ChainOver(w, v)
  PROVE  Lowers(w)
<1> DEFINE a == Ahead(task[w])
<1>1. /\ a \in Nat /\ a >= After(task[w].chain) + Again(task[w]) + 2
      /\ After(task[w].chain) \in Nat /\ Again(task[w]) \in Nat
      /\ task[w].chain = "pre" => After(task[w].chain) = 2 * Post + 1
  BY AheadInChain
<1>2. CASE task[w].chain = "post"
  <2>1. a >= 2
    BY <1>1
  <2> QED
    BY <1>1, <1>2, <2>1, EndsLowers DEF ChainOver
<1>3. CASE task[w].chain # "post"
  <2> DEFINE t == [task[w] EXCEPT !.at = "send", !.vars = v]
  <2>1. /\ t.at = "send" /\ t.attempt = task[w].attempt
        /\ task' = [task EXCEPT ![w] = t] /\ task[w].chain = "pre"
    BY <1>3 DEF ChainOver, TaskOf
  <2> HIDE DEF t
  <2>2. Again(t) = Again(task[w])
    BY <2>1 DEF Again
  <2>3. Ahead(t) = 2 * Post + 2 + Again(t)
    BY <2>1, AheadOf
  <2>4. Ahead(t) < a
    <3> DEFINE g == Again(task[w])  f == After(task[w].chain)
    <3>1. /\ g \in Nat /\ f = 2 * Post + 1 /\ a \in Nat /\ a >= f + g + 2
          /\ Ahead(t) = 2 * Post + 2 + g
      BY <1>1, <2>1, <2>2, <2>3
    <3> HIDE DEF g, f, a
    <3> QED
      BY <3>1, RunnerAssumption
  <2> QED
    BY <2>1, <2>4 DEF Lowers
<1> QED
  BY <1>2, <1>3

LEMMA ChainErrorLowers ==
  ASSUME NEW w \in Workers, NEW n \in Nat, task[w] \in TaskOf(n),
         task[w].at \in {"tick", "flight"}, task[w].step <= Steps(task[w].chain),
         ChainError(w)
  PROVE  Lowers(w)
<1>1. CASE ignore \/ task[w].chain = "post"
  BY <1>1, ChainOverLowers DEF ChainError
<1>2. CASE ~(ignore \/ task[w].chain = "post")
  <2> DEFINE a == Ahead(task[w])  f == After(task[w].chain)  g == Again(task[w])
  <2>1. a \in Nat /\ f \in Nat /\ g \in Nat /\ a >= f + g + 2
    BY AheadInChain
  <2>2. a >= g + 2
    <3> HIDE DEF a, f, g
    <3> QED
      BY <2>1
  <2>3. Ahead(task[w]) \in Int /\ Ahead(task[w]) >= Again(task[w]) + 2
    BY <2>1, <2>2
  <2> QED
    BY <1>2, <2>3, FailsLowers DEF ChainError
<1> QED
  BY <1>1, <1>2

LEMMA StepOverLowers ==
  ASSUME NEW w \in Workers, NEW n \in Nat, task[w] \in TaskOf(n),
         task[w].at = "flight", task[w].step <= Steps(task[w].chain),
         NEW v, StepOver(w, v)
  PROVE  Lowers(w)
<1>1. CASE task[w].step = Steps(task[w].chain)
  BY <1>1, ChainOverLowers DEF StepOver
<1>2. CASE task[w].step # Steps(task[w].chain)
  <2> DEFINE t == [task[w] EXCEPT !.at = "tick", !.step = @ + 1, !.vars = v]
  <2>1. /\ t.at = "tick" /\ t.attempt = task[w].attempt
        /\ t.chain = task[w].chain /\ t.step = task[w].step + 1
        /\ task' = [task EXCEPT ![w] = t]
    BY <1>2 DEF StepOver, TaskOf
  <2> HIDE DEF t
  <2> DEFINE s == Steps(task[w].chain)  f == After(task[w].chain)  g == Again(task[w])
             i == task[w].step
  <2>2. s \in Nat /\ f \in Nat /\ g \in Nat /\ i \in Nat
    BY AheadInChain
  <2>3. Ahead(task[w]) = 2 * (s - i) + 2 + f + g
    BY AheadOf
  <2>4. Ahead(t) = 2 * (s - (i + 1)) + 3 + f + g
    <3>1. Again(t) = g
      BY <2>1 DEF Again
    <3> QED
      BY <2>1, <3>1, AheadOf
  <2>5. Ahead(t) < Ahead(task[w])
    <3> HIDE DEF s, f, g, i
    <3> QED
      BY <2>2, <2>3, <2>4
  <2> QED
    BY <2>1, <2>5 DEF Lowers
<1> QED
  BY <1>1, <1>2

LEMMA FlightLowers ==
  ASSUME LanesInv, NEW w \in Workers, Flight(w)
  PROVE  Lowers(w)
<1>1. /\ Len(lanes) \in Nat /\ task[w] \in TaskOf(Len(lanes))
      /\ task[w].at = "flight" /\ task[w].step <= Steps(task[w].chain)
  BY TaskFacts DEF LanesInv, TaskInv, Flight
<1>2. \/ \E v : StepOver(w, v)
      \/ ChainError(w)
  BY DEF Flight
<1> QED
  BY <1>1, <1>2, StepOverLowers, ChainErrorLowers

LEMMA TickLowers ==
  ASSUME LanesInv, NEW w \in Workers, RateLimitFunc(w)
  PROVE  Lowers(w)
<1> DEFINE t == [task[w] EXCEPT !.at = "flight"]
<1>1. /\ Len(lanes) \in Nat /\ task[w] \in TaskOf(Len(lanes))
      /\ task[w].at = "tick" /\ task[w].step <= Steps(task[w].chain)
  BY TaskFacts DEF LanesInv, TaskInv, RateLimitFunc
<1>2. /\ t.at = "flight" /\ t.attempt = task[w].attempt
      /\ t.chain = task[w].chain /\ t.step = task[w].step
      /\ task' = [task EXCEPT ![w] = t]
  BY <1>1 DEF RateLimitFunc, Goto, TaskOf
<1> HIDE DEF t
<1> DEFINE s == Steps(task[w].chain)  f == After(task[w].chain)  g == Again(task[w])
           i == task[w].step
<1>3. s \in Nat /\ f \in Nat /\ g \in Nat /\ i \in Nat
  BY <1>1, AheadInChain
<1>4. Ahead(task[w]) = 2 * (s - i) + 3 + f + g
  BY <1>1, AheadOf
<1>5. Ahead(t) = 2 * (s - i) + 2 + f + g
  <2>1. Again(t) = g
    BY <1>2 DEF Again
  <2> QED
    BY <1>2, <2>1, AheadOf
<1>6. Ahead(t) < Ahead(task[w])
  <2> HIDE DEF s, f, g, i
  <2> QED
    BY <1>3, <1>4, <1>5
<1> QED
  BY <1>2, <1>6 DEF Lowers

LEMMA ExecuteLowers ==
  ASSUME LanesInv, NEW w \in Workers, Execute(w) \/ Refuse(w)
  PROVE  Lowers(w)
<1>1. /\ Len(lanes) \in Nat /\ task[w] \in TaskOf(Len(lanes))
      /\ task[w].at = "send" /\ Post \in Nat
  BY TaskFacts, RunnerAssumption DEF Execute, Refuse
<1>2. /\ Ahead(task[w]) = 2 * Post + 2 + Again(task[w])
      /\ Again(task[w]) \in Nat
  BY <1>1, AheadOf, RunnerAssumption DEF Again, Attempt
<1>3. /\ Ahead(task[w]) \in Nat
      /\ Ahead(task[w]) >= Again(task[w]) + 2 /\ Ahead(task[w]) >= 2
  BY <1>1, <1>2
<1>4. CASE Fails(w)
  BY <1>1, <1>3, <1>4, FailsLowers
<1>5. CASE Answered(w) /\ Post > 0
  <2> DEFINE t == [task[w] EXCEPT !.chain = "post", !.step = 1,
                     !.lane = task[w].lane, !.vars = task[w].vars, !.at = "tick"]
  <2>1. /\ t.at = "tick" /\ t.chain = "post" /\ t.step = 1
        /\ t.attempt = task[w].attempt /\ task' = [task EXCEPT ![w] = t]
    BY <1>1, <1>5 DEF Answered, StartChain, TaskOf
  <2> HIDE DEF t
  <2>2. Again(t) = Again(task[w]) /\ Steps(t.chain) = Post /\ After(t.chain) = 0
    BY <2>1 DEF Again, Steps, After
  <2>3. Ahead(t) = 2 * (Post - 1) + 3 + 0 + Again(task[w])
    BY <2>1, <2>2, AheadOf
  <2>4. Ahead(t) < Ahead(task[w])
    BY <1>1, <1>2, <2>3
  <2> QED
    BY <2>1, <2>4 DEF Lowers
<1>6. CASE Answered(w) /\ ~(Post > 0)
  BY <1>3, <1>6, EndsLowers DEF Answered
<1> QED
  BY <1>4, <1>5, <1>6 DEF Execute, Refuse

LEMMA PreflightsLower ==
  ASSUME LanesInv, NEW w \in Workers, runPreflights(w)
  PROVE  Lowers(w)
<1>1. /\ Len(lanes) \in Nat /\ task[w] \in TaskOf(Len(lanes))
      /\ task[w].at = "lane" /\ Post \in Nat /\ Chain \in Nat
  BY TaskFacts, RunnerAssumption DEF runPreflights
<1>2. /\ Ahead(task[w]) = Attempt + Again(task[w]) /\ Again(task[w]) \in Nat
      /\ Attempt = 2 * (Chain + Post) + 3
  BY <1>1, AheadOf, RunnerAssumption DEF Again, Attempt
<1>3. ASSUME NEW t, task' = [task EXCEPT ![w] = t], t.attempt = task[w].attempt,
             t.at = "send"
      PROVE  Lowers(w)
  <2>1. Again(t) = Again(task[w])
    BY <1>3 DEF Again
  <2>2. Ahead(t) = 2 * Post + 2 + Again(task[w])
    BY <1>3, <2>1, AheadOf
  <2>3. Ahead(t) < Ahead(task[w])
    BY <1>1, <1>2, <2>2
  <2> QED
    BY <1>3, <2>3 DEF Lowers
<1>4. ASSUME NEW l, NEW v, StartChain(w, "pre", l, v), Chain # 0
      PROVE  Lowers(w)
  <2> DEFINE t == [task[w] EXCEPT !.chain = "pre", !.step = 1, !.lane = l,
                                  !.vars = v, !.at = "tick"]
  <2>1. /\ t.at = "tick" /\ t.chain = "pre" /\ t.step = 1
        /\ t.attempt = task[w].attempt /\ task' = [task EXCEPT ![w] = t]
    BY <1>1, <1>4 DEF StartChain, TaskOf
  <2> HIDE DEF t
  <2>2. /\ Again(t) = Again(task[w]) /\ Steps(t.chain) = Chain
        /\ After(t.chain) = 2 * Post + 1
    BY <2>1 DEF Again, Steps, After
  <2>3. Ahead(t) = 2 * (Chain - 1) + 3 + (2 * Post + 1) + Again(task[w])
    BY <2>1, <2>2, AheadOf
  <2>4. Ahead(t) < Ahead(task[w])
    BY <1>1, <1>2, <2>3
  <2> QED
    BY <2>1, <2>4 DEF Lowers
<1>5. CASE Chain = 0
  <2> DEFINE t == [task[w] EXCEPT !.at = "send"]
  <2>1. /\ t.at = "send" /\ t.attempt = task[w].attempt
        /\ task' = [task EXCEPT ![w] = t]
    BY <1>1, <1>5 DEF runPreflights, Goto, TaskOf
  <2> HIDE DEF t
  <2> QED
    BY <1>3, <2>1
<1>6. CASE Chain # 0 /\ ~perThread
  BY <1>4, <1>6 DEF runPreflights
<1>7. CASE Chain # 0 /\ perThread
  <2>1. PICK l \in 1..(Len(lanes) + 1) :
          IF lanes'[l].initialized
          THEN task' = [task EXCEPT ![w].at = "send", ![w].lane = l,
                                    ![w].vars = lanes'[l].vars]
          ELSE StartChain(w, "pre", l, Vars({}, FALSE, l))
    BY <1>7 DEF runPreflights
  <2>2. CASE lanes'[l].initialized
    <3> DEFINE t == [task[w] EXCEPT !.at = "send", !.lane = l,
                                    !.vars = lanes'[l].vars]
    <3>0. task \in [Workers -> TaskOf(Len(lanes))]
      BY DEF LanesInv, TaskInv
    <3>1. /\ t.at = "send" /\ t.attempt = task[w].attempt
          /\ task' = [task EXCEPT ![w] = t]
      BY <1>1, <2>1, <2>2, <3>0 DEF TaskOf
    <3> HIDE DEF t
    <3> QED
      BY <1>3, <3>1
  <2>3. CASE ~lanes'[l].initialized
    BY <1>4, <1>7, <2>1, <2>3
  <2> QED
    BY <2>2, <2>3
<1> QED
  BY <1>5, <1>6, <1>7

LEMMA LowersGetsOn ==
  ASSUME LanesInv, NEW w \in Workers, Lowers(w)
  PROVE  GetsOn
<1>1. PICK t : task' = [task EXCEPT ![w] = t] /\ Ahead(t) < Ahead(task[w])
  BY DEF Lowers
<1>2. \A v \in Workers : task'[v] = IF v = w THEN t ELSE task[v]
  BY <1>1 DEF LanesInv, TaskInv
<1> QED
  BY <1>1, <1>2 DEF GetsOn

LEMMA GetsOnStep == LanesInv /\ [Next]_vars => GetsOn
<1> SUFFICES ASSUME LanesInv, [Next]_vars PROVE GetsOn
  OBVIOUS
<1>1. ASSUME NEW w \in Workers, BuildFails(w) PROVE GetsOn
  <2>1. /\ Len(lanes) \in Nat /\ task[w] \in TaskOf(Len(lanes))
        /\ task[w].at = "tick" /\ task[w].step <= Steps(task[w].chain)
    BY <1>1, TaskFacts DEF LanesInv, TaskInv, BuildFails
  <2>2. Lowers(w)
    BY <1>1, <2>1, ChainErrorLowers DEF BuildFails
  <2> QED
    BY <2>2, LowersGetsOn
<1>2. ASSUME NEW w \in Workers, RateLimitFunc(w) PROVE GetsOn
  BY <1>2, TickLowers, LowersGetsOn
<1>3. ASSUME NEW w \in Workers, Dispatch(w) PROVE GetsOn
  <2>1. \A v \in Workers \ {w} : task'[v] = task[v]
    BY <1>3 DEF Dispatch, LanesInv, TaskInv
  <2>2. task[w].at = "idle"
    BY <1>3 DEF Dispatch
  <2> QED
    BY <2>1, <2>2 DEF GetsOn
<1>4. ASSUME NEW w \in Workers, End(w) PROVE GetsOn
  <2>1. [Idle EXCEPT !.at = "idle"] = Idle
    BY DEF Idle
  <2>2. Ahead(task[w]) = 1
    BY <1>4, AheadOf DEF End
  <2>3. task' = [task EXCEPT ![w] = [Idle EXCEPT !.at = "idle"]]
    BY <1>4, <2>1 DEF End
  <2>4. Ahead(task[w]) \in Int /\ Ahead(task[w]) >= IF "idle" = "end" THEN 2 ELSE 1
    BY <2>2
  <2>5. Lowers(w)
    BY <2>3, <2>4, EndsLowers
  <2> QED
    BY <2>5, LowersGetsOn
<1>5. ASSUME NEW w \in Workers, Step(w) PROVE GetsOn
  BY <1>4, <1>5, PreflightsLower, FlightLowers, ExecuteLowers, LowersGetsOn DEF Step
<1>6. CASE UNCHANGED task
  BY <1>6 DEF GetsOn
<1>7. CASE TickerFires \/ AllDone \/ UNCHANGED vars \/ \E r \in Rates : ChangeRate(r)
  BY <1>6, <1>7 DEF TickerFires, AllDone, ChangeRate, vars
<1> QED
  BY <1>1, <1>2, <1>3, <1>5, <1>7 DEF Next

(* However its chains fail and its lane is borrowed anew, a request that was
   dispatched is over after a bounded number of steps of its goroutine: each
   one gets it on, and nothing that another goroutine, the ticker or the
   console does throws it back.  That the goroutine always comes to take these
   steps is what TasksEnd adds, under fairness. *)
THEOREM EveryStepCounts == Spec => [](BoundedAhead) /\ [][GetsOn]_vars
<1>1. LanesInv => BoundedAhead
  <2> SUFFICES ASSUME LanesInv, NEW w \in Workers
               PROVE  Ahead(task[w]) \in 0 .. (2 * Attempt)
    BY DEF BoundedAhead
  <2>1. /\ Len(lanes) \in Nat /\ task[w] \in TaskOf(Len(lanes))
        /\ task[w].at \in {"tick", "flight"} => task[w].step <= Steps(task[w].chain)
    BY TaskFacts DEF LanesInv, TaskInv
  <2> QED
    BY <2>1, AheadBound
<1> QED
  BY <1>1, LanesInit, LanesStep, GetsOnStep, PTL DEF Spec
=============================================================================
