----------------------------- MODULE ResultProofs -----------------------------
(***************************************************************************)
(* The matches that ffuf holds and the console over them, for any number   *)
(* of slots, requests, jobs and commands, and any filters.                 *)
(***************************************************************************)
EXTENDS ResultStore, FiniteSetTheorems, SequenceTheorems, WellFoundedInduction,
        TLAPS

Printing == {s \in Slots : At(s) = "print"}

(* While the console is open the slots that are about to print are those that
   will still be late: recording adds none. *)
QuietInv ==
  /\ paused \in BOOLEAN /\ late \in Nat
  /\ tasks \in [Slots -> {Free} \cup [at : {"match", "print"}, id : Nat]
                  \cup [at : {"record"}, id : Nat, resp : Response]]
  /\ requests \in Nat
  /\ late <= Cardinality(Slots)
  /\ paused => late + Cardinality(Printing) <= Cardinality(Slots)

LEMMA PrintingCount ==
  /\ Cardinality(Slots) \in Nat
  /\ Printing \subseteq Slots /\ IsFiniteSet(Printing)
  /\ Cardinality(Printing) \in Nat
  /\ Cardinality(Printing) <= Cardinality(Slots)
<1>1. Printing \subseteq Slots /\ IsFiniteSet(Slots)
  BY ResultAssumption DEF Printing
<1> QED
  BY <1>1, FS_Subset, FS_CardinalityType

(* A step of a slot that does not begin to print. *)
LEMMA FewerPrint ==
  ASSUME \A s \in Slots : tasks'[s].at = "print" => tasks[s].at = "print"
  PROVE  /\ Cardinality(Printing') \in Nat
         /\ Cardinality(Printing') <= Cardinality(Printing)
<1>1. Printing' \subseteq Printing
  BY DEF Printing, At
<1> QED
  BY <1>1, PrintingCount, FS_Subset, FS_CardinalityType

LEMMA QuietStep == QuietInv /\ [Next]_vars => QuietInv'
<1> SUFFICES ASSUME QuietInv, [Next]_vars PROVE QuietInv'
  OBVIOUS
<1>1. ASSUME UNCHANGED <<tasks, late, requests>>, paused' \in BOOLEAN,
             paused' => paused
      PROVE  QuietInv'
  BY <1>1, PrintingCount DEF QuietInv, Printing, At
<1>2. CASE NextJob \/ Finalize \/ Stop \/ Exited \/ UNCHANGED vars
  BY <1>1, <1>2 DEF NextJob, Finalize, Stop, Exited, vars, history, QuietInv
<1>3. CASE EnterCommand
  <2>1. UNCHANGED <<tasks, requests>> /\ paused' = TRUE /\ late' = 0
    BY <1>3 DEF EnterCommand, job, SetPaused
  <2>2. Cardinality(Printing)' <= Cardinality(Slots)
    BY <2>1, PrintingCount DEF Printing, At
  <2>3. Cardinality(Printing)' \in Nat
    BY <2>1, PrintingCount DEF Printing, At
  <2> QED
    BY <2>1, <2>2, <2>3, PrintingCount DEF QuietInv
<1>4. CASE Unpause
  BY <1>1, <1>4 DEF Unpause, SetPaused, job, history
<1>5. CASE \/ Pause \/ ResumeCommand \/ RestartCommand \/ Resume
           \/ UpdateFilter \/ RefreshResults
  BY <1>1, <1>5 DEF Pause, ResumeCommand, RestartCommand, Resume,
     UpdateFilter, RefreshResults, job, history, QuietInv
<1>6. ASSUME NEW s \in Slots, Task(s) PROVE QuietInv'
  <2> DEFINE Types == {Free} \cup [at : {"match", "print"}, id : Nat]
                        \cup [at : {"record"}, id : Nat, resp : Response]
  <2>1. ASSUME NEW t \in Types, tasks' = [tasks EXCEPT ![s] = t],
               t.at = "print" => ~paused, UNCHANGED paused, requests' \in Nat,
               \/ late' = late
               \/ late' = late + 1 /\ paused /\ tasks[s].at = "print"
        PROVE  QuietInv'
    <3>1. /\ tasks' \in [Slots -> Types]
          /\ \A v \in Slots : tasks'[v] = IF v = s THEN t ELSE tasks[v]
      BY <2>1 DEF QuietInv
    <3>2. CASE ~paused
      BY <2>1, <3>1, <3>2 DEF QuietInv
    <3>3. CASE paused /\ late' = late
      BY <2>1, <3>1, <3>3, FewerPrint, PrintingCount DEF QuietInv
    <3>4. CASE paused /\ late' = late + 1 /\ tasks[s].at = "print"
      <4>1. Printing' \subseteq Printing \ {s} /\ s \in Printing
        BY <2>1, <3>1, <3>4 DEF Printing, At
      <4>2. /\ IsFiniteSet(Printing \ {s})
            /\ Cardinality(Printing \ {s}) = Cardinality(Printing) - 1
        BY <4>1, PrintingCount, FS_RemoveElement
      <4>3. /\ Cardinality(Printing') \in Nat
            /\ Cardinality(Printing') <= Cardinality(Printing) - 1
        BY <4>1, <4>2, FS_Subset, FS_CardinalityType
      <4> QED
        BY <2>1, <3>1, <3>4, <4>3, PrintingCount DEF QuietInv
    <3> QED
      BY <2>1, <3>2, <3>3, <3>4 DEF QuietInv
  <2>2. Free \in Types /\ Free.at # "print"
    BY DEF Free
  <2>3. tasks[s] \in Types /\ requests \in Nat /\ paused \in BOOLEAN
    BY DEF QuietInv
  <2>4. CASE PassGate(s)
    <3>1. requests' \in Nat
      BY <2>3, <2>4 DEF PassGate
    <3> DEFINE t == [at |-> "match", id |-> requests']
    <3>2. t \in Types /\ t.at # "print" /\ tasks' = [tasks EXCEPT ![s] = t]
      BY <2>4, <3>1 DEF PassGate
    <3> QED
      BY <2>1, <2>4, <3>1, <3>2 DEF PassGate, history
  <2>5. CASE Decide(s)
    <3>1. tasks[s].id \in Nat
      BY <2>3, <2>5 DEF Decide, At, Free
    <3>2. PICK r \in Response :
            tasks' = [tasks EXCEPT ![s] =
              IF FilteredOut(filters, r) THEN Free
              ELSE [at |-> "record", id |-> tasks[s].id, resp |-> r]]
      BY <2>5 DEF Decide
    <3>3. PICK t \in Types : t.at # "print" /\ tasks' = [tasks EXCEPT ![s] = t]
      BY <2>2, <3>1, <3>2
    <3> QED
      BY <2>1, <2>3, <2>5, <3>3 DEF Decide, job, history
  <2>6. CASE Record(s)
    <3>1. tasks[s].id \in Nat
      BY <2>3, <2>6 DEF Record, At, Free
    <3>2. PICK t \in Types : /\ t.at = "print" => ~paused
                             /\ tasks' = [tasks EXCEPT ![s] = t]
      BY <2>2, <2>3, <2>6, <3>1 DEF Record
    <3> QED
      BY <2>1, <2>3, <2>6, <3>2 DEF Record, job, history
  <2>7. CASE PrintResult(s)
    BY <2>1, <2>2, <2>3, <2>7 DEF PrintResult, At, job
  <2> QED
    BY <1>6, <2>4, <2>5, <2>6, <2>7 DEF Task
<1> QED
  BY <1>2, <1>3, <1>4, <1>5, <1>6 DEF Next, Console

(* Requests that passed the checkpoint print into an open console at most once
   for each slot, whatever is typed (stdout.go:439-445). *)
THEOREM Quiet == Spec => []QuietConsole
<1>1. Init => QuietInv
  <2> SUFFICES ASSUME Init PROVE QuietInv
    OBVIOUS
  <2>1. ~paused /\ paused \in BOOLEAN /\ late = 0 /\ requests = 0
    BY DEF Init
  <2>2. tasks \in [Slots -> {Free} \cup [at : {"match", "print"}, id : Nat]
                    \cup [at : {"record"}, id : Nat, resp : Response]]
    BY DEF Init
  <2>3. late <= Cardinality(Slots)
    BY <2>1, PrintingCount
  <2> QED
    BY <2>1, <2>2, <2>3 DEF QuietInv
<1>2. QuietInv => QuietConsole
  BY DEF QuietInv, QuietConsole
<1> QED
  BY <1>1, <1>2, QuietStep, PTL DEF Spec
-----------------------------------------------------------------------------
(* Induction over the naturals, for a set. *)
LEMMA SetInduction ==
  ASSUME NEW S, 0 \in S, \A n \in Nat : n \in S => n + 1 \in S
  PROVE  Nat \subseteq S
<1> SUFFICES ASSUME Nat \ S # {} PROVE FALSE
  OBVIOUS
<1>1. PICK x \in Nat \ S : \A y \in Nat \ S : ~(<<y, x>> \in OpToRel(<, Nat))
  BY WFMin, NatLessThanWellFounded
<1>2. \A y \in Nat \ S : ~(y < x)
  BY <1>1 DEF OpToRel
<1>3. x - 1 \in Nat /\ x - 1 < x /\ (x - 1) + 1 = x
  BY x # 0
<1> QED
  BY <1>2, <1>3

(* The positions of a list that a refresh keeps. *)
Good(list, f) == {i \in DOMAIN list : Survives(f, list[i].resp)}

(* The refresh keeps, in their order, the matches at the positions that
   survive, and no others. *)
LEMMA KeptFacts ==
  ASSUME NEW S, NEW list \in Seq(S), NEW f
  PROVE  /\ Kept(list, f) \in Seq(S)
         /\ \E e \in [DOMAIN Kept(list, f) -> Good(list, f)] :
              /\ \A i, k \in DOMAIN Kept(list, f) : i < k => e[i] < e[k]
              /\ \A i \in DOMAIN Kept(list, f) : Kept(list, f)[i] = list[e[i]]
              /\ \A j \in Good(list, f) : \E i \in DOMAIN Kept(list, f) : e[i] = j
<1> DEFINE N == Len(list)
           Step(g, n) == IF n = 0 THEN <<>>
                         ELSE IF Survives(f, list[n].resp)
                         THEN Append(g[n - 1], list[n]) ELSE g[n - 1]
           Loop(g) == [n \in 0..N |-> Step(g, n)]
           h == CHOOSE g : g = Loop(g)
<1>1. Kept(list, f) = h[N]
  BY DEF Kept
<1>2. N \in Nat /\ DOMAIN list = 1..N
  OBVIOUS
<1> HIDE DEF N
<1>3. \E g : g = Loop(g)
  <2> DEFINE Prefix(m, g) == \A n \in 0..m : g[n] = Step(g, n)
             T == {m \in Nat : m <= N => \E g : g = [n \in 0..m |-> g[n]] /\ Prefix(m, g)}
  <2>1. 0 \in T
    <3> DEFINE g == [n \in 0..0 |-> <<>>]
    <3>1. g = [n \in 0..0 |-> g[n]] /\ Prefix(0, g)
      OBVIOUS
    <3> QED BY <3>1
  <2>2. ASSUME NEW m \in Nat, m \in T PROVE m + 1 \in T
    <3> SUFFICES ASSUME m + 1 <= N
                 PROVE  \E g : g = [n \in 0..(m + 1) |-> g[n]] /\ Prefix(m + 1, g)
      OBVIOUS
    <3>1. PICK g : g = [n \in 0..m |-> g[n]] /\ Prefix(m, g)
      BY <2>2, <1>2
    <3> DEFINE k == [n \in 0..(m + 1) |-> IF n = m + 1 THEN Step(g, m + 1) ELSE g[n]]
    <3>2. /\ k = [n \in 0..(m + 1) |-> k[n]]
          /\ k[m + 1] = Step(g, m + 1)
          /\ \A n \in 0..m : n # m + 1 /\ n \in 0..(m + 1) /\ k[n] = g[n]
      OBVIOUS
    <3> HIDE DEF k
    <3>3. \A n \in 0..(m + 1) : Step(k, n) = Step(g, n)
      <4> SUFFICES ASSUME NEW n \in 0..(m + 1), n # 0
                   PROVE  k[n - 1] = g[n - 1]
        OBVIOUS
      <4>1. n - 1 \in 0..m
        BY <2>2
      <4> QED
        BY <3>2, <4>1
    <3>4. Prefix(m + 1, k)
      <4> SUFFICES ASSUME NEW n \in 0..(m + 1) PROVE k[n] = Step(k, n)
        OBVIOUS
      <4>1. CASE n = m + 1
        BY <4>1, <3>2, <3>3
      <4>2. CASE n \in 0..m
        BY <4>2, <3>1, <3>2, <3>3
      <4> QED
        BY <4>1, <4>2
    <3>5. k = [n \in 0..(m + 1) |-> k[n]]
      BY <3>2
    <3> HIDE DEF Prefix
    <3> WITNESS k
    <3> QED
      BY <3>4, <3>5
  <2>3. N \in T
    <3> HIDE DEF T
    <3> QED BY <2>1, <2>2, SetInduction, <1>2
  <2>4. PICK g : g = [n \in 0..N |-> g[n]] /\ Prefix(N, g)
    BY <2>3, <1>2
  <2>5. g = Loop(g)
    BY <2>4
  <2> QED
    BY <2>5
<1>4. h = Loop(h)
  BY <1>3
<1> HIDE DEF h
<1>5. \A n \in 0..N : h[n] = Step(h, n)
  BY <1>4
<1> DEFINE Upto(m) == {i \in 1..m : Survives(f, list[i].resp)}
           Picks(m, e) == /\ e \in [1..Len(h[m]) -> Upto(m)]
                          /\ \A i, k \in 1..Len(h[m]) : i < k => e[i] < e[k]
                          /\ \A i \in 1..Len(h[m]) : h[m][i] = list[e[i]]
                          /\ \A j \in Upto(m) : \E i \in 1..Len(h[m]) : e[i] = j
           Q == {m \in Nat : m <= N => h[m] \in Seq(S) /\ \E e : Picks(m, e)}
<1>6. 0 \in Q
  <2>1. h[0] = <<>>
    BY <1>2, <1>5
  <2>2. Len(h[0]) = 0 /\ h[0] \in Seq(S) /\ 1..0 = {} /\ Upto(0) = {}
    BY <2>1
  <2> DEFINE e == [i \in {} |-> 0]
  <2>3. Picks(0, e)
    BY <2>2
  <2> HIDE DEF Picks
  <2> QED
    BY <2>2, <2>3
<1>7. ASSUME NEW m \in Nat, m \in Q PROVE m + 1 \in Q
  <2> SUFFICES ASSUME m + 1 <= N
               PROVE  h[m + 1] \in Seq(S) /\ \E e : Picks(m + 1, e)
    <3> HIDE DEF Picks
    <3> QED
      OBVIOUS
  <2>1. h[m] \in Seq(S) /\ \E e : Picks(m, e)
    <3> HIDE DEF Picks
    <3> QED
      BY <1>2, <1>7
  <2>2. PICK e : Picks(m, e)
    BY <2>1
  <2>3. m + 1 \in 1..N /\ list[m + 1] \in S
    BY <1>2
  <2>4. h[m + 1] = IF Survives(f, list[m + 1].resp)
                   THEN Append(h[m], list[m + 1]) ELSE h[m]
    BY <1>2, <1>5
  <2>5. CASE ~Survives(f, list[m + 1].resp)
    <3>1. Upto(m + 1) = Upto(m)
      BY <2>5
    <3>2. Picks(m + 1, e)
      BY <2>2, <2>4, <2>5, <3>1
    <3> QED
      BY <2>1, <2>4, <2>5, <3>2
  <2>6. CASE Survives(f, list[m + 1].resp)
    <3> DEFINE L == Len(h[m])
               d == [i \in 1..(L + 1) |-> IF i = L + 1 THEN m + 1 ELSE e[i]]
    <3>1. /\ Upto(m + 1) = Upto(m) \cup {m + 1}
          /\ \A j \in Upto(m) : j \in Nat /\ j < m + 1
      BY <2>6
    <3>2. /\ h[m + 1] \in Seq(S) /\ Len(h[m + 1]) = L + 1 /\ L \in Nat
          /\ h[m + 1][L + 1] = list[m + 1]
          /\ \A i \in 1..L : h[m + 1][i] = h[m][i]
      BY <2>1, <2>3, <2>4, <2>6
    <3>3. /\ d \in [1..(L + 1) -> Upto(m + 1)]
          /\ d[L + 1] = m + 1
          /\ \A i \in 1..L : i \in 1..(L + 1) /\ d[i] = e[i] /\ e[i] \in Upto(m)
      <4>1. L \in Nat /\ e \in [1..L -> Upto(m)]
        BY <2>2, <3>2
      <4>2. \A i \in 1..(L + 1) : i # L + 1 => i \in 1..L
        BY <4>1
      <4>3. \A i \in 1..L : i \in 1..(L + 1) /\ i # L + 1 /\ e[i] \in Upto(m)
        BY <4>1
      <4>4. L + 1 \in 1..(L + 1)
        BY <4>1
      <4> HIDE DEF L, Upto
      <4> QED
        BY <3>1, <4>2, <4>3, <4>4
    <3> HIDE DEF d, L, Upto
    <3>4. \A i, k \in 1..(L + 1) : i < k => d[i] < d[k]
      <4> SUFFICES ASSUME NEW i \in 1..(L + 1), NEW k \in 1..(L + 1), i < k
                   PROVE  d[i] < d[k]
        OBVIOUS
      <4>1. i \in 1..L
        BY <3>2
      <4>2. CASE k = L + 1
        BY <4>1, <4>2, <3>1, <3>3
      <4>3. CASE k \in 1..L
        BY <4>1, <4>3, <2>2, <3>3 DEF L
      <4> QED
        BY <3>2, <4>2, <4>3
    <3>5. \A i \in 1..(L + 1) : h[m + 1][i] = list[d[i]]
      <4> SUFFICES ASSUME NEW i \in 1..(L + 1) PROVE h[m + 1][i] = list[d[i]]
        OBVIOUS
      <4>1. CASE i = L + 1
        BY <4>1, <3>2, <3>3
      <4>2. CASE i \in 1..L
        BY <4>2, <2>2, <3>2, <3>3 DEF L
      <4> QED
        BY <3>2, <4>1, <4>2
    <3>6. \A j \in Upto(m + 1) : \E i \in 1..(L + 1) : d[i] = j
      <4> SUFFICES ASSUME NEW j \in Upto(m + 1)
                   PROVE  \E i \in 1..(L + 1) : d[i] = j
        OBVIOUS
      <4>1. CASE j = m + 1
        BY <4>1, <3>2, <3>3
      <4>2. CASE j \in Upto(m)
        <5>1. PICK i \in 1..L : e[i] = j
          BY <4>2, <2>2 DEF L
        <5> QED
          BY <5>1, <3>3
      <4> QED
        BY <4>1, <4>2, <3>1
    <3> QED
      <4>1. Picks(m + 1, d)
        BY <3>2, <3>3, <3>4, <3>5, <3>6
      <4> HIDE DEF Picks
      <4> QED
        BY <3>2, <4>1
  <2> QED
    BY <2>5, <2>6
<1>8. N \in Q
  <2> HIDE DEF Q
  <2> QED
    BY <1>2, <1>6, <1>7, SetInduction
<1>9. h[N] \in Seq(S) /\ \E e : Picks(N, e)
  <2> HIDE DEF Picks
  <2> QED
    BY <1>2, <1>8
<1>10. Upto(N) = Good(list, f) /\ DOMAIN h[N] = 1..Len(h[N])
  BY <1>2, <1>9 DEF Good
<1>11. PICK e : Picks(N, e)
  <2> HIDE DEF Picks
  <2> QED
    BY <1>9
<1>12. Kept(list, f) \in Seq(S) /\ DOMAIN Kept(list, f) = 1..Len(h[N])
  BY <1>1, <1>9, <1>10
<1>13. e \in [DOMAIN Kept(list, f) -> Good(list, f)]
  BY <1>10, <1>11, <1>12
<1> HIDE DEF Upto
<1> QED
  BY <1>1, <1>10, <1>11, <1>12, <1>13
-----------------------------------------------------------------------------
(* Types *)

TaskType == {Free} \cup [at : {"match", "print"}, id : 1..MaxRequests]
              \cup [at : {"record"}, id : 1..MaxRequests, resp : Response]

LEMMA TypeStep == TypeOK /\ [Next]_vars => TypeOK'
<1> SUFFICES ASSUME TypeOK, [Next]_vars PROVE TypeOK'
  OBVIOUS
<1> USE DEF TypeOK
<1>1. tasks \in [Slots -> TaskType] /\ Free.at = "free"
  BY DEF TaskType, Free
<1>2. <<>> \in Seq(Match)
  OBVIOUS
<1>3. CASE UNCHANGED vars
  BY <1>3 DEF vars
<1>4. CASE NextJob
  <2>1. results \o current \in Seq(Match)
    OBVIOUS
  <2>2. jobs' \in 0..MaxJobs
    BY <1>4, ResultAssumption DEF NextJob
  <2> QED
    BY <1>2, <1>4, <2>1, <2>2 DEF NextJob, Cycle, screen, history
<1>5. CASE Finalize \/ Stop
  BY <1>5 DEF Finalize, Stop, screen, history, store
<1>6. CASE Exited
  BY <1>6 DEF Exited, vars
<1>7. ASSUME typed' \in Nat, Console PROVE TypeOK'
  <2>1. typed < MaxCommands /\ typed' = typed + 1 => typed' \in 0..MaxCommands
    BY ResultAssumption
  <2>2. ASSUME NEW b \in BOOLEAN, SetPaused(b)
        PROVE  paused' \in BOOLEAN /\ current' \in Seq(Match)
    <3>1. \A i \in DOMAIN current : [current[i] EXCEPT !.printed = TRUE] \in Match
      <4>1. \A i \in DOMAIN current : current[i] \in Match
        BY ElementOfSeq
      <4>2. ASSUME NEW m \in Match PROVE [m EXCEPT !.printed = TRUE] \in Match
        BY DEF Match
      <4> QED
        BY <4>1, <4>2
    <3>2. CASE b
      BY <2>2, <3>2 DEF SetPaused
    <3>3. CASE ~b
      <4>1. /\ current' = [i \in 1..Len(current) |->
                             [current[i] EXCEPT !.printed = TRUE]]
            /\ Len(current) \in Nat
        BY <2>2, <3>3 DEF SetPaused
      <4>2. current' \in [1..Len(current) -> Match]
        BY <3>1, <4>1
      <4> QED
        BY <2>2, <3>3, <4>1, <4>2, IsASeq DEF SetPaused
    <3> QED
      BY <3>2, <3>3
  <2>3. CASE EnterCommand
    BY <2>1, <2>2, <2>3 DEF EnterCommand, Type, job
  <2>4. CASE Pause \/ Resume
    BY <2>4 DEF Pause, Resume, job, store, history
  <2>5. CASE ResumeCommand
    BY <2>1, <2>5 DEF ResumeCommand, Type, job, store, history
  <2>6. CASE RestartCommand
    BY <1>2, <2>1, <2>6 DEF RestartCommand, Type, job, history
  <2>7. CASE Unpause
    BY <2>2, <2>7 DEF Unpause, job, history
  <2>8. CASE UpdateFilter
    <3>1. filters' \in [size : SUBSET Sizes, time : TimeOptions \cup {NoFilter}]
      <4>1. CASE SizeFilter
        <5>1. PICK value \in SUBSET Sizes \ {{}}, replace \in BOOLEAN :
                filters' = [filters EXCEPT !.size =
                              IF replace THEN value ELSE filters.size \cup value]
          BY <4>1 DEF SizeFilter
        <5>2. (IF replace THEN value ELSE filters.size \cup value) \in SUBSET Sizes
          OBVIOUS
        <5> QED
          BY <5>1, <5>2
      <4>2. CASE TimeFilter
        BY <4>2 DEF TimeFilter
      <4>3. CASE RemoveFilter
        BY <4>3 DEF RemoveFilter
      <4> QED
        BY <2>8, <4>1, <4>2, <4>3 DEF UpdateFilter
    <3> QED
      BY <2>1, <2>8, <3>1 DEF UpdateFilter, Type, job, store, history
  <2>9. CASE RefreshResults
    <3>1. Kept(current, filters) \in Seq(Match)
      BY KeptFacts
    <3> QED
      BY <2>9, <3>1 DEF RefreshResults, FilterCurrentResults, job, history
  <2> QED
    BY <1>7, <2>3, <2>4, <2>5, <2>6, <2>7, <2>8, <2>9 DEF Console
<1>8. Console => typed' \in Nat
  <2>1. typed \in Nat
    BY ResultAssumption
  <2>2. typed' = typed + 1 \/ typed' = typed => typed' \in Nat
    BY <2>1
  <2> QED
    BY <2>2 DEF Console, EnterCommand, Pause, ResumeCommand, RestartCommand,
       Unpause, Resume, UpdateFilter, RefreshResults, Type
<1>9. ASSUME NEW s \in Slots, Task(s) PROVE TypeOK'
  <2>1. ASSUME NEW t \in TaskType, tasks' = [tasks EXCEPT ![s] = t]
        PROVE  tasks' \in [Slots -> TaskType]
    BY <1>1, <2>1
  <2>2. Free \in TaskType /\ tasks[s] \in TaskType
    BY <1>1 DEF TaskType
  <2>3. CASE PassGate(s)
    <3>1. requests' \in 0..MaxRequests /\ requests' \in 1..MaxRequests
      BY <2>3, ResultAssumption DEF PassGate
    <3>2. [at |-> "match", id |-> requests'] \in TaskType
      BY <3>1 DEF TaskType
    <3>3. tasks' \in [Slots -> TaskType]
      BY <2>1, <2>3, <3>2 DEF PassGate
    <3> QED
      BY <2>3, <3>1, <3>3 DEF PassGate, store, screen, history, TaskType
  <2>4. CASE Decide(s)
    <3>1. tasks[s].id \in 1..MaxRequests
      BY <2>2, <2>4, <1>1 DEF Decide, At, TaskType
    <3>2. PICK r \in Response :
            tasks' = [tasks EXCEPT ![s] =
              IF FilteredOut(filters, r) THEN Free
              ELSE [at |-> "record", id |-> tasks[s].id, resp |-> r]]
      BY <2>4 DEF Decide
    <3>3. [at |-> "record", id |-> tasks[s].id, resp |-> r] \in TaskType
      BY <3>1 DEF TaskType
    <3>4. tasks' \in [Slots -> TaskType]
      BY <1>1, <2>2, <3>2, <3>3
    <3> QED
      BY <2>4, <3>4 DEF Decide, job, store, screen, history, TaskType
  <2>5. CASE Record(s)
    <3>1. tasks[s].id \in 1..MaxRequests /\ tasks[s].resp \in Response
      BY <2>2, <2>5, <1>1 DEF Record, At, TaskType
    <3>2. [id |-> tasks[s].id, resp |-> tasks[s].resp, printed |-> ~paused] \in Match
      BY <3>1 DEF Match
    <3>3. current' \in Seq(Match)
      BY <2>5, <3>2 DEF Record
    <3>4. [at |-> "print", id |-> tasks[s].id] \in TaskType
      BY <3>1 DEF TaskType
    <3>5. tasks' \in [Slots -> TaskType]
      BY <1>1, <2>2, <2>5, <3>4 DEF Record
    <3> QED
      BY <2>5, <3>3, <3>5 DEF Record, job, screen, history, TaskType
  <2>6. CASE PrintResult(s)
    <3>1. tasks[s].id \in 1..MaxRequests
      BY <2>2, <2>6, <1>1 DEF PrintResult, At, TaskType
    <3>2. tasks' \in [Slots -> TaskType]
      BY <2>1, <2>2, <2>6 DEF PrintResult
    <3>3. late' \in Nat
      <4>1. late' = late \/ late' = late + 1
        BY <2>6 DEF PrintResult
      <4> QED
        BY <4>1
    <3>4. live' \subseteq 1..MaxRequests
      BY <2>6, <3>1 DEF PrintResult
    <3> QED
      BY <2>6, <3>2, <3>3, <3>4 DEF PrintResult, job, store, screen, TaskType
  <2> QED
    BY <1>9, <2>3, <2>4, <2>5, <2>6 DEF Task
<1> QED
  BY <1>3, <1>4, <1>5, <1>6, <1>7, <1>8, <1>9 DEF Next

LEMMA InitType == Init => TypeOK
<1> SUFFICES ASSUME Init PROVE TypeOK
  OBVIOUS
<1>1. tasks \in [Slots -> TaskType]
  BY DEF Init, TaskType
<1>2. {MaxRequests, MaxJobs, MaxCommands} \subseteq Nat /\ <<>> \in Seq(Match)
  BY ResultAssumption
<1>3. filters \in [size : SUBSET Sizes, time : TimeOptions \cup {NoFilter}]
  BY DEF Init
<1>4. /\ requests \in 0..MaxRequests /\ jobs \in 0..MaxJobs
      /\ typed \in 0..MaxCommands /\ late \in Nat
  BY <1>2 DEF Init
<1>5. /\ main \in {"start", "run", "done"} /\ live \subseteq 1..MaxRequests
      /\ {running, closed, paused, open} \subseteq BOOLEAN
      /\ console \in {"idle", "pause", "unpause", "resume", "refresh"}
      /\ current \in Seq(Match) /\ results \in Seq(Match)
  BY <1>2 DEF Init
<1> QED
  BY <1>1, <1>3, <1>4, <1>5 DEF TypeOK, TaskType

(* The state keeps its type: a slot is idle, decides or carries a match, and
   the lists hold matches, whatever the console does to them. *)
THEOREM TypeCorrect == Spec => []TypeOK
BY InitType, TypeStep, PTL DEF Spec
-----------------------------------------------------------------------------
(* The lists *)

(* Requests are numbered; a number belongs to one goroutine, and it is on the
   lists or on the screen only once the goroutine has recorded its match. *)
IdsInv ==
  /\ \A s \in Slots : tasks[s] # Free => tasks[s].id <= requests
  /\ \A s, t \in Slots : tasks[s] # Free /\ tasks[t] # Free
                         /\ tasks[s].id = tasks[t].id => s = t
  /\ \A n \in held \cup live : n <= requests
  /\ \A s \in Slots : At(s) \in {"match", "record"} =>
                        tasks[s].id \notin held \cup live

(* HeldOnce, list by list. *)
Distinct(list) == \A i, k \in DOMAIN list : list[i].id = list[k].id => i = k

HeldApart ==
  /\ Distinct(current) /\ Distinct(results)
  /\ \A i \in DOMAIN current, k \in DOMAIN results :
       current[i].id # results[k].id

ListsInv == TypeOK /\ IdsInv /\ HeldApart /\ PendingIsNew

(* A change of the current list that only leaves matches out or marks them as
   shown, while the goroutines stand still. *)
LEMMA EditKeeps ==
  ASSUME ListsInv, UNCHANGED <<tasks, requests, live, results>>,
         NEW e \in [DOMAIN current' -> DOMAIN current],
         \A i, k \in DOMAIN current' : e[i] = e[k] => i = k,
         \A i \in DOMAIN current' :
           /\ current'[i].id = current[e[i]].id
           /\ ~current'[i].printed => ~current[e[i]].printed /\ paused'
  PROVE  IdsInv' /\ HeldApart' /\ PendingIsNew'
<1>1. held' \subseteq held
  BY DEF held
<1>2. IdsInv'
  BY <1>1 DEF ListsInv, IdsInv, At
<1>3. HeldApart'
  BY DEF ListsInv, HeldApart, Distinct
<1>4. PendingIsNew'
  BY DEF ListsInv, PendingIsNew, At
<1> QED
  BY <1>2, <1>3, <1>4

LEMMA ListsConsole ==
  ASSUME ListsInv, Console \/ Finalize \/ Stop \/ Exited \/ UNCHANGED vars
  PROVE  IdsInv' /\ HeldApart' /\ PendingIsNew'
<1> DEFINE Same == [i \in DOMAIN current |-> i]
<1>1. ASSUME UNCHANGED <<tasks, requests, live, store, paused>>
      PROVE  IdsInv' /\ HeldApart' /\ PendingIsNew'
  BY <1>1 DEF ListsInv, IdsInv, HeldApart, Distinct, PendingIsNew, held, At, store
<1>2. CASE EnterCommand
  <2>1. UNCHANGED <<tasks, requests, live, store>> /\ paused'
    BY <1>2 DEF EnterCommand, SetPaused, job, store
  <2> QED
    BY <2>1 DEF ListsInv, IdsInv, HeldApart, Distinct, PendingIsNew, held, At, store
<1>3. CASE Unpause
  <2>1. /\ UNCHANGED <<tasks, requests, live, results>>
        /\ current' = [i \in DOMAIN current |->
                         [current[i] EXCEPT !.printed = TRUE]]
    BY <1>3 DEF Unpause, SetPaused, job, history
  <2>2. \A i \in DOMAIN current : current[i] \in Match
    BY ElementOfSeq DEF ListsInv, TypeOK
  <2>3. DOMAIN current' = DOMAIN current
    BY <2>1
  <2>4. \A i \in DOMAIN current' :
          current'[i].id = current[i].id /\ current'[i].printed
    BY <2>1, <2>2 DEF Match
  <2>5. /\ Same \in [DOMAIN current' -> DOMAIN current]
        /\ \A i \in DOMAIN current' : Same[i] = i
    BY <2>3
  <2> HIDE DEF Same
  <2>6. \A i \in DOMAIN current' :
          /\ current'[i].id = current[Same[i]].id
          /\ ~current'[i].printed => ~current[Same[i]].printed /\ paused'
    BY <2>4, <2>5
  <2>7. \A i, k \in DOMAIN current' : Same[i] = Same[k] => i = k
    BY <2>5
  <2> QED
    BY <2>1, <2>5, <2>6, <2>7, EditKeeps
<1>4. CASE RestartCommand
  <2>1. /\ UNCHANGED <<tasks, requests, live, results>>
        /\ current' = <<>> /\ DOMAIN current' = {}
    BY <1>4 DEF RestartCommand, job, history
  <2> DEFINE none == [i \in {} |-> 0]
  <2>2. none \in [DOMAIN current' -> DOMAIN current]
    BY <2>1
  <2> QED
    BY <2>1, <2>2, EditKeeps
<1>5. CASE RefreshResults
  <2>1. /\ UNCHANGED <<tasks, requests, live, results, paused>>
        /\ current' = Kept(current, filters)
    BY <1>5 DEF RefreshResults, FilterCurrentResults, job, history
  <2>2. PICK e \in [DOMAIN current' -> Good(current, filters)] :
          /\ \A i, k \in DOMAIN current' : i < k => e[i] < e[k]
          /\ \A i \in DOMAIN current' : current'[i] = current[e[i]]
    <3>1. current \in Seq(Match)
      BY DEF ListsInv, TypeOK
    <3> QED
      BY <2>1, <3>1, KeptFacts
  <2>3. Good(current, filters) \subseteq DOMAIN current
    BY DEF Good
  <2>4. DOMAIN current \subseteq Nat /\ DOMAIN current' \subseteq Nat
    BY <2>1, KeptFacts DEF ListsInv, TypeOK
  <2>5. \A i, k \in DOMAIN current' : e[i] = e[k] => i = k
    <3> SUFFICES ASSUME NEW i \in DOMAIN current', NEW k \in DOMAIN current',
                        i < k
                 PROVE  e[i] # e[k]
      BY <2>4
    <3>1. e[i] < e[k] /\ e[i] \in Nat /\ e[k] \in Nat
      BY <2>2, <2>3, <2>4
    <3> QED
      BY <3>1
  <2>6. \A i \in DOMAIN current' :
          ~current'[i].printed => ~current[e[i]].printed /\ paused'
    BY <2>1, <2>2, <2>3 DEF ListsInv, PendingIsNew
  <2> QED
    BY <2>1, <2>2, <2>3, <2>5, <2>6, EditKeeps
<1>6. CASE Pause \/ ResumeCommand \/ Resume \/ UpdateFilter
  BY <1>1, <1>6 DEF Pause, ResumeCommand, Resume, UpdateFilter, job, history
<1>7. CASE Finalize \/ Stop \/ Exited \/ UNCHANGED vars
  BY <1>1, <1>7 DEF Finalize, Stop, Exited, vars, history, store
<1> QED
  BY <1>2, <1>3, <1>4, <1>5, <1>6, <1>7 DEF Console

LEMMA ConcatDistinct ==
  ASSUME current \in Seq(Match), results \in Seq(Match), HeldApart
  PROVE  /\ Distinct(results \o current)
         /\ {(results \o current)[i].id : i \in DOMAIN (results \o current)} = held
<1> DEFINE all == results \o current
<1>2. /\ DOMAIN results = 1..Len(results) /\ DOMAIN current = 1..Len(current)
      /\ Len(results) \in Nat /\ Len(current) \in Nat
  OBVIOUS
<1>3. /\ DOMAIN all = 1..(Len(results) + Len(current))
      /\ \A i \in DOMAIN results : i \in DOMAIN all /\ all[i] = results[i]
      /\ \A i \in DOMAIN current : /\ Len(results) + i \in DOMAIN all
                                   /\ all[Len(results) + i] = current[i]
  BY <1>2
<1>4. \A i \in DOMAIN all : \/ i \in DOMAIN results
                            \/ i - Len(results) \in DOMAIN current
                               /\ i = Len(results) + (i - Len(results))
  BY <1>2, <1>3
<1> HIDE DEF all
<1>5. {all[i].id : i \in DOMAIN all} = held
  <2>1. ASSUME NEW n \in held PROVE \E i \in DOMAIN all : n = all[i].id
    <3>1. \/ \E i \in DOMAIN current : n = current[i].id
          \/ \E i \in DOMAIN results : n = results[i].id
      BY DEF held
    <3> QED
      BY <3>1, <1>3
  <2>2. ASSUME NEW i \in DOMAIN all PROVE all[i].id \in held
    BY <1>3, <1>4 DEF held
  <2> QED
    BY <2>1, <2>2
<1>6. Distinct(all)
  <2> SUFFICES ASSUME NEW i \in DOMAIN all, NEW k \in DOMAIN all,
                      all[i].id = all[k].id
               PROVE  i = k
    BY DEF Distinct
  <2>1. CASE i \in DOMAIN results /\ k \in DOMAIN results
    BY <2>1, <1>3 DEF HeldApart, Distinct
  <2>2. CASE i \notin DOMAIN results /\ k \in DOMAIN results
    BY <2>2, <1>3, <1>4 DEF HeldApart
  <2>3. CASE i \in DOMAIN results /\ k \notin DOMAIN results
    BY <2>3, <1>3, <1>4 DEF HeldApart
  <2>4. CASE i \notin DOMAIN results /\ k \notin DOMAIN results
    BY <2>4, <1>2, <1>3, <1>4 DEF HeldApart, Distinct
  <2> QED
    BY <2>1, <2>2, <2>3, <2>4
<1> QED
  BY <1>5, <1>6 DEF all

(* Cycle puts the current list behind the results. *)
LEMMA ListsNextJob ==
  ASSUME ListsInv, NextJob
  PROVE  IdsInv' /\ HeldApart' /\ PendingIsNew'
<1>1. /\ UNCHANGED <<tasks, requests, live>>
      /\ results' = results \o current /\ current' = <<>> /\ DOMAIN current' = {}
  BY DEF NextJob, Cycle, history
<1>2. /\ Distinct(results \o current)
      /\ {(results \o current)[i].id : i \in DOMAIN (results \o current)} = held
  BY ConcatDistinct DEF ListsInv, TypeOK
<1>3. held' = held
  BY <1>1, <1>2 DEF held
<1>4. IdsInv'
  BY <1>1, <1>3 DEF ListsInv, IdsInv, At
<1>5. HeldApart'
  BY <1>1, <1>2 DEF HeldApart, Distinct
<1>6. PendingIsNew'
  BY <1>1 DEF PendingIsNew
<1> QED
  BY <1>4, <1>5, <1>6

LEMMA IdsAreNumbers ==
  ASSUME TypeOK PROVE held \cup live \subseteq Nat
<1>1. /\ \A i \in DOMAIN current : current[i] \in Match
      /\ \A i \in DOMAIN results : results[i] \in Match
  BY ElementOfSeq DEF TypeOK
<1>2. \A m \in Match : m.id \in Nat
  BY DEF Match
<1>3. held \subseteq Nat
  BY <1>1, <1>2 DEF held
<1>4. live \subseteq Nat
  BY DEF TypeOK
<1> QED
  BY <1>3, <1>4

LEMMA ListsTask ==
  ASSUME ListsInv, NEW s \in Slots, Task(s)
  PROVE  IdsInv' /\ HeldApart' /\ PendingIsNew'
<1>1. /\ tasks \in [Slots -> TaskType] /\ Free.at = "free"
      /\ requests \in Nat
      /\ \A v \in Slots : tasks[v] # Free => tasks[v].id \in Nat
  <2>1. tasks \in [Slots -> TaskType] /\ requests \in Nat
    BY ResultAssumption DEF ListsInv, TypeOK, TaskType
  <2> QED
    BY <2>1 DEF TaskType, Free
<1>2. ASSUME NEW t, tasks' = [tasks EXCEPT ![s] = t]
      PROVE  \A v \in Slots : tasks'[v] = IF v = s THEN t ELSE tasks[v]
  BY <1>1, <1>2
<1>3. CASE PassGate(s)
  <2> DEFINE t == [at |-> "match", id |-> requests + 1]
  <2>1. /\ \A v \in Slots : tasks'[v] = IF v = s THEN t ELSE tasks[v]
        /\ tasks[s] = Free /\ requests' = requests + 1
        /\ UNCHANGED <<store, live, paused>>
    BY <1>2, <1>3 DEF PassGate, history
  <2>2. held' = held
    BY <2>1 DEF held, store
  <2>3. \A n \in held \cup live : n # requests + 1
    <3>1. held \cup live \subseteq Nat
      BY IdsAreNumbers DEF ListsInv
    <3> QED
      BY <1>1, <3>1 DEF ListsInv, IdsInv
  <2>4. IdsInv'
    <3>1. \A v \in Slots : tasks'[v] # Free => tasks'[v].id <= requests'
      BY <1>1, <2>1 DEF ListsInv, IdsInv
    <3>2. \A v \in Slots : v # s /\ tasks[v] # Free => tasks[v].id # requests + 1
      BY <1>1 DEF ListsInv, IdsInv
    <3>3. \A n \in held' \cup live' : n <= requests'
      <4>1. held \cup live \subseteq Nat
        BY IdsAreNumbers DEF ListsInv
      <4> QED
        BY <1>1, <2>1, <2>2, <4>1 DEF ListsInv, IdsInv
    <3>4. \A v, w \in Slots : tasks'[v] # Free /\ tasks'[w] # Free
                              /\ tasks'[v].id = tasks'[w].id => v = w
      BY <2>1, <3>2 DEF ListsInv, IdsInv
    <3>5. \A v \in Slots : At(v)' \in {"match", "record"} =>
                             tasks'[v].id \notin held' \cup live'
      BY <2>1, <2>2, <2>3 DEF ListsInv, IdsInv, At
    <3> QED
      BY <3>1, <3>3, <3>4, <3>5 DEF IdsInv
  <2>5. HeldApart'
    BY <2>1 DEF ListsInv, HeldApart, Distinct, store
  <2>6. PendingIsNew'
    BY <2>1 DEF ListsInv, PendingIsNew, At, store
  <2> QED
    BY <2>4, <2>5, <2>6
<1>4. CASE Decide(s)
  <2>1. PICK t : /\ \A v \in Slots : tasks'[v] = IF v = s THEN t ELSE tasks[v]
                 /\ t = Free \/ (t.at = "record" /\ t.id = tasks[s].id)
    <3>1. PICK r \in Response :
            tasks' = [tasks EXCEPT ![s] =
              IF FilteredOut(filters, r) THEN Free
              ELSE [at |-> "record", id |-> tasks[s].id, resp |-> r]]
      BY <1>4 DEF Decide
    <3> DEFINE u == IF FilteredOut(filters, r) THEN Free
                    ELSE [at |-> "record", id |-> tasks[s].id, resp |-> r]
    <3>2. \A v \in Slots : tasks'[v] = IF v = s THEN u ELSE tasks[v]
      BY <1>2, <3>1
    <3>3. u = Free \/ (u.at = "record" /\ u.id = tasks[s].id)
      OBVIOUS
    <3> HIDE DEF u
    <3> QED
      BY <3>2, <3>3
  <2>2. UNCHANGED <<requests, store, live, paused>> /\ tasks[s].at = "match"
    BY <1>4 DEF Decide, job, history, At
  <2>3. tasks[s] # Free /\ t.at # "print"
    BY <1>1, <2>1, <2>2
  <2>4. held' = held
    BY <2>2 DEF held, store
  <2>5. IdsInv'
    BY <1>1, <2>1, <2>2, <2>3, <2>4 DEF ListsInv, IdsInv, At
  <2>6. HeldApart'
    BY <2>2 DEF ListsInv, HeldApart, Distinct, store
  <2>7. PendingIsNew'
    BY <2>1, <2>2, <2>3 DEF ListsInv, PendingIsNew, At, store
  <2> QED
    BY <2>5, <2>6, <2>7
<1>5. CASE Record(s)
  <2> DEFINE r == [id |-> tasks[s].id, resp |-> tasks[s].resp,
                   printed |-> ~paused]
             t == IF paused THEN Free ELSE [at |-> "print", id |-> tasks[s].id]
             N == Len(current)
  <2>1. /\ \A v \in Slots : tasks'[v] = IF v = s THEN t ELSE tasks[v]
        /\ UNCHANGED <<requests, results, live, paused>>
        /\ tasks[s].at = "record" /\ current' = Append(current, r)
    BY <1>2, <1>5 DEF Record, job, history, At
  <2>2. /\ tasks[s] # Free /\ (t = Free \/ (t.at = "print" /\ t.id = tasks[s].id))
        /\ t.at \notin {"match", "record"}
    <3>1. tasks[s] # Free
      BY <1>1, <2>1
    <3>2. CASE paused
      BY <1>1, <3>1, <3>2
    <3>3. CASE ~paused
      BY <3>1, <3>3
    <3> QED
      BY <3>2, <3>3
  <2>3. /\ DOMAIN current' = DOMAIN current \cup {N + 1} /\ N + 1 \notin DOMAIN current
        /\ current'[N + 1] = r
        /\ \A i \in DOMAIN current : current'[i] = current[i]
    BY <2>1 DEF ListsInv, TypeOK
  <2>4. r.id = tasks[s].id /\ r.printed = ~paused
    OBVIOUS
  <2>5. r.id \notin held \cup live
    BY <2>1, <2>4 DEF ListsInv, IdsInv, At
  <2>6. held' = held \cup {r.id}
    BY <2>1, <2>3 DEF held
  <2> HIDE DEF r, t, N
  <2>7. IdsInv'
    <3>1. \A v \in Slots : At(v)' \in {"match", "record"} =>
            v # s /\ At(v) = At(v)' /\ tasks'[v] = tasks[v] /\ tasks[v] # Free
      BY <1>1, <2>1, <2>2 DEF At
    <3>2. \A v \in Slots : At(v)' \in {"match", "record"} =>
            tasks'[v].id \notin held' \cup live'
      BY <2>1, <2>2, <2>4, <2>6, <3>1 DEF ListsInv, IdsInv
    <3>3. \A n \in held' \cup live' : n <= requests'
      BY <2>1, <2>2, <2>4, <2>6 DEF ListsInv, IdsInv
    <3>4. \A v \in Slots : tasks'[v] # Free =>
                             tasks[v] # Free /\ tasks'[v].id = tasks[v].id
      BY <2>1, <2>2
    <3> QED
      BY <2>1, <3>2, <3>3, <3>4 DEF ListsInv, IdsInv
  <2>8. HeldApart'
    <3>1. \A i \in DOMAIN current : current[i].id # r.id
      BY <2>5 DEF held
    <3>2. \A i \in DOMAIN results : results[i].id # r.id
      BY <2>5 DEF held
    <3> QED
      BY <2>1, <2>3, <3>1, <3>2 DEF ListsInv, HeldApart, Distinct
  <2>9. PendingIsNew'
    <3> SUFFICES ASSUME NEW i \in DOMAIN current', ~current'[i].printed
                 PROVE  /\ paused' /\ current'[i].id \notin live'
                        /\ \A v \in Slots : At(v)' = "print" =>
                             tasks'[v].id # current'[i].id
      BY DEF PendingIsNew
    <3>1. CASE i \in DOMAIN current
      <4>1. current'[i].id \in held
        BY <2>3, <3>1 DEF held
      <4>2. /\ ~current[i].printed /\ current'[i] = current[i]
            /\ paused /\ current[i].id \notin live
            /\ \A v \in Slots : At(v) = "print" => tasks[v].id # current[i].id
        BY <2>3, <3>1 DEF ListsInv, PendingIsNew
      <4>3. \A v \in Slots : At(v)' = "print" => v # s /\ tasks'[v] = tasks[v]
        BY <1>1, <2>1, <4>2 DEF At, t
      <4> QED
        BY <2>1, <4>2, <4>3 DEF At
    <3>2. CASE i = N + 1
      <4>1. paused /\ t = Free
        BY <2>3, <2>4, <3>2 DEF t
      <4>2. \A v \in Slots : At(v)' = "print" => v # s /\ tasks'[v] = tasks[v]
        BY <1>1, <2>1, <4>1 DEF At
      <4>3. \A v \in Slots : v # s /\ tasks[v] # Free => tasks[v].id # r.id
        BY <2>2, <2>4 DEF ListsInv, IdsInv
      <4> QED
        BY <1>1, <2>1, <2>3, <2>5, <3>2, <4>1, <4>2, <4>3 DEF At
    <3> QED
      BY <2>3, <3>1, <3>2
  <2> QED
    BY <2>7, <2>8, <2>9
<1>6. CASE PrintResult(s)
  <2>1. /\ \A v \in Slots : tasks'[v] = IF v = s THEN Free ELSE tasks[v]
        /\ UNCHANGED <<requests, store, paused>>
        /\ tasks[s].at = "print" /\ live' = live \cup {tasks[s].id}
    BY <1>2, <1>6 DEF PrintResult, job, At
  <2>2. tasks[s] # Free /\ held' = held
    BY <1>1, <2>1 DEF held, store
  <2>3. IdsInv'
    <3>1. \A v \in Slots : At(v)' \in {"match", "record"} =>
            v # s /\ At(v) = At(v)' /\ tasks'[v] = tasks[v] /\ tasks[v] # Free
      BY <1>1, <2>1 DEF At
    <3> QED
      BY <2>1, <2>2, <3>1 DEF ListsInv, IdsInv
  <2>4. HeldApart'
    BY <2>1 DEF ListsInv, HeldApart, Distinct, store
  <2>5. PendingIsNew'
    BY <1>1, <2>1 DEF ListsInv, PendingIsNew, At, store
  <2> QED
    BY <2>3, <2>4, <2>5
<1> QED
  BY <1>3, <1>4, <1>5, <1>6 DEF Task

(* No match is held twice or lost between the lists of the running job and of
   the earlier ones, and the pending count that "resume" reports is about
   matches of this pause that nobody has seen (stdout.go:206-211, 448-453). *)
THEOREM Lists == Spec => []ListsSound
<1>1. Init => ListsInv
  <2>1. Init => TypeOK
    BY InitType
  <2>2. Init => IdsInv /\ HeldApart /\ PendingIsNew
    BY DEF Init, IdsInv, HeldApart, Distinct, PendingIsNew, held, At, Free
  <2> QED
    BY <2>1, <2>2 DEF ListsInv
<1>2. ListsInv /\ [Next]_vars => ListsInv'
  <2> SUFFICES ASSUME ListsInv, [Next]_vars PROVE ListsInv'
    OBVIOUS
  <2>1. TypeOK'
    BY TypeStep DEF ListsInv
  <2>2. IdsInv' /\ HeldApart' /\ PendingIsNew'
    BY ListsConsole, ListsNextJob, ListsTask DEF Next
  <2> QED
    BY <2>1, <2>2 DEF ListsInv
<1>3. ListsInv => ListsSound
  <2> SUFFICES ASSUME ListsInv PROVE HeldOnce
    BY DEF ListsInv, ListsSound
  <2>1. /\ current \in Seq(Match) /\ results \in Seq(Match)
    BY DEF ListsInv, TypeOK
  <2>2. Distinct(results \o current)
    BY <2>1, ConcatDistinct DEF ListsInv, HeldApart
  <2> QED
    BY <2>2 DEF HeldOnce, Distinct
<1> QED
  BY <1>1, <1>2, <1>3, PTL DEF Spec

-----------------------------------------------------------------------------
(* What a step does to a match that is held *)

LEMMA KeptStep ==
  ASSUME TypeOK, [Next]_vars, NEW j \in DOMAIN current,
         current[j].id \notin held'
  PROVE  \/ console = "refresh" /\ ~Survives(filters, current[j].resp)
         \/ console = "idle" /\ console' = "unpause" /\ current' = <<>>
<1>1. /\ current \in Seq(Match) /\ results \in Seq(Match)
      /\ DOMAIN current = 1..Len(current) /\ DOMAIN results = 1..Len(results)
      /\ Len(current) \in Nat /\ Len(results) \in Nat
  BY DEF TypeOK
<1>2. ASSUME NEW i \in DOMAIN current', current'[i].id = current[j].id
      PROVE  FALSE
  BY <1>2 DEF held
<1>3. ASSUME NEW i \in DOMAIN results', results'[i].id = current[j].id
      PROVE  FALSE
  BY <1>3 DEF held
<1>4. current' # current
  BY <1>2
<1>5. CASE NextJob
  <2>1. results' = results \o current
    BY <1>5 DEF NextJob, Cycle
  <2>2. /\ Len(results) + j \in DOMAIN results'
        /\ results'[Len(results) + j] = current[j]
    BY <1>1, <2>1
  <2> QED
    BY <1>3, <2>2
<1>6. CASE EnterCommand \/ Unpause
  <2>1. PICK b \in BOOLEAN : SetPaused(b)
    BY <1>6 DEF EnterCommand, Unpause
  <2>2. ~b /\ current' = [i \in DOMAIN current |->
                            [current[i] EXCEPT !.printed = TRUE]]
    BY <1>4, <2>1 DEF SetPaused
  <2>3. current[j] \in Match
    BY <1>1
  <2>4. j \in DOMAIN current' /\ current'[j].id = current[j].id
    BY <2>2, <2>3 DEF Match
  <2> QED
    BY <1>2, <2>4
<1>7. CASE RestartCommand
  BY <1>7 DEF RestartCommand, Type
<1>8. CASE RefreshResults
  <2>1. console = "refresh" /\ current' = Kept(current, filters)
    BY <1>8 DEF RefreshResults, FilterCurrentResults
  <2>2. PICK e : /\ \A i \in DOMAIN current' : current'[i] = current[e[i]]
                 /\ \A k \in Good(current, filters) :
                      \E i \in DOMAIN current' : e[i] = k
    BY <1>1, <2>1, KeptFacts
  <2>3. j \notin Good(current, filters)
    BY <1>2, <2>2
  <2> QED
    BY <2>1, <2>3 DEF Good
<1>9. ASSUME NEW s \in Slots, Record(s) PROVE FALSE
  <2>1. PICK r : current' = Append(current, r)
    BY <1>9 DEF Record
  <2>2. j \in DOMAIN current' /\ current'[j] = current[j]
    BY <1>1, <2>1
  <2> QED
    BY <1>2, <2>2
<1>10. CASE \/ Finalize \/ Stop \/ Exited \/ UNCHANGED vars
            \/ Pause \/ ResumeCommand \/ Resume \/ UpdateFilter
            \/ \E s \in Slots : PassGate(s) \/ Decide(s) \/ PrintResult(s)
  BY <1>4, <1>10 DEF Finalize, Stop, Exited, vars, Pause, ResumeCommand, Resume,
     UpdateFilter, PassGate, Decide, PrintResult, store
<1> QED
  BY <1>5, <1>6, <1>7, <1>8, <1>9, <1>10 DEF Next, Console, Task

(* Once recorded, a match is lost only to a filter that the user has set and
   that hits it, or to a restart: not to a refresh, a cycle or an open console
   that it arrives in the middle of (stdout.go:229-232). *)
THEOREM NoMatchLost == Spec => MatchesKept
<1>1. TypeOK /\ [Next]_vars =>
        [\A r \in {current[i] : i \in DOMAIN current} :
           r.id \notin held' =>
             \/ console = "refresh" /\ ~Survives(filters, r.resp)
             \/ console = "idle" /\ console' = "unpause" /\ current' = <<>>
        ]_store
  BY KeptStep
<1> QED
  BY <1>1, TypeCorrect, PTL DEF Spec, MatchesKept

-----------------------------------------------------------------------------
(* Filters that catch up *)

HitHeld    == {i \in DOMAIN current : current[i].resp.size \in filters.size}
HitRecords == {s \in Slots : /\ At(s) = "record"
                             /\ tasks[s].resp.size \in filters.size}

\* The request path drops whatever the size filter hits.
SizeDecides == FilterMode = "or" \/ filters.time = NoFilter

(* Matches that the size filter hits and that are held or about to be: none
   is decided after the filter was set, so they are never more than the slots
   that were between the decision and the record at the last refresh. *)
CaughtInv ==
  console # "refresh" /\ SizeDecides =>
    Cardinality(HitHeld) + Cardinality(HitRecords) <= Cardinality(Slots)

LEMMA HitsFinite ==
  ASSUME TypeOK
  PROVE  /\ IsFiniteSet(HitHeld) /\ Cardinality(HitHeld) \in Nat
         /\ IsFiniteSet(HitRecords) /\ Cardinality(HitRecords) \in Nat
         /\ Cardinality(HitRecords) <= Cardinality(Slots)
         /\ Cardinality(Slots) \in Nat
<1>1. HitHeld \subseteq 1..Len(current) /\ Len(current) \in Nat
  BY DEF HitHeld, TypeOK
<1>2. HitRecords \subseteq Slots /\ IsFiniteSet(Slots)
  BY ResultAssumption DEF HitRecords
<1>3. IsFiniteSet(1..Len(current))
  BY <1>1, FS_Interval
<1> QED
  BY <1>1, <1>2, <1>3, FS_Subset, FS_CardinalityType

LEMMA CaughtFewer ==
  ASSUME TypeOK, TypeOK', CaughtInv, UNCHANGED filters,
         console' # "refresh" => console # "refresh",
         HitHeld' \subseteq HitHeld, HitRecords' \subseteq HitRecords
  PROVE  CaughtInv'
<1>1. /\ Cardinality(HitHeld') <= Cardinality(HitHeld)
      /\ Cardinality(HitRecords') <= Cardinality(HitRecords)
  BY HitsFinite, FS_Subset
<1>2. /\ Cardinality(HitHeld') \in Nat /\ Cardinality(HitRecords') \in Nat
  BY HitsFinite, FS_Subset, FS_CardinalityType
<1> QED
  BY <1>1, <1>2, HitsFinite DEF CaughtInv, SizeDecides

LEMMA CaughtStep == TypeOK /\ TypeOK' /\ CaughtInv /\ [Next]_vars => CaughtInv'
<1> SUFFICES ASSUME TypeOK, TypeOK', CaughtInv, [Next]_vars PROVE CaughtInv'
  OBVIOUS
<1>1. /\ current \in Seq(Match) /\ DOMAIN current = 1..Len(current)
      /\ Len(current) \in Nat /\ tasks \in [Slots -> TaskType]
      /\ \A i \in DOMAIN current : current[i] \in Match
  BY ElementOfSeq DEF TypeOK, TaskType
<1>2. ASSUME UNCHANGED <<filters, tasks>>,
             console' # "refresh" => console # "refresh",
             \A i \in DOMAIN current' : /\ i \in DOMAIN current
                                        /\ current'[i].resp = current[i].resp
      PROVE  CaughtInv'
  <2>1. HitHeld' \subseteq HitHeld
    BY <1>2 DEF HitHeld
  <2>2. HitRecords' \subseteq HitRecords
    BY <1>2 DEF HitRecords, At
  <2> QED
    BY <1>2, <2>1, <2>2, CaughtFewer
<1>3. CASE NextJob \/ RestartCommand
  BY <1>2, <1>3 DEF NextJob, Cycle, RestartCommand, Type, screen, job
<1>4. CASE Finalize \/ Stop \/ Exited \/ UNCHANGED vars
  BY <1>2, <1>4 DEF Finalize, Stop, Exited, vars, store, screen
<1>5. CASE EnterCommand \/ Unpause
  <2>1. PICK b \in BOOLEAN : SetPaused(b)
    BY <1>5 DEF EnterCommand, Unpause
  <2>2. \A i \in DOMAIN current' : /\ i \in DOMAIN current
                                   /\ current'[i].resp = current[i].resp
    <3>1. CASE b
      BY <2>1, <3>1 DEF SetPaused
    <3>2. CASE ~b
      BY <1>1, <2>1, <3>2 DEF SetPaused, Match
    <3> QED
      BY <3>1, <3>2
  <2> QED
    BY <1>2, <1>5, <2>2 DEF EnterCommand, Unpause, Type, job
<1>6. CASE Pause \/ ResumeCommand \/ Resume
  BY <1>2, <1>6 DEF Pause, ResumeCommand, Resume, Type, job, store
<1>7. CASE UpdateFilter
  BY <1>7 DEF UpdateFilter, Type, CaughtInv
<1>8. CASE RefreshResults
  <2>1. UNCHANGED <<filters, tasks>> /\ current' = Kept(current, filters)
    BY <1>8 DEF RefreshResults, FilterCurrentResults, job
  <2>2. PICK e \in [DOMAIN current' -> Good(current, filters)] :
          \A i \in DOMAIN current' : current'[i] = current[e[i]]
    BY <1>1, <2>1, KeptFacts
  <2>3. \A i \in DOMAIN current' : ~(current'[i].resp.size \in filters.size)
    <3> SUFFICES ASSUME NEW i \in DOMAIN current',
                        current'[i].resp.size \in filters.size
                 PROVE  FALSE
      OBVIOUS
    <3>1. Survives(filters, current'[i].resp)
      BY <2>2 DEF Good
    <3>2. "size" \in Active(filters)
      BY DEF Active
    <3> QED
      BY <3>1, <3>2 DEF Survives, Hits, resultProbe
  <2>4. HitHeld' = {}
    BY <2>1, <2>3 DEF HitHeld
  <2>5. Cardinality(HitHeld') = 0
    BY <2>4, FS_EmptySet
  <2>6. Cardinality(HitRecords') <= Cardinality(Slots)
    BY <2>1, HitsFinite DEF HitRecords, At
  <2>7. Cardinality(HitRecords') \in Nat
    BY <2>1, HitsFinite DEF HitRecords, At
  <2> QED
    BY <2>5, <2>6, <2>7 DEF CaughtInv
<1>9. ASSUME NEW s \in Slots, Task(s) PROVE CaughtInv'
  <2>1. ASSUME UNCHANGED <<filters, console, current>>,
               NEW t, tasks' = [tasks EXCEPT ![s] = t],
               t.at = "record" => /\ SizeDecides
                                     => t.resp.size \notin filters.size
        PROVE  CaughtInv'
    <3>1. \A v \in Slots : tasks'[v] = IF v = s THEN t ELSE tasks[v]
      BY <1>1, <2>1
    <3>2. CASE SizeDecides
      <4>1. HitRecords' \subseteq HitRecords
        BY <2>1, <3>1, <3>2 DEF HitRecords, At
      <4>2. HitHeld' \subseteq HitHeld
        BY <2>1 DEF HitHeld
      <4> QED
        BY <2>1, <4>1, <4>2, CaughtFewer
    <3>3. CASE ~SizeDecides
      BY <2>1, <3>3 DEF CaughtInv, SizeDecides
    <3> QED
      BY <3>2, <3>3
  <2>2. CASE PassGate(s)
    BY <2>1, <2>2 DEF PassGate, store, screen
  <2>3. CASE PrintResult(s)
    BY <2>1, <2>3 DEF PrintResult, store, screen, Free
  <2>4. CASE Decide(s)
    <3>1. PICK r \in Response :
            tasks' = [tasks EXCEPT ![s] =
              IF FilteredOut(filters, r) THEN Free
              ELSE [at |-> "record", id |-> tasks[s].id, resp |-> r]]
      BY <2>4 DEF Decide
    <3>2. ASSUME ~FilteredOut(filters, r), SizeDecides
          PROVE  r.size \notin filters.size
      <4> SUFFICES ASSUME r.size \in filters.size PROVE FALSE
        OBVIOUS
      <4>1. "size" \in Active(filters) /\ Hits(filters, "size", r)
        BY DEF Active, Hits
      <4>2. FilterMode = "and"
        BY <3>2, <4>1, ResultAssumption DEF FilteredOut
      <4>3. filters.time = NoFilter /\ FilterMode # "or"
        BY <3>2, <4>2 DEF SizeDecides
      <4>4. Active(filters) = {"size"}
        BY <4>1, <4>3 DEF Active
      <4> QED
        BY <3>2, <4>1, <4>3, <4>4 DEF FilteredOut
    <3> DEFINE t == IF FilteredOut(filters, r) THEN Free
                    ELSE [at |-> "record", id |-> tasks[s].id, resp |-> r]
    <3>3. t.at = "record" => (SizeDecides => t.resp.size \notin filters.size)
      BY <3>2 DEF Free
    <3>4. tasks' = [tasks EXCEPT ![s] = t]
      BY <3>1
    <3> HIDE DEF t
    <3> QED
      BY <2>1, <2>4, <3>3, <3>4 DEF Decide, store, screen
  <2>5. CASE Record(s)
    <3> DEFINE t == IF paused THEN Free
                    ELSE [at |-> "print", id |-> tasks[s].id]
               N == Len(current)
    <3>1. /\ UNCHANGED <<filters, console>> /\ tasks[s].at = "record"
          /\ \A v \in Slots : tasks'[v] = IF v = s THEN t ELSE tasks[v]
          /\ \A i \in DOMAIN current : current'[i] = current[i]
          /\ current'[N + 1].resp = tasks[s].resp
          /\ DOMAIN current' = DOMAIN current \cup {N + 1}
          /\ N + 1 \notin DOMAIN current
      BY <1>1, <2>5 DEF Record, screen, At
    <3>2. t.at # "record"
      BY DEF Free
    <3> HIDE DEF t, N
    <3>3. HitRecords' = HitRecords \ {s}
      BY <3>1, <3>2 DEF HitRecords, At
    <3>4. CASE tasks[s].resp.size \in filters.size
      <4>1. HitHeld' = HitHeld \cup {N + 1} /\ N + 1 \notin HitHeld
        BY <3>1, <3>4 DEF HitHeld
      <4>2. s \in HitRecords
        BY <3>1, <3>4 DEF HitRecords, At
      <4>3. Cardinality(HitHeld') = Cardinality(HitHeld) + 1
        BY <4>1, HitsFinite, FS_AddElement
      <4>4. Cardinality(HitRecords') = Cardinality(HitRecords) - 1
        BY <3>3, <4>2, HitsFinite, FS_RemoveElement
      <4> QED
        BY <3>1, <4>3, <4>4, HitsFinite DEF CaughtInv, SizeDecides
    <3>5. CASE tasks[s].resp.size \notin filters.size
      <4>1. HitHeld' \subseteq HitHeld
        BY <3>1, <3>5 DEF HitHeld
      <4> QED
        BY <3>1, <3>3, <4>1, CaughtFewer
    <3> QED
      BY <3>4, <3>5
  <2> QED
    BY <1>9, <2>2, <2>3, <2>4, <2>5 DEF Task
<1> QED
  BY <1>3, <1>4, <1>5, <1>6, <1>7, <1>8, <1>9 DEF Next, Console

(* However often the filters are changed, at most one match for each slot is
   left that the size filter hits: the ones that were decided before it was
   set and recorded after its refresh (README.md:290). *)
THEOREM CatchUp == Spec => []FiltersCaughtUp
<1>1. Init => CaughtInv
  <2> SUFFICES ASSUME Init PROVE CaughtInv
    OBVIOUS
  <2>1. HitHeld = {} /\ HitRecords = {}
    BY DEF Init, HitHeld, HitRecords, At, Free
  <2> QED
    BY <2>1, InitType, HitsFinite, FS_EmptySet DEF CaughtInv
<1>2. TypeOK /\ CaughtInv => FiltersCaughtUp
  BY HitsFinite DEF CaughtInv, FiltersCaughtUp, SizeDecides, HitHeld
<1> QED
  BY <1>1, <1>2, TypeCorrect, CaughtStep, PTL DEF Spec
=============================================================================
