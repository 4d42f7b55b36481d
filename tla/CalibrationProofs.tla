-------------------------- MODULE CalibrationProofs --------------------------
(***************************************************************************)
(* Autocalibration for any number of goroutines, hosts, groups of          *)
(* strategies and strings, and any filters and answers.                    *)
(***************************************************************************)
EXTENDS Calibration, FiniteSetTheorems, TLAPS

Verdicts == [Kinds -> SUBSET Int]
Lesson   == [key : Hosts, resp : Answers]
DomainOf == [made : BOOLEAN, calibrated : BOOLEAN, filters : Verdicts]
TaskOf   == [at : Places, host : Hosts \cup {NoOne}, base : Bases \cup {NoOne}]
CalibOf  == [left : SUBSET Groups, group : Groups \cup {NoOne},
             i : 1 .. (Strings + 1), responses : Seq(Lesson)]

InGroup == {"request", "derive", "add"}
Working == InGroup \cup {"calibrate"}

TypeInv ==
  /\ mode \in {"off", "run", "host"} /\ keyword \in BOOLEAN
  /\ filterMode \in {"or", "and"}
  /\ global \in Verdicts /\ calibrated \in BOOLEAN
  /\ domain \in [Hosts -> DomainOf]
  /\ task \in [Workers -> TaskOf]
  /\ holder \in Workers \cup {NoOne}
  /\ calib \in CalibOf
  /\ issued \in 0..MaxTasks /\ requests \in [Hosts -> Nat]
  /\ learned \subseteq Lesson

(* Whether the calibration of a host, or of the run, is still to come. *)
Fresh(h) == \/ mode = "host" /\ ~domain[h].calibrated /\ keyword
            \/ mode = "run" /\ ~calibrated

(* What a goroutine may rely on at its place: the mutex is its own, what it
   calibrates is not calibrated, and the answers it holds are of the hosts
   that its strings lead to. *)
StageInv ==
  \A w \in Workers :
    /\ task[w].at # "idle" => task[w].host \in Hosts /\ task[w].base \in Bases
    /\ task[w].at \in Working =>
         /\ holder = w /\ Fresh(task[w].host)
         /\ \A n \in 1..Len(calib.responses) :
              calib.responses[n].key \in Reached(w)
    /\ task[w].at \in InGroup => calib.group \in Groups
    /\ task[w].at = "request" => calib.i \in 1..Strings
    /\ task[w].at = "add" => calib.responses # <<>>

(* A host that is calibrated has a map of its own, and nothing is calibrated
   that was not asked for. *)
MapsMade == /\ \A key \in Hosts : domain[key].calibrated => domain[key].made
            /\ mode = "off" => ~calibrated

CalibInv == TypeInv /\ StageInv /\ MapsMade /\ DecidedAfterCalibration

(* The strings of a calibration, all and those of the groups that are left. *)
Whole == Cardinality(Groups) * Strings
Rest  == Cardinality(calib.left) * Strings

(* What a goroutine has left of its calibration fits into the whole. *)
Ahead(w) ==
  /\ task[w].at = "calibrate" => requests[task[w].host] + Rest <= Whole
  /\ task[w].at \in InGroup =>
       requests[task[w].host] + Rest + Strings <= Whole + (calib.i - 1)

CountInv ==
  /\ \A w \in Workers : Ahead(w)
  /\ \A h \in Hosts :
       /\ requests[h] # 0 =>
            \/ ~Fresh(h)
            \/ \E w \in Workers : task[w].at \in Working /\ task[w].host = h
       /\ requests[h] <= Whole
       /\ mode = "off" => requests[h] = 0
  /\ mode = "run" =>
       \A h, k \in Hosts : h # k => requests[h] = 0 \/ requests[k] = 0

-----------------------------------------------------------------------------
(* Hosts and maps. *)

LEMMA KeyFacts ==
  \A b \in Bases, g \in Groups, i \in 1..Strings : Key(b, g, i) \in Hosts
<1> SUFFICES ASSUME NEW b \in Bases, NEW g \in Groups, NEW i \in 1..Strings
             PROVE  Key(b, g, i) \in Hosts
  OBVIOUS
<1>1. PartOf[g][i] \in Parts
  BY HostAssumption
<1> QED
  BY <1>1, HostAssumption DEF Key

LEMMA ExtendFacts ==
  ASSUME NEW map \in Verdicts, NEW k \in Kinds, NEW v \in Int
  PROVE  /\ Extend(map, k, v) \in Verdicts
         /\ v \in Extend(map, k, v)[k]
         /\ \A l \in Kinds : map[l] \subseteq Extend(map, k, v)[l]
         /\ \A l \in Kinds : \A x \in Extend(map, k, v)[l] : x \in map[l] \/ x = v
BY DEF Extend, Verdicts

LEMMA DomainFacts ==
  ASSUME TypeInv, NEW key \in Hosts
  PROVE  FiltersForDomain(key) \in Verdicts
BY DEF TypeInv, FiltersForDomain, DomainOf

LEMMA AddPerDomainFacts ==
  ASSUME TypeInv, NEW key \in Hosts, NEW k \in Kinds, NEW v \in Int,
         AddPerDomainFilter(key, k, v)
  PROVE  /\ domain' \in [Hosts -> DomainOf]
         /\ global' = global /\ calibrated' = calibrated
         /\ domain'[key].made
         /\ domain'[key].calibrated = domain[key].calibrated
         /\ domain'[key].filters = Extend(FiltersForDomain(key), k, v)
         /\ \A l \in Hosts : l # key => domain'[l] = domain[l]
<1> DEFINE f == Extend(FiltersForDomain(key), k, v)
<1>1. f \in Verdicts
  BY DomainFacts, ExtendFacts
<1> HIDE DEF f
<1>2. domain' = [domain EXCEPT ![key] = [@ EXCEPT !.made = TRUE, !.filters = f]]
  BY DEF AddPerDomainFilter, f
<1> QED
  BY <1>1, <1>2 DEF AddPerDomainFilter, TypeInv, DomainOf, f

LEMMA SetCalibratedFacts ==
  ASSUME TypeInv, NEW key \in Hosts, SetCalibratedForHost(key)
  PROVE  /\ domain' \in [Hosts -> DomainOf]
         /\ global' = global /\ calibrated' = calibrated
         /\ domain'[key].made /\ domain'[key].calibrated
         /\ domain'[key].filters = FiltersForDomain(key)
         /\ \A l \in Hosts : l # key => domain'[l] = domain[l]
<1> DEFINE f == FiltersForDomain(key)
<1>1. f \in Verdicts
  BY DomainFacts
<1> HIDE DEF f
<1>2. domain' = [domain EXCEPT ![key] =
                   [made |-> TRUE, calibrated |-> TRUE, filters |-> f]]
  BY DEF SetCalibratedForHost, f
<1> QED
  BY <1>1, <1>2 DEF SetCalibratedForHost, TypeInv, DomainOf, f

(* A goroutine goes to another place. *)
LEMMA GotoFacts ==
  ASSUME TypeInv, NEW w \in Workers, NEW p \in Places, Goto(w, p)
  PROVE  /\ task' \in [Workers -> TaskOf]
         /\ task'[w].at = p /\ task'[w].host = task[w].host
         /\ task'[w].base = task[w].base
         /\ \A v \in Workers : v # w => task'[v] = task[v]
         /\ \A v \in Workers : task'[v].host = task[v].host
         /\ \A v \in Workers : Reached(v)' = Reached(v)
<1>1. /\ task' \in [Workers -> TaskOf]
      /\ task'[w].at = p /\ task'[w].host = task[w].host
      /\ task'[w].base = task[w].base
      /\ \A v \in Workers : v # w => task'[v] = task[v]
  BY DEF TypeInv, Goto, TaskOf
<1> QED
  BY <1>1 DEF Reached, Key

-----------------------------------------------------------------------------
(* Each step keeps the invariant of the calibration. *)

LEMMA FreshStays ==
  ASSUME UNCHANGED <<mode, keyword, calibrated>>,
         NEW h, domain'[h].calibrated <=> domain[h].calibrated
  PROVE  Fresh(h)' <=> Fresh(h)
BY DEF Fresh

LEMMA ReachedStays ==
  ASSUME NEW w, task'[w].base = task[w].base
  PROVE  Reached(w)' = Reached(w)
BY DEF Reached, Key

LEMMA BeginKeeps ==
  ASSUME CalibInv, NEW w \in Workers, CalibrateIfNeeded(w), Needed(w)
  PROVE  CalibInv'
<1>1. /\ holder = NoOne /\ holder' = w /\ Goto(w, "calibrate")
      /\ calib' = [NoCalib EXCEPT !.left = Groups]
      /\ task[w].at = "respond"
      /\ UNCHANGED <<options, manager, history>>
  BY DEF CalibrateIfNeeded, Begin
<1>2. /\ task' \in [Workers -> TaskOf]
      /\ task'[w].at = "calibrate" /\ task'[w].host = task[w].host
      /\ task'[w].base = task[w].base
      /\ \A v \in Workers : v # w => task'[v] = task[v]
  BY <1>1, GotoFacts DEF CalibInv, Places
<1>r. \A v \in Workers : Reached(v)' = Reached(v)
  BY <1>1, GotoFacts DEF CalibInv, Places
<1>3. calib' \in CalibOf /\ calib'.responses = <<>>
  <2>1. calib' = [left |-> Groups, group |-> NoOne, i |-> 1, responses |-> <<>>]
    BY <1>1 DEF NoCalib
  <2>2. 1 \in 1 .. (Strings + 1) /\ <<>> \in Seq(Lesson)
    BY CalibrationAssumption
  <2> QED
    BY <2>1, <2>2 DEF CalibOf
<1>4. TypeInv'
  BY <1>1, <1>2, <1>3 DEF CalibInv, TypeInv, options, manager, history
<1>5. \A v \in Workers : v # w => task[v].at \notin Working
  BY <1>1, CalibrationAssumption DEF CalibInv, StageInv
<1>6. \A h : Fresh(h)' <=> Fresh(h)
  BY <1>1, FreshStays DEF options, manager
<1>7. Fresh(task[w].host)
  BY DEF Needed, Fresh
<1>8. StageInv'
  BY <1>1, <1>r, <1>2, <1>3, <1>5, <1>6, <1>7
     DEF CalibInv, StageInv, Working, InGroup, options
<1>9. MapsMade' /\ DecidedAfterCalibration'
  BY <1>1, <1>2 DEF CalibInv, MapsMade, DecidedAfterCalibration, options, manager
<1> QED
  BY <1>4, <1>8, <1>9 DEF CalibInv

LEMMA SkipKeeps ==
  ASSUME CalibInv, NEW w \in Workers, CalibrateIfNeeded(w), ~Needed(w)
  PROVE  CalibInv'
<1>1. /\ Goto(w, "decide") /\ task[w].at = "respond"
      /\ UNCHANGED <<holder, calib, options, manager, history>>
  BY DEF CalibrateIfNeeded
<1>2. /\ task' \in [Workers -> TaskOf]
      /\ task'[w].at = "decide" /\ task'[w].host = task[w].host
      /\ task'[w].base = task[w].base
      /\ \A v \in Workers : v # w => task'[v] = task[v]
  BY <1>1, GotoFacts DEF CalibInv, Places
<1>r. \A v \in Workers : Reached(v)' = Reached(v)
  BY <1>1, GotoFacts DEF CalibInv, Places
<1>3. TypeInv'
  BY <1>1, <1>2 DEF CalibInv, TypeInv, options, manager, history
<1>4. \A h : Fresh(h)' <=> Fresh(h)
  BY <1>1, FreshStays DEF options, manager
<1>5. StageInv'
  BY <1>1, <1>r, <1>2, <1>4 DEF CalibInv, StageInv, Working, InGroup, options
<1>6. MapsMade' /\ DecidedAfterCalibration'
  BY <1>1, <1>2
     DEF CalibInv, MapsMade, DecidedAfterCalibration, options, manager, Needed, TypeInv
<1> QED
  BY <1>3, <1>5, <1>6 DEF CalibInv

(* A calibration that goes on: its goroutine moves within it, and keeps an
   answer or adds a filter; no host becomes calibrated by that. *)
LEMMA WorkKeeps ==
  ASSUME CalibInv, NEW w \in Workers, NEW p \in Working, Goto(w, p),
         task[w].at \in Working,
         UNCHANGED <<options, holder, calibrated>>,
         domain' \in [Hosts -> DomainOf], global' \in Verdicts,
         \A key \in Hosts : /\ domain'[key].calibrated = domain[key].calibrated
                            /\ domain[key].made => domain'[key].made,
         issued' \in 0..MaxTasks, requests' \in [Hosts -> Nat],
         learned' \subseteq Lesson, calib' \in CalibOf,
         p \in InGroup => calib'.group \in Groups,
         p = "request" => calib'.i \in 1..Strings,
         p = "add" => calib'.responses # <<>>,
         \A n \in 1..Len(calib'.responses) :
           calib'.responses[n].key \in Reached(w)
  PROVE  CalibInv'
<1>1. /\ task' \in [Workers -> TaskOf]
      /\ task'[w].at = p /\ task'[w].host = task[w].host
      /\ task'[w].base = task[w].base /\ Reached(w)' = Reached(w)
      /\ \A v \in Workers : v # w => task'[v] = task[v]
  BY GotoFacts DEF CalibInv, Places, Working, InGroup
<1>2. TypeInv'
  BY <1>1 DEF CalibInv, TypeInv, options
<1>3. holder = w /\ \A v \in Workers : v # w => task[v].at \notin Working
  BY DEF CalibInv, StageInv
<1>4. PICK host \in Hosts : host = task[w].host /\ Fresh(host)'
  <2>1. PICK host \in Hosts : host = task[w].host /\ Fresh(host)
    BY DEF CalibInv, StageInv, Working, InGroup
  <2>2. domain'[host].calibrated <=> domain[host].calibrated
    BY <2>1
  <2> QED
    BY <2>1, <2>2, FreshStays DEF options
<1>5. StageInv'
  <2> SUFFICES ASSUME NEW v \in Workers
      PROVE  /\ task'[v].at # "idle" =>
                  task'[v].host \in Hosts /\ task'[v].base \in Bases
             /\ task'[v].at \in Working =>
                  /\ holder' = v /\ Fresh(task[v].host)'
                  /\ \A n \in 1..Len(calib'.responses) :
                       calib'.responses[n].key \in Reached(v)'
             /\ task'[v].at \in InGroup => calib'.group \in Groups
             /\ task'[v].at = "request" => calib'.i \in 1..Strings
             /\ task'[v].at = "add" => calib'.responses # <<>>
    BY DEF StageInv
  <2>1. CASE v = w
    <3>1. task[w].base \in Bases
      BY DEF CalibInv, StageInv, Working, InGroup
    <3> QED
      BY <1>1, <1>3, <1>4, <2>1, <3>1 DEF options, Fresh
  <2>2. CASE v # w
    <3>1. task'[v] = task[v] /\ task[v].at \notin Working
      BY <1>1, <1>3, <2>2
    <3>2. Reached(v)' = Reached(v)
      BY <3>1, ReachedStays
    <3> QED
      BY <3>1, <3>2 DEF CalibInv, StageInv, Working, InGroup
  <2> QED
    BY <2>1, <2>2
<1>6. MapsMade'
  BY DEF CalibInv, MapsMade, options
<1>7. DecidedAfterCalibration'
  <2> SUFFICES ASSUME NEW v \in Workers, task'[v].at = "decide"
      PROVE  /\ mode = "off" => ~calibrated
             /\ mode = "run" => calibrated
             /\ mode = "host" /\ keyword => domain'[task'[v].host].calibrated
    BY DEF DecidedAfterCalibration, options
  <2>1. task'[v] = task[v] /\ task[v].at = "decide"
    BY <1>1 DEF Working, InGroup
  <2>2. task[v].host \in Hosts
    BY <2>1 DEF CalibInv, StageInv
  <2> QED
    BY <2>1, <2>2 DEF CalibInv, DecidedAfterCalibration
<1> QED
  BY <1>2, <1>5, <1>6, <1>7 DEF CalibInv

LEMMA NextGroupKeeps ==
  ASSUME CalibInv, NEW w \in Workers, NextGroup(w)
  PROVE  CalibInv'
<1>1. PICK g \in calib.left :
        calib' = [left |-> calib.left \ {g}, group |-> g, i |-> 1,
                  responses |-> <<>>]
  BY DEF NextGroup
<1>2. g \in Groups /\ calib.left \in SUBSET Groups
  BY DEF CalibInv, TypeInv, CalibOf
<1>3. /\ calib' \in CalibOf /\ calib'.group \in Groups
      /\ calib'.i \in 1..Strings /\ calib'.responses = <<>>
  <2>1. /\ 1 \in 1 .. (Strings + 1) /\ 1 \in 1..Strings
        /\ <<>> \in Seq(Lesson)
    BY CalibrationAssumption
  <2> QED
    BY <1>1, <1>2, <2>1 DEF CalibOf
<1>4. /\ Goto(w, "request") /\ task[w].at = "calibrate"
      /\ UNCHANGED <<options, manager, holder, history>>
  BY DEF NextGroup
<1> HIDE DEF NextGroup
<1>5. /\ domain' = domain /\ global' = global /\ calibrated' = calibrated
      /\ issued' = issued /\ requests' = requests /\ learned' = learned
      /\ UNCHANGED <<options, holder>>
  BY <1>4 DEF manager, history
<1> QED
  BY <1>3, <1>4, <1>5, WorkKeeps DEF CalibInv, TypeInv, Working, InGroup

(* Where a calibration goes on after a string, for any string it comes to. *)
LEMMA AfterStringFacts ==
  ASSUME NEW i \in Nat
  PROVE  /\ AfterString(i) \in {"request", "derive", "calibrate"}
         /\ AfterString(i) = "request" => i < Strings
BY DEF AfterString

LEMMA RequestKeeps ==
  ASSUME CalibInv, NEW w \in Workers, CalibrationRequest(w)
  PROVE  CalibInv'
<1>1. /\ task[w].at = "request" /\ holder = w
      /\ task[w].host \in Hosts /\ calib.group \in Groups
      /\ calib.i \in 1..Strings /\ calib \in CalibOf
      /\ UNCHANGED <<options, manager, holder, issued, learned>>
      /\ requests' = [requests EXCEPT ![task[w].host] = @ + 1]
  BY DEF CalibrationRequest, CalibInv, StageInv, TypeInv, Working, InGroup
<1>2. /\ domain' = domain /\ global' = global /\ calibrated' = calibrated
      /\ issued' = issued /\ learned' = learned
      /\ requests' \in [Hosts -> Nat] /\ UNCHANGED <<options, holder>>
  BY <1>1 DEF manager, CalibInv, TypeInv
<1>3. /\ ThisKey(w) \in Hosts
      /\ ThisKey(w) \in Reached(w)
  <2>1. task[w].base \in Bases
    BY <1>1 DEF CalibInv, StageInv
  <2> QED
    BY <1>1, <2>1, KeyFacts DEF ThisKey, Reached
<1>4. /\ calib.i + 1 \in 1 .. (Strings + 1) /\ calib.i \in Nat
      /\ AfterString(calib.i) \in {"request", "derive", "calibrate"}
      /\ AfterString(calib.i) = "request" => calib.i + 1 \in 1..Strings
  BY <1>1, CalibrationAssumption, AfterStringFacts
<1>5. CASE calib' = [calib EXCEPT !.i = @ + 1] /\ Goto(w, AfterString(calib.i))
  <2>1. /\ calib' \in CalibOf /\ calib'.i = calib.i + 1
        /\ calib'.group = calib.group /\ calib'.responses = calib.responses
    BY <1>1, <1>4, <1>5 DEF CalibOf
  <2>2. \A n \in 1..Len(calib'.responses) :
          calib'.responses[n].key \in Reached(w)
    BY <1>1, <2>1 DEF CalibInv, StageInv, Working, InGroup
  <2> DEFINE p == AfterString(calib.i)
  <2>3. /\ p \in {"request", "derive", "calibrate"} /\ Goto(w, p)
        /\ p = "request" => calib'.i \in 1..Strings
    BY <1>4, <1>5, <2>1
  <2> HIDE DEF p
  <2> QED
    BY <1>1, <1>2, <2>1, <2>2, <2>3, WorkKeeps
       DEF CalibInv, TypeInv, Working, InGroup
<1>6. ASSUME NEW r \in Answers,
             calib' = [calib EXCEPT !.i = @ + 1,
                         !.responses = Append(@, [key |-> ThisKey(w), resp |-> r])],
             Goto(w, IF mode = "host" THEN "derive" ELSE AfterString(calib.i))
      PROVE  CalibInv'
  <2> DEFINE new == [key |-> ThisKey(w), resp |-> r]
             old == calib.responses
             p == IF mode = "host" THEN "derive" ELSE AfterString(calib.i)
  <2>1. /\ new \in Lesson /\ new.key = ThisKey(w)
        /\ old \in Seq(Lesson) /\ Len(old) \in Nat
    BY <1>1, <1>3 DEF Lesson, CalibOf
  <2> HIDE DEF new
  <2>2. /\ calib' = [calib EXCEPT !.i = calib.i + 1,
                                  !.responses = Append(old, new)]
        /\ Append(old, new) \in Seq(Lesson)
    BY <1>6, <2>1 DEF new
  <2>3. /\ calib' \in CalibOf /\ calib'.i = calib.i + 1
        /\ calib'.group = calib.group
        /\ calib'.responses = Append(old, new)
    BY <1>1, <1>4, <2>2 DEF CalibOf
  <2>4. \A n \in 1..Len(calib'.responses) :
          calib'.responses[n].key \in Reached(w)
    <3> SUFFICES ASSUME NEW n \in 1..Len(calib'.responses)
                 PROVE  calib'.responses[n].key \in Reached(w)
      OBVIOUS
    <3>1. CASE n \in 1..Len(old)
      <4>1. calib'.responses[n] = old[n]
        BY <2>1, <2>3, <3>1
      <4> QED
        BY <1>1, <3>1, <4>1 DEF CalibInv, StageInv, Working, InGroup
    <3>2. CASE n = Len(old) + 1
      <4>1. calib'.responses[n] = new
        BY <2>1, <2>3, <3>2
      <4> QED
        BY <1>3, <2>1, <4>1
    <3> QED
      BY <2>1, <2>3, <3>1, <3>2
  <2>5. /\ p \in {"request", "derive", "calibrate"} /\ Goto(w, p)
        /\ p = "request" => calib'.i \in 1..Strings
    BY <1>4, <1>6, <2>3
  <2> HIDE DEF p
  <2> QED
    BY <1>1, <1>2, <2>3, <2>4, <2>5, WorkKeeps
       DEF CalibInv, TypeInv, Working, InGroup
<1> QED
  BY <1>5, <1>6 DEF CalibrationRequest

LEMMA AfterDeriveFacts ==
  ASSUME TypeInv
  PROVE  /\ AfterDerive \in {"request", "derive", "calibrate"}
         /\ AfterDerive = "request" => calib.i \in 1..Strings
<1>1. calib.i - 1 \in Nat /\ calib.i \in Nat /\ calib.i >= 1
  BY CalibrationAssumption DEF TypeInv, CalibOf
<1> QED
  BY <1>1, AfterStringFacts, CalibrationAssumption DEF AfterDerive

(* The answers of a calibration, and what the first of them has in common
   with the others. *)
LEMMA FirstFacts ==
  ASSUME TypeInv, calib.responses # <<>>
  PROVE  /\ Len(calib.responses) \in Nat \ {0}
         /\ \A n \in 1..Len(calib.responses) :
              /\ calib.responses[n] \in Lesson
              /\ \A k \in Kinds : calib.responses[n].resp[k] \in Int
         /\ First \in Lesson /\ First.key \in Hosts
         /\ \A k \in Kinds : First.resp[k] \in Int
         /\ CommonKind \subseteq Kinds
<1>1. /\ calib.responses \in Seq(Lesson)
      /\ Len(calib.responses) \in Nat \ {0}
  BY DEF TypeInv, CalibOf
<1>2. \A n \in 1..Len(calib.responses) : calib.responses[n] \in Lesson
  BY <1>1
<1>3. \A l \in Lesson : l.key \in Hosts /\ \A k \in Kinds : l.resp[k] \in Int
  BY CalibrationAssumption DEF Lesson
<1>4. First \in Lesson
  BY <1>1, <1>2 DEF First
<1>5. CommonKind \subseteq Kinds
  BY DEF CommonKind, Kinds
<1>6. First.key \in Hosts /\ \A k \in Kinds : First.resp[k] \in Int
  BY <1>3, <1>4
<1>7. \A n \in 1..Len(calib.responses), k \in Kinds :
        calib.responses[n].resp[k] \in Int
  BY <1>2, <1>3
<1> HIDE DEF First, CommonKind
<1> QED
  BY <1>1, <1>2, <1>4, <1>5, <1>6, <1>7

LEMMA DeriveKeeps ==
  ASSUME CalibInv, NEW w \in Workers, calibrateFilters(w)
  PROVE  CalibInv'
<1>1. /\ task[w].at = "derive" /\ calib.group \in Groups /\ TypeInv
      /\ UNCHANGED <<options, manager, holder, calib, issued, requests>>
  BY DEF calibrateFilters, CalibInv, StageInv, Working, InGroup
<1>2. PICK p \in {"add", "request", "derive", "calibrate"} :
        /\ Goto(w, p) /\ learned' \subseteq Lesson
        /\ p = "request" => calib.i \in 1..Strings
        /\ p = "add" => calib.responses # <<>>
  <2>1. learned \subseteq Lesson
    BY <1>1 DEF TypeInv
  <2>2. CASE Goto(w, AfterDerive) /\ UNCHANGED learned
    BY <1>1, <2>1, <2>2, AfterDeriveFacts
  <2>3. CASE /\ calib.responses # <<>> /\ Goto(w, AfterDerive)
             /\ learned' = learned \cup {First}
    BY <1>1, <2>1, <2>3, AfterDeriveFacts, FirstFacts
  <2>4. CASE calib.responses # <<>> /\ Goto(w, "add") /\ UNCHANGED learned
    BY <2>1, <2>4
  <2> QED
    BY <2>2, <2>3, <2>4 DEF calibrateFilters
<1>3. \A n \in 1..Len(calib.responses) :
        calib.responses[n].key \in Reached(w)
  BY <1>1 DEF CalibInv, StageInv, Working, InGroup
<1>4. /\ domain' = domain /\ global' = global /\ calibrated' = calibrated
      /\ UNCHANGED <<options, holder, issued, requests, calib>>
  BY <1>1 DEF manager
<1> QED
  BY <1>1, <1>2, <1>3, <1>4, WorkKeeps DEF TypeInv, Working, InGroup

(* What adding the common filter does, for the run and for a host. *)
LEMMA AddFacts ==
  ASSUME CalibInv, NEW w \in Workers, AddCommon(w)
  PROVE  /\ calib.responses # <<>> /\ UNCHANGED calibrated
         /\ global' \in Verdicts /\ domain' \in [Hosts -> DomainOf]
         /\ \E k \in CommonKind :
              /\ k \in Kinds
              /\ mode # "host" =>
                   /\ global' = Extend(global, k, First.resp[k])
                   /\ domain' = domain
              /\ mode = "host" =>
                   /\ global' = global /\ domain'[First.key].made
                   /\ domain'[First.key].calibrated = domain[First.key].calibrated
                   /\ domain'[First.key].filters =
                        Extend(FiltersForDomain(First.key), k, First.resp[k])
                   /\ \A l \in Hosts : l # First.key => domain'[l] = domain[l]
<1>1. /\ TypeInv /\ calib.responses # <<>>
      /\ global \in Verdicts /\ domain \in [Hosts -> DomainOf]
  BY DEF AddCommon, CalibInv, StageInv, TypeInv
<1>2. PICK k \in CommonKind :
        IF mode = "host" THEN AddPerDomainFilter(First.key, k, First.resp[k])
                         ELSE AddFilter(k, First.resp[k])
  BY DEF AddCommon
<1>3. k \in Kinds /\ First.key \in Hosts /\ First.resp[k] \in Int
  BY <1>1, FirstFacts
<1>4. CASE mode = "host"
  BY <1>1, <1>2, <1>3, <1>4, AddPerDomainFacts
<1>5. CASE mode # "host"
  BY <1>1, <1>2, <1>3, <1>5, ExtendFacts DEF AddFilter
<1> QED
  BY <1>4, <1>5

LEMMA AddKeeps ==
  ASSUME CalibInv, NEW w \in Workers, AddCommon(w)
  PROVE  CalibInv'
<1>1. /\ task[w].at = "add" /\ calib.group \in Groups /\ TypeInv
      /\ UNCHANGED <<options, holder, calib, issued, requests>>
      /\ Goto(w, AfterDerive) /\ calib.responses # <<>>
  BY DEF AddCommon, CalibInv, StageInv, Working, InGroup
<1>2. /\ UNCHANGED calibrated
      /\ global' \in Verdicts /\ domain' \in [Hosts -> DomainOf]
      /\ \A key \in Hosts : /\ domain'[key].calibrated = domain[key].calibrated
                            /\ domain[key].made => domain'[key].made
  BY AddFacts
<1>3. learned' \subseteq Lesson
  <2>1. \A n \in 1..Len(calib.responses) : calib.responses[n] \in Lesson
    BY <1>1, FirstFacts
  <2> QED
    BY <1>1, <2>1 DEF AddCommon, TypeInv
<1>4. \A n \in 1..Len(calib.responses) :
        calib.responses[n].key \in Reached(w)
  BY <1>1 DEF CalibInv, StageInv, Working, InGroup
<1>5. PICK p \in {"request", "derive", "calibrate"} :
        Goto(w, p) /\ (p = "request" => calib.i \in 1..Strings)
  BY <1>1, AfterDeriveFacts
<1>6. /\ issued' \in 0..MaxTasks /\ requests' \in [Hosts -> Nat]
      /\ calib' = calib /\ calib \in CalibOf
      /\ UNCHANGED <<options, holder, calibrated>>
  BY <1>1, <1>2 DEF TypeInv
<1> QED
  BY <1>1, <1>2, <1>3, <1>4, <1>5, <1>6, WorkKeeps DEF Working, InGroup

LEMMA EndKeeps ==
  ASSUME CalibInv, NEW w \in Workers, EndCalibration(w)
  PROVE  CalibInv'
<1>1. /\ task[w].at = "calibrate" /\ Goto(w, "decide") /\ TypeInv
      /\ holder' = NoOne /\ calib' = NoCalib /\ UNCHANGED <<options, history>>
      /\ Fresh(task[w].host) /\ task[w].host \in Hosts
      /\ \A v \in Workers : v # w => task[v].at \notin Working
  BY DEF EndCalibration, CalibInv, StageInv, Working, InGroup
<1>2. /\ task' \in [Workers -> TaskOf]
      /\ task'[w].at = "decide" /\ task'[w].host = task[w].host
      /\ task'[w].base = task[w].base
      /\ \A v \in Workers : v # w => task'[v] = task[v]
  BY <1>1, GotoFacts DEF Places
<1>r. \A v \in Workers : Reached(v)' = Reached(v)
  BY <1>1, GotoFacts DEF CalibInv, Places
<1>3. /\ global' \in Verdicts /\ calibrated' \in BOOLEAN
      /\ domain' \in [Hosts -> DomainOf]
      /\ \A key \in Hosts : domain[key].calibrated => domain'[key].calibrated
      /\ \A key \in Hosts : domain'[key].calibrated => domain'[key].made
      /\ calibrated => calibrated'
      /\ mode = "run" => calibrated'
      /\ mode = "off" => ~calibrated'
      /\ mode = "host" => domain'[task[w].host].calibrated
  <2>1. CASE mode = "host"
    <3>1. SetCalibratedForHost(task[w].host) /\ task[w].host \in Hosts
      BY <1>1, <2>1 DEF EndCalibration
    <3> QED
      BY <1>1, <2>1, <3>1, SetCalibratedFacts DEF TypeInv, CalibInv, MapsMade
  <2>2. CASE mode # "host"
    <3>1. mode = "run" /\ SetCalibrated
      BY <1>1, <2>2 DEF EndCalibration, Fresh
    <3> QED
      BY <1>1, <3>1 DEF SetCalibrated, TypeInv, CalibInv, MapsMade
  <2> QED
    BY <2>1, <2>2
<1>4. TypeInv'
  <2>1. calib' = [left |-> {}, group |-> NoOne, i |-> 1, responses |-> <<>>]
    BY <1>1 DEF NoCalib
  <2>2. 1 \in 1 .. (Strings + 1) /\ <<>> \in Seq(Lesson)
    BY CalibrationAssumption
  <2>3. calib' \in CalibOf
    BY <2>1, <2>2 DEF CalibOf
  <2> QED
    BY <1>1, <1>2, <1>3, <2>3 DEF TypeInv, options, history
<1>5. StageInv'
  BY <1>1, <1>r, <1>2 DEF CalibInv, StageInv, Working, InGroup
<1>6. DecidedAfterCalibration'
  <2> SUFFICES ASSUME NEW v \in Workers, task'[v].at = "decide"
      PROVE  /\ mode = "off" => ~calibrated'
             /\ mode = "run" => calibrated'
             /\ mode = "host" /\ keyword => domain'[task'[v].host].calibrated
    BY <1>1 DEF DecidedAfterCalibration, options
  <2>1. CASE v = w
    BY <1>2, <1>3, <2>1
  <2>2. CASE v # w
    <3>1. task'[v] = task[v] /\ task[v].host \in Hosts
      BY <1>2, <2>2 DEF CalibInv, StageInv
    <3> QED
      BY <1>3, <3>1 DEF CalibInv, DecidedAfterCalibration
  <2> QED
    BY <2>1, <2>2
<1> QED
  BY <1>1, <1>3, <1>4, <1>5, <1>6 DEF CalibInv, MapsMade, options

LEMMA RestKeeps ==
  ASSUME CalibInv, NEW w \in Workers, NEW p \in {"respond", "idle"},
         NEW h \in Hosts \cup {NoOne}, p # "idle" => h \in Hosts,
         NEW b \in Bases \cup {NoOne}, p # "idle" => b \in Bases,
         task[w].at \notin Working,
         task' = [task EXCEPT ![w] = [at |-> p, host |-> h, base |-> b]],
         issued' \in 0..MaxTasks,
         UNCHANGED <<options, manager, holder, calib, requests, learned>>
  PROVE  CalibInv'
<1>1. /\ task' \in [Workers -> TaskOf]
      /\ task'[w] = [at |-> p, host |-> h, base |-> b]
      /\ \A v \in Workers : v # w => task'[v] = task[v]
  BY DEF CalibInv, TypeInv, TaskOf, Places
<1>r. \A v \in Workers : v # w => Reached(v)' = Reached(v)
  BY <1>1, ReachedStays
<1>2. TypeInv'
  BY <1>1 DEF CalibInv, TypeInv, options, manager
<1>3. \A k : Fresh(k)' <=> Fresh(k)
  BY FreshStays DEF options, manager
<1>4. StageInv'
  BY <1>1, <1>r, <1>3 DEF CalibInv, StageInv, Working, InGroup, options
<1>5. MapsMade' /\ DecidedAfterCalibration'
  BY <1>1 DEF CalibInv, MapsMade, DecidedAfterCalibration, options, manager
<1> QED
  BY <1>2, <1>4, <1>5 DEF CalibInv

LEMMA RespondKeeps ==
  ASSUME CalibInv, NEW w \in Workers, Respond(w)
  PROVE  CalibInv'
<1>1. issued' \in 0..MaxTasks
  BY CalibrationAssumption DEF Respond, CalibInv, TypeInv
<1>2. PICK b \in Bases, p \in Parts :
        task' = [task EXCEPT ![w] = [at |-> "respond", host |-> HostOf[b][p],
                                     base |-> b]]
  BY DEF Respond
<1>3. HostOf[b][p] \in Hosts
  BY HostAssumption
<1> QED
  BY <1>1, <1>2, <1>3, RestKeeps DEF Respond, Working, InGroup

LEMMA DecideKeeps ==
  ASSUME CalibInv, NEW w \in Workers, Decide(w)
  PROVE  CalibInv'
<1>1. issued' \in 0..MaxTasks /\ UNCHANGED <<requests, learned>>
  BY DEF Decide, history, CalibInv, TypeInv
<1>2. task' = [task EXCEPT ![w] = [at |-> "idle", host |-> NoOne, base |-> NoOne]]
  BY DEF Decide, Idle
<1> QED
  BY <1>1, <1>2, RestKeeps DEF Decide, Working, InGroup

LEMMA ConsoleKeeps ==
  ASSUME CalibInv, NEW values \in SUBSET Int, SetSizeFilter(values)
  PROVE  CalibInv'
<1>1. global' \in Verdicts /\ learned' \subseteq Lesson
  BY DEF SetSizeFilter, CalibInv, TypeInv, Verdicts
<1>2. UNCHANGED <<options, calibrated, domain, task, holder, calib, issued, requests>>
  BY DEF SetSizeFilter
<1>3. TypeInv'
  BY <1>1, <1>2 DEF CalibInv, TypeInv, options
<1>4. \A k : Fresh(k)' <=> Fresh(k)
  BY <1>2, FreshStays DEF options
<1>5. StageInv'
  BY <1>2, <1>4, ReachedStays DEF CalibInv, StageInv, options
<1>6. MapsMade' /\ DecidedAfterCalibration'
  BY <1>2 DEF CalibInv, MapsMade, DecidedAfterCalibration, options
<1> QED
  BY <1>3, <1>5, <1>6 DEF CalibInv

(* The steps of the specification, each with its goroutine. *)
LEMMA Steps ==
  ASSUME [Next]_vars
  PROVE  \/ UNCHANGED vars
         \/ \E values \in SUBSET ConsoleValues : SetSizeFilter(values)
         \/ \E w \in Workers : \/ Respond(w) \/ CalibrateIfNeeded(w)
                               \/ NextGroup(w) \/ CalibrationRequest(w)
                               \/ calibrateFilters(w) \/ AddCommon(w)
                               \/ EndCalibration(w) \/ Decide(w)
BY DEF Next, Worker

LEMMA CalibInit == Init => CalibInv
<1> SUFFICES ASSUME Init PROVE CalibInv
  OBVIOUS
<1>1. calib \in CalibOf
  <2>1. calib = [left |-> {}, group |-> NoOne, i |-> 1, responses |-> <<>>]
    BY DEF Init, NoCalib
  <2>2. 1 \in 1 .. (Strings + 1) /\ <<>> \in Seq(Lesson)
    BY CalibrationAssumption
  <2> QED
    BY <2>1, <2>2 DEF CalibOf
<1>2. domain \in [Hosts -> DomainOf]
  BY DEF Init, DomainOf, NoFilters, Verdicts
<1>3. TypeInv
  <2>1. keyword \in BOOLEAN /\ holder = NoOne
    BY DEF Init
  <2>2. task \in [Workers -> TaskOf]
    BY DEF Init, TaskOf, Idle, Places
  <2>3. issued \in 0..MaxTasks /\ requests \in [Hosts -> Nat] /\ learned = {}
    BY CalibrationAssumption DEF Init
  <2> QED
    BY <1>1, <1>2, <2>1, <2>2, <2>3, CalibrationAssumption
       DEF Init, TypeInv, Verdicts
<1>4. StageInv /\ MapsMade /\ DecidedAfterCalibration
  BY DEF Init, StageInv, MapsMade, DecidedAfterCalibration, Idle, Working, InGroup
<1> QED
  BY <1>3, <1>4 DEF CalibInv

LEMMA CalibStep == CalibInv /\ [Next]_vars => CalibInv'
<1> SUFFICES ASSUME CalibInv, [Next]_vars PROVE CalibInv'
  OBVIOUS
<1>1. CASE UNCHANGED vars
  BY <1>1, ReachedStays DEF CalibInv, TypeInv, StageInv, Fresh, MapsMade,
     DecidedAfterCalibration, vars, options, manager, history
<1>2. ASSUME NEW values \in SUBSET ConsoleValues, SetSizeFilter(values)
      PROVE  CalibInv'
  BY <1>2, ConsoleKeeps, CalibrationAssumption
<1>3. ASSUME NEW w \in Workers,
             \/ Respond(w) \/ CalibrateIfNeeded(w) \/ NextGroup(w)
             \/ CalibrationRequest(w) \/ calibrateFilters(w) \/ AddCommon(w)
             \/ EndCalibration(w) \/ Decide(w)
      PROVE  CalibInv'
  BY <1>3, RespondKeeps, BeginKeeps, SkipKeeps, NextGroupKeeps, RequestKeeps,
     DeriveKeeps, AddKeeps, EndKeeps, DecideKeeps
<1> QED
  BY <1>1, <1>2, <1>3, Steps

(* The types, and that a calibration is run by the goroutine that holds the
   mutex (autocalibration.go:157-168). *)
THEOREM TypeCorrect == Spec => []TypeOK
<1>1. CalibInv => TypeOK
  <2> SUFFICES ASSUME CalibInv PROVE TypeOK
    OBVIOUS
  <2>1. \A w \in Workers :
          /\ task[w].at \in Places
          /\ task[w].at # "idle" =>
               task[w].host \in Hosts /\ task[w].base \in Bases
          /\ task[w].at \in {"calibrate", "request", "derive", "add"} => holder = w
          /\ task[w].at = "request" => calib.i \in 1..Strings
    BY DEF CalibInv, TypeInv, StageInv, TaskOf, Working, InGroup
  <2> QED
    BY <2>1 DEF CalibInv, TypeInv, TypeOK, DomainOf, Verdicts
<1> QED
  BY <1>1, CalibInit, CalibStep, PTL DEF Spec

-----------------------------------------------------------------------------
(* What a step does to the filters in force. *)

(* The filters of a calibrated host are its own; only a calibration of another
   host whose strings lead to it changes them. *)
LEMMA CalibratedStays ==
  ASSUME CalibInv, [Next]_vars, mode = "host",
         NEW h \in Hosts, domain[h].calibrated,
         ~ \E w \in Workers : holder = w /\ h \in Reached(w) \ {task[w].host}
  PROVE  /\ UNCHANGED options
         /\ domain[h].made /\ domain'[h].made
         /\ domain'[h].filters = domain[h].filters
<1>1. domain[h].made /\ TypeInv
  BY DEF CalibInv, MapsMade
<1>2. CASE UNCHANGED vars
  BY <1>1, <1>2 DEF vars, manager
<1>3. ASSUME NEW values \in SUBSET ConsoleValues, SetSizeFilter(values)
      PROVE  UNCHANGED <<options, domain>>
  BY <1>3 DEF SetSizeFilter
<1>4. ASSUME NEW w \in Workers,
             \/ Respond(w) \/ CalibrateIfNeeded(w) \/ NextGroup(w)
             \/ CalibrationRequest(w) \/ calibrateFilters(w) \/ Decide(w)
      PROVE  UNCHANGED <<options, domain>>
  BY <1>4 DEF Respond, CalibrateIfNeeded, NextGroup, CalibrationRequest,
     calibrateFilters, Decide, manager
<1>5. ASSUME NEW w \in Workers, AddCommon(w)
      PROVE  UNCHANGED options /\ domain'[h] = domain[h]
  <2>1. First.key # h
    <3>1. /\ Len(calib.responses) \in Nat \ {0} /\ task[w].at = "add"
          /\ First = calib.responses[1]
      BY <1>1, <1>5, AddFacts, FirstFacts DEF AddCommon, First
    <3>2. First.key \in Reached(w) /\ holder = w /\ Fresh(task[w].host)
      BY <3>1 DEF CalibInv, StageInv, Working, InGroup
    <3>3. task[w].host # h
      BY <3>2 DEF Fresh
    <3> QED
      BY <3>2, <3>3
  <2> QED
    BY <1>1, <1>5, <2>1, AddFacts DEF AddCommon
<1>6. ASSUME NEW w \in Workers, EndCalibration(w)
      PROVE  UNCHANGED options /\ domain'[h] = domain[h]
  <2>1. /\ Fresh(task[w].host) /\ task[w].host \in Hosts
        /\ SetCalibratedForHost(task[w].host) /\ UNCHANGED options
    BY <1>6 DEF EndCalibration, CalibInv, StageInv, Working, InGroup
  <2>2. h # task[w].host
    BY <2>1 DEF Fresh
  <2> QED
    BY <1>1, <2>1, <2>2, SetCalibratedFacts
<1> QED
  BY <1>1, <1>2, <1>3, <1>4, <1>5, <1>6, Steps DEF vars

(* The verdict on a response of a calibrated host changes only while another
   host is calibrated whose strings lead to it (autocalibration.go:105, 190). *)
THEOREM VerdictsFromBase == Spec => VerdictsChangedFromBase
<1>1. ASSUME CalibInv, [Next]_vars, mode = "host", NEW h \in Hosts,
             NEW r \in Answers, domain[h].calibrated,
             ~ \E w \in Workers : holder = w /\ h \in Reached(w) \ {task[w].host}
      PROVE  Matches(h, r)' <=> Matches(h, r)
  <2>1. /\ UNCHANGED options /\ domain[h].made /\ domain'[h].made
        /\ domain'[h].filters = domain[h].filters
    BY <1>1, CalibratedStays
  <2>2. mode' = "host" /\ filterMode' = filterMode
    BY <1>1, <2>1 DEF options
  <2>3. /\ ActiveFilters(h) = domain[h].filters
        /\ ActiveFilters(h)' = domain[h].filters
    BY <1>1, <2>1, <2>2 DEF ActiveFilters, FiltersForDomain
  <2> QED
    BY <2>2, <2>3 DEF Matches, FilteredOut, Active, Hits
<1>2. CalibInv /\ [Next]_vars =>
        [mode = "host" /\ UNCHANGED global =>
           \A h \in Hosts, r \in Answers :
             domain[h].calibrated /\ ~(Matches(h, r)' <=> Matches(h, r)) =>
               \E w \in Workers : /\ holder = w
                                 /\ h \in Reached(w) \ {task[w].host}]_vars
  BY <1>1
<1> QED
  BY <1>2, CalibInit, CalibStep, PTL DEF Spec, VerdictsChangedFromBase

-----------------------------------------------------------------------------
(* A calibration makes each of its requests once. *)

LEMMA Sizes ==
  ASSUME CalibInv
  PROVE  /\ Whole \in Nat /\ Rest \in Nat
         /\ \A h \in Hosts : requests[h] \in Nat
         /\ calib.i \in Nat /\ calib.i >= 1 /\ calib.i <= Strings + 1
         /\ Strings \in Nat /\ calib.left \in SUBSET Groups
<1>1. /\ calib.left \in SUBSET Groups /\ calib.i \in 1 .. (Strings + 1)
      /\ requests \in [Hosts -> Nat]
  BY DEF CalibInv, TypeInv, CalibOf
<1>2. /\ Cardinality(Groups) \in Nat /\ Cardinality(calib.left) \in Nat
  BY <1>1, CalibrationAssumption, FS_CardinalityType, FS_Subset
<1>3. \A m, n \in Nat : m * n \in Nat
  OBVIOUS
<1> QED
  BY <1>1, <1>2, <1>3, CalibrationAssumption DEF Whole, Rest

LEMMA GroupTaken ==
  ASSUME CalibInv, NEW g \in calib.left, calib'.left = calib.left \ {g}
  PROVE  Rest' + Strings = Rest
<1>1. IsFiniteSet(calib.left)
  BY CalibrationAssumption, FS_Subset DEF CalibInv, TypeInv, CalibOf
<1> DEFINE n == Cardinality(calib.left)
           m == Cardinality(calib'.left)
<1>2. n \in Nat /\ m = n - 1
  BY <1>1, FS_CardinalityType, FS_RemoveElement
<1> HIDE DEF n, m
<1>3. m * Strings + Strings = n * Strings
  <2>1. \A k \in Nat, s \in Nat : (k - 1) * s + s = k * s
    OBVIOUS
  <2> QED
    BY <1>2, <2>1, CalibrationAssumption
<1> QED
  BY <1>3 DEF Rest, n, m

(* A step that makes no request of a calibration. *)
LEMMA CountSame ==
  ASSUME CountInv, UNCHANGED <<mode, requests>>,
         \A h \in Hosts : Fresh(h)' => Fresh(h),
         \A w \in Workers, h \in Hosts :
           task[w].at \in Working /\ task[w].host = h =>
             \/ task'[w].at \in Working /\ task'[w].host = h
             \/ ~Fresh(h)',
         \A w \in Workers : Ahead(w)'
  PROVE  CountInv'
<1>1. \A h \in Hosts :
        requests[h] # 0 =>
          \/ ~Fresh(h)'
          \/ \E w \in Workers : task'[w].at \in Working /\ task'[w].host = h
  BY DEF CountInv
<1> QED
  BY <1>1 DEF CountInv, Whole

(* The only goroutine that works is the one that moves. *)
LEMMA OneAhead ==
  ASSUME CountInv, NEW w \in Workers,
         \A v \in Workers : v # w => task'[v].at \notin Working,
         Ahead(w)'
  PROVE  \A v \in Workers : Ahead(v)'
<1> SUFFICES ASSUME NEW v \in Workers, v # w PROVE Ahead(v)'
  OBVIOUS
<1> QED
  BY DEF Ahead, Working, InGroup

LEMMA CountBegin ==
  ASSUME CalibInv, CountInv, NEW w \in Workers, CalibrateIfNeeded(w), Needed(w)
  PROVE  CountInv'
<1>1. /\ holder = NoOne /\ Goto(w, "calibrate") /\ calib'.left = Groups
      /\ task[w].at = "respond" /\ task[w].host \in Hosts
      /\ UNCHANGED <<options, manager, requests>>
  BY DEF CalibrateIfNeeded, Begin, NoCalib, history, CalibInv, StageInv
<1>2. /\ task'[w].at = "calibrate" /\ task'[w].host = task[w].host
      /\ \A v \in Workers : v # w => task'[v] = task[v]
  BY <1>1, GotoFacts DEF CalibInv, Places
<1>3. \A v \in Workers : task[v].at \notin Working
  BY <1>1, CalibrationAssumption DEF CalibInv, StageInv
<1>4. \A h \in Hosts : Fresh(h)' <=> Fresh(h)
  BY <1>1, FreshStays DEF options, manager
<1>5. requests[task[w].host] = 0
  BY <1>1, <1>3 DEF CountInv, Needed, Fresh
<1>6. Ahead(w)'
  <2>1. Rest' = Whole /\ Whole \in Nat
    BY <1>1, Sizes DEF Rest, Whole
  <2>2. Whole' = Whole
    BY DEF Whole
  <2> QED
    BY <1>1, <1>2, <1>5, <2>1, <2>2 DEF Ahead, InGroup
<1>7. \A v \in Workers : Ahead(v)'
  BY <1>2, <1>3, <1>6, OneAhead
<1> QED
  BY <1>1, <1>2, <1>3, <1>4, <1>7, CountSame DEF options

(* A goroutine that does not calibrate, before and after the step. *)
LEMMA CountIdle ==
  ASSUME CalibInv, CountInv, NEW w \in Workers, task[w].at \notin Working,
         NEW t, t.at \notin Working, task' = [task EXCEPT ![w] = t],
         UNCHANGED <<options, manager, calib, requests>>
  PROVE  CountInv'
<1>1. \A v \in Workers : task'[v] = IF v = w THEN t ELSE task[v]
  BY DEF CalibInv, TypeInv
<1>2. \A h \in Hosts : Fresh(h)' <=> Fresh(h)
  BY FreshStays DEF options, manager
<1>3. ASSUME NEW v \in Workers PROVE Ahead(v)'
  <2>1. CASE v = w
    BY <1>1, <2>1 DEF Ahead, Working, InGroup
  <2>2. CASE v # w
    <3>1. task'[v] = task[v] /\ Rest' = Rest /\ Whole' = Whole
      BY <1>1, <2>2 DEF Rest, Whole
    <3> QED
      BY <3>1 DEF CountInv, Ahead
  <2> QED
    BY <2>1, <2>2
<1> QED
  BY <1>1, <1>2, <1>3, CountSame DEF options

(* A goroutine that goes on with its calibration. *)
LEMMA CountWork ==
  ASSUME CalibInv, CountInv, NEW w \in Workers, NEW p \in Working, Goto(w, p),
         task[w].at \in Working, UNCHANGED <<options, requests>>,
         \A h \in Hosts : Fresh(h)' => Fresh(h),
         p = "calibrate" => requests[task[w].host] + Rest' <= Whole,
         p \in InGroup =>
           requests[task[w].host] + Rest' + Strings <= Whole + (calib'.i - 1)
  PROVE  CountInv'
<1>1. /\ task'[w].at = p /\ task'[w].host = task[w].host
      /\ \A v \in Workers : v # w => task'[v] = task[v]
  BY GotoFacts DEF CalibInv, Working, InGroup, Places
<1>2. \A v \in Workers : v # w => task[v].at \notin Working
  BY DEF CalibInv, StageInv
<1>3. Whole' = Whole
  BY DEF Whole
<1>4. Ahead(w)'
  BY <1>1, <1>3 DEF Ahead
<1>5. \A v \in Workers : Ahead(v)'
  BY <1>1, <1>2, <1>4, OneAhead
<1> QED
  BY <1>1, <1>2, <1>5, CountSame DEF options

LEMMA CountNextGroup ==
  ASSUME CalibInv, CountInv, NEW w \in Workers, NextGroup(w)
  PROVE  CountInv'
<1>1. /\ Goto(w, "request") /\ task[w].at = "calibrate" /\ task[w].host \in Hosts
      /\ UNCHANGED <<options, manager, requests>> /\ calib'.i = 1
      /\ \E g \in calib.left : calib'.left = calib.left \ {g}
  BY DEF NextGroup, history, CalibInv, StageInv
<1>2. Rest' + Strings = Rest /\ Rest' \in Int
  <2>1. Rest' + Strings = Rest
    BY <1>1, GroupTaken
  <2>2. calib'.left \in SUBSET Groups
    BY <1>1, Sizes
  <2>3. Rest' \in Int
    <3>1. Cardinality(calib'.left) \in Nat
      BY <2>2, CalibrationAssumption, FS_CardinalityType, FS_Subset
    <3> QED
      BY <3>1, CalibrationAssumption DEF Rest
  <2> QED
    BY <2>1, <2>3
<1>3. requests[task[w].host] + Rest <= Whole
  BY <1>1 DEF CountInv, Ahead
<1>4. requests[task[w].host] + Rest' + Strings <= Whole + (calib'.i - 1)
  BY <1>1, <1>2, <1>3, Sizes
<1>5. \A h \in Hosts : Fresh(h)' => Fresh(h)
  BY <1>1, FreshStays DEF options, manager
<1> QED
  BY <1>1, <1>4, <1>5, CountWork DEF Working, InGroup

(* A step of a calibration between two requests. *)
LEMMA CountDerive ==
  ASSUME CalibInv, CountInv, NEW w \in Workers, NEW p \in Working, Goto(w, p),
         task[w].at \in InGroup, UNCHANGED <<options, requests, calib>>,
         \A h \in Hosts : Fresh(h)' => Fresh(h)
  PROVE  CountInv'
<1>1. /\ requests[task[w].host] + Rest + Strings <= Whole + (calib.i - 1)
      /\ Rest' = Rest /\ task[w].host \in Hosts
  BY DEF CountInv, Ahead, Rest, CalibInv, StageInv, InGroup
<1>2. requests[task[w].host] + Rest <= Whole
  BY <1>1, Sizes
<1> QED
  BY <1>1, <1>2, CountWork DEF Working, InGroup

LEMMA CountFilters ==
  ASSUME CalibInv, CountInv, NEW w \in Workers,
         calibrateFilters(w) \/ AddCommon(w)
  PROVE  CountInv'
<1>1. TypeInv
  BY DEF CalibInv
<1>2. PICK p \in Working : Goto(w, p)
  <2>1. AfterDerive \in Working
    BY <1>1, AfterDeriveFacts DEF Working, InGroup
  <2>2. "add" \in Working
    BY DEF Working, InGroup
  <2> QED
    BY <2>1, <2>2 DEF calibrateFilters, AddCommon
<1>3. /\ task[w].at \in InGroup /\ UNCHANGED <<options, requests, calib>>
  BY DEF calibrateFilters, AddCommon, InGroup
<1>4. \A h \in Hosts : Fresh(h)' => Fresh(h)
  <2>1. /\ UNCHANGED calibrated
        /\ \A h \in Hosts :
             domain'[h].calibrated <=> domain[h].calibrated
    <3>1. CASE calibrateFilters(w)
      BY <3>1 DEF calibrateFilters, manager
    <3>2. CASE AddCommon(w)
      BY <3>2, AddFacts, KeyFacts
    <3> QED
      BY <3>1, <3>2
  <2> QED
    BY <1>3, <2>1, FreshStays DEF options
<1> QED
  BY <1>2, <1>3, <1>4, CountDerive

LEMMA CountRequest ==
  ASSUME CalibInv, CountInv, NEW w \in Workers, CalibrationRequest(w)
  PROVE  CountInv'
<1>1. /\ task[w].at = "request" /\ holder = w /\ task[w].host \in Hosts
      /\ calib.i \in 1..Strings /\ calib \in CalibOf /\ TypeInv
      /\ UNCHANGED <<options, manager, holder>>
      /\ requests' = [requests EXCEPT ![task[w].host] = @ + 1]
      /\ Fresh(task[w].host)
  BY DEF CalibrationRequest, CalibInv, StageInv, TypeInv, Working, InGroup
<1>2. /\ calib'.i = calib.i + 1 /\ calib'.left = calib.left
  BY <1>1 DEF CalibrationRequest, CalibOf
<1>3. PICK p \in Working :
        /\ Goto(w, p)
        /\ p = "calibrate" => calib.i >= Strings
  <2>1. /\ AfterString(calib.i) \in Working
        /\ AfterString(calib.i) = "calibrate" => calib.i >= Strings
        /\ "derive" \in Working
    BY <1>1, CalibrationAssumption DEF AfterString, Working, InGroup
  <2> QED
    BY <2>1 DEF CalibrationRequest
<1>4. /\ task'[w].at = p /\ task'[w].host = task[w].host
      /\ \A v \in Workers : v # w => task'[v] = task[v]
      /\ \A v \in Workers : v # w => task[v].at \notin Working
  BY <1>1, <1>3, GotoFacts DEF CalibInv, StageInv, Working, InGroup, Places
<1> DEFINE h0 == task[w].host
<1>5. /\ requests'[h0] = requests[h0] + 1
      /\ \A h \in Hosts : h # h0 => requests'[h] = requests[h]
  BY <1>1 DEF TypeInv
<1>6. requests[h0] + Rest + Strings <= Whole + (calib.i - 1)
  BY <1>1 DEF CountInv, Ahead, InGroup
<1>7. Rest' = Rest /\ Whole' = Whole
  BY <1>2 DEF Rest, Whole
<1>8. /\ requests'[h0] + Rest + Strings <= Whole + calib.i
      /\ calib.i >= Strings => requests'[h0] + Rest <= Whole
      /\ requests'[h0] <= Whole
  BY <1>1, <1>5, <1>6, Sizes
<1>9. \A h \in Hosts : Fresh(h)' <=> Fresh(h)
  BY <1>1, FreshStays DEF options, manager
<1>10. \A v \in Workers : Ahead(v)'
  <2>1. Ahead(w)'
    <3>1. calib'.i - 1 = calib.i
      BY <1>2, Sizes
    <3> QED
      BY <1>3, <1>4, <1>7, <1>8, <3>1 DEF Ahead
  <2> QED
    BY <1>4, <2>1, OneAhead
<1>11. ASSUME NEW h \in Hosts
       PROVE  /\ requests'[h] # 0 =>
                   \/ ~Fresh(h)'
                   \/ \E v \in Workers :
                        task'[v].at \in Working /\ task'[v].host = h
              /\ requests'[h] <= Whole'
              /\ mode' = "off" => requests'[h] = 0
  <2>1. CASE h = h0
    BY <1>1, <1>4, <1>7, <1>8, <2>1 DEF Fresh, options
  <2>2. CASE h # h0
    <3>1. requests'[h] = requests[h] /\ mode' = mode
      BY <1>1, <1>5, <2>2 DEF options
    <3>2. ASSUME requests[h] # 0 PROVE ~Fresh(h)
      BY <1>4, <2>2, <3>2 DEF CountInv
    <3> QED
      BY <1>7, <1>9, <3>1, <3>2 DEF CountInv
  <2> QED
    BY <2>1, <2>2
<1>12. mode' = "run" =>
         \A h, k \in Hosts : h # k => requests'[h] = 0 \/ requests'[k] = 0
  <2> SUFFICES ASSUME mode = "run" PROVE
         \A h, k \in Hosts : h # k => requests'[h] = 0 \/ requests'[k] = 0
    BY <1>1 DEF options
  <2>1. ASSUME NEW k \in Hosts, k # h0 PROVE requests'[k] = 0
    <3>1. Fresh(k)
      BY <1>1 DEF Fresh
    <3>2. requests[k] = 0
      BY <1>4, <2>1, <3>1 DEF CountInv
    <3> QED
      BY <1>5, <2>1, <3>2
  <2> QED
    BY <2>1
<1> HIDE DEF h0
<1> QED
  BY <1>10, <1>11, <1>12 DEF CountInv

LEMMA CountEnd ==
  ASSUME CalibInv, CountInv, NEW w \in Workers, EndCalibration(w)
  PROVE  CountInv'
<1>1. /\ task[w].at = "calibrate" /\ Goto(w, "decide") /\ TypeInv
      /\ UNCHANGED <<options, requests>>
      /\ Fresh(task[w].host) /\ task[w].host \in Hosts
      /\ \A v \in Workers : v # w => task[v].at \notin Working
  BY DEF EndCalibration, history, CalibInv, StageInv, Working, InGroup
<1>2. /\ task'[w].at = "decide"
      /\ \A v \in Workers : v # w => task'[v] = task[v]
  BY <1>1, GotoFacts DEF Places
<1>3. PICK host \in Hosts : host = task[w].host
  BY <1>1
<1>4. ~Fresh(host)' /\ \A h \in Hosts : Fresh(h)' => Fresh(h)
  <2>1. CASE mode = "host"
    <3>1. SetCalibratedForHost(host) /\ host \in Hosts
      BY <1>3, <2>1 DEF EndCalibration
    <3>2. /\ domain'[host].calibrated
          /\ \A h \in Hosts : h # host => domain'[h] = domain[h]
      BY <1>1, <3>1, KeyFacts, SetCalibratedFacts
    <3> QED
      BY <1>1, <1>3, <2>1, <3>2 DEF Fresh, options
  <2>2. CASE mode # "host"
    <3>1. SetCalibrated
      BY <2>2 DEF EndCalibration
    <3> QED
      BY <1>1, <2>2, <3>1 DEF SetCalibrated, Fresh, options
  <2> QED
    BY <2>1, <2>2
<1>5. \A v \in Workers : Ahead(v)'
  BY <1>1, <1>2 DEF Ahead, Working, InGroup
<1>6. \A v \in Workers, h \in Hosts :
        task[v].at \in Working /\ task[v].host = h => ~Fresh(h)'
  BY <1>1, <1>3, <1>4
<1> QED
  BY <1>1, <1>4, <1>5, <1>6, CountSame DEF options

LEMMA CountInit == Init => CountInv
<1> SUFFICES ASSUME Init PROVE CountInv
  OBVIOUS
<1>1. Whole \in Nat
  BY CalibInit, Sizes
<1> QED
  BY <1>1 DEF Init, CountInv, Ahead, Idle, InGroup

LEMMA CountStep == CalibInv /\ CountInv /\ [Next]_vars => CountInv'
<1> SUFFICES ASSUME CalibInv, CountInv, [Next]_vars PROVE CountInv'
  OBVIOUS
<1>1. ASSUME UNCHANGED <<options, calibrated, domain, task, calib, requests>>
      PROVE  CountInv'
  <2>1. \A h \in Hosts : Fresh(h)' <=> Fresh(h)
    BY <1>1, FreshStays DEF options
  <2>2. \A w \in Workers : Ahead(w)'
    BY <1>1 DEF CountInv, Ahead, Rest, Whole
  <2> QED
    BY <1>1, <2>1, <2>2, CountSame DEF options
<1>2. CASE UNCHANGED vars
  BY <1>1, <1>2 DEF vars, manager, history
<1>3. ASSUME NEW values \in SUBSET ConsoleValues, SetSizeFilter(values)
      PROVE  CountInv'
  BY <1>1, <1>3 DEF SetSizeFilter
<1>4. ASSUME NEW w \in Workers, Respond(w) \/ Decide(w) PROVE CountInv'
  <2>0. \A b \in Bases, q \in Parts : HostOf[b][q] \in Hosts
    BY HostAssumption
  <2>1. PICK h \in Hosts \cup {NoOne}, b \in Bases \cup {NoOne},
             p \in {"respond", "idle"} :
          task' = [task EXCEPT ![w] = [at |-> p, host |-> h, base |-> b]]
    BY <1>4, <2>0 DEF Respond, Decide, Idle
  <2>2. /\ task[w].at \notin Working
        /\ UNCHANGED <<options, manager, calib, requests>>
    BY <1>4 DEF Respond, Decide, history, Working, InGroup
  <2>3. [at |-> p, host |-> h, base |-> b].at \notin Working
    BY DEF Working, InGroup
  <2> QED
    BY <2>1, <2>2, <2>3, CountIdle
<1>5. ASSUME NEW w \in Workers, CalibrateIfNeeded(w), ~Needed(w) PROVE CountInv'
  <2> DEFINE t == [task[w] EXCEPT !.at = "decide"]
  <2>1. /\ task' = [task EXCEPT ![w] = t] /\ task[w].at \notin Working
        /\ UNCHANGED <<options, manager, calib, requests>>
    BY <1>5 DEF CalibrateIfNeeded, Goto, history, Working, InGroup
  <2>2. t.at \notin Working
    BY DEF CalibInv, TypeInv, TaskOf, Working, InGroup
  <2> HIDE DEF t
  <2> QED
    BY <2>1, <2>2, CountIdle
<1>6. ASSUME NEW w \in Workers,
             \/ (CalibrateIfNeeded(w) /\ Needed(w)) \/ NextGroup(w)
             \/ CalibrationRequest(w) \/ calibrateFilters(w) \/ AddCommon(w)
             \/ EndCalibration(w)
      PROVE  CountInv'
  BY <1>6, CountBegin, CountNextGroup, CountRequest, CountFilters, CountEnd
<1> QED
  BY <1>2, <1>3, <1>4, <1>5, <1>6, Steps

(* Responses are judged after the calibration that is for them, and it makes
   no request twice, whatever fails (autocalibration.go:99-168). *)
THEOREM CalibratedOnceFirst == Spec => []CalibratedOnceBefore
<1>1. CalibInv /\ CountInv => CalibratedOnceBefore
  BY DEF CalibInv, CountInv, CalibratedOnceBefore, CalibratedOnce, Whole
<1> QED
  BY <1>1, CalibInit, CalibStep, CountInit, CountStep, PTL DEF Spec

-----------------------------------------------------------------------------
(* What a calibration has learned stays filtered, where it belongs. *)

LEMMA ForceTypes ==
  ASSUME TypeInv, NEW key \in Hosts
  PROVE  ActiveFilters(key) \in Verdicts
BY DomainFacts DEF ActiveFilters, TypeInv

(* The filters in force at a key after a calibration's step. *)
LEMMA ForceOfAdd ==
  ASSUME CalibInv, NEW w \in Workers, AddCommon(w)
  PROVE  /\ \A key \in Hosts, k \in Kinds :
              ActiveFilters(key)[k] \subseteq ActiveFilters(key)'[k]
         /\ \E k \in CommonKind :
              /\ k \in Kinds
              /\ \A key \in Hosts :
                   (mode = "host" => key = First.key) =>
                     First.resp[k] \in ActiveFilters(key)'[k]
<1>1. TypeInv /\ First.key \in Hosts /\ mode' = mode
  BY AddFacts, FirstFacts DEF CalibInv, AddCommon, options
<1>2. PICK k \in CommonKind :
        /\ k \in Kinds
        /\ mode # "host" =>
             /\ global' = Extend(global, k, First.resp[k])
             /\ domain' = domain
        /\ mode = "host" =>
             /\ global' = global /\ domain'[First.key].made
             /\ domain'[First.key].filters =
                  Extend(FiltersForDomain(First.key), k, First.resp[k])
             /\ \A l \in Hosts : l # First.key => domain'[l] = domain[l]
  BY AddFacts
<1>3. PICK v \in Int : v = First.resp[k]
  BY <1>1, <1>2, AddFacts, FirstFacts
<1>4. CASE mode # "host"
  <2>1. v \in global'[k] /\ \A l \in Kinds : global[l] \subseteq global'[l]
    <3>1. global' = Extend(global, k, v) /\ global \in Verdicts
      BY <1>1, <1>2, <1>3, <1>4 DEF TypeInv
    <3> QED
      BY <1>2, <3>1, ExtendFacts
  <2>2. \A key \in Hosts : /\ ActiveFilters(key) = global
                           /\ ActiveFilters(key)' = global'
    BY <1>1, <1>4 DEF ActiveFilters
  <2> QED
    BY <1>2, <1>3, <1>4, <2>1, <2>2
<1>5. CASE mode = "host"
  <2> DEFINE f == FiltersForDomain(First.key)
  <2>1. f \in Verdicts
    BY <1>1, DomainFacts
  <2>2. /\ v \in domain'[First.key].filters[k]
        /\ \A l \in Kinds : f[l] \subseteq domain'[First.key].filters[l]
    <3>1. domain'[First.key].filters = Extend(f, k, v)
      BY <1>2, <1>3, <1>5
    <3> HIDE DEF f
    <3> QED
      BY <1>2, <2>1, <3>1, ExtendFacts
  <2>3. ASSUME NEW key \in Hosts, key = First.key
        PROVE  /\ ActiveFilters(key) = f
               /\ ActiveFilters(key)' = domain'[First.key].filters
    BY <1>1, <1>2, <1>5, <2>3 DEF ActiveFilters, FiltersForDomain
  <2>4. ASSUME NEW key \in Hosts, key # First.key
        PROVE  ActiveFilters(key)' = ActiveFilters(key)
    <3>1. domain'[key] = domain[key] /\ global' = global
      BY <1>2, <1>5, <2>4
    <3> QED
      BY <1>1, <1>5, <3>1 DEF ActiveFilters, FiltersForDomain
  <2> HIDE DEF f
  <2>5. ASSUME NEW key \in Hosts, NEW l \in Kinds
        PROVE  ActiveFilters(key)[l] \subseteq ActiveFilters(key)'[l]
    <3>1. CASE key # First.key
      BY <2>4, <3>1
    <3>2. CASE key = First.key
      BY <2>2, <2>3, <3>2
    <3> QED
      BY <3>1, <3>2
  <2>6. ASSUME NEW key \in Hosts, key = First.key
        PROVE  First.resp[k] \in ActiveFilters(key)'[k]
    BY <1>2, <1>3, <2>2, <2>3, <2>6
  <2> QED
    BY <1>2, <1>5, <2>5, <2>6
<1> QED
  BY <1>4, <1>5

LEMMA ForceOfEnd ==
  ASSUME CalibInv, NEW w \in Workers, EndCalibration(w), NEW key \in Hosts
  PROVE  ActiveFilters(key)' = ActiveFilters(key)
<1>1. TypeInv /\ mode' = mode /\ task[w].host \in Hosts
  BY DEF CalibInv, StageInv, EndCalibration, options
<1>2. CASE mode = "host"
  <2>1. SetCalibratedForHost(task[w].host) /\ task[w].host \in Hosts
    BY <1>1, <1>2 DEF EndCalibration
  <2> DEFINE own == task[w].host
  <2>2. /\ global' = global /\ domain'[own].made
        /\ domain'[own].filters = FiltersForDomain(own)
        /\ \A l \in Hosts : l # own => domain'[l] = domain[l]
    BY <1>1, <2>1, SetCalibratedFacts
  <2>3. CASE key = own
    BY <1>1, <1>2, <2>2, <2>3 DEF ActiveFilters, FiltersForDomain
  <2>4. CASE key # own
    <3>1. domain'[key] = domain[key]
      BY <2>2, <2>4
    <3> QED
      BY <1>1, <1>2, <2>2, <3>1 DEF ActiveFilters, FiltersForDomain
  <2> QED
    BY <2>3, <2>4
<1>3. CASE mode # "host"
  BY <1>1, <1>3 DEF EndCalibration, SetCalibrated, ActiveFilters
<1> QED
  BY <1>2, <1>3

(* Filters that grow go on hitting what they hit. *)
LEMMA StillFiltered ==
  ASSUME TypeInv, LearnedIsFiltered, NEW l \in learned,
         \A key \in Hosts, k \in Kinds :
           ActiveFilters(key)[k] \subseteq ActiveFilters(key)'[k]
  PROVE  AlreadyFiltered(l.key, l.resp)'
<1>1. l.key \in Hosts
  BY DEF TypeInv, Lesson
<1>2. PICK k \in Kinds : l.resp[k] \in ActiveFilters(l.key)[k]
  BY DEF LearnedIsFiltered, AlreadyFiltered, Hits
<1> QED
  BY <1>1, <1>2 DEF AlreadyFiltered, Hits

LEMMA LearnedInit == Init => LearnedIsFiltered
BY DEF Init, LearnedIsFiltered

LEMMA LearnedStep == CalibInv /\ LearnedIsFiltered /\ [Next]_vars => LearnedIsFiltered'
<1> SUFFICES ASSUME CalibInv, LearnedIsFiltered, [Next]_vars
             PROVE  LearnedIsFiltered'
  OBVIOUS
<1>0. TypeInv
  BY DEF CalibInv
<1>1. ASSUME UNCHANGED <<mode, manager>>
      PROVE  \A key \in Hosts : ActiveFilters(key)' = ActiveFilters(key)
  BY <1>1 DEF ActiveFilters, FiltersForDomain, manager
<1>2. ASSUME UNCHANGED <<mode, manager, learned>> PROVE LearnedIsFiltered'
  <2>1. \A l \in learned : AlreadyFiltered(l.key, l.resp)'
    BY <1>0, <1>1, <1>2, StillFiltered
  <2> QED
    BY <1>2, <2>1 DEF LearnedIsFiltered
<1>3. CASE UNCHANGED vars
  BY <1>2, <1>3 DEF vars, options, history
<1>4. ASSUME NEW values \in SUBSET ConsoleValues, SetSizeFilter(values)
      PROVE  LearnedIsFiltered'
  <2> SUFFICES ASSUME NEW l \in learned' PROVE AlreadyFiltered(l.key, l.resp)'
    BY DEF LearnedIsFiltered
  <2>1. /\ l \in learned /\ mode = "host" /\ domain[l.key].made
        /\ mode' = mode /\ domain' = domain
    BY <1>4 DEF SetSizeFilter, options
  <2>2. ActiveFilters(l.key)' = ActiveFilters(l.key)
    BY <2>1 DEF ActiveFilters, FiltersForDomain
  <2> QED
    BY <2>1, <2>2 DEF LearnedIsFiltered, AlreadyFiltered, Hits
<1>5. ASSUME NEW w \in Workers,
             \/ Respond(w) \/ CalibrateIfNeeded(w) \/ NextGroup(w)
             \/ CalibrationRequest(w) \/ Decide(w)
      PROVE  LearnedIsFiltered'
  BY <1>2, <1>5 DEF Respond, CalibrateIfNeeded, NextGroup, CalibrationRequest,
     Decide, options, history
<1>6. ASSUME NEW w \in Workers, calibrateFilters(w) PROVE LearnedIsFiltered'
  <2>1. UNCHANGED <<mode, manager>>
    BY <1>6 DEF calibrateFilters, options
  <2>2. \A l \in learned : AlreadyFiltered(l.key, l.resp)'
    BY <1>0, <1>1, <2>1, StillFiltered
  <2>3. CASE learned' = learned
    BY <2>2, <2>3 DEF LearnedIsFiltered
  <2>4. CASE /\ learned' = learned \cup {First} /\ calib.responses # <<>>
             /\ AlreadyFiltered(First.key, First.resp)
    <3>1. First.key \in Hosts
      BY <1>0, <2>4, FirstFacts
    <3>2. PICK f \in Lesson : f = First
      BY <1>0, <2>4, FirstFacts
    <3>3. ActiveFilters(f.key)' = ActiveFilters(f.key)
      BY <1>1, <2>1, <3>1, <3>2
    <3>4. AlreadyFiltered(f.key, f.resp)'
      BY <2>4, <3>2, <3>3 DEF AlreadyFiltered, Hits
    <3> QED
      BY <2>2, <2>4, <3>2, <3>4 DEF LearnedIsFiltered
  <2> QED
    BY <1>6, <2>3, <2>4 DEF calibrateFilters
<1>7. ASSUME NEW w \in Workers, AddCommon(w) PROVE LearnedIsFiltered'
  <2>1. \A l \in learned : AlreadyFiltered(l.key, l.resp)'
    BY <1>0, <1>7, ForceOfAdd, StillFiltered
  <2>2. PICK k \in CommonKind :
          /\ k \in Kinds
          /\ \A key \in Hosts :
               (mode = "host" => key = First.key) =>
                 First.resp[k] \in ActiveFilters(key)'[k]
    BY <1>7, ForceOfAdd
  <2>3. calib.responses # <<>>
    BY <1>7, AddFacts
  <2>4. ASSUME NEW n \in 1..Len(calib.responses),
               mode = "host" => calib.responses[n].key = First.key
        PROVE  AlreadyFiltered(calib.responses[n].key, calib.responses[n].resp)'
    <3>1. PICK l \in Lesson : l = calib.responses[n]
      BY <1>0, <2>3, FirstFacts
    <3>2. Agree(k)
      BY <2>2 DEF CommonKind
    <3>3. l.resp[k] = First.resp[k]
      BY <3>1, <3>2 DEF Agree, First
    <3>4. l.key \in Hosts
      BY DEF Lesson
    <3>5. l.resp[k] \in ActiveFilters(l.key)'[k]
      BY <2>2, <2>4, <3>1, <3>3, <3>4
    <3>6. AlreadyFiltered(l.key, l.resp)'
      BY <2>2, <3>5 DEF AlreadyFiltered, Hits
    <3> QED
      BY <1>7, <3>1, <3>6 DEF AddCommon
  <2>5. learned' = learned \cup
          {l \in {calib.responses[n] : n \in 1..Len(calib.responses)} :
             mode = "host" => l.key = First.key}
    BY <1>7 DEF AddCommon
  <2>6. calib' = calib
    BY <1>7 DEF AddCommon
  <2> SUFFICES ASSUME NEW l \in learned' PROVE AlreadyFiltered(l.key, l.resp)'
    BY DEF LearnedIsFiltered
  <2>7. CASE l \in learned
    BY <2>1, <2>7
  <2>8. CASE l \notin learned
    <3>1. PICK n \in 1..Len(calib.responses) :
            /\ l = calib.responses[n]
            /\ mode = "host" => l.key = First.key
      BY <2>5, <2>8
    <3> QED
      BY <2>4, <2>6, <3>1
  <2> QED
    BY <2>7, <2>8
<1>8. ASSUME NEW w \in Workers, EndCalibration(w) PROVE LearnedIsFiltered'
  <2>1. \A l \in learned : AlreadyFiltered(l.key, l.resp)'
    BY <1>0, <1>8, ForceOfEnd, StillFiltered
  <2> QED
    BY <1>8, <2>1 DEF LearnedIsFiltered, EndCalibration, history
<1> QED
  BY <1>3, <1>4, <1>5, <1>6, <1>7, <1>8, Steps

-----------------------------------------------------------------------------
(* Nothing is filtered that was neither asked for nor learned there. *)

(* Why a size is filtered at a host. *)
Explained(key, v) ==
  v \in Asked \/ \E l \in learned : l.key = key /\ l.resp["size"] = v

LEMMA ApartInit == Init => SizesExplained
BY DEF Init, SizesExplained, Asked

(* A map that becomes a host's own is the map that was in force before. *)
LEMMA ForceExplained ==
  ASSUME SizesExplained, mode = "host", NEW key \in Hosts,
         NEW v \in FiltersForDomain(key)["size"]
  PROVE  Explained(key, v)
BY DEF SizesExplained, FiltersForDomain, Explained

LEMMA ApartStep == CalibInv /\ SizesExplained /\ [Next]_vars => SizesExplained'
<1> SUFFICES ASSUME CalibInv, SizesExplained, [Next]_vars, mode' = "host"
             PROVE  SizesExplained'
  BY DEF SizesExplained
<1>0. TypeInv /\ "size" \in Kinds
  BY DEF CalibInv, Kinds
<1>1. ASSUME UNCHANGED <<mode, global, domain>>, learned \subseteq learned'
      PROVE  SizesExplained'
  BY <1>1 DEF SizesExplained
<1>2. CASE UNCHANGED vars
  BY <1>1, <1>2 DEF vars, options, manager, history
<1>3. ASSUME NEW values \in SUBSET ConsoleValues, SetSizeFilter(values)
      PROVE  SizesExplained'
  <2>1. /\ global'["size"] \subseteq Asked /\ UNCHANGED <<mode, domain>>
        /\ learned' = {l \in learned : mode = "host" /\ domain[l.key].made}
    BY <1>0, <1>3 DEF SetSizeFilter, Asked, TypeInv, Verdicts, options
  <2>2. ASSUME NEW key \in Hosts, domain[key].made,
               NEW v \in domain[key].filters["size"], v \notin Asked
        PROVE  \E l \in learned' : l.key = key /\ l.resp["size"] = v
    <3>1. PICK l \in learned : l.key = key /\ l.resp["size"] = v
      BY <2>1, <2>2 DEF SizesExplained
    <3> QED
      BY <2>1, <2>2, <3>1
  <2> QED
    BY <2>1, <2>2 DEF SizesExplained
<1>4. ASSUME NEW w \in Workers,
             \/ Respond(w) \/ CalibrateIfNeeded(w) \/ NextGroup(w)
             \/ CalibrationRequest(w) \/ Decide(w)
      PROVE  SizesExplained'
  BY <1>1, <1>4 DEF Respond, CalibrateIfNeeded, NextGroup, CalibrationRequest,
     Decide, options, manager, history
<1>5. ASSUME NEW w \in Workers, calibrateFilters(w) PROVE SizesExplained'
  BY <1>1, <1>5 DEF calibrateFilters, options, manager
<1>6. ASSUME NEW w \in Workers, AddCommon(w) PROVE SizesExplained'
  <2>1. mode = "host" /\ calib.responses # <<>>
    BY <1>6, AddFacts DEF AddCommon, options
  <2>2. PICK first \in Lesson : first = First
    BY <1>0, <2>1, FirstFacts
  <2>3. first.key \in Hosts
    BY DEF Lesson
  <2>4. PICK k \in Kinds :
          /\ global' = global /\ domain'[first.key].made
          /\ domain'[first.key].filters =
               Extend(FiltersForDomain(first.key), k, first.resp[k])
          /\ \A l \in Hosts : l # first.key => domain'[l] = domain[l]
    BY <1>6, <2>1, <2>2, AddFacts
  <2>5. first.resp[k] \in Int
    BY <1>0, <2>1, <2>2, FirstFacts
  <2>6. learned \subseteq learned' /\ first \in learned'
    <3>1. learned' = learned \cup
            {l \in {calib.responses[n] : n \in 1..Len(calib.responses)} :
               mode = "host" => l.key = First.key}
      BY <1>6 DEF AddCommon
    <3>2. 1 \in 1..Len(calib.responses) /\ first = calib.responses[1]
      BY <1>0, <2>1, <2>2, FirstFacts DEF First
    <3> QED
      BY <2>2, <3>1, <3>2
  <2>7. ASSUME NEW v \in domain'[first.key].filters["size"], v \notin Asked
        PROVE  \E l \in learned' : l.key = first.key /\ l.resp["size"] = v
    <3>1. FiltersForDomain(first.key) \in Verdicts
      BY <1>0, <2>3, DomainFacts
    <3>2. CASE v \in FiltersForDomain(first.key)["size"]
      BY <2>1, <2>3, <2>6, <2>7, <3>2, ForceExplained DEF Explained
    <3>3. CASE v \notin FiltersForDomain(first.key)["size"]
      <4>1. k = "size" /\ v = first.resp[k]
        BY <1>0, <2>4, <2>7, <3>1, <3>3 DEF Extend, Verdicts
      <4> QED
        BY <2>6, <4>1
    <3> QED
      BY <3>2, <3>3
  <2>8. ASSUME NEW key \in Hosts, domain'[key].made,
               NEW v \in domain'[key].filters["size"], v \notin Asked
        PROVE  \E l \in learned' : l.key = key /\ l.resp["size"] = v
    <3>1. CASE key = first.key
      BY <2>7, <2>8, <3>1
    <3>2. CASE key # first.key
      <4>1. domain'[key] = domain[key]
        BY <2>4, <3>2
      <4> QED
        BY <2>1, <2>6, <2>8, <4>1 DEF SizesExplained
    <3> QED
      BY <3>1, <3>2
  <2> QED
    BY <2>1, <2>4, <2>8 DEF SizesExplained
<1>7. ASSUME NEW w \in Workers, EndCalibration(w) PROVE SizesExplained'
  <2>1. /\ mode = "host" /\ task[w].host \in Hosts /\ learned' = learned
        /\ SetCalibratedForHost(task[w].host)
    BY <1>7 DEF EndCalibration, options, history, CalibInv, StageInv
  <2> DEFINE own == task[w].host
  <2>2. /\ own \in Hosts /\ global' = global
        /\ domain'[own].filters = FiltersForDomain(own)
        /\ \A l \in Hosts : l # own => domain'[l] = domain[l]
    BY <1>0, <2>1, KeyFacts, SetCalibratedFacts
  <2> HIDE DEF own
  <2>3. ASSUME NEW key \in Hosts, domain'[key].made,
               NEW v \in domain'[key].filters["size"], v \notin Asked
        PROVE  \E l \in learned' : l.key = key /\ l.resp["size"] = v
    <3>1. CASE key = own
      <4>1. v \in FiltersForDomain(key)["size"]
        BY <2>2, <2>3, <3>1
      <4> QED
        BY <2>1, <2>3, <4>1, ForceExplained DEF Explained
    <3>2. CASE key # own
      <4>1. domain'[key] = domain[key]
        BY <2>2, <3>2
      <4> QED
        BY <2>1, <2>3, <4>1 DEF SizesExplained
    <3> QED
      BY <3>1, <3>2
  <2> QED
    BY <2>1, <2>2, <2>3 DEF SizesExplained
<1> QED
  BY <1>2, <1>3, <1>4, <1>5, <1>6, <1>7, Steps

(* The filters in force are those that somebody asked for and those that a
   calibration has learned, each where it belongs (filter.go:104-149). *)
THEOREM Explanations == Spec => []FiltersExplained
<1>1. LearnedIsFiltered /\ SizesExplained => FiltersExplained
  BY DEF FiltersExplained
<1> QED
  BY <1>1, CalibInit, CalibStep, LearnedInit, LearnedStep, ApartInit, ApartStep,
     PTL DEF Spec

-----------------------------------------------------------------------------
(* A calibration comes to its end, and gives calibMutex back. *)

(* The steps ahead of a goroutine, counted generously: three for each string
   of a group, and three for the group; n of them are in groups to come, and
   there is room for a group in hand. *)
PerGroup   == 3 * Strings + 3
GroupsLeft == Cardinality(calib.left) * PerGroup
MostAhead  == Cardinality(Groups) * PerGroup + PerGroup + 3

StepsFrom(at, n, i) ==
  CASE at = "idle"      -> 0
    [] at = "respond"   -> MostAhead
    [] at = "calibrate" -> n + 2
    [] at = "request"   -> n + 3 * (Strings - i) + 7
    [] at = "derive"    -> n + 3 * (Strings - i) + 9
    [] at = "add"       -> n + 3 * (Strings - i) + 8
    [] at = "decide"    -> 1

Remaining(w) == StepsFrom(task[w].at, GroupsLeft, calib.i)

(* The mutex is in the hands of a goroutine that can go on with its
   calibration ... *)
HolderWorks ==
  holder # NoOne => /\ holder \in Workers
                    /\ task[holder].at \in Working
                    /\ task[holder].at = "add" => CommonKind # {}

(* ... and what is ahead of each goroutine is bounded. *)
MutexInUse ==
  HolderWorks /\ \A w \in Workers : Remaining(w) \in 0 .. MostAhead

(* A goroutine that steps has less ahead of it, and nobody else's step, the
   console's included, gives it more. *)
NobodyThrownBack ==
  \A w \in Workers : task[w].at # "idle" =>
    \/ Remaining(w)' < Remaining(w)
    \/ task'[w] = task[w] /\ Remaining(w)' = Remaining(w)

LEMMA StepsFromFacts ==
  ASSUME NEW n, NEW i
  PROVE  /\ StepsFrom("idle", n, i) = 0
         /\ StepsFrom("respond", n, i) = MostAhead
         /\ StepsFrom("calibrate", n, i) = n + 2
         /\ StepsFrom("request", n, i) = n + 3 * (Strings - i) + 7
         /\ StepsFrom("derive", n, i) = n + 3 * (Strings - i) + 9
         /\ StepsFrom("add", n, i) = n + 3 * (Strings - i) + 8
         /\ StepsFrom("decide", n, i) = 1
BY DEF StepsFrom

(* The groups that are left, in steps; one group more has room for all that
   its strings may need. *)
LEMMA GroupSteps ==
  ASSUME NEW S \in SUBSET Groups
  PROVE  /\ Cardinality(S) * PerGroup \in Nat
         /\ Cardinality(S) * PerGroup + PerGroup + 3 <= MostAhead
         /\ MostAhead \in Nat
         /\ \A g \in S : Cardinality(S \ {g}) * PerGroup + PerGroup
                           = Cardinality(S) * PerGroup
<1> DEFINE n == Cardinality(S)
           m == Cardinality(Groups)
<1>1. IsFiniteSet(S) /\ n \in Nat /\ m \in Nat /\ n <= m
  BY CalibrationAssumption, FS_Subset, FS_CardinalityType
<1>2. PerGroup \in Nat
  BY CalibrationAssumption DEF PerGroup
<1>3. n * PerGroup \in Nat /\ m * PerGroup \in Nat /\ n * PerGroup <= m * PerGroup
  <2> HIDE DEF n, m
  <2>1. \A k \in Nat, j \in Nat, p \in Nat :
          k <= j => k * p \in Nat /\ j * p \in Nat /\ k * p <= j * p
    <3> SUFFICES ASSUME NEW k \in Nat, NEW j \in Nat, NEW p \in Nat, k <= j
                 PROVE  k * p \in Nat /\ j * p \in Nat /\ k * p <= j * p
      OBVIOUS
    <3>1. (j - k) * p \in Nat /\ k * p \in Nat /\ j * p = k * p + (j - k) * p
      <4>1. \A x \in Nat, y \in Nat : x * y \in Nat
        OBVIOUS
      <4>2. j - k \in Nat
        OBVIOUS
      <4>3. (j - k) * p \in Nat /\ k * p \in Nat
        BY <4>1, <4>2
      <4>4. j * p = k * p + (j - k) * p
        OBVIOUS
      <4> QED
        BY <4>3, <4>4
    <3> QED
      BY <3>1
  <2> QED
    BY <1>1, <1>2, <2>1
<1>4. ASSUME NEW g \in S
      PROVE  Cardinality(S \ {g}) * PerGroup + PerGroup = n * PerGroup
  <2>1. Cardinality(S \ {g}) = n - 1
    BY <1>1, FS_RemoveElement
  <2>2. \A k \in Nat, p \in Nat : (k - 1) * p + p = k * p
    OBVIOUS
  <2> HIDE DEF n
  <2> QED
    BY <1>1, <1>2, <2>1, <2>2
<1>5. MostAhead = m * PerGroup + PerGroup + 3
  BY DEF MostAhead
<1>6. n * PerGroup + PerGroup + 3 <= MostAhead /\ MostAhead \in Nat
  <2> HIDE DEF n, m
  <2>1. \A a, b \in Nat : a <= b => a + PerGroup + 3 <= b + PerGroup + 3
    BY <1>2
  <2> QED
    BY <1>2, <1>3, <1>5, <2>1
<1> QED
  BY <1>3, <1>4, <1>6

LEMMA RemainingBound ==
  ASSUME CalibInv, NEW w \in Workers
  PROVE  Remaining(w) \in 0 .. MostAhead
<1>1. /\ task[w].at \in Places /\ calib.left \in SUBSET Groups
      /\ calib.i \in 1 .. (Strings + 1) /\ Strings \in Nat \ {0}
  BY CalibrationAssumption DEF CalibInv, TypeInv, TaskOf, CalibOf
<1> DEFINE n == GroupsLeft  i == calib.i  at == task[w].at
           r == StepsFrom(at, n, i)
<1>2. n \in Nat /\ MostAhead \in Nat /\ n + (3 * Strings + 3) + 3 <= MostAhead
  BY <1>1, GroupSteps DEF GroupsLeft, PerGroup
<1>3. at \in {"idle", "respond", "calibrate", "request", "derive", "add", "decide"}
  BY <1>1 DEF Places
<1>4. i \in Nat /\ 1 <= i /\ i <= Strings + 1
  BY <1>1
<1> HIDE DEF n, i, at
<1>5. r \in 0 .. MostAhead
  BY <1>1, <1>2, <1>3, <1>4, StepsFromFacts
<1> QED
  BY <1>5 DEF Remaining, n, i, at

(* A step of w to the place p, which leaves less ahead of it. *)
LEMMA NextLowers ==
  ASSUME CalibInv, NEW w \in Workers, NEW p \in Places, Goto(w, p),
         StepsFrom(p, GroupsLeft', calib'.i) < Remaining(w),
         \A v \in Workers : v # w => task[v].at \notin Working \/ UNCHANGED calib
  PROVE  NobodyThrownBack
<1>1. /\ task'[w].at = p
      /\ \A v \in Workers : v # w => task'[v] = task[v]
  BY GotoFacts DEF CalibInv
<1>2. Remaining(w)' < Remaining(w)
  BY <1>1 DEF Remaining
<1>3. ASSUME NEW v \in Workers, v # w PROVE Remaining(v)' = Remaining(v)
  <2>1. CASE UNCHANGED calib
    BY <1>1, <1>3, <2>1 DEF Remaining, GroupsLeft
  <2>2. CASE task[v].at \notin Working
    <3>1. task'[v] = task[v] /\ task[v].at \in {"idle", "respond", "decide"}
      BY <1>1, <1>3, <2>2 DEF CalibInv, TypeInv, TaskOf, Places, Working, InGroup
    <3> QED
      BY <3>1, StepsFromFacts DEF Remaining
  <2> QED
    BY <1>3, <2>1, <2>2
<1> QED
  BY <1>1, <1>2, <1>3 DEF NobodyThrownBack

(* What a working goroutine knows of its calibration. *)
LEMMA WorkFacts ==
  ASSUME CalibInv, NEW w \in Workers, task[w].at \in Working
  PROVE  /\ holder = w /\ GroupsLeft \in Nat /\ calib.left \in SUBSET Groups
         /\ calib.i \in Nat /\ 1 <= calib.i /\ calib.i <= Strings + 1
         /\ Strings \in Nat \ {0} /\ calib \in CalibOf
         /\ \A v \in Workers : v # w => task[v].at \notin Working
<1>1. /\ calib \in CalibOf /\ calib.left \in SUBSET Groups
      /\ calib.i \in 1 .. (Strings + 1)
  BY DEF CalibInv, TypeInv, CalibOf
<1>2. GroupsLeft \in Nat
  BY <1>1, GroupSteps DEF GroupsLeft
<1>3. holder = w /\ \A v \in Workers : v # w => task[v].at \notin Working
  BY DEF CalibInv, StageInv
<1> QED
  BY <1>1, <1>2, <1>3, CalibrationAssumption

LEMMA BeginsBack ==
  ASSUME CalibInv, NEW w \in Workers, CalibrateIfNeeded(w)
  PROVE  NobodyThrownBack
<1>1. /\ task[w].at = "respond" /\ holder = NoOne
      /\ \A v \in Workers : task[v].at \notin Working
      /\ Remaining(w) = MostAhead
  BY CalibrationAssumption, StepsFromFacts
     DEF CalibrateIfNeeded, CalibInv, StageInv, Remaining
<1>2. /\ Cardinality(Groups) * PerGroup \in Nat
      /\ Cardinality(Groups) * PerGroup + PerGroup + 3 <= MostAhead
      /\ MostAhead \in Nat /\ PerGroup \in Nat
  BY GroupSteps, CalibrationAssumption DEF PerGroup
<1>3. CASE Needed(w)
  <2>1. Goto(w, "calibrate") /\ calib'.left = Groups
    BY <1>3 DEF CalibrateIfNeeded, Begin, NoCalib
  <2>2. GroupsLeft' = Cardinality(Groups) * PerGroup
    BY <2>1 DEF GroupsLeft, PerGroup
  <2>3. StepsFrom("calibrate", GroupsLeft', calib'.i) = GroupsLeft' + 2
    BY StepsFromFacts
  <2>4. StepsFrom("calibrate", GroupsLeft', calib'.i) < Remaining(w)
    BY <1>1, <1>2, <2>2, <2>3
  <2> QED
    BY <1>1, <2>1, <2>4, NextLowers DEF Places
<1>4. CASE ~Needed(w)
  <2>1. Goto(w, "decide")
    BY <1>4 DEF CalibrateIfNeeded
  <2>2. StepsFrom("decide", GroupsLeft', calib'.i) = 1
    BY StepsFromFacts
  <2>3. StepsFrom("decide", GroupsLeft', calib'.i) < Remaining(w)
    BY <1>1, <1>2, <2>2
  <2> QED
    BY <1>1, <2>1, <2>3, NextLowers DEF Places
<1> QED
  BY <1>3, <1>4

LEMMA NextGroupBack ==
  ASSUME CalibInv, NEW w \in Workers, NextGroup(w)
  PROVE  NobodyThrownBack
<1>1. PICK g \in calib.left :
        calib' = [left |-> calib.left \ {g}, group |-> g, i |-> 1,
                  responses |-> <<>>]
  BY DEF NextGroup
<1>2. task[w].at = "calibrate" /\ Goto(w, "request")
  BY DEF NextGroup
<1>3. /\ calib.left \in SUBSET Groups /\ GroupsLeft \in Nat
      /\ Strings \in Nat \ {0}
      /\ \A v \in Workers : v # w => task[v].at \notin Working
  BY <1>2, WorkFacts DEF Working
<1>4. GroupsLeft' + PerGroup = GroupsLeft /\ GroupsLeft' \in Nat
  <2>1. calib'.left = calib.left \ {g} /\ calib'.left \in SUBSET Groups
    BY <1>1, <1>3
  <2>2. GroupsLeft' = Cardinality(calib.left \ {g}) * PerGroup
    BY <2>1 DEF GroupsLeft, PerGroup
  <2>3. Cardinality(calib.left \ {g}) * PerGroup + PerGroup
          = Cardinality(calib.left) * PerGroup
    BY <1>1, <1>3, GroupSteps
  <2>4. Cardinality(calib.left \ {g}) * PerGroup \in Nat
    BY <2>1, GroupSteps
  <2> QED
    BY <2>2, <2>3, <2>4 DEF GroupsLeft
<1>5. calib'.i = 1
  BY <1>1
<1>6. StepsFrom("request", GroupsLeft', calib'.i)
        = GroupsLeft' + 3 * (Strings - 1) + 7
  BY <1>5, StepsFromFacts
<1>7. Remaining(w) = GroupsLeft + 2
  BY <1>2, StepsFromFacts DEF Remaining
<1>8. StepsFrom("request", GroupsLeft', calib'.i) < Remaining(w)
  <2> DEFINE m == GroupsLeft'  n == GroupsLeft
  <2>1. m \in Nat /\ n \in Nat /\ m + (3 * Strings + 3) = n
    BY <1>3, <1>4 DEF PerGroup
  <2>2. m + 3 * (Strings - 1) + 7 < n + 2
    <3> HIDE DEF m, n
    <3> QED
      BY <1>3, <2>1
  <2> QED
    BY <1>6, <1>7, <2>2
<1> QED
  BY <1>2, <1>3, <1>8, NextLowers DEF Places

LEMMA RequestBack ==
  ASSUME CalibInv, NEW w \in Workers, CalibrationRequest(w)
  PROVE  NobodyThrownBack
<1>1. task[w].at = "request"
  BY DEF CalibrationRequest
<1>2. /\ GroupsLeft \in Nat /\ calib.i \in Nat /\ Strings \in Nat \ {0}
      /\ calib \in CalibOf
      /\ \A v \in Workers : v # w => task[v].at \notin Working
  BY <1>1, WorkFacts DEF Working, InGroup
<1>3. calib.i <= Strings
  BY <1>1 DEF CalibInv, StageInv
<1>4. calib'.i = calib.i + 1 /\ calib'.left = calib.left
  BY <1>2 DEF CalibrationRequest, CalibOf
<1>5. GroupsLeft' = GroupsLeft
  BY <1>4 DEF GroupsLeft, PerGroup
<1>6. PICK p \in {"request", "derive", "calibrate"} : Goto(w, p)
  BY <1>2, AfterStringFacts DEF CalibrationRequest
<1>7. StepsFrom(p, GroupsLeft', calib'.i) < Remaining(w)
  <2> DEFINE n == GroupsLeft  i == calib.i  j == calib'.i
  <2>1. Remaining(w) = n + 3 * (Strings - i) + 7
    BY <1>1, StepsFromFacts DEF Remaining
  <2>2. \/ StepsFrom(p, n, j) = n + 3 * (Strings - j) + 7
        \/ StepsFrom(p, n, j) = n + 3 * (Strings - j) + 9
        \/ StepsFrom(p, n, j) = n + 2
    BY <1>6, StepsFromFacts
  <2>3. n \in Nat /\ i \in Nat /\ j = i + 1 /\ i <= Strings
    BY <1>2, <1>3, <1>4
  <2>4. StepsFrom(p, n, j) < n + 3 * (Strings - i) + 7
    <3> HIDE DEF n, i, j
    <3> QED
      BY <1>2, <2>2, <2>3
  <2> QED
    BY <1>5, <2>1, <2>4
<1> QED
  BY <1>2, <1>6, <1>7, NextLowers DEF Places

LEMMA FiltersBack ==
  ASSUME CalibInv, NEW w \in Workers, calibrateFilters(w) \/ AddCommon(w)
  PROVE  NobodyThrownBack
<1>1. task[w].at \in {"derive", "add"} /\ UNCHANGED calib
  BY DEF calibrateFilters, AddCommon
<1>2. /\ GroupsLeft \in Nat /\ calib.i \in Nat /\ Strings \in Nat \ {0}
      /\ calib.i >= 1 /\ calib.i <= Strings + 1
  BY <1>1, WorkFacts DEF Working, InGroup
<1>3. AfterDerive \in {"request", "calibrate"}
  <2>1. mode # "run" => AfterString(calib.i - 1) \in {"request", "calibrate"}
    BY DEF AfterString
  <2> QED
    BY <2>1 DEF AfterDerive
<1>4. PICK p \in {"request", "calibrate", "add"} :
        Goto(w, p) /\ (p = "add" => task[w].at = "derive")
  BY <1>3 DEF calibrateFilters, AddCommon
<1>5. StepsFrom(p, GroupsLeft, calib.i) < Remaining(w)
  <2> DEFINE n == GroupsLeft  i == calib.i
  <2>1. /\ task[w].at = "derive" => Remaining(w) = n + 3 * (Strings - i) + 9
        /\ task[w].at = "add" => Remaining(w) = n + 3 * (Strings - i) + 8
    BY StepsFromFacts DEF Remaining
  <2>2. /\ p = "request" => StepsFrom(p, n, i) = n + 3 * (Strings - i) + 7
        /\ p = "calibrate" => StepsFrom(p, n, i) = n + 2
        /\ p = "add" => StepsFrom(p, n, i) = n + 3 * (Strings - i) + 8
    BY StepsFromFacts
  <2>3. n \in Nat /\ i \in Nat /\ i <= Strings + 1 /\ Strings \in Nat
    BY <1>2
  <2> HIDE DEF n, i
  <2>4. StepsFrom(p, n, i) < Remaining(w)
    BY <1>1, <1>4, <2>1, <2>2, <2>3
  <2> QED
    BY <2>4 DEF n, i
<1>6. GroupsLeft' = GroupsLeft /\ calib' = calib
  BY <1>1 DEF GroupsLeft, PerGroup
<1> QED
  BY <1>1, <1>4, <1>5, <1>6, NextLowers DEF Places

LEMMA EndsBack ==
  ASSUME CalibInv, NEW w \in Workers, EndCalibration(w)
  PROVE  NobodyThrownBack
<1>1. task[w].at = "calibrate" /\ Goto(w, "decide")
  BY DEF EndCalibration
<1>2. /\ GroupsLeft \in Nat
      /\ \A v \in Workers : v # w => task[v].at \notin Working
  BY <1>1, WorkFacts DEF Working
<1>3. /\ StepsFrom("decide", GroupsLeft', calib'.i) = 1
      /\ Remaining(w) = GroupsLeft + 2
  BY <1>1, StepsFromFacts DEF Remaining
<1>4. StepsFrom("decide", GroupsLeft', calib'.i) < Remaining(w)
  BY <1>2, <1>3
<1> QED
  BY <1>1, <1>2, <1>4, NextLowers DEF Places

LEMMA BackStep == CalibInv /\ [Next]_vars => NobodyThrownBack
<1> SUFFICES ASSUME CalibInv, [Next]_vars PROVE NobodyThrownBack
  OBVIOUS
<1>1. ASSUME UNCHANGED calib, NEW w \in Workers, task'[w] = task[w]
      PROVE  Remaining(w)' = Remaining(w)
  BY <1>1 DEF Remaining, GroupsLeft
<1>2. CASE UNCHANGED vars
  BY <1>1, <1>2 DEF vars, NobodyThrownBack
<1>3. ASSUME NEW values \in SUBSET ConsoleValues, SetSizeFilter(values)
      PROVE  NobodyThrownBack
  BY <1>1, <1>3 DEF SetSizeFilter, NobodyThrownBack
<1>4. ASSUME NEW w \in Workers, Respond(w) \/ Decide(w) PROVE NobodyThrownBack
  <2>1. UNCHANGED calib /\ \A v \in Workers : v # w => task'[v] = task[v]
    BY <1>4 DEF Respond, Decide, CalibInv, TypeInv
  <2>2. task[w].at = "idle" \/ Remaining(w)' < Remaining(w)
    <3>1. CASE Respond(w)
      BY <3>1 DEF Respond
    <3>2. CASE Decide(w)
      <4>1. task[w].at = "decide" /\ task'[w].at = "idle"
        BY <3>2 DEF Decide, Idle, CalibInv, TypeInv
      <4>2. Remaining(w) = 1 /\ Remaining(w)' = 0
        BY <4>1, StepsFromFacts DEF Remaining
      <4> QED
        BY <4>2
    <3> QED
      BY <1>4, <3>1, <3>2
  <2> QED
    BY <1>1, <2>1, <2>2 DEF NobodyThrownBack
<1>5. ASSUME NEW w \in Workers,
             \/ CalibrateIfNeeded(w) \/ NextGroup(w) \/ CalibrationRequest(w)
             \/ calibrateFilters(w) \/ AddCommon(w) \/ EndCalibration(w)
      PROVE  NobodyThrownBack
  BY <1>5, BeginsBack, NextGroupBack, RequestBack, FiltersBack, EndsBack
<1> QED
  BY <1>2, <1>3, <1>4, <1>5, Steps

(* The mutex passes from hand to hand. *)
LEMMA HolderInit == Init => HolderWorks
BY DEF Init, HolderWorks

LEMMA HolderStep == CalibInv /\ HolderWorks /\ [Next]_vars => HolderWorks'
<1> SUFFICES ASSUME CalibInv, HolderWorks, [Next]_vars PROVE HolderWorks'
  OBVIOUS
<1>1. ASSUME UNCHANGED <<holder, calib>>,
             holder # NoOne => task'[holder] = task[holder]
      PROVE  HolderWorks'
  BY <1>1 DEF HolderWorks, CommonKind, Agree
<1>2. CASE UNCHANGED vars
  BY <1>1, <1>2 DEF vars
<1>3. ASSUME NEW values \in SUBSET ConsoleValues, SetSizeFilter(values)
      PROVE  HolderWorks'
  BY <1>1, <1>3 DEF SetSizeFilter
<1>4. ASSUME NEW w \in Workers, Respond(w) \/ Decide(w) PROVE HolderWorks'
  <2>1. task[w].at \notin Working /\ UNCHANGED <<holder, calib>>
    BY <1>4 DEF Respond, Decide, Working, InGroup
  <2>2. \A v \in Workers : v # w => task'[v] = task[v]
    BY <1>4 DEF Respond, Decide, CalibInv, TypeInv
  <2>3. holder # NoOne => task'[holder] = task[holder]
    BY <2>1, <2>2 DEF HolderWorks
  <2> QED
    BY <1>1, <2>1, <2>3
<1>5. ASSUME NEW w \in Workers, NEW p \in Working, Goto(w, p), holder' = w,
             p = "add" => CommonKind' # {}
      PROVE  HolderWorks'
  <2>1. task'[w].at = p
    BY <1>5, GotoFacts DEF CalibInv, Places, Working, InGroup
  <2> QED
    BY <1>5, <2>1 DEF HolderWorks
<1>6. ASSUME NEW w \in Workers, CalibrateIfNeeded(w) PROVE HolderWorks'
  <2>1. CASE Needed(w)
    BY <1>5, <1>6, <2>1 DEF CalibrateIfNeeded, Begin, Working
  <2>2. CASE ~Needed(w)
    BY <1>6, <2>2 DEF CalibrateIfNeeded, HolderWorks
  <2> QED
    BY <2>1, <2>2
<1>7. ASSUME NEW w \in Workers, NextGroup(w) PROVE HolderWorks'
  <2>1. holder' = w /\ Goto(w, "request")
    BY <1>7, WorkFacts DEF NextGroup, Working
  <2> QED
    BY <1>5, <2>1 DEF Working, InGroup
<1>8. ASSUME NEW w \in Workers, CalibrationRequest(w) PROVE HolderWorks'
  <2>1. holder' = w /\ calib.i \in Nat
    BY <1>8, WorkFacts DEF CalibrationRequest, Working, InGroup
  <2>2. PICK p \in {"request", "derive", "calibrate"} : Goto(w, p)
    BY <1>8, <2>1, AfterStringFacts DEF CalibrationRequest
  <2> QED
    BY <1>5, <2>1, <2>2 DEF Working, InGroup
<1>9. ASSUME NEW w \in Workers, calibrateFilters(w) \/ AddCommon(w)
      PROVE  HolderWorks'
  <2>1. task[w].at \in InGroup
    BY <1>9 DEF calibrateFilters, AddCommon, InGroup
  <2>2. holder = w /\ UNCHANGED <<holder, calib>>
    BY <1>9, <2>1, WorkFacts DEF calibrateFilters, AddCommon, Working
  <2>3. AfterDerive \in {"request", "calibrate"}
    <3>1. mode # "run" => AfterString(calib.i - 1) \in {"request", "calibrate"}
      BY DEF AfterString
    <3> QED
      BY <3>1 DEF AfterDerive
  <2>4. PICK p \in {"request", "calibrate", "add"} :
          Goto(w, p) /\ (p = "add" => CommonKind # {})
    BY <1>9, <2>3 DEF calibrateFilters, AddCommon
  <2>5. CommonKind' = CommonKind
    BY <2>2 DEF CommonKind, Agree
  <2> QED
    BY <1>5, <2>2, <2>4, <2>5 DEF Working, InGroup
<1>10. ASSUME NEW w \in Workers, EndCalibration(w) PROVE HolderWorks'
  BY <1>10 DEF EndCalibration, HolderWorks
<1> QED
  BY <1>2, <1>3, <1>4, <1>6, <1>7, <1>8, <1>9, <1>10, Steps

(* Whatever its requests come to, a calibration is over after a bounded number
   of steps of the goroutine that runs it, and calibMutex is never held by one
   that does not go on (autocalibration.go:99-168): who waits for the mutex
   waits for a bounded number of steps of others.  What fairness adds to this
   is only that they are taken (EveryResponseDecided). *)
THEOREM CalibrationEnds == Spec => []MutexInUse /\ [][NobodyThrownBack]_vars
<1>1. CalibInv /\ HolderWorks => MutexInUse
  BY RemainingBound DEF MutexInUse
<1> QED
  BY <1>1, CalibInit, CalibStep, HolderInit, HolderStep, BackStep, PTL DEF Spec
=============================================================================
