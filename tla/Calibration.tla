----------------------------- MODULE Calibration -----------------------------
(***************************************************************************)
(* Autocalibration (pkg/engine/autocalibration.go) over the matchers and   *)
(* filters of pkg/filter/filter.go, as the request goroutines of runTask   *)
(* and the filter commands of the console use them.  A response is what    *)
(* filters look at: its size, words and lines.  A map of filters gives the *)
(* values of each kind; a kind without values is not in the map.           *)
(***************************************************************************)
EXTENDS Integers, Sequences, FiniteSets

CONSTANTS
  Workers,              \* the places of the thread limiter
  Hosts,                \* the values of HostURLFromRequest: host and directory
  Bases, Parts,         \* what the keyword leaves of a request, and what its
                        \* payload adds to the host and directory
  HostOf,               \* the host of a base with a part
  Groups, Strings,      \* groups of strategies, and the strings in a group
  PartOf,               \* the part that a string of a strategy adds
  Answers,              \* the responses: [size, word, line]
  Matchers, Filters,    \* the maps that the options configure
  MatcherMode,          \* -mmode, "or" or "and"
  ConsoleValues,        \* size filters that the console sets
  MaxTasks              \* bound of the requests

NoOne == "no one"
Kinds == {"size", "word", "line"}

ASSUME CalibrationAssumption ==
  /\ IsFiniteSet(Workers) /\ NoOne \notin Workers
  /\ Strings \in Nat \ {0} /\ MaxTasks \in Nat
  /\ IsFiniteSet(Groups)
  /\ Answers \subseteq [Kinds -> Int] /\ Filters \in [Kinds -> SUBSET Int]
  /\ ConsoleValues \subseteq Int

ASSUME HostAssumption ==
  /\ HostOf \in [Bases -> [Parts -> Hosts]]
  /\ PartOf \in [Groups -> [1..Strings -> Parts]]

VARIABLES
  mode,                       \* autocalibration: off, for the run, per host
  keyword,                    \* whether -ack is a keyword of the inputs
  filterMode,                 \* -fmode
  global, calibrated,         \* MatcherManager.Filters, IsCalibrated
  domain,                     \* MatcherManager.PerDomainFilters
  task,                       \* what each place of the limiter works on
  holder, calib,              \* calibMutex, and the calibration it protects
  issued, requests,           \* requests, and calibration requests of a host
  learned                     \* what calibrations found

options == <<mode, keyword, filterMode>>
manager == <<global, calibrated, domain>>
history == <<issued, requests, learned>>
vars    == <<options, manager, task, holder, calib, history>>

NoFilters == [k \in Kinds |-> {}]

(* The host of a calibration request: the payload of the keyword is replaced
   by the string, and with it what the payload added to the host.  A string
   may lead below the host that is calibrated, or, when the payload itself
   has a directory, above it or to any host that shares the base. *)
Key(b, g, i) == HostOf[b][PartOf[g][i]]

-----------------------------------------------------------------------------
(* MatcherManager *)
Hits(map, k, r) == r[k] \in map[k]
Active(map) == {k \in Kinds : map[k] # {}}

\* A filter of a kind that is there is extended by the new value.
Extend(map, k, v) == [map EXCEPT ![k] = @ \cup {v}]

FiltersForDomain(key) ==
  IF domain[key].made THEN domain[key].filters ELSE global

ActiveFilters(key) == IF mode = "host" THEN FiltersForDomain(key) ELSE global

Matched(r) ==
  LET ms == Active(Matchers) IN
  /\ \E k \in ms : Hits(Matchers, k, r)
  /\ MatcherMode = "and" => \A k \in ms : Hits(Matchers, k, r)

FilteredOut(filters, r) ==
  LET fs == Active(filters) IN
  IF filterMode = "or" THEN \E k \in fs : Hits(filters, k, r)
                       ELSE fs # {} /\ \A k \in fs : Hits(filters, k, r)

Matches(key, r) == Matched(r) /\ ~FilteredOut(ActiveFilters(key), r)

AlreadyFiltered(key, r) ==
  \E k \in Kinds : Hits(ActiveFilters(key), k, r)

AddFilter(k, v) == /\ global' = Extend(global, k, v)
                   /\ UNCHANGED <<calibrated, domain>>

\* Faulty: a host shares the map of the global filters.
AddPerDomainFilterShared(key, k, v) ==
  /\ domain' = [domain EXCEPT ![key] =
       [@ EXCEPT !.made = TRUE, !.filters = Extend(FiltersForDomain(key), k, v)]]
  /\ global' = IF domain[key].made THEN global ELSE Extend(global, k, v)
  /\ UNCHANGED calibrated

(* The filters of a host start as a copy of the global ones. *)
AddPerDomainFilter(key, k, v) ==
  /\ domain' = [domain EXCEPT ![key] =
       [@ EXCEPT !.made = TRUE, !.filters = Extend(FiltersForDomain(key), k, v)]]
  /\ UNCHANGED <<global, calibrated>>

SetCalibratedForHost(key) ==
  /\ domain' = [domain EXCEPT ![key] =
       [made |-> TRUE, calibrated |-> TRUE, filters |-> FiltersForDomain(key)]]
  /\ UNCHANGED <<global, calibrated>>

SetCalibrated == calibrated' = TRUE /\ UNCHANGED <<global, domain>>

-----------------------------------------------------------------------------
NoCalib == [left |-> {}, group |-> NoOne, i |-> 1, responses |-> <<>>]
Idle == [at |-> "idle", host |-> NoOne, base |-> NoOne]

Init == /\ mode \in {"off", "run", "host"}
        /\ keyword \in (IF mode = "host" THEN BOOLEAN ELSE {TRUE})
        /\ filterMode \in {"or", "and"}
        /\ global = Filters /\ calibrated = FALSE
        /\ domain = [key \in Hosts |-> [made |-> FALSE, calibrated |-> FALSE,
                                         filters |-> NoFilters]]
        /\ task = [w \in Workers |-> Idle]
        /\ holder = NoOne /\ calib = NoCalib
        /\ issued = 0 /\ requests = [h \in Hosts |-> 0]
        /\ learned = {}

Goto(w, place) == task' = [task EXCEPT ![w].at = place]

(* A response arrives: of a request that is a base with a payload. *)
Respond(w) ==
  /\ task[w].at = "idle" /\ issued < MaxTasks
  /\ issued' = issued + 1
  /\ \E b \in Bases, p \in Parts :
       task' = [task EXCEPT ![w] = [at |-> "respond", host |-> HostOf[b][p],
                                    base |-> b]]
  /\ UNCHANGED <<options, manager, holder, calib, requests, learned>>

Needed(w) ==
  \/ mode = "run" /\ ~calibrated
  \/ mode = "host" /\ ~domain[task[w].host].calibrated /\ keyword

Begin(w) == /\ holder' = w
            /\ calib' = [NoCalib EXCEPT !.left = Groups]
            /\ Goto(w, "calibrate")

\* Faulty: a host counts as calibrated when its calibration begins.
CalibrateIfNeededMarks(w) ==
  /\ task[w].at = "respond" /\ holder = NoOne
  /\ IF Needed(w)
     THEN Begin(w) /\ IF mode = "host" THEN SetCalibratedForHost(task[w].host)
                                       ELSE UNCHANGED manager
     ELSE Goto(w, "decide") /\ UNCHANGED <<holder, calib, manager>>
  /\ UNCHANGED <<options, history>>

\* Faulty: a goroutine that finds the mutex taken does not wait for it.
CalibrateIfNeededTry(w) ==
  /\ task[w].at = "respond"
  /\ IF holder = NoOne /\ Needed(w) THEN Begin(w)
                       ELSE Goto(w, "decide") /\ UNCHANGED <<holder, calib>>
  /\ UNCHANGED <<options, manager, history>>

\* Faulty: a request without the keyword leaves the mutex locked.
CalibrateIfNeededKeeps(w) ==
  /\ task[w].at = "respond" /\ holder = NoOne
  /\ IF Needed(w) THEN Begin(w)
     ELSE /\ Goto(w, "decide")
          /\ holder' = IF mode = "host" /\ ~keyword THEN w ELSE holder
          /\ UNCHANGED calib
  /\ UNCHANGED <<options, manager, history>>

(* calibMutex is locked; without the keyword, or when it is done already,
   there is nothing to calibrate. *)
CalibrateIfNeeded(w) ==
  /\ task[w].at = "respond" /\ holder = NoOne
  /\ IF Needed(w) THEN Begin(w)
                  ELSE Goto(w, "decide") /\ UNCHANGED <<holder, calib>>
  /\ UNCHANGED <<options, manager, history>>

(* The next group of strategies: a map is ranged over in any order. *)
NextGroup(w) ==
  /\ task[w].at = "calibrate" /\ calib.left # {}
  /\ \E g \in calib.left :
       calib' = [left |-> calib.left \ {g}, group |-> g, i |-> 1,
                 responses |-> <<>>]
  /\ Goto(w, "request")
  /\ UNCHANGED <<options, manager, holder, history>>

\* Faulty: one string past the end of the group.
AfterStringPast(i) == IF i <= Strings THEN "request"
                      ELSE IF mode = "run" THEN "derive" ELSE "calibrate"

(* Where the loop over the strings of a group goes on after string i. *)
AfterString(i) == IF i < Strings THEN "request"
                  ELSE IF mode = "run" THEN "derive" ELSE "calibrate"

ThisKey(w) == Key(task[w].base, calib.group, calib.i)

(* A request of the calibration fails or is answered; only an answer that
   would be matched counts.  Per host, a filter is derived at each answer. *)
CalibrationRequest(w) ==
  /\ task[w].at = "request"
  /\ requests' = [requests EXCEPT ![task[w].host] = @ + 1]
  /\ \/ \E r \in Answers :
          /\ Matches(ThisKey(w), r)
          /\ calib' = [calib EXCEPT !.i = @ + 1,
                         !.responses = Append(@, [key |-> ThisKey(w), resp |-> r])]
          /\ Goto(w, IF mode = "host" THEN "derive" ELSE AfterString(calib.i))
     \/ /\ calib' = [calib EXCEPT !.i = @ + 1]
        /\ Goto(w, AfterString(calib.i))
  /\ UNCHANGED <<options, manager, holder, issued, learned>>

Agree(k) == \A n \in 1..Len(calib.responses) :
              calib.responses[n].resp[k] = calib.responses[1].resp[k]

(* The most specific kind in which the responses agree. *)
CommonKind == IF Agree("size") THEN {"size"}
              ELSE IF Agree("word") THEN {"word"}
              ELSE IF Agree("line") THEN {"line"} ELSE {}

First == calib.responses[1]

AfterDerive == IF mode = "run" THEN "calibrate" ELSE AfterString(calib.i - 1)

(* calibrateFilters, up to the filter it adds: without responses or anything
   common there is none, nor when the first response is filtered already. *)
calibrateFilters(w) ==
  /\ task[w].at = "derive"
  /\ IF calib.responses = <<>> \/ CommonKind = {}
     THEN Goto(w, AfterDerive) /\ UNCHANGED learned
     ELSE IF AlreadyFiltered(First.key, First.resp)
     THEN Goto(w, AfterDerive) /\ learned' = learned \cup {First}
     ELSE Goto(w, "add") /\ UNCHANGED learned
  /\ UNCHANGED <<options, manager, holder, calib, issued, requests>>

AddCommon(w) ==
  /\ task[w].at = "add"
  /\ \E k \in CommonKind :
       IF mode = "host" THEN AddPerDomainFilter(First.key, k, First.resp[k])
                        ELSE AddFilter(k, First.resp[k])
  /\ learned' = learned \cup
       {l \in {calib.responses[n] : n \in 1..Len(calib.responses)} :
          mode = "host" => l.key = First.key}
  /\ Goto(w, AfterDerive)
  /\ UNCHANGED <<options, holder, calib, issued, requests>>

(* The end of a calibration, whatever came of its requests. *)
EndCalibration(w) ==
  /\ task[w].at = "calibrate" /\ calib.left = {}
  /\ IF mode = "host" THEN SetCalibratedForHost(task[w].host)
                      ELSE SetCalibrated
  /\ holder' = NoOne /\ calib' = NoCalib
  /\ Goto(w, "decide")
  /\ UNCHANGED <<options, history>>

(* isMatch comes to Matches, and the request ends. *)
Decide(w) ==
  /\ task[w].at = "decide"
  /\ task' = [task EXCEPT ![w] = Idle]
  /\ UNCHANGED <<options, manager, holder, calib, history>>

(* fs of the console, with a value or none; it overrides what a calibration
   of the run has learned, and what one of a host owes to the global filters. *)
SetSizeFilter(values) ==
  /\ global' = [global EXCEPT !["size"] = values]
  /\ learned' = {l \in learned : mode = "host" /\ domain[l.key].made}
  /\ UNCHANGED <<options, calibrated, domain, task, holder, calib, issued,
                 requests>>

Worker(w) == \/ CalibrateIfNeeded(w) \/ NextGroup(w) \/ CalibrationRequest(w)
             \/ calibrateFilters(w) \/ AddCommon(w) \/ EndCalibration(w)
             \/ Decide(w)

Next == \/ \E w \in Workers : Respond(w) \/ Worker(w)
        \/ SetSizeFilter({}) \/ \E v \in ConsoleValues : SetSizeFilter({v})

(* A goroutine that can run does; with the requests bounded, none comes to
   calibMutex so often that another would have to wait for ever. *)
Fairness == \A w \in Workers : WF_vars(Worker(w))

Spec == Init /\ [][Next]_vars /\ Fairness

-----------------------------------------------------------------------------
Places == {"idle", "respond", "calibrate", "request", "derive", "add", "decide"}

(* The types; a calibration is run by the goroutine that holds calibMutex. *)
TypeOK ==
  /\ mode \in {"off", "run", "host"}
  /\ filterMode \in {"or", "and"}
  /\ calibrated \in BOOLEAN
  /\ domain \in [Hosts -> [made : BOOLEAN, calibrated : BOOLEAN,
                          filters : [Kinds -> SUBSET Int]]]
  /\ \A w \in Workers :
       /\ task[w].at \in Places
       /\ task[w].at # "idle" => task[w].host \in Hosts /\ task[w].base \in Bases
       /\ task[w].at \in {"calibrate", "request", "derive", "add"} => holder = w
       /\ task[w].at = "request" => calib.i \in 1..Strings
  /\ issued \in 0..MaxTasks /\ requests \in [Hosts -> Nat]

(* No response is judged before the calibration that its own arrival or an
   earlier one has started is over, in whatever order goroutines arrive. *)
DecidedAfterCalibration ==
  \A w \in Workers :
    task[w].at = "decide" =>
      /\ mode = "off" => ~calibrated
      /\ mode = "run" => calibrated
      /\ mode = "host" /\ keyword => domain[task[w].host].calibrated

(* A host, or the run, is calibrated once, although goroutines come to it
   together, and although every request of the calibration may fail. *)
CalibratedOnce ==
  LET limit == Cardinality(Groups) * Strings IN
  /\ \A h \in Hosts : requests[h] <= limit
  /\ mode = "run" => \A h, k \in Hosts : h # k => requests[h] = 0 \/ requests[k] = 0

(* Calibration comes once, and before any verdict that it is for. *)
CalibratedOnceBefore == DecidedAfterCalibration /\ CalibratedOnce

(* What a calibration has learned stays filtered: an answer it derived a
   filter from, or found filtered, is hit by a filter that is in force where
   it belongs, until the console says otherwise. *)
LearnedIsFiltered == \A l \in learned : AlreadyFiltered(l.key, l.resp)

(* The sizes that the options and the console ask to filter. *)
Asked == Filters["size"] \cup ConsoleValues

(* Nothing is filtered that nobody asked for: per host, the run's own filters
   stay as configured and typed, and each size in force at a host was configured,
   typed, or the answer to a calibration request that went to that host,
   whichever host it was sent for. *)
SizesExplained ==
  mode = "host" =>
    /\ global["size"] \subseteq Asked
    /\ \A key \in Hosts : domain[key].made =>
         \A v \in domain[key].filters["size"] :
           v \in Asked \/ \E l \in learned : l.key = key /\ l.resp["size"] = v

(* The filters in force are those that somebody asked for and those that were
   learned, each at the host that the answers came from. *)
FiltersExplained == LearnedIsFiltered /\ SizesExplained

(* The hosts that the requests of a calibration go to. *)
Reached(w) == {Key(task[w].base, g, i) : g \in Groups, i \in 1..Strings}

(* Per host, the verdict on a response of a calibrated host changes only while
   another host is calibrated whose strings lead to this one: neither its own
   calibration, which is over, nor that of a host of another base, touches it.
   (Steps of the console are left out: they change the filters of the run.) *)
VerdictsChangedFromBase ==
  [][mode = "host" /\ UNCHANGED global =>
       \A h \in Hosts, r \in Answers :
         domain[h].calibrated /\ ~(Matches(h, r)' <=> Matches(h, r)) =>
           \E w \in Workers : /\ holder = w
                             /\ h \in Reached(w) \ {task[w].host}]_vars

(* Every response is judged in the end, and no goroutine waits for ever: a
   calibration ends, and gives the mutex back, whatever its requests come to. *)
EveryResponseDecided == []<>(\A w \in Workers : task[w].at = "idle")
=============================================================================
