--------------------------- MODULE InputProvider ---------------------------
(***************************************************************************)
(* The input provider of pkg/input: word lists (or commands) combined as   *)
(* the mode says, a position that counts the combinations, and the cursors *)
(* behind it.  The main loop of the engine draws from it job after job;    *)
(* the console may reset it at any time; and "ffuf -search" sets a fresh   *)
(* provider to the position that a FFUFHASH carries.                       *)
(*                                                                         *)
(* A word is named by its index in its list.  A disabled provider keeps    *)
(* its place in the list and is passed over.                               *)
(***************************************************************************)
EXTENDS Integers, FiniteSets, Sequences

CONSTANTS
  P,            \* number of providers, in the order of the command line
  MaxWords,     \* the longest word list
  Modes,        \* the values of -mode that are tried
  MaxJobs,      \* queue jobs prepared
  MaxResets     \* resets typed at the console

ASSUME InputAssumption ==
  /\ {P, MaxWords, MaxJobs, MaxResets} \subseteq Nat
  /\ Modes \subseteq {"clusterbomb", "sniper", "pitchfork"}

Providers == 1..P

VARIABLES
  mode,         \* Config.InputMode
  sizes,        \* the length of each list; Total of the provider
  active,       \* the providers that are not disabled
  cursor,       \* the position of each provider
  position, msbIterator,     \* of MainInputProvider
  loop,         \* what the main loop does next
  given,        \* history: values since the last reset, with their positions
  job, resets   \* jobs prepared; resets typed

vars == <<mode, sizes, active, cursor, position, msbIterator, loop, given,
          job, resets>>
setup == <<mode, sizes>>

Combines == mode \in {"clusterbomb", "sniper"}

Init == /\ mode \in Modes
        /\ sizes \in [Providers -> 1..MaxWords]
        /\ active = Providers
        /\ cursor = [p \in Providers |-> 0]
        /\ position = 0 /\ msbIterator = 0
        /\ loop = "prepare"
        /\ given = <<>>
        /\ job = 0 /\ resets = 0

\* The index that the loops over the active providers give to one of them.
index(p) == Cardinality({q \in active : q < p})

\* The combinations of the first p providers, and the longest list of them.
combinations[p \in 0..P] ==
  IF p = 0 THEN 1
  ELSE IF p \in active THEN combinations[p - 1] * sizes[p]
  ELSE combinations[p - 1]

longest[p \in 0..P] ==
  IF p = 0 THEN 0
  ELSE LET n == longest[p - 1] IN
       IF p \in active /\ sizes[p] > n THEN sizes[p] ELSE n

Total == IF Combines THEN combinations[P] ELSE longest[P]

-----------------------------------------------------------------------------
(* Value in clusterbomb mode.  One turn of its loop: step the provider if the
   one before it was exhausted, and if it is exhausted itself either start
   over with the next most significant one, or wrap it. *)
turn(scan, p, msb) ==
  LET c    == scan.cursor[p] + (IF scan.signalNext THEN 1 ELSE 0)
      out  == c >= sizes[p]
      word == IF out THEN 0 ELSE c
  IN  IF scan.again \/ (out /\ index(p) = msb)
      THEN [scan EXCEPT !.again = TRUE,
                        !.cursor[p] = IF scan.again THEN @ ELSE c]
      ELSE [scan EXCEPT !.signalNext = out,
                        !.values[p] = word,
                        !.cursor[p] = IF index(p) = 0 THEN word + 1 ELSE word]

\* Faulty: the most significant provider is not stepped.
iteratorResetOnly(c, msb) ==
  [p \in Providers |-> IF p \in active /\ index(p) < msb THEN 0 ELSE c[p]]

clusterbombIteratorReset(c, msb) ==
  [p \in Providers |-> IF p \notin active \/ index(p) > msb THEN c[p]
                       ELSE IF index(p) = msb THEN c[p] + 1 ELSE 0]

\* The loop over the providers, disabled ones passed over.
scan(c, msb) ==
  LET after[p \in 0..P] ==
        IF p = 0
        THEN [cursor |-> c, signalNext |-> FALSE, again |-> FALSE,
              values |-> [q \in active |-> 0]]
        ELSE IF p \in active THEN turn(after[p - 1], p, msb) ELSE after[p - 1]
  IN  after[P]

\* The cursors and the iterator after n calls of Value by itself.
retried(c, msb) ==
  LET try[n \in 0..P] ==
        IF n = 0 THEN [cursor |-> c, msb |-> msb]
        ELSE LET t == try[n - 1] IN
             [cursor |-> clusterbombIteratorReset(scan(t.cursor, t.msb).cursor,
                                                  t.msb + 1),
              msb |-> t.msb + 1]
  IN  try

clusterbombValue(c, msb) ==
  LET try  == retried(c, msb)
      again(n) == scan(try[n].cursor, try[n].msb).again
      n    == CHOOSE n \in 0..P : ~again(n) /\ \A m \in 0..P : m < n => again(m)
      last == scan(try[n].cursor, try[n].msb)
  IN  [cursor |-> last.cursor, values |-> last.values, msb |-> try[n].msb]

(* Value in pitchfork mode: every provider steps, an exhausted one wraps. *)
pitchforkValue(c, msb) ==
  LET word == [p \in active |-> IF c[p] < sizes[p] THEN c[p] ELSE 0]
  IN  [cursor |-> [p \in Providers |-> IF p \in active THEN word[p] + 1
                                       ELSE c[p]],
       values |-> word, msb |-> msb]

Value(c, msb) == IF Combines THEN clusterbombValue(c, msb)
                 ELSE pitchforkValue(c, msb)

-----------------------------------------------------------------------------
(* SetPosition on a fresh provider, as -search does.  In clusterbomb mode it
   draws all the values before the position; a position beyond the end is
   ignored. *)
Fresh == [cursor |-> [p \in Providers |-> 0], msb |-> 0]

\* The provider after so many values.
drawn[n \in 0..Total] ==
  IF n = 0 THEN Fresh
  ELSE LET s == drawn[n - 1]
           v == Value(s.cursor, s.msb)
       IN  [cursor |-> v.cursor, msb |-> v.msb]

\* Faulty: one value too many is drawn.
setclusterbombPositionPast(pos) == IF pos > Total THEN Fresh ELSE drawn[pos]

setclusterbombPosition(pos) ==
  IF pos > Total \/ pos = 0 THEN Fresh ELSE drawn[pos - 1]

setpitchforkPosition(pos) == [cursor |-> [p \in Providers |-> pos], msb |-> 0]

SetPosition(pos) == IF Combines THEN setclusterbombPosition(pos)
                    ELSE setpitchforkPosition(pos)

\* printSearchResults: the value behind a FFUFHASH with this position.
SearchValue(pos) == LET s == SetPosition(pos)
                    IN  Value(s.cursor, s.msb).values

-----------------------------------------------------------------------------
Reset == /\ cursor' = [p \in Providers |-> 0]
         /\ position' = 0 /\ msbIterator' = 0
         /\ given' = <<>>

(* prepareQueueJob activates the keywords of the job's request and disables
   the others; Active() only asks, so a disabled provider stays disabled.  A
   queued request never has a keyword that the ones before it lack.  Then the
   engine resets the input. *)
PrepareJob(kws) ==
  /\ loop = "prepare" /\ job < MaxJobs
  /\ loop' = "next"
  /\ active' = active \cap kws
  /\ Reset
  /\ job' = job + 1
  /\ UNCHANGED <<setup, resets>>

\* Faulty: the position runs one past the end.
NextInputPast ==
  /\ loop = "next"
  /\ IF position <= Total THEN loop' = "value" /\ position' = position + 1
                          ELSE loop' = "prepare" /\ UNCHANGED position
  /\ UNCHANGED <<setup, active, cursor, msbIterator, given, job, resets>>

NextInput ==
  /\ loop = "next"
  /\ IF position < Total THEN loop' = "value" /\ position' = position + 1
                         ELSE loop' = "prepare" /\ UNCHANGED position
  /\ UNCHANGED <<setup, active, cursor, msbIterator, given, job, resets>>

TakeValue ==
  /\ loop = "value"
  /\ loop' = "next"
  /\ LET v == Value(cursor, msbIterator)
     IN  /\ cursor' = v.cursor /\ msbIterator' = v.msb
         /\ given' = Append(given, [pos |-> position, values |-> v.values])
  /\ UNCHANGED <<setup, active, position, job, resets>>

\* queueskip, a stop or a time limit ends the job before the next input.
LeaveJob ==
  /\ loop \in {"next", "value"}
  /\ loop' = "prepare"
  /\ UNCHANGED <<setup, active, cursor, position, msbIterator, given, job,
                 resets>>

\* "restart" at the console.
Restart ==
  /\ resets < MaxResets
  /\ resets' = resets + 1
  /\ Reset
  /\ UNCHANGED <<setup, active, loop, job>>

Ended == loop = "prepare" /\ job = MaxJobs /\ UNCHANGED vars

Next == \/ \E kws \in SUBSET active : PrepareJob(kws)
        \/ NextInput \/ TakeValue \/ LeaveJob \/ Restart \/ Ended

Spec == Init /\ [][Next]_vars

-----------------------------------------------------------------------------
(* What the modes mean, whatever the cursors are: clusterbomb counts
   through the combinations with the first provider fastest, pitchfork takes
   the lists in lockstep and repeats the shorter ones. *)
Combination(k) ==
  [p \in active |-> IF Combines
                    THEN ((k - 1) \div combinations[p - 1]) % sizes[p]
                    ELSE (k - 1) % sizes[p]]

(* The type of the state; no cursor is further than one past its list. *)
TypeOK ==
  /\ mode \in Modes
  /\ sizes \in [Providers -> 1..MaxWords]
  /\ active \subseteq Providers
  /\ cursor \in [Providers -> 0..MaxWords]
  /\ position \in 0..Total
  /\ msbIterator \in 0 .. P + 1
  /\ loop \in {"prepare", "next", "value"}
  /\ \A i \in DOMAIN given : /\ given[i].pos \in 0..Total
                             /\ DOMAIN given[i].values = active

(* The k-th value after a reset is the k-th combination, whatever was drawn
   before the reset and also beyond the end of the input, where a restart can
   lead (Value, input.go:109-216). *)
ValuesInOrder ==
  \A k \in DOMAIN given : given[k].values = Combination(k)

(* A job that runs to the end of its input has drawn every combination of its
   active lists exactly once; in pitchfork mode every word of every list. *)
CompleteJob ==
  loop = "next" /\ position = Total /\ resets = 0 =>
    /\ Len(given) = Total
    /\ Combines => {given[i].values : i \in DOMAIN given}
                     = {v \in [active -> 0 .. MaxWords - 1] :
                          \A p \in active : v[p] < sizes[p]}
    /\ ~Combines => \A p \in active :
                      {given[i].values[p] : i \in DOMAIN given}
                        = 0 .. sizes[p] - 1

(* Each combination comes once, in its place. *)
EveryCombinationInOrder == ValuesInOrder /\ CompleteJob

(* Searching for the position that a request was sent with finds its payload
   (CHANGELOG, FFUFHASH), in the modes that combine the lists. *)
SearchFindsCombination ==
  Combines /\ resets = 0 =>
    \A i \in DOMAIN given : SearchValue(given[i].pos) = given[i].values
=============================================================================
