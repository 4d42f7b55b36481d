---------------------------- MODULE StartupProofs ----------------------------
(***************************************************************************)
(* The start of ffuf and its history, for any processes, command lines,    *)
(* configuration files and request files.                                  *)
(***************************************************************************)
EXTENDS Startup, FiniteSetTheorems, SequenceTheorems, WellFoundedInduction, TLAPS

-----------------------------------------------------------------------------
(* Induction up to a bound, for a set: the least number that is not in it has
   no predecessor. *)
LEMMA RangeInduction ==
  ASSUME NEW N \in Nat, NEW S, 0 \in S, \A n \in 1 .. N : n - 1 \in S => n \in S
  PROVE  0 .. N \subseteq S
<1> SUFFICES ASSUME (0 .. N) \ S # {} PROVE FALSE
  OBVIOUS
<1>1. PICK x \in (0 .. N) \ S :
        \A y \in (0 .. N) \ S : ~(<<y, x>> \in OpToRel(<, Nat))
  BY (0 .. N) \ S \subseteq Nat, WFMin, NatLessThanWellFounded
<1>2. \A y \in (0 .. N) \ S : ~(y < x)
  <2>1. x \in Nat /\ \A y \in (0 .. N) \ S : y \in Nat
    OBVIOUS
  <2> QED
    BY <1>1, <2>1 DEF OpToRel
<1>3. x \in 1 .. N /\ x - 1 \in 0 .. N /\ x - 1 < x
  BY x # 0
<1> QED
  BY <1>2, <1>3

(* What is appended is all that a longer sequence has more. *)
LEMMA Joined ==
  ASSUME NEW s, NEW t, IsSequence(s), IsSequence(t)
  PROVE  IsSequence(s \o t) /\ ToSet(s \o t) = ToSet(s) \cup ToSet(t)
<1> DEFINE S == ToSet(s) \cup ToSet(t)
<1>1. s \in Seq(S) /\ t \in Seq(S)
  BY DEF IsSequence
<1>2. /\ s \o t \in Seq(S) /\ DOMAIN s = 1 .. Len(s) /\ DOMAIN t = 1 .. Len(t)
      /\ DOMAIN (s \o t) = 1 .. Len(s) + Len(t) /\ Len(s) \in Nat /\ Len(t) \in Nat
      /\ \A i \in 1 .. Len(s) : i \in 1 .. Len(s) + Len(t) /\ (s \o t)[i] = s[i]
      /\ \A i \in 1 .. Len(t) : /\ Len(s) + i \in 1 .. Len(s) + Len(t)
                                /\ (s \o t)[Len(s) + i] = t[i]
  BY <1>1
<1>3. \A i \in 1 .. Len(s) + Len(t) :
        i \in 1 .. Len(s) \/ \E k \in 1 .. Len(t) : i = Len(s) + k
  <2> TAKE i \in 1 .. Len(s) + Len(t)
  <2> QED
    BY <1>2, i > Len(s) => i - Len(s) \in 1 .. Len(t) /\ i = Len(s) + (i - Len(s))
<1>4. ToSet(s \o t) = S
  <2> DEFINE u == s \o t
  <2>1. ASSUME NEW i \in DOMAIN u PROVE u[i] \in S
    <3>1. CASE i \in 1 .. Len(s)
      BY <1>2, <3>1 DEF ToSet
    <3>2. CASE \E k \in 1 .. Len(t) : i = Len(s) + k
      BY <1>2, <3>2 DEF ToSet
    <3> QED
      BY <1>2, <1>3, <2>1, <3>1, <3>2
  <2>2. \A i \in DOMAIN s : s[i] \in ToSet(u)
    BY <1>2 DEF ToSet
  <2>3. \A i \in DOMAIN t : t[i] \in ToSet(u)
    BY <1>2 DEF ToSet
  <2> HIDE DEF u
  <2>4. ToSet(u) = S
    BY <2>1, <2>2, <2>3 DEF ToSet
  <2> QED
    BY <2>4 DEF u
<1> QED
  BY <1>2, <1>4 DEF IsSequence

\* The elements that Selected has kept before the first one and after each one.
Selecting(h, seq, S) ==
  /\ h[0] = <<>>
  /\ \A i \in 1 .. Len(seq) :
       h[i] = IF seq[i] \in S THEN Append(h[i - 1], seq[i]) ELSE h[i - 1]
  /\ Selected(seq, S) = h[Len(seq)]

LEMMA SelectSteps ==
  ASSUME NEW seq, IsSequence(seq), NEW S
  PROVE  \E h : Selecting(h, seq, S)
<1> DEFINE N == Len(seq)
           Step(g, i) == IF i = 0 THEN <<>>
                         ELSE IF seq[i] \in S THEN Append(g[i - 1], seq[i])
                         ELSE g[i - 1]
           h == CHOOSE g : g = [i \in 0 .. N |-> Step(g, i)]
<1>1. Selected(seq, S) = h[N]
  BY DEF Selected
<1>2. N \in Nat /\ DOMAIN seq = 1 .. N
  BY DEF IsSequence
<1> HIDE DEF N
<1>3. \E g : g = [i \in 0 .. N |-> Step(g, i)]
  <2> DEFINE Upto(m, g) == g = [i \in 0 .. m |-> Step(g, i)]
             T == {m \in 0 .. N : \E g : Upto(m, g)}
  <2>1. 0 \in T
    <3> DEFINE g == [i \in 0 .. 0 |-> <<>>]
    <3>1. Upto(0, g)
      OBVIOUS
    <3> HIDE DEF Upto, g
    <3> QED
      BY <1>2, <3>1
  <2>2. ASSUME NEW m \in 1 .. N, m - 1 \in T PROVE m \in T
    <3>1. PICK g : Upto(m - 1, g)
      BY <2>2
    <3> DEFINE k == [i \in 0 .. m |-> Step(g, i)]
    <3>2. \A i \in 1 .. m : i - 1 \in 0 .. m - 1 /\ k[i - 1] = g[i - 1]
      <4>1. \A j \in 0 .. m - 1 : g[j] = Step(g, j)
        BY <3>1
      <4>2. \A j \in 0 .. m : k[j] = Step(g, j)
        OBVIOUS
      <4>3. \A i \in 1 .. m : i - 1 \in 0 .. m - 1 /\ i - 1 \in 0 .. m
        BY <1>2
      <4> HIDE DEF k, Step
      <4> QED
        BY <4>1, <4>2, <4>3
    <3>3. \A i \in 0 .. m : Step(k, i) = Step(g, i)
      <4> HIDE DEF k
      <4> QED
        BY <3>2
    <3>4. Upto(m, k)
      BY <3>3
    <3> HIDE DEF Upto, k
    <3> QED
      BY <3>4
  <2>3. N \in T
    <3> HIDE DEF T
    <3> QED
      BY <1>2, <2>1, <2>2, RangeInduction
  <2> QED
    BY <2>3
<1>4. h = [i \in 0 .. N |-> Step(h, i)]
  BY <1>3
<1> HIDE DEF h
<1>5. \A i \in 0 .. N : h[i] = Step(h, i)
  BY <1>4
<1>6. h[0] = <<>> /\ \A i \in 1 .. N :
        h[i] = IF seq[i] \in S THEN Append(h[i - 1], seq[i]) ELSE h[i - 1]
  BY <1>2, <1>5
<1>7. Selecting(h, seq, S)
  BY <1>1, <1>6 DEF Selecting, N
<1> QED
  BY <1>7

(* The elements that Selected leaves are those of the set. *)
LEMMA SelectedFacts ==
  ASSUME NEW seq, IsSequence(seq), NEW S
  PROVE  /\ IsSequence(Selected(seq, S))
         /\ ToSet(Selected(seq, S)) = ToSet(seq) \cap S
<1>1. PICK h : Selecting(h, seq, S)
  BY SelectSteps
<1> DEFINE N == Len(seq)
<1>2. N \in Nat /\ DOMAIN seq = 1 .. N
  BY DEF IsSequence
<1>3. /\ h[0] = <<>>
      /\ \A i \in 1 .. N :
           h[i] = IF seq[i] \in S THEN Append(h[i - 1], seq[i]) ELSE h[i - 1]
      /\ Selected(seq, S) = h[N]
  BY <1>1 DEF Selecting
<1> HIDE DEF N
<1> DEFINE Chosen(i) == {seq[k] : k \in 1 .. i} \cap S
           T == {i \in 0 .. N : IsSequence(h[i]) /\ ToSet(h[i]) = Chosen(i)}
<1>4. 0 .. N \subseteq T
  <2>1. 0 \in T
    <3>1. h[0] = <<>> /\ 1 .. 0 = {}
      BY <1>2, <1>3
    <3>2. IsSequence(<<>>) /\ ToSet(<<>>) = {}
      BY DEF IsSequence, ToSet
    <3> QED
      BY <1>2, <3>1, <3>2
  <2>2. ASSUME NEW i \in 1 .. N, i - 1 \in T PROVE i \in T
    <3>0. h[i] = IF seq[i] \in S THEN Append(h[i - 1], seq[i]) ELSE h[i - 1]
      BY <1>2, <1>3
    <3>1. 1 .. i = (1 .. i - 1) \cup {i}
      BY <1>2
    <3>2. Chosen(i) = Chosen(i - 1) \cup ({seq[i]} \cap S)
      BY <3>1
    <3>3. CASE seq[i] \notin S
      BY <2>2, <3>0, <3>2, <3>3
    <3>4. CASE seq[i] \in S
      <4>1. IsSequence(<<seq[i]>>) /\ ToSet(<<seq[i]>>) = {seq[i]}
        BY DEF IsSequence, ToSet
      <4>2. Append(h[i - 1], seq[i]) = h[i - 1] \o <<seq[i]>>
        <5> DEFINE A == ToSet(h[i - 1]) \cup {seq[i]}
        <5>1. h[i - 1] \in Seq(A) /\ seq[i] \in A
          BY <2>2 DEF IsSequence
        <5> HIDE DEF A
        <5> QED
          BY <5>1
      <4>3. IsSequence(h[i - 1]) /\ ToSet(h[i - 1]) = Chosen(i - 1)
        BY <2>2
      <4>4. h[i] = h[i - 1] \o <<seq[i]>> /\ Chosen(i) = Chosen(i - 1) \cup {seq[i]}
        BY <3>0, <3>2, <3>4, <4>2
      <4>5. IsSequence(h[i]) /\ ToSet(h[i]) = Chosen(i)
        <5> HIDE DEF Chosen
        <5> QED
          BY <4>1, <4>3, <4>4, Joined
      <4> HIDE DEF Chosen
      <4> QED
        BY <4>5, i \in 0 .. N
    <3> QED
      BY <3>3, <3>4
  <2> HIDE DEF T
  <2> QED
    BY <1>2, <2>1, <2>2, RangeInduction
<1>5. N \in T
  BY <1>2, <1>4
<1>6. ToSet(seq) = {seq[k] : k \in 1 .. N}
  BY <1>2 DEF ToSet
<1> QED
  BY <1>3, <1>5, <1>6

-----------------------------------------------------------------------------
(* The options after a command line *)

LEMMA OptionNames ==
  Options = Scalars \cup Matchers \cup Filters \cup Appended
              \cup {"strategies", "preflights"}
BY DEF Options, DefaultOptions

OptionsOK(o) == /\ o = [option \in Options |-> o[option]]
                /\ \A option \in Options : OptionOK(option, o[option])

StateOK(s) == DOMAIN s = {"opts", "replaced", "error"} /\ OptionsOK(s.opts)

LEMMA DefaultsOK == OptionsOK(DefaultOptions)
<1>1. /\ \A f \in Appended \cup {"url", "method", "data"} :
           f \in Options => DefaultOptions[f] = <<>>
      /\ "strategies" \in Options => DefaultOptions["strategies"] = <<"basic">>
  BY OptionNames DEF DefaultOptions, Scalars, Matchers, Filters, Appended
<1>2. IsSequence(<<>>) /\ ToSet(<<>>) = {} /\ IsSequence(<<"basic">>)
  BY DEF IsSequence, ToSet
<1>3. DefaultOptions = [option \in Options |-> DefaultOptions[option]]
  <2>1. DefaultOptions = [option \in DOMAIN DefaultOptions |-> DefaultOptions[option]]
    <3> DEFINE names == Scalars \cup Matchers \cup Filters \cup Appended
                          \cup {"strategies", "preflights"}
               Default(f) ==
                 CASE f \in {"url", "data", "method"} -> <<>>
                   [] f \in {"recursion", "ac", "malformed"} -> FALSE
                   [] f = "mode" -> "clusterbomb"
                   [] f = "mc" -> "default"
                   [] f \in {"request", "config", "search"} \cup Matchers \cup Filters ->
                        NoName
                   [] f = "strategies" -> <<"basic">>
                   [] OTHER -> <<>>
    <3>1. DefaultOptions = [f \in names |-> Default(f)]
      BY DEF DefaultOptions
    <3> HIDE DEF names, Default
    <3> QED
      BY <3>1
  <2> QED
    BY <2>1 DEF Options
<1>4. {"wordlists", "commands", "headers"} \subseteq Appended
  BY DEF Appended
<1> QED
  BY <1>1, <1>2, <1>3, <1>4 DEF OptionsOK, OptionOK

\* What a file sets over the defaults.
LEMMA FileOverDefaults ==
  ASSUME NEW file, FileOK(file)
  PROVE  OptionsOK(Over(file, DefaultOptions))
BY DefaultsOK DEF OptionsOK, FileOK, Over

(* One flag keeps the options well-formed, and changes no other option than
   its own and the preflights. *)
LEMMA FlagSet ==
  ASSUME NEW s, StateOK(s), NEW flag, FlagOK(flag)
  PROVE  LET t == SetFlag(s, flag) IN
         /\ StateOK(t)
         /\ \A option \in Options \ {flag.flag, "preflights"} :
              t.opts[option] = s.opts[option]
         /\ flag.flag \in Matchers \cup {"search"} => t.opts[flag.flag] = flag.value
         /\ flag.flag # "preflight-var" => t.error = s.error
<1> DEFINE t == SetFlag(s, flag)
           Goal == /\ StateOK(t)
                   /\ \A option \in Options \ {flag.flag, "preflights"} :
                        t.opts[option] = s.opts[option]
                   /\ flag.flag \in Matchers \cup {"search"} => t.opts[flag.flag] = flag.value
                   /\ flag.flag # "preflight-var" => t.error = s.error
<1> SUFFICES Goal
  OBVIOUS
<1>1. CASE flag.flag \in Appended
  <2> DEFINE v == s.opts[flag.flag] \o flag.value
  <2>1. flag.flag \in Options
    BY <1>1, OptionNames
  <2>2. t = [s EXCEPT !.opts = [s.opts EXCEPT ![flag.flag] = v]]
    BY <1>1 DEF SetFlag, Appended
  <2>3. OptionOK(flag.flag, v)
    BY <1>1, <2>1, Joined DEF OptionOK, FlagOK, StateOK, OptionsOK, Appended
  <2> HIDE DEF v
  <2>4. /\ DOMAIN t = DOMAIN s /\ t.error = s.error
        /\ t.opts = [s.opts EXCEPT ![flag.flag] = v]
    BY <2>2 DEF StateOK
  <2>5. flag.flag \notin Matchers \cup {"search", "preflight-var"}
    BY <1>1 DEF Appended, Matchers
  <2> HIDE DEF t
  <2> QED
    BY <2>1, <2>3, <2>4, <2>5 DEF StateOK, OptionsOK
<1>2. CASE flag.flag = "strategies"
  <2> DEFINE v == (IF s.replaced THEN s.opts.strategies ELSE <<>>) \o flag.value
  <2>1. t = [s EXCEPT !.opts = [s.opts EXCEPT !["strategies"] = v], !.replaced = TRUE]
    BY <1>2 DEF SetFlag, Appended
  <2>3. IsSequence(v)
    <3>0. "strategies" \in Options /\ IsSequence(<<>>)
      BY OptionNames DEF IsSequence, ToSet
    <3>1. IsSequence(s.opts["strategies"]) /\ IsSequence(flag.value) /\ IsSequence(<<>>)
      BY <1>2, <3>0 DEF StateOK, OptionsOK, OptionOK, FlagOK
    <3> QED
      BY <3>1, Joined
  <2> HIDE DEF v
  <2>2. /\ DOMAIN t = DOMAIN s /\ t.error = s.error
        /\ t.opts = [s.opts EXCEPT !["strategies"] = v]
    BY <2>1 DEF StateOK
  <2> HIDE DEF t
  <2> QED
    BY <1>2, <2>2, <2>3 DEF StateOK, OptionsOK, OptionOK, Matchers, Appended
<1>3. CASE flag.flag = "preflights"
  <2> DEFINE v == Append(s.opts.preflights, [file |-> flag.value, vars |-> <<>>])
  <2>1. t = [s EXCEPT !.opts = [s.opts EXCEPT !["preflights"] = v]]
    BY <1>3 DEF SetFlag, Appended
  <2> HIDE DEF v
  <2>2. /\ DOMAIN t = DOMAIN s /\ t.error = s.error
        /\ t.opts = [s.opts EXCEPT !["preflights"] = v]
    BY <2>1 DEF StateOK
  <2> HIDE DEF t
  <2> QED
    BY <1>3, <2>2 DEF StateOK, OptionsOK, OptionOK, Matchers, Appended
<1>4. CASE flag.flag = "preflight-var"
  <2>1. CASE s.opts.preflights = <<>>
    <3>1. t = [s EXCEPT !.error = TRUE]
      BY <1>4, <2>1 DEF SetFlag, Appended
    <3>2. DOMAIN t = DOMAIN s /\ t.opts = s.opts
      BY <3>1 DEF StateOK
    <3> HIDE DEF t
    <3> QED
      BY <1>4, <3>2 DEF StateOK, Matchers
  <2>2. CASE s.opts.preflights # <<>>
    <3> DEFINE v == [s.opts.preflights EXCEPT ![Len(s.opts.preflights)].vars =
                       Append(@, flag.value)]
    <3>1. t = [s EXCEPT !.opts = [s.opts EXCEPT !["preflights"] = v]]
      BY <1>4, <2>2 DEF SetFlag, Appended
    <3> HIDE DEF v
    <3>2. /\ DOMAIN t = DOMAIN s /\ t.opts = [s.opts EXCEPT !["preflights"] = v]
      BY <3>1 DEF StateOK
    <3> HIDE DEF t
    <3> QED
      BY <1>4, <3>2 DEF StateOK, OptionsOK, OptionOK, Matchers, Appended
  <2> QED
    BY <2>1, <2>2
<1>5. CASE flag.flag \notin Appended \cup {"strategies", "preflights", "preflight-var"}
  <2>1. flag.flag \in Options /\ OptionOK(flag.flag, flag.value)
    BY <1>5 DEF FlagOK
  <2>2. t = [s EXCEPT !.opts = [s.opts EXCEPT ![flag.flag] = flag.value]]
    BY <1>5 DEF SetFlag
  <2>3. /\ DOMAIN t = DOMAIN s /\ t.error = s.error
        /\ t.opts = [s.opts EXCEPT ![flag.flag] = flag.value]
    BY <2>2 DEF StateOK
  <2> HIDE DEF t
  <2> QED
    BY <1>5, <2>1, <2>3 DEF StateOK, OptionsOK
<1> HIDE DEF Goal
<1> QED
  BY <1>1, <1>2, <1>3, <1>4, <1>5

\* The states of the parser before the first flag and after each one.
Parsing(g, options, line) ==
  /\ g[0] = [opts |-> options, replaced |-> FALSE, error |-> FALSE]
  /\ \A i \in 1 .. Len(line) : g[i] = SetFlag(g[i - 1], line[i])
  /\ ParseFlags(options, line) = g[Len(line)]

LEMMA ParseSteps ==
  ASSUME NEW options, NEW line, IsSequence(line)
  PROVE  \E g : Parsing(g, options, line)
<1> DEFINE N == Len(line)
           base == [opts |-> options, replaced |-> FALSE, error |-> FALSE]
           Step(g, i) == IF i = 0 THEN base ELSE SetFlag(g[i - 1], line[i])
           h == CHOOSE g : g = [i \in 0 .. N |-> Step(g, i)]
<1>1. ParseFlags(options, line) = h[N]
  BY DEF ParseFlags
<1>2. N \in Nat
  BY DEF IsSequence
<1> HIDE DEF N, base
<1>3. \E g : g = [i \in 0 .. N |-> Step(g, i)]
  <2> DEFINE Upto(m, g) == g = [i \in 0 .. m |-> Step(g, i)]
             T == {m \in 0 .. N : \E g : Upto(m, g)}
  <2>1. 0 \in T
    <3> DEFINE g == [i \in 0 .. 0 |-> base]
    <3>1. Upto(0, g)
      OBVIOUS
    <3> HIDE DEF Upto, g
    <3> QED
      BY <1>2, <3>1
  <2>2. ASSUME NEW m \in 1 .. N, m - 1 \in T PROVE m \in T
    <3>1. PICK g : Upto(m - 1, g)
      BY <2>2
    <3> DEFINE k == [i \in 0 .. m |-> Step(g, i)]
    <3>2. \A i \in 1 .. m : i - 1 \in 0 .. m - 1 /\ k[i - 1] = g[i - 1]
      <4>1. \A j \in 0 .. m - 1 : g[j] = Step(g, j)
        BY <3>1
      <4>2. \A j \in 0 .. m : k[j] = Step(g, j)
        OBVIOUS
      <4>3. \A i \in 1 .. m : i - 1 \in 0 .. m - 1 /\ i - 1 \in 0 .. m
        BY <1>2
      <4> HIDE DEF k, Step
      <4> QED
        BY <4>1, <4>2, <4>3
    <3>3. \A i \in 0 .. m : Step(k, i) = Step(g, i)
      <4> HIDE DEF k
      <4> QED
        BY <3>2
    <3>4. Upto(m, k)
      BY <3>3
    <3> HIDE DEF Upto, k
    <3> QED
      BY <3>4
  <2>3. N \in T
    <3> HIDE DEF T
    <3> QED
      BY <1>2, <2>1, <2>2, RangeInduction
  <2> QED
    BY <2>3
<1>4. h = [i \in 0 .. N |-> Step(h, i)]
  BY <1>3
<1> HIDE DEF h
<1>5. \A i \in 0 .. N : h[i] = Step(h, i)
  BY <1>4
<1>6. h[0] = base /\ \A i \in 1 .. N : h[i] = SetFlag(h[i - 1], line[i])
  BY <1>2, <1>5
<1>7. Parsing(h, options, line)
  BY <1>1, <1>6 DEF Parsing, N, base
<1> QED
  BY <1>7

\* No matcher flag is given without a value.
Filled(line) == \A flag \in ToSet(line) : flag.flag \in Matchers => flag.value # NoName

(* A command line keeps the options well-formed; whatever matcher it names is
   set, unless it names one without a value; and without -search no search is
   asked for. *)
LEMMA LineParsed ==
  ASSUME NEW options, OptionsOK(options),
         NEW line, IsSequence(line), \A flag \in ToSet(line) : FlagOK(flag)
  PROVE  LET t == ParseFlags(options, line) IN
         /\ StateOK(t)
         /\ Filled(line) => \A m \in Matchers :
              (\E flag \in ToSet(line) : flag.flag = m) => t.opts[m] # NoName
         /\ (\A flag \in ToSet(line) : flag.flag # "search") =>
              t.opts.search = options.search
<1>1. PICK g : Parsing(g, options, line)
  BY ParseSteps
<1> DEFINE N == Len(line)
           Quiet == \A flag \in ToSet(line) : flag.flag # "search"
<1>2. N \in Nat /\ DOMAIN line = 1 .. N
  BY DEF IsSequence
<1>3. \A i \in 1 .. N : line[i] \in ToSet(line)
  BY <1>2 DEF ToSet
<1>4. /\ g[0] = [opts |-> options, replaced |-> FALSE, error |-> FALSE]
      /\ \A i \in 1 .. N : g[i] = SetFlag(g[i - 1], line[i])
      /\ ParseFlags(options, line) = g[N]
  BY <1>1 DEF Parsing
<1>5. "search" \in Options \ {"preflights"} /\ Matchers \subseteq Options \ {"preflights"}
  BY OptionNames DEF Scalars, Matchers
<1> HIDE DEF N
<1> DEFINE Set(i) == \A m \in Matchers :
                       (\E k \in 1 .. i : line[k].flag = m) => g[i].opts[m] # NoName
           T == {i \in 0 .. N : /\ StateOK(g[i]) /\ (Filled(line) => Set(i))
                                /\ Quiet => g[i].opts.search = options.search}
<1>6. 0 .. N \subseteq T
  <2>1. 0 \in T
    BY <1>2, <1>4 DEF StateOK
  <2>2. ASSUME NEW i \in 1 .. N, i - 1 \in T PROVE i \in T
    <3> DEFINE flag == line[i]  s == g[i - 1]  t == g[i]
    <3>1. FlagOK(flag) /\ StateOK(s) /\ t = SetFlag(s, flag)
      BY <1>3, <1>4, <2>2
    <3>2. /\ StateOK(t)
          /\ \A option \in Options \ {flag.flag, "preflights"} :
               t.opts[option] = s.opts[option]
          /\ flag.flag \in Matchers => t.opts[flag.flag] = flag.value
      BY <3>1, FlagSet
    <3>3. Quiet => flag.flag # "search"
      BY <1>3
    <3>4. Filled(line) => (flag.flag \in Matchers => flag.value # NoName)
      BY <1>3 DEF Filled
    <3>5. \A k \in 1 .. i : k = i \/ k \in 1 .. i - 1
      BY <1>2
    <3>6. /\ Quiet => s.opts.search = options.search
          /\ Filled(line) => \A m \in Matchers :
               (\E k \in 1 .. i - 1 : line[k].flag = m) => s.opts[m] # NoName
      BY <2>2
    <3> HIDE DEF s, t, Quiet
    <3>7. Quiet => t.opts.search = options.search
      BY <1>5, <3>2, <3>3, <3>6
    <3>8. ASSUME Filled(line), NEW m \in Matchers, \E k \in 1 .. i : line[k].flag = m
          PROVE  t.opts[m] # NoName
      BY <1>5, <3>2, <3>4, <3>5, <3>6, <3>8
    <3> QED
      BY <3>2, <3>7, <3>8 DEF t
  <2> HIDE DEF T
  <2> QED
    BY <1>2, <2>1, <2>2, RangeInduction
<1>7. N \in T
  BY <1>2, <1>6
<1>8. \A m \in Matchers : (\E flag \in ToSet(line) : flag.flag = m) =>
                            \E k \in 1 .. N : line[k].flag = m
  BY <1>2 DEF ToSet
<1> QED
  BY <1>4, <1>7, <1>8

(* A search has the digits of its hash, and no error. *)
LEMMA SearchParsed ==
  ASSUME NEW options, OptionsOK(options), NEW note
  PROVE  LET t == ParseFlags(options, Search(note)) IN
         /\ StateOK(t) /\ ~t.error /\ t.opts.search = note.hash[1]
         /\ IsSequence(Search(note))
<1> DEFINE line == Search(note)
           flag == [flag |-> "search", value |-> note.hash[1]]
<1>1. IsSequence(line) /\ Len(line) = 1 /\ line[1] = flag
  BY DEF Search, IsSequence, ToSet
<1>2. FlagOK(flag)
  BY OptionNames DEF FlagOK, OptionOK, Scalars, Matchers, Appended
<1>3. PICK g : Parsing(g, options, line)
  BY <1>1, ParseSteps
<1>4. /\ g[0] = [opts |-> options, replaced |-> FALSE, error |-> FALSE]
      /\ g[1] = SetFlag(g[0], flag) /\ ParseFlags(options, line) = g[1]
  <2> HIDE DEF line, flag
  <2>1. 1 \in 1 .. 1 /\ 1 - 1 = 0
    OBVIOUS
  <2> QED
    BY <1>1, <1>3, <2>1 DEF Parsing
<1>5. StateOK(g[0]) /\ g[0].error = FALSE
  BY <1>4 DEF StateOK
<1>6. StateOK(g[1]) /\ g[1].opts["search"] = note.hash[1] /\ g[1].error = FALSE
  <2>1. flag.flag = "search" /\ flag.value = note.hash[1]
    OBVIOUS
  <2> HIDE DEF flag
  <2> QED
    BY <1>2, <1>4, <1>5, <2>1, FlagSet
<1> QED
  BY <1>1, <1>4, <1>6

-----------------------------------------------------------------------------
(* The configuration *)

LEMMA PartNames ==
  /\ Method \in Parts /\ Url \in Parts /\ Data \in Parts
  /\ Method # Url /\ Data # Url
  /\ \A part \in Parts : part[1] \in {"name", "value"} => part # Url
BY DEF Method, Url, Data, Parts

(* Another URL changes the request in that place only. *)
LEMMA BaseUrl ==
  ASSUME NEW c, NEW d, NEW u, d.url = u, d.method = c.method, d.data = c.data,
         d.headers = c.headers
  PROVE  BaseRequest(d) = [BaseRequest(c) EXCEPT ![Url] = u]
<1> DEFINE Field(x, part) ==
             CASE part = Method -> x.method
               [] part = Url -> x.url
               [] part = Data -> x.data
               [] part[1] = "name" -> IF part[2] \in DOMAIN x.headers THEN part[2] ELSE <<>>
               [] part[1] = "value" -> IF part[2] \in DOMAIN x.headers
                                       THEN x.headers[part[2]] ELSE <<>>
<1>1. /\ BaseRequest(d) = [part \in Parts |-> Field(d, part)]
      /\ BaseRequest(c) = [part \in Parts |-> Field(c, part)]
  BY DEF BaseRequest
<1>2. Field(d, Url) = u
  BY PartNames DEF Url, Method, Data
<1>3. ASSUME NEW part \in Parts, part # Url PROVE Field(d, part) = Field(c, part)
  BY <1>3
<1> HIDE DEF Field
<1>4. [BaseRequest(c) EXCEPT ![Url] = u]
        = [part \in Parts |-> IF part = Url THEN u ELSE Field(c, part)]
  BY <1>1
<1> QED
  BY <1>1, <1>2, <1>3, <1>4

LEMMA BaseParts == \A c : DOMAIN BaseRequest(c) = Parts /\ BaseRequest(c)[Url] = c.url
BY PartNames DEF BaseRequest

\* The place of the last token, and what is put there.
LEMMA FoundFacts ==
  ASSUME NEW url, IsSequence(url), EndsInFuzz(url)
  PROVE  /\ IsSequence(Found(url)) /\ EndsInFuzz(Found(url))
         /\ \A kw : Contains(Found(url), kw) => Contains(url, kw) \/ kw = Directory
<1> DEFINE N == Len(url)  S == ToSet(url) \cup {Directory, Fuzz}
           head == SubSeq(url, 1, N - 1)
<1>1. url \in Seq(S) /\ N \in Nat /\ N > 0 /\ url[N] = Fuzz
  BY DEF IsSequence, EndsInFuzz, Last
<1>2. /\ head \in Seq(S) /\ Len(head) = N - 1
      /\ \A i \in 1 .. N - 1 : head[i] = url[i]
  <2>1. 1 \in 1 .. N + 1 /\ N - 1 \in 0 .. N
    BY <1>1
  <2>2. /\ head \in Seq(S)
        /\ Len(head) = IF 1 <= N - 1 THEN (N - 1) - 1 + 1 ELSE 0
        /\ \A i \in 1 .. (N - 1) - 1 + 1 : head[i] = url[1 + i - 1]
    BY <1>1, <2>1, SubSeqProperties
  <2> HIDE DEF head, N
  <2>3. (N - 1) - 1 + 1 = N - 1 /\ (~(1 <= N - 1) => N - 1 = 0)
    BY <1>1
  <2>4. \A i \in 1 .. N - 1 : 1 + i - 1 = i
    BY <1>1
  <2> QED
    BY <2>2, <2>3, <2>4
<1> HIDE DEF head, N
<1>3. Found(url) = head \o <<Directory, Fuzz>>
  BY DEF Found, head, N
<1>4. /\ <<Directory, Fuzz>> \in Seq(S) /\ Len(<<Directory, Fuzz>>) = 2
      /\ <<Directory, Fuzz>>[1] = Directory /\ <<Directory, Fuzz>>[2] = Fuzz
  OBVIOUS
<1> DEFINE t == <<Directory, Fuzz>>  f == head \o t
<1> HIDE DEF t, S
<1>5. /\ f \in Seq(S) /\ Len(f) = N + 1
      /\ \A i \in 1 .. N - 1 : f[i] = url[i]
      /\ f[N] = Directory /\ f[N + 1] = Fuzz
  <2>1. t \in Seq(S) /\ Len(t) = 2 /\ t[1] = Directory /\ t[2] = Fuzz
    BY <1>4 DEF t
  <2> QED
    <3>1. /\ f \in Seq(S) /\ Len(f) = Len(head) + Len(t)
          /\ \A i \in 1 .. Len(head) + Len(t) :
               f[i] = IF i <= Len(head) THEN head[i] ELSE t[i - Len(head)]
      BY <1>2, <2>1, ConcatProperties
    <3>2. N - (N - 1) = 1 /\ (N + 1) - (N - 1) = 2
      BY <1>1
    <3> HIDE DEF f
    <3>3. Len(f) = N + 1 /\ Len(head) + Len(t) = N + 1
      BY <1>1, <1>2, <2>1, <3>1
    <3>4. \A i \in 1 .. N + 1 : f[i] = IF i <= N - 1 THEN head[i] ELSE t[i - (N - 1)]
      BY <1>2, <3>1, <3>3
    <3>5. \A i \in 1 .. N - 1 : i \in 1 .. N + 1 /\ i <= N - 1
      BY <1>1
    <3>6. N \in 1 .. N + 1 /\ N + 1 \in 1 .. N + 1 /\ ~(N <= N - 1) /\ ~(N + 1 <= N - 1)
      BY <1>1
    <3> QED
      BY <1>2, <2>1, <3>1, <3>2, <3>3, <3>4, <3>5, <3>6
<1>6. f = Found(url)
  BY <1>3 DEF t
<1> HIDE DEF f
<1>7. IsSequence(f)
  <2>1. DOMAIN f = 1 .. N + 1 /\ f \in [1 .. N + 1 -> ToSet(f)]
    BY <1>1, <1>5 DEF ToSet
  <2> QED
    BY <1>1, <1>5, <2>1 DEF IsSequence
<1>8. EndsInFuzz(f)
  BY <1>1, <1>5 DEF EndsInFuzz, Last
<1>9. ASSUME NEW kw, Contains(f, kw), kw # Directory PROVE Contains(url, kw)
  <2>1. PICK i \in 1 .. N + 1 : f[i] = kw
    BY <1>5, <1>9 DEF Contains
  <2>2. CASE i = N + 1
    BY <1>1, <1>5, <2>1, <2>2 DEF Contains, N
  <2>3. CASE i # N + 1
    <3>1. i \in 1 .. N - 1
      BY <1>1, <1>5, <1>9, <2>1, <2>3
    <3> QED
      BY <1>1, <1>5, <2>1, <3>1 DEF Contains, N
  <2> QED
    BY <2>2, <2>3
<1> QED
  BY <1>6, <1>7, <1>8, <1>9

(* What the checks of ConfigFromOptions leave. *)
LEMMA ConfigFields ==
  ASSUME NEW o, NEW dir
  PROVE  LET c == ConfigFromOptions(o, dir)
             req == BaseRequest(RequestFields(o))
             providers == InputProviders(o, dir)
         IN /\ c.method = RequestFields(o).method /\ c.url = RequestFields(o).url
            /\ c.data = RequestFields(o).data /\ c.headers = RequestFields(o).headers
            /\ c.mode = o.mode /\ c.recursion = o.recursion
            /\ c.providers = Present(providers, req)
            /\ c.wordlists = [i \in DOMAIN o.wordlists |->
                                <<Abs(dir, o.wordlists[i].file), o.wordlists[i].keyword>>]
            /\ c.options = Snapshot(o)
            /\ c.errors = ModeErrors(o) \cup ValueErrors(o) \cup FlightErrors(o)
                          \cup PlaceErrors(o, req) \cup TemplateErrors(providers, req)
                          \cup Error("none", providers = <<>>)
                          \cup Error("request", o.request \notin {NoName} \cup DOMAIN RequestFiles)
BY DEF ConfigFromOptions

\* Providers for the word lists or commands of a list, all under a name.
Each(o, name, list, value) ==
  [i \in DOMAIN list |-> Provider(o, name, value[i], list[i].keyword)]

LEMMA EachFacts ==
  ASSUME NEW o, NEW name, NEW list, NEW value, IsSequence(list)
  PROVE  /\ IsSequence(Each(o, name, list, value))
         /\ \A v \in ToSet(Each(o, name, list, value)) :
              \E w \in ToSet(list) :
                /\ v.keyword = IF w.keyword = NoName THEN Fuzz ELSE w.keyword
                /\ v.template <=> o.mode = "sniper" /\ w.keyword = NoName
<1> DEFINE t == Each(o, name, list, value)
<1>1. DOMAIN list = 1 .. Len(list) /\ Len(list) \in Nat
  BY DEF IsSequence
<1>2. /\ DOMAIN t = 1 .. Len(list)
      /\ \A i \in 1 .. Len(list) : t[i] = Provider(o, name, value[i], list[i].keyword)
      /\ t = [i \in 1 .. Len(list) |-> t[i]]
  BY <1>1 DEF Each
<1> HIDE DEF t
<1>3. t \in Seq(ToSet(t))
  BY <1>1, <1>2 DEF ToSet
<1>4. ASSUME NEW v \in ToSet(t)
      PROVE  \E w \in ToSet(list) :
                /\ v.keyword = IF w.keyword = NoName THEN Fuzz ELSE w.keyword
                /\ v.template <=> o.mode = "sniper" /\ w.keyword = NoName
  <2>1. PICK i \in 1 .. Len(list) : v = t[i]
    BY <1>2 DEF ToSet
  <2>2. list[i] \in ToSet(list)
    BY <1>1 DEF ToSet
  <2>3. v = Provider(o, name, value[i], list[i].keyword)
    BY <1>2, <2>1
  <2> QED
    BY <2>2, <2>3 DEF Provider
<1> QED
  BY <1>3, <1>4 DEF t, IsSequence

(* In sniper mode every provider has a template, since those with a keyword are
   left out; no provider has the name of a directory for its keyword. *)
LEMMA ProviderFacts ==
  ASSUME NEW o, OptionsOK(o), NEW dir
  PROVE  /\ IsSequence(InputProviders(o, dir))
         /\ \A v \in ToSet(InputProviders(o, dir)) :
              v.keyword # Directory /\ (v.template <=> o.mode = "sniper")
<1> DEFINE Kept(seq) ==
             Selected(seq, {w \in ToSet(seq) : o.mode # "sniper" \/ w.keyword = NoName})
           lists == Kept(o.wordlists)
           comms == Kept(o.commands)
           a == Each(o, "wordlist", lists, [i \in DOMAIN lists |-> Abs(dir, lists[i].file)])
           b == Each(o, "command", comms, [i \in DOMAIN comms |-> comms[i].file])
<1>1. ASSUME NEW f \in {"wordlists", "commands"}
      PROVE  /\ IsSequence(Kept(o[f]))
             /\ \A w \in ToSet(Kept(o[f])) : /\ w.keyword # Directory
                                             /\ o.mode # "sniper" \/ w.keyword = NoName
  <2>1. f \in Options
    BY OptionNames DEF Appended
  <2>2. IsSequence(o[f]) /\ \A w \in ToSet(o[f]) : w.keyword # Directory
    BY <2>1 DEF OptionsOK, OptionOK, Appended
  <2> QED
    BY <2>2, SelectedFacts
<1>2. /\ IsSequence(lists) /\ IsSequence(comms)
      /\ \A w \in ToSet(lists) \cup ToSet(comms) :
           w.keyword # Directory /\ (o.mode # "sniper" \/ w.keyword = NoName)
  <2> HIDE DEF Kept
  <2>1. IsSequence(Kept(o["wordlists"])) /\ IsSequence(Kept(o["commands"]))
    BY <1>1
  <2> QED
    BY <1>1, <2>1
<1> HIDE DEF Kept
<1>3. InputProviders(o, dir) = a \o b
  <2>1. a = [i \in DOMAIN lists |->
               Provider(o, "wordlist", Abs(dir, lists[i].file), lists[i].keyword)]
    BY DEF Each
  <2>2. b = [i \in DOMAIN comms |->
               Provider(o, "command", comms[i].file, comms[i].keyword)]
    BY DEF Each
  <2> QED
    BY <2>1, <2>2 DEF InputProviders, Kept
<1> HIDE DEF lists, comms
<1>4. /\ IsSequence(a) /\ IsSequence(b)
      /\ \A v \in ToSet(a) \cup ToSet(b) :
           \E w \in ToSet(lists) \cup ToSet(comms) :
             /\ v.keyword = IF w.keyword = NoName THEN Fuzz ELSE w.keyword
             /\ v.template <=> o.mode = "sniper" /\ w.keyword = NoName
  BY <1>2, EachFacts
<1> HIDE DEF a, b
<1>5. IsSequence(a \o b) /\ ToSet(a \o b) = ToSet(a) \cup ToSet(b)
  BY <1>4, Joined
<1> QED
  BY <1>2, <1>3, <1>4, <1>5, StartupAssumption

LEMMA ConfigNames ==
  \A o, dir : DOMAIN ConfigFromOptions(o, dir) =
                {"method", "url", "data", "headers", "mode", "recursion", "acc",
                 "ac", "providers", "wordlists", "options", "errors"}
BY DEF ConfigFromOptions

LEMMA ConfigRecord ==
  ASSUME NEW o, NEW dir
  PROVE  ConfigFromOptions(o, dir) =
           [ConfigFromOptions(o, dir) EXCEPT !.url = ConfigFromOptions(o, dir).url]
BY DEF ConfigFromOptions

(* A configuration without errors: sniper mode has a provider with a template
   in its first place, signs in pairs and no keyword, and recursion a URL that it
   can go on from. *)
LEMMA ConfigFacts ==
  ASSUME NEW o, OptionsOK(o), NEW dir, ConfigFromOptions(o, dir).errors = {}
  PROVE  LET c == ConfigFromOptions(o, dir) IN
         /\ c.mode = "sniper" => c.providers # <<>> /\ Head(c.providers).template
         /\ c.mode = "sniper" =>
              /\ templatePresent(BaseRequest(RequestFields(o)))
              /\ ~RequestContainsKeyword(BaseRequest(RequestFields(o)), Fuzz)
         /\ c.recursion => EndsInFuzz(c.url) /\ c.mode # "sniper"
         /\ IsSequence(c.url)
<1> DEFINE c == ConfigFromOptions(o, dir)
           req == BaseRequest(RequestFields(o))
           providers == InputProviders(o, dir)
<1>1. /\ c.url = RequestFields(o).url /\ c.mode = o.mode /\ c.recursion = o.recursion
      /\ c.providers = Present(providers, req)
      /\ PlaceErrors(o, req) = {} /\ TemplateErrors(providers, req) = {}
      /\ Error("none", providers = <<>>) = {}
  <2> DEFINE A == ModeErrors(o) \cup ValueErrors(o) \cup FlightErrors(o)
             B == PlaceErrors(o, req)  C == TemplateErrors(providers, req)
             D == Error("none", providers = <<>>)
             E == Error("request", o.request \notin {NoName} \cup DOMAIN RequestFiles)
  <2>1. /\ c.url = RequestFields(o).url /\ c.mode = o.mode /\ c.recursion = o.recursion
        /\ c.providers = Present(providers, req)
    BY ConfigFields
  <2>2. c.errors = A \cup B \cup C \cup D \cup E
    BY ConfigFields
  <2>3. c.errors = {}
    OBVIOUS
  <2> HIDE DEF A, B, C, D, E, c
  <2>4. B = {} /\ C = {} /\ D = {}
    BY <2>2, <2>3
  <2> QED
    BY <2>1, <2>4 DEF B, C, D
<1>2. req[Url] = c.url
  BY <1>1, BaseParts
<1>3. IsSequence(c.url)
  <2>1. IsSequence(<<>>)
    BY DEF IsSequence, ToSet
  <2>2. IsSequence(o.url)
    BY OptionNames DEF OptionsOK, OptionOK, Scalars
  <2>3. IsSequence(parseRawRequest(o).url)
    BY <2>1, StartupAssumption DEF parseRawRequest, NewConfig, TextsOK
  <2> HIDE DEF c
  <2> QED
    BY <1>1, <2>2, <2>3 DEF RequestFields, Or
<1> HIDE DEF c, req
<1>4. ASSUME c.recursion PROVE EndsInFuzz(c.url) /\ c.mode # "sniper"
  <2>1. EndsInFuzz(c.url)
    BY <1>1, <1>2, <1>4 DEF PlaceErrors, Error
  <2>2. Contains(c.url, Fuzz)
    BY <1>3, <2>1 DEF EndsInFuzz, Last, Contains, IsSequence
  <2>3. RequestContainsKeyword(req, Fuzz)
    BY <1>2, <2>2, PartNames DEF RequestContainsKeyword
  <2> QED
    BY <1>1, <2>1, <2>3 DEF PlaceErrors, Error
<1>5. ASSUME c.mode = "sniper"
      PROVE  /\ c.providers # <<>> /\ Head(c.providers).template
             /\ templatePresent(req) /\ ~RequestContainsKeyword(req, Fuzz)
  <2>1. IsSequence(providers) /\ \A v \in ToSet(providers) : v.template
    BY <1>1, <1>5, ProviderFacts
  <2>2. providers # <<>>
    BY <1>1 DEF Error
  <2> HIDE DEF providers
  <2>3. providers[1] \in ToSet(providers)
    BY <2>1, <2>2 DEF IsSequence, ToSet
  <2>4. templatePresent(req)
    BY <1>1, <2>1, <2>3 DEF TemplateErrors, Error
  <2> DEFINE S == {v \in ToSet(providers) :
                     IF v.template THEN templatePresent(req)
                     ELSE RequestContainsKeyword(req, v.keyword)}
  <2>5. S = ToSet(providers)
    BY <2>1, <2>4
  <2>6. c.providers = Selected(providers, S)
    BY <1>1 DEF Present
  <2> HIDE DEF S
  <2>7. IsSequence(c.providers) /\ ToSet(c.providers) = ToSet(providers)
    BY <2>1, <2>5, <2>6, SelectedFacts
  <2>8. c.providers # <<>>
    BY <2>3, <2>7 DEF ToSet
  <2>9. Head(c.providers) \in ToSet(c.providers)
    BY <2>7, <2>8 DEF IsSequence, ToSet
  <2>10. ~RequestContainsKeyword(req, Fuzz)
    BY <1>1, <1>5 DEF PlaceErrors, Error
  <2> QED
    BY <2>1, <2>4, <2>7, <2>8, <2>9, <2>10
<1> QED
  BY <1>3, <1>4, <1>5 DEF c, req

-----------------------------------------------------------------------------
(* What a process holds *)

LineOK(line) == IsSequence(line) /\ \A flag \in ToSet(line) : FlagOK(flag)

\* A matcher that the command line names is set, if none is without a value.
Names(o, line) ==
  Filled(line) => \A m \in Matchers :
    (\E flag \in ToSet(line) : flag.flag = m) => o[m] # NoName

\* The URLs that a scan with a configuration comes to.
Reached(c, url) == url = c.url \/ (c.recursion /\ url = Found(c.url))

JobOK(c, j) ==
  /\ j.depth = 0 => j.url = c.url
  /\ j.depth = 1 => c.recursion /\ j.url = Found(c.url)
  /\ c.mode # "sniper" => j.req = [BaseRequest(c) EXCEPT ![Url] = j.url]

\* The configuration before recursion changes its URL.
Chosen(p) == ConfigFromOptions(opts[p], cwd[p])

\* The job that is prepared or scanned, whose URL is in the configuration.
Current(p) == [url |-> conf[p].url, depth |-> job[p].depth, req |-> job[p].req]

OptionsInv(p) ==
  /\ OptionsOK(opts[p]) /\ LineOK(cmd[p])
  /\ pc[p] \in {"config", "configure"} => Names(opts[p], cmd[p])

ConfInv(p) ==
  pc[p] \in {"built"} \cup Started =>
    LET c == Chosen(p) IN
    /\ c.errors = {} /\ InputErrors(c) = {}
    /\ conf[p] = [c EXCEPT !.url = conf[p].url] /\ Reached(c, conf[p].url)
    /\ pc[p] = "built" => conf[p].url = c.url
    /\ manager[p].matchers = {} => MatcherEmptied(cmd[p])

QueueInv(p) ==
  /\ pc[p] \in Started => \A j \in queue[p] : JobOK(Chosen(p), j)
  /\ pc[p] \in {"entry", "scanning"} => JobOK(Chosen(p), Current(p))

JobType(j) == DOMAIN j.req = Parts /\ j.depth \in 0..1

TypeInv ==
  /\ rc \in RcFiles
  /\ pc \in [Processes -> Parsed \cup Ended \cup {"start", "failed", "search", "config"}]
  /\ DOMAIN cwd = Processes /\ DOMAIN cmd = Processes /\ DOMAIN opts = Processes
  /\ DOMAIN conf = Processes /\ DOMAIN manager = Processes
  /\ DOMAIN queue = Processes /\ DOMAIN job = Processes
  /\ DOMAIN target = Processes /\ DOMAIN printed = Processes
  /\ \A p \in Processes :
       /\ manager[p].matchers \subseteq Matchers \cup {"mc"}
       /\ manager[p].filters \subseteq Filters
       /\ \A j \in queue[p] : JobType(j)
       /\ pc[p] \in {"entry", "scanning"} => JobType(job[p])

\* The hashes of a process are numbered, so that the next is a new one.
HashInv ==
  /\ IsFiniteSet(DOMAIN entries)
  /\ \A h \in DOMAIN entries :
       /\ h \in Digits \X Processes \X Nat
       /\ h[3] < Cardinality({x \in DOMAIN entries : x[2] = h[2]})
  /\ \A n \in noted : n.hash \in DOMAIN entries
  /\ \A p \in Processes :
       /\ pc[p] \in {"entry", "scanning"} =>
            job[p].hash \in DOMAIN entries /\ job[p].hash[2] = p
       /\ pc[p] = "entry" => \A n \in noted : n.hash # job[p].hash

ScanInv == /\ TypeInv /\ HashInv
           /\ \A p \in Processes : OptionsInv(p) /\ ConfInv(p) /\ QueueInv(p)

LEMMA ScanFacts == ScanInv => TypeOK /\ FitToStart
<1> SUFFICES ASSUME ScanInv PROVE TypeOK /\ FitToStart
  OBVIOUS
<1>1. TypeOK
  BY DEF TypeOK, ScanInv, TypeInv, HashInv, OptionsInv, OptionsOK, JobType
<1>2. ASSUME NEW p \in Processes, pc[p] \in Started
      PROVE  /\ conf[p].mode = "sniper" => /\ conf[p].providers # <<>>
                                           /\ Head(conf[p].providers).template
             /\ conf[p].recursion => EndsInFuzz(conf[p].url)
             /\ manager[p].matchers = {} => MatcherEmptied(cmd[p])
  <2> DEFINE c == Chosen(p)
  <2>1. /\ OptionsOK(opts[p]) /\ c.errors = {} /\ Reached(c, conf[p].url)
        /\ conf[p] = [c EXCEPT !.url = conf[p].url]
        /\ manager[p].matchers = {} => MatcherEmptied(cmd[p])
    BY <1>2 DEF ScanInv, OptionsInv, ConfInv
  <2>2. /\ c.mode = "sniper" => c.providers # <<>> /\ Head(c.providers).template
        /\ c.recursion => EndsInFuzz(c.url)
        /\ IsSequence(c.url)
    BY <2>1, ConfigFacts DEF Chosen
  <2>3. {"mode", "recursion", "providers", "url"} \subseteq DOMAIN c
    BY ConfigNames DEF Chosen
  <2> HIDE DEF c
  <2>4. /\ conf[p].mode = c.mode /\ conf[p].recursion = c.recursion
        /\ conf[p].providers = c.providers
    BY <2>1, <2>3
  <2>5. c.recursion => EndsInFuzz(conf[p].url)
    BY <2>1, <2>2, FoundFacts DEF Reached
  <2> QED
    BY <2>1, <2>2, <2>4, <2>5
<1> QED
  BY <1>1, <1>2 DEF FitToStart

LEMMA ScanInit == Init => ScanInv
<1> SUFFICES ASSUME Init PROVE ScanInv
  OBVIOUS
<1>1. TypeInv
  BY DEF Init, TypeInv, NoManager, Ended
<1>2. HashInv
  <2>1. DOMAIN entries = {}
    BY DEF Init
  <2> QED
    BY <2>1, FS_EmptySet DEF Init, HashInv
<1>3. ASSUME NEW p \in Processes PROVE OptionsInv(p) /\ ConfInv(p) /\ QueueInv(p)
  <2>1. LineOK(<<>>)
    BY DEF LineOK, IsSequence, ToSet
  <2>2. pc[p] = "start" /\ opts[p] = DefaultOptions /\ cmd[p] = <<>>
    BY DEF Init
  <2> QED
    BY <2>1, <2>2, DefaultsOK DEF OptionsInv, ConfInv, QueueInv, Started
<1> QED
  BY <1>1, <1>2, <1>3 DEF ScanInv

-----------------------------------------------------------------------------
(* A step of one process *)

\* Nobody else's memory changes, and no directory or file.
Only(p) ==
  /\ rc' = rc /\ cwd' = cwd /\ pc' = [q \in Processes |-> pc'[q]]
  /\ DOMAIN cmd' = Processes /\ DOMAIN opts' = Processes /\ DOMAIN conf' = Processes
  /\ DOMAIN manager' = Processes /\ DOMAIN queue' = Processes
  /\ DOMAIN job' = Processes /\ DOMAIN target' = Processes
  /\ DOMAIN printed' = Processes
  /\ \A q \in Processes \ {p} :
       /\ pc'[q] = pc[q] /\ cmd'[q] = cmd[q] /\ opts'[q] = opts[q]
       /\ conf'[q] = conf[q] /\ manager'[q] = manager[q] /\ queue'[q] = queue[q]
       /\ job'[q] = job[q] /\ target'[q] = target[q] /\ printed'[q] = printed[q]

OnlyType(p) ==
  /\ pc[p] \in Parsed \cup Ended \cup {"start", "failed", "search", "config"}
  /\ manager[p].matchers \subseteq Matchers \cup {"mc"}
  /\ manager[p].filters \subseteq Filters
  /\ \A j \in queue[p] : JobType(j)
  /\ pc[p] \in {"entry", "scanning"} => JobType(job[p])

LEMMA OneMoves ==
  ASSUME ScanInv, NEW p \in Processes, Only(p), OnlyType(p)', HashInv',
         OptionsInv(p)', ConfInv(p)', QueueInv(p)'
  PROVE  ScanInv'
<1>1. DOMAIN cwd' = Processes
  BY DEF ScanInv, TypeInv, Only
<1>2. rc' = rc /\ cwd' = cwd
  BY DEF Only
<1>3. ASSUME NEW q \in Processes, q # p
      PROVE  /\ pc'[q] = pc[q] /\ cmd'[q] = cmd[q] /\ opts'[q] = opts[q]
             /\ conf'[q] = conf[q] /\ manager'[q] = manager[q]
             /\ queue'[q] = queue[q] /\ job'[q] = job[q]
  BY <1>3 DEF Only
<1>4. TypeInv'
  <2>1. ASSUME NEW q \in Processes PROVE OnlyType(q)'
    BY <1>3 DEF OnlyType, ScanInv, TypeInv, JobType
  <2> QED
    BY <1>1, <1>2, <2>1 DEF TypeInv, OnlyType, ScanInv, Only
<1>5. ASSUME NEW q \in Processes PROVE OptionsInv(q)' /\ ConfInv(q)' /\ QueueInv(q)'
  <2>1. CASE q = p
    BY <2>1
  <2>2. CASE q # p
    <3>1. OptionsInv(q)'
      BY <1>3, <2>2 DEF ScanInv, OptionsInv
    <3>2. Chosen(q)' = Chosen(q) /\ Current(q)' = Current(q)
      BY <1>2, <1>3, <2>2 DEF Chosen, Current
    <3>3. ConfInv(q)'
      BY <1>3, <2>2, <3>2 DEF ScanInv, ConfInv
    <3>4. QueueInv(q)'
      BY <1>3, <2>2, <3>2 DEF ScanInv, QueueInv
    <3> QED
      BY <3>1, <3>3, <3>4
  <2> QED
    BY <2>1, <2>2
<1> QED
  BY <1>4, <1>5 DEF ScanInv

\* A step that neither prepares nor scans a job, and writes nothing.
LEMMA HashesStay ==
  ASSUME ScanInv, NEW p \in Processes, Only(p), UNCHANGED <<entries, noted>>,
         pc'[p] \in {"entry", "scanning"} => pc'[p] = pc[p] /\ job'[p] = job[p]
  PROVE  HashInv'
<1>1. \A q \in Processes \ {p} : pc'[q] = pc[q] /\ job'[q] = job[q]
  BY DEF Only
<1>2. ASSUME NEW q \in Processes
      PROVE  /\ pc'[q] \in {"entry", "scanning"} =>
                  job'[q].hash \in DOMAIN entries /\ job'[q].hash[2] = q
             /\ pc'[q] = "entry" => \A n \in noted : n.hash # job'[q].hash
  <2>1. pc'[q] \in {"entry", "scanning"} => pc'[q] = pc[q] /\ job'[q] = job[q]
    BY <1>1
  <2> QED
    BY <2>1 DEF ScanInv, HashInv
<1> QED
  BY <1>2 DEF ScanInv, HashInv

\* The end of a process.
LEMMA Ends ==
  ASSUME ScanInv, NEW p \in Processes, NEW step \in Ended, End(p, step),
         DOMAIN printed' = Processes,
         \A q \in Processes \ {p} : printed'[q] = printed[q]
  PROVE  ScanInv'
<1>0. /\ DOMAIN pc = Processes /\ DOMAIN cmd = Processes /\ DOMAIN opts = Processes
      /\ DOMAIN conf = Processes /\ DOMAIN manager = Processes
      /\ DOMAIN queue = Processes /\ DOMAIN job = Processes
      /\ DOMAIN target = Processes
  BY DEF ScanInv, TypeInv
<1>1. /\ pc'[p] = step /\ cmd'[p] = <<>> /\ opts'[p] = DefaultOptions
      /\ manager'[p] = NoManager /\ queue'[p] = {} /\ UNCHANGED <<entries, noted>>
  BY <1>0 DEF End, Goto
<1>2. Only(p)
  BY <1>0 DEF End, Goto, Only
<1>3. step \notin Started \cup {"built", "config", "configure"}
  BY DEF Ended, Started
<1>4. OnlyType(p)'
  BY <1>1, <1>3 DEF OnlyType, NoManager, Started
<1>5. HashInv'
  BY <1>1, <1>2, <1>3, HashesStay DEF Started
<1>6. OptionsInv(p)'
  <2>1. LineOK(<<>>)
    BY DEF LineOK, IsSequence, ToSet
  <2> QED
    BY <1>1, <1>3, <2>1, DefaultsOK DEF OptionsInv
<1>7. ConfInv(p)' /\ QueueInv(p)'
  BY <1>1, <1>3 DEF ConfInv, QueueInv, Started
<1> QED
  BY <1>2, <1>4, <1>5, <1>6, <1>7, OneMoves

-----------------------------------------------------------------------------
(* The steps of a process keep the invariant *)

LEMMA Memory ==
  ScanInv => /\ DOMAIN pc = Processes /\ DOMAIN cmd = Processes
             /\ DOMAIN opts = Processes /\ DOMAIN conf = Processes
             /\ DOMAIN manager = Processes /\ DOMAIN queue = Processes
             /\ DOMAIN job = Processes /\ DOMAIN target = Processes
             /\ DOMAIN printed = Processes /\ DOMAIN cwd = Processes
             /\ pc = [q \in Processes |-> pc[q]]
BY DEF ScanInv, TypeInv

\* A step to a place where nothing is built yet.
LEMMA EarlyStep ==
  ASSUME ScanInv, NEW p \in Processes, Only(p), UNCHANGED <<entries, noted>>,
         pc'[p] \in {"failed", "search", "config", "configure"},
         manager'[p] = manager[p], queue'[p] = queue[p],
         OptionsInv(p)'
  PROVE  ScanInv'
<1>1. pc'[p] \notin Started \cup {"built"} /\ pc'[p] \notin {"entry", "scanning"}
  BY DEF Started
<1>2. OnlyType(p)'
  BY <1>1 DEF OnlyType, ScanInv, TypeInv, Parsed, JobType
<1>3. HashInv'
  BY <1>1, HashesStay
<1>4. ConfInv(p)' /\ QueueInv(p)'
  BY <1>1 DEF ConfInv, QueueInv
<1> QED
  BY <1>2, <1>3, <1>4, OneMoves

LEMMA ParseCommandLineStep ==
  ASSUME ScanInv, NEW p \in Processes, ParseCommandLine(p)
  PROVE  ScanInv' /\ (pc'[p] = "search" =>
                        target'[p] \in noted /\ opts'[p].search = target'[p].hash[1])
<1> DEFINE options == Over(rc, DefaultOptions)
           state == ParseFlags(options, cmd'[p])
<1>1. OptionsOK(options) /\ options.search = NoName
  <2>1. FileOK(rc) /\ "search" \notin DOMAIN rc
    BY StartupAssumption DEF ScanInv, TypeInv
  <2>2. "search" \in DOMAIN DefaultOptions /\ DefaultOptions["search"] = NoName
    BY OptionNames DEF Options, Scalars, Matchers, Filters, Appended, DefaultOptions
  <2>3. options["search"] = NoName
    BY <2>1, <2>2 DEF Over
  <2> QED
    BY <2>1, <2>3, FileOverDefaults
<1>2. /\ opts' = [opts EXCEPT ![p] = state.opts]
      /\ pc' = [pc EXCEPT ![p] = AfterParse(state)]
      /\ UNCHANGED <<rc, cwd, conf, manager, queue, job, entries, printed, noted>>
  BY DEF ParseCommandLine, Parse, Goto
<1> HIDE DEF options, state
<1>3. pc'[p] = AfterParse(state) /\ opts'[p] = state.opts
  BY <1>2, Memory
<1>4. CASE \E line \in CommandLines[p] : cmd' = [cmd EXCEPT ![p] = line] /\ UNCHANGED target
  <2>1. PICK line \in CommandLines[p] : cmd' = [cmd EXCEPT ![p] = line] /\ UNCHANGED target
    BY <1>4
  <2>2. cmd'[p] = line
    BY <2>1, Memory
  <2>3. /\ LineOK(line) /\ \A flag \in ToSet(line) : flag.flag # "search"
    BY StartupAssumption DEF LineOK
  <2>4. /\ StateOK(state) /\ state.opts.search = NoName
        /\ Names(state.opts, line)
    BY <1>1, <2>2, <2>3, LineParsed DEF state, LineOK, Names
  <2>5. pc'[p] \in {"failed", "config", "configure"}
    BY <1>3, <2>4 DEF AfterParse
  <2>6. OptionsInv(p)'
    BY <1>3, <2>2, <2>3, <2>4, <2>5 DEF OptionsInv, StateOK
  <2>7. Only(p)
    BY <1>2, <2>1, Memory DEF Only
  <2> QED
    BY <1>2, <2>5, <2>6, <2>7, EarlyStep
<1>5. CASE \E note \in noted : /\ cmd' = [cmd EXCEPT ![p] = Search(note)]
                               /\ target' = [target EXCEPT ![p] = note]
  <2>1. PICK note \in noted : /\ cmd' = [cmd EXCEPT ![p] = Search(note)]
                              /\ target' = [target EXCEPT ![p] = note]
    BY <1>5
  <2>2. cmd'[p] = Search(note) /\ target'[p] = note
    BY <2>1, Memory
  <2>3. /\ StateOK(state) /\ ~state.error /\ state.opts.search = note.hash[1]
        /\ IsSequence(Search(note))
    BY <1>1, <2>2, SearchParsed DEF state
  <2>4. note.hash[1] # NoName
    <3>1. note.hash \in Digits \X Processes \X Nat
      BY DEF ScanInv, HashInv
    <3> QED
      BY <3>1, StartupAssumption
  <2>5. pc'[p] = "search"
    BY <1>3, <2>3, <2>4 DEF AfterParse
  <2>6. LineOK(Search(note))
    <3>1. \A flag \in ToSet(Search(note)) : flag.flag = "search"
      BY DEF Search, ToSet
    <3> QED
      BY <2>3, <3>1, OptionNames DEF LineOK, FlagOK, OptionOK, Scalars, Matchers, Appended
  <2>7. OptionsInv(p)'
    BY <1>3, <2>2, <2>3, <2>5, <2>6 DEF OptionsInv, StateOK
  <2>8. Only(p)
    BY <1>2, <2>1, Memory DEF Only
  <2> QED
    BY <1>2, <1>3, <2>2, <2>3, <2>5, <2>7, <2>8, EarlyStep
<1> QED
  BY <1>4, <1>5 DEF ParseCommandLine

LEMMA LoadConfigStep ==
  ASSUME ScanInv, NEW p \in Processes, LoadConfig(p)
  PROVE  ScanInv' /\ pc'[p] # "search"
<1>1. pc[p] = "config" /\ OptionsOK(opts[p]) /\ LineOK(cmd[p])
  BY DEF LoadConfig, ScanInv, OptionsInv
<1>2. UNCHANGED <<rc, cwd, cmd, conf, manager, queue, job, entries, target, printed, noted>>
  BY DEF LoadConfig
<1>3. CASE opts[p].config \in DOMAIN ConfigFiles
  <2> DEFINE file == ConfigFiles[opts[p].config]
             options == ReadConfig(opts[p], file)
             state == ParseFlags(options, cmd[p])
  <2>1. OptionsOK(options)
    BY <1>3, StartupAssumption, FileOverDefaults DEF ReadConfig
  <2>2. /\ opts' = [opts EXCEPT ![p] = state.opts]
        /\ pc' = [pc EXCEPT ![p] = IF state.error THEN "failed" ELSE "configure"]
    BY <1>3 DEF LoadConfig, Goto
  <2>3. StateOK(state) /\ Names(state.opts, cmd[p])
    <3> HIDE DEF options
    <3> QED
      BY <1>1, <2>1, LineParsed DEF LineOK, Names
  <2> HIDE DEF state
  <2>4. pc'[p] \in {"failed", "configure"} /\ opts'[p] = state.opts
    BY <2>2, Memory
  <2>5. Only(p)
    BY <1>2, <2>2, Memory DEF Only
  <2>6. OptionsInv(p)'
    BY <1>1, <1>2, <2>3, <2>4 DEF OptionsInv, StateOK
  <2> QED
    BY <1>2, <2>4, <2>5, <2>6, EarlyStep
<1>4. CASE opts[p].config \notin DOMAIN ConfigFiles
  <2>1. pc' = [pc EXCEPT ![p] = "failed"] /\ UNCHANGED opts
    BY <1>4 DEF LoadConfig, Goto
  <2>2. pc'[p] = "failed" /\ Only(p)
    BY <1>2, <2>1, Memory DEF Only
  <2>3. OptionsInv(p)'
    BY <1>1, <1>2, <2>1, <2>2 DEF OptionsInv
  <2> QED
    BY <1>2, <2>2, <2>3, EarlyStep
<1> QED
  BY <1>3, <1>4

LEMMA ConfigureStep ==
  ASSUME ScanInv, NEW p \in Processes, Configure(p)
  PROVE  ScanInv'
<1> DEFINE c == Chosen(p)  m == SetupFilters(opts[p], cmd[p])
<1>1. /\ pc[p] = "configure" /\ conf' = [conf EXCEPT ![p] = c]
      /\ manager' = [manager EXCEPT ![p] = m]
      /\ pc' = [pc EXCEPT ![p] = IF c.errors \cup InputErrors(c) = {}
                                 THEN "built" ELSE "failed"]
      /\ UNCHANGED <<rc, cwd, cmd, opts, queue, job, entries, target, printed, noted>>
  BY DEF Configure, Goto, Chosen
<1>2. OptionsOK(opts[p]) /\ Names(opts[p], cmd[p]) /\ LineOK(cmd[p])
  BY <1>1 DEF ScanInv, OptionsInv
<1>3. Chosen(p)' = c
  BY <1>1 DEF Chosen
<1>4. c = [c EXCEPT !.url = c.url]
  BY ConfigRecord DEF Chosen
<1>5. m.matchers = {} => MatcherEmptied(cmd[p])
  <2> DEFINE Visited(flags) == \E f \in ToSet(cmd[p]) : f.flag \in flags
  <2>1. m.matchers = {x \in Matchers : opts[p][x] # NoName}
                     \cup Error("mc", Visited({"mc"}) \/ ~Visited(Matchers))
    BY DEF SetupFilters
  <2>2. CASE Visited({"mc"}) \/ ~Visited(Matchers)
    BY <2>1, <2>2 DEF Error
  <2>3. CASE Visited(Matchers) /\ Filled(cmd[p])
    BY <1>2, <2>1, <2>3 DEF Names
  <2>4. CASE ~Visited({"mc"}) /\ ~Filled(cmd[p])
    BY <2>4 DEF Filled, MatcherEmptied
  <2> QED
    BY <2>2, <2>3, <2>4
<1>6. m.matchers \subseteq Matchers \cup {"mc"} /\ m.filters \subseteq Filters
  BY DEF SetupFilters, Error
<1> HIDE DEF c, m
<1>7. /\ conf'[p] = c /\ manager'[p] = m /\ Only(p)
      /\ pc'[p] = IF c.errors \cup InputErrors(c) = {} THEN "built" ELSE "failed"
  BY <1>1, Memory DEF Only
<1>8. OptionsInv(p)'
  BY <1>1, <1>2, <1>7 DEF OptionsInv
<1>9. ConfInv(p)'
  <2> SUFFICES ASSUME pc'[p] = "built" PROVE ConfInv(p)'
    BY <1>7 DEF ConfInv, Started
  <2>1. c.errors = {} /\ InputErrors(c) = {}
    BY <1>7
  <2> QED
    BY <1>1, <1>3, <1>4, <1>5, <1>7, <2>1 DEF ConfInv, Reached
<1>10. QueueInv(p)' /\ HashInv' /\ OnlyType(p)'
  <2>1. pc'[p] \in {"built", "failed"}
    BY <1>7
  <2>2. HashInv'
    BY <1>1, <1>7, <2>1, HashesStay
  <2> QED
    BY <1>1, <1>6, <1>7, <2>1, <2>2
       DEF QueueInv, OnlyType, Started, Parsed, ScanInv, TypeInv, JobType
<1> QED
  BY <1>7, <1>8, <1>9, <1>10, OneMoves

\* What is known of the configuration while the process runs.
LEMMA RunningConf ==
  ASSUME ScanInv, NEW p \in Processes, pc[p] \in {"built"} \cup Started
  PROVE  LET c == Chosen(p) IN
         /\ OptionsOK(opts[p]) /\ c.errors = {} /\ InputErrors(c) = {}
         /\ conf[p] = [c EXCEPT !.url = conf[p].url] /\ Reached(c, conf[p].url)
         /\ \A field \in DOMAIN c \ {"url"} : conf[p][field] = c[field]
         /\ conf[p].mode = c.mode /\ conf[p].recursion = c.recursion
         /\ conf[p].wordlists = c.wordlists /\ conf[p].options = c.options
         /\ BaseRequest(conf[p]) = [BaseRequest(c) EXCEPT ![Url] = conf[p].url]
         /\ IsSequence(c.url) /\ (c.recursion => EndsInFuzz(c.url) /\ c.mode # "sniper")
<1> DEFINE c == Chosen(p)
<1>1. /\ OptionsOK(opts[p]) /\ c.errors = {} /\ InputErrors(c) = {}
      /\ conf[p] = [c EXCEPT !.url = conf[p].url] /\ Reached(c, conf[p].url)
  BY DEF ScanInv, OptionsInv, ConfInv
<1>2. IsSequence(c.url) /\ (c.recursion => EndsInFuzz(c.url) /\ c.mode # "sniper")
  BY <1>1, ConfigFacts DEF Chosen
<1>3. {"method", "data", "headers", "mode", "recursion", "wordlists", "options"}
        \subseteq DOMAIN c \ {"url"}
  BY ConfigNames DEF Chosen
<1> HIDE DEF c
<1>4. \A field \in DOMAIN c \ {"url"} : conf[p][field] = c[field]
  BY <1>1
<1>5. /\ conf[p].method = c.method /\ conf[p].data = c.data
      /\ conf[p].headers = c.headers
      /\ conf[p].mode = c.mode /\ conf[p].recursion = c.recursion
      /\ conf[p].wordlists = c.wordlists /\ conf[p].options = c.options
  BY <1>3, <1>4
<1>6. BaseRequest(conf[p]) = [BaseRequest(c) EXCEPT ![Url] = conf[p].url]
  BY <1>5, BaseUrl
<1> QED
  BY <1>1, <1>2, <1>4, <1>5, <1>6 DEF c

LEMMA StartStep ==
  ASSUME ScanInv, NEW p \in Processes, Start(p)
  PROVE  ScanInv'
<1> DEFINE c == Chosen(p)  base == BaseRequest(conf[p])
<1>1. /\ pc[p] = "built" /\ pc' = [pc EXCEPT ![p] = "running"]
      /\ UNCHANGED <<rc, cwd, cmd, opts, conf, manager, job, entries, target, printed, noted>>
      /\ queue' = [queue EXCEPT ![p] =
           IF conf[p].mode = "sniper"
           THEN {[url |-> conf[p].url, depth |-> 0, place |-> l,
                  req |-> SniperRequest(base, l)] : l \in Places(base)}
           ELSE {[url |-> conf[p].url, depth |-> 0, req |-> base]}]
  BY DEF Start, Goto
<1>2. /\ OptionsInv(p) /\ ConfInv(p) /\ conf[p].url = c.url
      /\ conf[p].mode = c.mode /\ base = [BaseRequest(c) EXCEPT ![Url] = conf[p].url]
  BY <1>1, RunningConf DEF ScanInv, ConfInv
<1>3. Chosen(p)' = c /\ Chosen(p)' = Chosen(p)
  BY <1>1 DEF Chosen
<1>4. DOMAIN base = Parts /\ \A l : DOMAIN SniperRequest(base, l) = Parts
  BY BaseParts DEF SniperRequest, scrubTemplates
<1> HIDE DEF c, base
<1>5. ASSUME NEW j \in queue'[p] PROVE JobType(j) /\ JobOK(c, j)
  <2>1. CASE conf[p].mode = "sniper"
    <3>1. PICK l \in Places(base) :
            j = [url |-> conf[p].url, depth |-> 0, place |-> l,
                 req |-> SniperRequest(base, l)]
      BY <1>1, <2>1, <1>5, Memory
    <3>2. j.depth = 0 /\ j.url = conf[p].url /\ j.req = SniperRequest(base, l)
      BY <3>1
    <3>3. DOMAIN SniperRequest(base, l) = Parts
      BY <1>4
    <3> QED
      BY <1>2, <2>1, <3>2, <3>3 DEF JobType, JobOK
  <2>2. CASE conf[p].mode # "sniper"
    <3>1. j = [url |-> conf[p].url, depth |-> 0, req |-> base]
      BY <1>1, <2>2, <1>5, Memory
    <3> QED
      BY <1>2, <1>4, <2>2, <3>1 DEF JobType, JobOK
  <2> QED
    BY <2>1, <2>2
<1>6. pc'[p] = "running" /\ Only(p)
  BY <1>1, Memory DEF Only
<1>7. HashInv'
  BY <1>1, <1>6, HashesStay
<1>8. OnlyType(p)'
  BY <1>1, <1>5, <1>6 DEF OnlyType, Parsed, ScanInv, TypeInv
<1>9. OptionsInv(p)' /\ ConfInv(p)'
  BY <1>1, <1>2, <1>3, <1>6 DEF OptionsInv, ConfInv, Started
<1>10. QueueInv(p)'
  BY <1>3, <1>5, <1>6 DEF QueueInv
<1> QED
  BY <1>6, <1>7, <1>8, <1>9, <1>10, OneMoves

\* The hashes that a process has given out.
Of(hashes, p) == {x \in hashes : x[2] = p}

(* The next hash of a process is a new one, and stays below the next count. *)
LEMMA NewHash ==
  ASSUME HashInv, NEW p \in Processes, NEW digit \in Digits
  PROVE  LET hash == <<digit, p, Cardinality(Of(DOMAIN entries, p))>>
             D == DOMAIN entries \cup {hash}
         IN /\ hash \notin DOMAIN entries /\ IsFiniteSet(D)
            /\ \A h \in D : /\ h \in Digits \X Processes \X Nat
                            /\ h[3] < Cardinality(Of(D, h[2]))
<1> DEFINE N == Cardinality(Of(DOMAIN entries, p))
           hash == <<digit, p, N>>
           D == DOMAIN entries \cup {hash}
<1>1. IsFiniteSet(DOMAIN entries) /\ IsFiniteSet(D)
  BY FS_AddElement DEF HashInv
<1>2. \A q : /\ IsFiniteSet(Of(DOMAIN entries, q)) /\ IsFiniteSet(Of(D, q))
             /\ Cardinality(Of(DOMAIN entries, q)) \in Nat
             /\ Cardinality(Of(D, q)) \in Nat
  <2> TAKE q
  <2>1. Of(DOMAIN entries, q) \subseteq DOMAIN entries /\ Of(D, q) \subseteq D
    BY DEF Of
  <2> HIDE DEF D
  <2> QED
    BY <1>1, <2>1, FS_Subset, FS_CardinalityType
<1>3. \A h \in DOMAIN entries : /\ h \in Digits \X Processes \X Nat
                                /\ h[3] < Cardinality(Of(DOMAIN entries, h[2]))
  BY DEF HashInv, Of
<1>4. /\ hash \in Digits \X Processes \X Nat /\ hash[2] = p /\ hash[3] = N
  BY <1>2
<1> HIDE DEF hash, N
<1>5. N \in Nat
  BY <1>2 DEF N
<1>6. hash \notin DOMAIN entries
  BY <1>3, <1>4, <1>5 DEF N
<1>7. Of(D, p) = Of(DOMAIN entries, p) \cup {hash} /\ hash \notin Of(DOMAIN entries, p)
  BY <1>4, <1>6 DEF Of
<1>8. Cardinality(Of(D, p)) = N + 1
  BY <1>2, <1>7, FS_AddElement DEF N
<1>9. ASSUME NEW h \in D
      PROVE  h \in Digits \X Processes \X Nat /\ h[3] < Cardinality(Of(D, h[2]))
  <2>1. CASE h = hash
    BY <1>4, <1>5, <1>8, <2>1
  <2>2. CASE h \in DOMAIN entries
    <3>1. Of(DOMAIN entries, h[2]) \subseteq Of(D, h[2])
      BY DEF Of
    <3>2. Cardinality(Of(DOMAIN entries, h[2])) <= Cardinality(Of(D, h[2]))
      BY <1>2, <3>1, FS_Subset
    <3> HIDE DEF D
    <3> QED
      BY <1>2, <1>3, <2>2, <3>2
  <2> QED
    BY <2>1, <2>2
<1> QED
  BY <1>1, <1>6, <1>9 DEF hash, N

LEMMA PrepareQueueJobStep ==
  ASSUME ScanInv, NEW p \in Processes, PrepareQueueJob(p)
  PROVE  ScanInv'
<1> DEFINE c == Chosen(p)
<1>1. /\ pc[p] = "running" /\ pc' = [pc EXCEPT ![p] = "entry"]
      /\ UNCHANGED <<rc, cwd, cmd, opts, manager, target, printed, noted>>
  BY DEF PrepareQueueJob, Goto
<1>2. PICK j \in queue[p], digit \in Digits :
        LET hash == <<digit, p, Cardinality(Of(DOMAIN entries, p))>> IN
        /\ entries' = Over(entries, [h \in {hash} |-> Broken])
        /\ job' = [job EXCEPT ![p] = [hash |-> hash, depth |-> j.depth, req |-> j.req]]
        /\ queue' = [queue EXCEPT ![p] = @ \ {j}]
        /\ conf' = [conf EXCEPT ![p].url = j.url]
  BY DEF PrepareQueueJob, Of
<1> DEFINE hash == <<digit, p, Cardinality(Of(DOMAIN entries, p))>>
<1>3. /\ DOMAIN entries' = DOMAIN entries \cup {hash}
      /\ job' = [job EXCEPT ![p] = [hash |-> hash, depth |-> j.depth, req |-> j.req]]
  BY <1>2 DEF Over
<1>4. /\ hash \notin DOMAIN entries /\ hash[2] = p /\ IsFiniteSet(DOMAIN entries')
      /\ \A h \in DOMAIN entries' : /\ h \in Digits \X Processes \X Nat
                                    /\ h[3] < Cardinality(Of(DOMAIN entries', h[2]))
  BY <1>3, NewHash DEF ScanInv
<1> HIDE DEF hash
<1>5. /\ pc'[p] = "entry" /\ queue'[p] = queue[p] \ {j}
      /\ job'[p].hash = hash /\ job'[p].depth = j.depth /\ job'[p].req = j.req
      /\ conf'[p] = [conf[p] EXCEPT !.url = j.url]
  BY <1>1, <1>2, <1>3, Memory
<1>6. Only(p)
  BY <1>1, <1>2, <1>3, Memory DEF Only
<1>7. HashInv'
  <2>1. \A n \in noted : n.hash \in DOMAIN entries
    BY DEF ScanInv, HashInv
  <2>2. ASSUME NEW q \in Processes
        PROVE  /\ pc'[q] \in {"entry", "scanning"} =>
                    job'[q].hash \in DOMAIN entries' /\ job'[q].hash[2] = q
               /\ pc'[q] = "entry" => \A n \in noted : n.hash # job'[q].hash
    <3>1. CASE q = p
      BY <1>3, <1>4, <1>5, <2>1, <3>1
    <3>2. CASE q # p
      <4>1. pc'[q] = pc[q] /\ job'[q] = job[q]
        BY <1>6, <3>2 DEF Only
      <4> QED
        BY <1>3, <4>1 DEF ScanInv, HashInv
    <3> QED
      BY <3>1, <3>2
  <2> QED
    BY <1>1, <1>3, <1>4, <2>1, <2>2 DEF HashInv, Of
<1>8. /\ OptionsInv(p) /\ c.errors = {} /\ InputErrors(c) = {}
      /\ conf[p] = [c EXCEPT !.url = conf[p].url] /\ "url" \in DOMAIN c
      /\ manager[p].matchers = {} => MatcherEmptied(cmd[p])
      /\ \A k \in queue[p] : JobType(k) /\ JobOK(c, k)
  BY <1>1, ConfigNames
     DEF ScanInv, OptionsInv, ConfInv, QueueInv, TypeInv, Started, Chosen
<1>9. Chosen(p)' = c
  BY <1>1 DEF Chosen
<1> HIDE DEF c
<1>10. conf'[p] = [c EXCEPT !.url = j.url] /\ conf'[p].url = j.url
  BY <1>5, <1>8
<1>11. OptionsInv(p)'
  BY <1>1, <1>5, <1>8 DEF OptionsInv
<1>12. ConfInv(p)'
  <2>1. JobOK(c, j) /\ (j.depth = 0 \/ j.depth = 1)
    BY <1>2, <1>8 DEF JobType
  <2>2. Reached(c, j.url)
    BY <2>1 DEF Reached, JobOK
  <2> QED
    BY <1>1, <1>5, <1>8, <1>9, <1>10, <2>2 DEF ConfInv
<1>13. QueueInv(p)'
  <2>1. JobOK(c, Current(p)')
    BY <1>5, <1>8, <1>10 DEF JobOK, Current
  <2> QED
    BY <1>5, <1>8, <1>9, <2>1 DEF QueueInv
<1>14. OnlyType(p)'
  BY <1>1, <1>5, <1>8 DEF OnlyType, ScanInv, TypeInv, Parsed, JobType
<1> QED
  BY <1>6, <1>7, <1>11, <1>12, <1>13, <1>14, OneMoves

LEMMA WriteHistoryEntryStep ==
  ASSUME ScanInv, NEW p \in Processes, WriteHistoryEntry(p)
  PROVE  ScanInv'
<1> DEFINE new == [hash |-> job[p].hash, request |-> job[p].req, mode |-> conf[p].mode,
                   wordlists |-> conf[p].wordlists, cwd |-> cwd[p]]
<1>1. /\ pc[p] = "entry" /\ pc' = [pc EXCEPT ![p] = "scanning"]
      /\ entries' = [entries EXCEPT ![job[p].hash] = historyOptions(conf[p], manager[p])]
      /\ noted' = noted \cup {new}
      /\ UNCHANGED <<rc, cwd, cmd, opts, conf, manager, queue, job, target, printed>>
  BY DEF WriteHistoryEntry, Goto
<1>2. pc'[p] = "scanning" /\ DOMAIN entries' = DOMAIN entries /\ Only(p)
  BY <1>1, Memory DEF Only
<1>3. new.hash = job[p].hash /\ job[p].hash \in DOMAIN entries /\ job[p].hash[2] = p
  BY <1>1 DEF ScanInv, HashInv
<1> HIDE DEF new
<1>4. HashInv'
  <2>1. ASSUME NEW q \in Processes
        PROVE  /\ pc'[q] \in {"entry", "scanning"} =>
                    job'[q].hash \in DOMAIN entries' /\ job'[q].hash[2] = q
               /\ pc'[q] = "entry" => \A n \in noted' : n.hash # job'[q].hash
    <3>1. CASE q = p
      BY <1>1, <1>2, <1>3, <3>1
    <3>2. CASE q # p
      <4>1. pc'[q] = pc[q] /\ job'[q] = job[q]
        BY <1>2, <3>2 DEF Only
      <4>2. /\ pc[q] \in {"entry", "scanning"} =>
                 job[q].hash \in DOMAIN entries /\ job[q].hash[2] = q
            /\ pc[q] = "entry" => \A n \in noted : n.hash # job[q].hash
        BY DEF ScanInv, HashInv
      <4> QED
        BY <1>1, <1>2, <1>3, <3>2, <4>1, <4>2
    <3> QED
      BY <3>1, <3>2
  <2>2. \A n \in noted' : n.hash \in DOMAIN entries
    BY <1>1, <1>3 DEF ScanInv, HashInv
  <2> QED
    BY <1>2, <2>1, <2>2 DEF ScanInv, HashInv
<1>5. Chosen(p)' = Chosen(p) /\ Current(p)' = Current(p)
  BY <1>1 DEF Chosen, Current
<1>6. OptionsInv(p)' /\ ConfInv(p)' /\ QueueInv(p)' /\ OnlyType(p)'
  BY <1>1, <1>2, <1>5 DEF ScanInv, OptionsInv, ConfInv, QueueInv, OnlyType, TypeInv,
     Started, Parsed, JobType
<1> QED
  BY <1>2, <1>4, <1>6, OneMoves

LEMMA ScanStep ==
  ASSUME ScanInv, NEW p \in Processes, Scan(p)
  PROVE  ScanInv'
<1> DEFINE c == Chosen(p)
           url == Found(job[p].req[Url])
           new == [url |-> url, depth |-> 1, req |-> RecursionRequest(conf[p], url)]
<1>1. /\ pc[p] = "scanning" /\ pc' = [pc EXCEPT ![p] = "running"]
      /\ UNCHANGED <<rc, cwd, cmd, opts, conf, manager, job, entries, target,
                     printed, noted>>
  BY DEF Scan, Goto
<1>2. \/ UNCHANGED queue
      \/ /\ conf[p].recursion /\ job[p].depth = 0
         /\ queue' = [queue EXCEPT ![p] = @ \cup {new}]
  BY DEF Scan
<1>3. pc'[p] = "running" /\ Only(p)
  BY <1>1, <1>2, Memory DEF Only
<1>4. Chosen(p)' = c
  BY <1>1 DEF Chosen
<1>5. ASSUME conf[p].recursion, job[p].depth = 0 PROVE JobType(new) /\ JobOK(c, new)
  <2>1. /\ c.recursion /\ c.mode # "sniper"
        /\ BaseRequest(conf[p]) = [BaseRequest(c) EXCEPT ![Url] = conf[p].url]
    BY <1>1, <1>5, RunningConf DEF Started
  <2>2. JobOK(c, Current(p))
    BY <1>1 DEF ScanInv, QueueInv
  <2> HIDE DEF c
  <2>3. job[p].req = [BaseRequest(c) EXCEPT ![Url] = conf[p].url] /\ conf[p].url = c.url
    BY <1>5, <2>1, <2>2 DEF JobOK, Current
  <2>4. job[p].req[Url] = c.url
    BY <2>3, PartNames, BaseParts
  <2>5. RecursionRequest(conf[p], url) = [BaseRequest(c) EXCEPT ![Url] = url]
    BY <2>1 DEF RecursionRequest
  <2>6. DOMAIN RecursionRequest(conf[p], url) = Parts
    BY <2>5, BaseParts
  <2> QED
    BY <2>1, <2>4, <2>5, <2>6 DEF JobOK, JobType
<1> HIDE DEF c, new, url
<1>6. \A j \in queue'[p] : JobType(j) /\ JobOK(c, j)
  <2>1. \A j \in queue[p] : JobType(j) /\ JobOK(c, j)
    BY <1>1 DEF ScanInv, QueueInv, TypeInv, Started, c
  <2> QED
    BY <1>2, <1>5, <2>1, Memory
<1>7. HashInv'
  BY <1>1, <1>3, HashesStay
<1>8. OptionsInv(p)' /\ ConfInv(p)'
  BY <1>1, <1>3, <1>4 DEF OptionsInv, ConfInv, Started, ScanInv, c
<1>9. QueueInv(p)'
  BY <1>3, <1>4, <1>6 DEF QueueInv
<1>10. OnlyType(p)'
  BY <1>1, <1>3, <1>6 DEF OnlyType, Parsed, ScanInv, TypeInv
<1> QED
  BY <1>3, <1>7, <1>8, <1>9, <1>10, OneMoves

LEMMA ScanNext == ScanInv /\ [Next]_vars => ScanInv'
<1> SUFFICES ASSUME ScanInv, [Next]_vars PROVE ScanInv'
  OBVIOUS
<1>1. CASE UNCHANGED vars
  <2>1. \A p \in Processes : Chosen(p)' = Chosen(p) /\ Current(p)' = Current(p)
    BY <1>1 DEF vars, process, Chosen, Current
  <2>2. ASSUME NEW p \in Processes PROVE OptionsInv(p)' /\ ConfInv(p)' /\ QueueInv(p)'
    BY <1>1, <2>1 DEF vars, process, ScanInv, OptionsInv, ConfInv, QueueInv
  <2>3. TypeInv' /\ HashInv'
    BY <1>1 DEF vars, process, ScanInv, TypeInv, HashInv, JobType
  <2> QED
    BY <2>2, <2>3 DEF ScanInv
<1>2. ASSUME NEW p \in Processes, Finish(p) \/ SearchHistory(p) \/ Killed(p)
      PROVE  ScanInv'
  <2>1. DOMAIN printed' = Processes /\ \A q \in Processes \ {p} : printed'[q] = printed[q]
    BY <1>2, Memory DEF Finish, SearchHistory, Killed
  <2>2. PICK step \in Ended : End(p, step)
    BY <1>2 DEF Finish, SearchHistory, Killed, Ended
  <2> QED
    BY <2>1, <2>2, Ends
<1> QED
  BY <1>1, <1>2, ParseCommandLineStep, LoadConfigStep, ConfigureStep, StartStep,
     PrepareQueueJobStep, WriteHistoryEntryStep, ScanStep
     DEF Next, Terminated

LEMMA ScanInvariant == Spec => []ScanInv
BY ScanInit, ScanNext, PTL DEF Spec

(* Whatever the files and command lines, every step finds the options, jobs and
   hashes that it reads, and recursion stays within its depth. *)
THEOREM TypeCorrect == Spec => []TypeOK
BY ScanInvariant, ScanFacts, PTL

(* Whatever the files and command lines, a scan that starts has a place for the
   words of sniper mode and a URL that recursion can go on from: ConfigFromOptions
   refuses all others (optionsparser.go:671-709).  It has a matcher too, which
   SetupFilters adds where none is given, in every case but one: a command line
   that gives a matcher flag without a value and no -mc (main.go:166-178). *)
THEOREM ScansFit == Spec => []FitToStart
BY ScanInvariant, ScanFacts, PTL

-----------------------------------------------------------------------------
(* The history leads back to the requests *)

LEMMA SomeOptions ==
  ASSUME NEW o, OptionsOK(o)
  PROVE  {"url", "cookies", "headers", "mode", "method", "data", "request", "recursion",
          "malformed", "wordlists", "commands", "preflights"} \subseteq DOMAIN o
BY OptionNames DEF OptionsOK, Scalars, Appended

(* What historyOptions writes: the URL of the job, all headers in one place, and
   what else ConfigFromOptions makes the request and the word lists of. *)
LEMMA Written ==
  ASSUME NEW o, OptionsOK(o), NEW m, NEW d, d.options = Snapshot(o)
  PROVE  LET o2 == historyOptions(d, m) IN
         /\ o2.url = d.url /\ o2.cookies = <<>> /\ o2.headers = effectiveHeaders(o)
         /\ o2.mode = o.mode /\ o2.method = o.method /\ o2.data = o.data
         /\ o2.request = o.request /\ o2.recursion = o.recursion
         /\ o2.malformed = o.malformed /\ o2.wordlists = o.wordlists
         /\ o2.commands = o.commands /\ o2.preflights = o.preflights
         /\ o2 # Broken
<1> DEFINE o2 == historyOptions(d, m)
           Copied == {"mode", "method", "data", "request", "recursion", "malformed",
                      "wordlists", "commands", "preflights"}
<1>1. /\ DOMAIN Snapshot(o) = DOMAIN o /\ Snapshot(o)["headers"] = effectiveHeaders(o)
      /\ \A f \in DOMAIN o \ {"headers"} : Snapshot(o)[f] = o[f]
  BY SomeOptions DEF Snapshot
<1>2. o2 = [f \in DOMAIN o |->
             CASE f = "url" -> d.url
               [] f = "cookies" -> <<>>
               [] f \in {"search", "fw"} -> NoName
               [] f \in (Filters \cup Matchers \cup {"mc"}) \ (m.filters \cup m.matchers)
                    -> NoName
               [] OTHER -> Snapshot(o)[f]]
  BY <1>1 DEF historyOptions
<1> HIDE DEF o2
<1>3. o2["url"] = d.url /\ o2["cookies"] = <<>>
  BY <1>2, SomeOptions DEF Filters, Matchers
<1>4. ASSUME NEW f \in Copied \cup {"headers"} PROVE o2[f] = Snapshot(o)[f]
  <2>1. /\ f \in DOMAIN o /\ f \notin {"url", "cookies", "search", "fw"}
        /\ f \notin Filters \cup Matchers \cup {"mc"}
    BY SomeOptions DEF Filters, Matchers
  <2> QED
    BY <1>2, <2>1
<1>5. \A f \in Copied : o2[f] = o[f]
  BY <1>1, <1>4, SomeOptions
<1>6. o2 # Broken
  <2>1. "url" \in DOMAIN o2
    BY <1>2, SomeOptions
  <2> QED
    BY <2>1 DEF Broken
<1>7. o2["headers"] = effectiveHeaders(o)
  BY <1>1, <1>4
<1> QED
  BY <1>3, <1>5, <1>6, <1>7 DEF o2

(* The fields of the request are built again as they were, but for the URL. *)
LEMMA FieldsAgain ==
  ASSUME NEW o, NEW o2, o2.cookies = <<>>, o2.headers = effectiveHeaders(o),
         o2.method = o.method, o2.data = o.data, o2.request = o.request
  PROVE  /\ RequestFields(o2).method = RequestFields(o).method
         /\ RequestFields(o2).data = RequestFields(o).data
         /\ RequestFields(o2).headers = RequestFields(o).headers
         /\ RequestFields(o2).url = Or(o2.url, parseRawRequest(o).url)
         /\ RequestFields(o).url = Or(o.url, parseRawRequest(o).url)
<1>1. parseRawRequest(o2) = parseRawRequest(o)
  BY DEF parseRawRequest
<1>2. effectiveHeaders(o2) = effectiveHeaders(o)
  BY DEF effectiveHeaders
<1>3. \A method, data : MethodOf(o2, method, data) = MethodOf(o, method, data)
  BY DEF MethodOf
<1> QED
  BY <1>1, <1>2, <1>3 DEF RequestFields

LEMMA ProvidersAgain ==
  ASSUME NEW o, NEW o2, NEW dir, o2.mode = o.mode, o2.wordlists = o.wordlists,
         o2.commands = o.commands
  PROVE  InputProviders(o2, dir) = InputProviders(o, dir)
<1>1. \A name, value, keyword :
        Provider(o2, name, value, keyword) = Provider(o, name, value, keyword)
  BY DEF Provider
<1> QED
  BY <1>1 DEF InputProviders

(* A configuration without errors, written to the history with the URL of a job
   and read again, has no errors either and makes the request of that job: the
   URL that recursion has found holds no keyword that the first one had not, so
   no other provider is used. *)
LEMMA Rebuilt ==
  ASSUME NEW o, OptionsOK(o), NEW dir, NEW m, NEW u,
         ConfigFromOptions(o, dir).errors = {}, InputErrors(ConfigFromOptions(o, dir)) = {},
         o.mode # "sniper", Reached(ConfigFromOptions(o, dir), u),
         \A w \in ToSet(ConfigFromOptions(o, dir).wordlists) : w[1] # Stdin
  PROVE  LET c == ConfigFromOptions(o, dir)
             o2 == historyOptions([c EXCEPT !.url = u], m)
         IN /\ o2 # Broken
            /\ [request |-> [BaseRequest(c) EXCEPT ![Url] = u], wordlists |-> c.wordlists]
                 \in SearchResult(o2, dir)
<1> DEFINE c == ConfigFromOptions(o, dir)
           d == [c EXCEPT !.url = u]
           o2 == historyOptions(d, m)
           c2 == ConfigFromOptions(o2, dir)
           providers == InputProviders(o, dir)
           req == BaseRequest(RequestFields(o))
           req2 == BaseRequest(RequestFields(o2))
<1>0. d.options = Snapshot(o) /\ d.url = u
  <2>1. c.options = Snapshot(o)
    BY ConfigFields
  <2>2. {"options", "url"} \subseteq DOMAIN c
    BY ConfigNames
  <2> HIDE DEF c
  <2> QED
    BY <2>1, <2>2
<1> HIDE DEF d
<1>1. /\ o2.url = u /\ o2.cookies = <<>> /\ o2.headers = effectiveHeaders(o)
      /\ o2.mode = o.mode /\ o2.method = o.method /\ o2.data = o.data
      /\ o2.request = o.request /\ o2.recursion = o.recursion
      /\ o2.malformed = o.malformed /\ o2.wordlists = o.wordlists
      /\ o2.commands = o.commands /\ o2.preflights = o.preflights
      /\ o2 # Broken
  BY <1>0, Written
<1>2. /\ c.url = RequestFields(o).url /\ c.recursion = o.recursion /\ c.mode = o.mode
      /\ c.method = RequestFields(o).method /\ c.data = RequestFields(o).data
      /\ c.headers = RequestFields(o).headers
      /\ c.providers = Present(providers, req)
      /\ c.wordlists = [i \in DOMAIN o.wordlists |->
                          <<Abs(dir, o.wordlists[i].file), o.wordlists[i].keyword>>]
      /\ c.errors = ModeErrors(o) \cup ValueErrors(o) \cup FlightErrors(o)
                    \cup PlaceErrors(o, req) \cup TemplateErrors(providers, req)
                    \cup Error("none", providers = <<>>)
                    \cup Error("request", o.request \notin {NoName} \cup DOMAIN RequestFiles)
  BY ConfigFields
<1> HIDE DEF o2
<1>3. InputProviders(o2, dir) = providers
  BY <1>1, ProvidersAgain
<1>4. /\ c2.url = RequestFields(o2).url
      /\ c2.method = RequestFields(o2).method /\ c2.data = RequestFields(o2).data
      /\ c2.headers = RequestFields(o2).headers
      /\ c2.providers = Present(providers, req2)
      /\ c2.wordlists = [i \in DOMAIN o2.wordlists |->
                           <<Abs(dir, o2.wordlists[i].file), o2.wordlists[i].keyword>>]
      /\ c2.errors = ModeErrors(o2) \cup ValueErrors(o2) \cup FlightErrors(o2)
                    \cup PlaceErrors(o2, req2) \cup TemplateErrors(providers, req2)
                    \cup Error("none", providers = <<>>)
                    \cup Error("request", o2.request \notin {NoName} \cup DOMAIN RequestFiles)
  BY <1>3, ConfigFields
<1>5. /\ c.recursion => EndsInFuzz(c.url) /\ c.mode # "sniper"
      /\ IsSequence(c.url) /\ c.errors = {} /\ InputErrors(c) = {} /\ Reached(c, u)
      /\ \A w \in ToSet(c.wordlists) : w[1] # Stdin
  BY ConfigFacts
<1>6. /\ IsSequence(providers)
      /\ \A v \in ToSet(providers) : v.keyword # Directory /\ ~v.template
  BY ProviderFacts
<1> HIDE DEF c, c2, providers, req, req2
<1>7. /\ ModeErrors(o) = {} /\ ValueErrors(o) = {} /\ FlightErrors(o) = {}
      /\ Error("none", providers = <<>>) = {}
      /\ Error("request", o.request \notin {NoName} \cup DOMAIN RequestFiles) = {}
  BY <1>2, <1>5
<1>8. /\ c.recursion => EndsInFuzz(u)
      /\ \A kw : Contains(u, kw) => Contains(c.url, kw) \/ kw = Directory
  <2>1. CASE u = c.url
    BY <1>5, <2>1
  <2>2. CASE c.recursion /\ u = Found(c.url)
    BY <1>5, <2>2, FoundFacts
  <2> QED
    BY <1>5, <2>1, <2>2 DEF Reached
<1>9. /\ RequestFields(o2).method = RequestFields(o).method
      /\ RequestFields(o2).data = RequestFields(o).data
      /\ RequestFields(o2).headers = RequestFields(o).headers
      /\ RequestFields(o2).url = Or(u, parseRawRequest(o).url)
      /\ RequestFields(o).url = Or(o.url, parseRawRequest(o).url)
  BY <1>1, FieldsAgain
<1>10. u = <<>> => c.url = <<>>
  <2>1. ~EndsInFuzz(<<>>)
    BY DEF EndsInFuzz
  <2> QED
    BY <1>5, <1>8, <2>1 DEF Reached
<1>11. RequestFields(o2).url = u
  BY <1>2, <1>9, <1>10 DEF Or
<1>12. req2 = [req EXCEPT ![Url] = u] /\ req[Url] = c.url /\ req2[Url] = u
  <2>1. req2 = [req EXCEPT ![Url] = u]
    BY <1>9, <1>11, BaseUrl DEF req, req2
  <2> QED
    BY <1>2, <1>11, <2>1, BaseParts DEF req, req2
<1>13. /\ BaseRequest(c2) = [BaseRequest(c) EXCEPT ![Url] = u] /\ c2.wordlists = c.wordlists
  <2>1. c2.url = u /\ c2.method = c.method /\ c2.data = c.data /\ c2.headers = c.headers
    BY <1>2, <1>4, <1>9, <1>11
  <2> QED
    BY <1>1, <1>2, <1>4, <2>1, BaseUrl
<1>14. c2.errors = {}
  <2>1. ModeErrors(o2) = {}
    <3>1. o.mode \in {"clusterbomb", "pitchfork", "sniper"}
          /\ ~(o.url = <<>> /\ o.request = NoName)
      BY <1>7 DEF ModeErrors, Error
    <3>2. ~(u = <<>> /\ o.request = NoName)
      BY <1>2, <1>9, <1>10, <3>1 DEF Or
    <3> QED
      BY <1>1, <3>1, <3>2 DEF ModeErrors, Error
  <2>2. ValueErrors(o2) = {} /\ FlightErrors(o2) = {}
    BY <1>1, <1>7 DEF ValueErrors, FlightErrors
  <2>3. PlaceErrors(o2, req2) = {}
    BY <1>1, <1>2, <1>8, <1>12 DEF PlaceErrors, Error
  <2>4. TemplateErrors(providers, req2) = {}
    BY <1>6 DEF TemplateErrors, Error
  <2> QED
    BY <1>1, <1>4, <1>7, <2>1, <2>2, <2>3, <2>4
<1>15. \A v \in ToSet(providers) : RequestContainsKeyword(req2, v.keyword) =>
                                     RequestContainsKeyword(req, v.keyword)
  <2> SUFFICES ASSUME NEW v \in ToSet(providers), RequestContainsKeyword(req2, v.keyword)
               PROVE  RequestContainsKeyword(req, v.keyword)
    OBVIOUS
  <2>1. PICK part \in Parts : Contains(req2[part], v.keyword)
    BY DEF RequestContainsKeyword
  <2>2. CASE part = Url
    BY <1>6, <1>8, <1>12, <2>1, <2>2 DEF RequestContainsKeyword
  <2>3. CASE part # Url
    <3>1. DOMAIN req = Parts
      BY BaseParts DEF req
    <3> QED
      BY <1>12, <2>1, <2>3, <3>1 DEF RequestContainsKeyword
  <2> QED
    BY <2>2, <2>3
<1>16. ToSet(c2.providers) \subseteq ToSet(c.providers)
  <2>1. ASSUME NEW r
        PROVE  ToSet(Present(providers, r)) =
                 {v \in ToSet(providers) : RequestContainsKeyword(r, v.keyword)}
    <3> DEFINE S == {v \in ToSet(providers) :
                       IF v.template THEN templatePresent(r)
                       ELSE RequestContainsKeyword(r, v.keyword)}
    <3>1. Present(providers, r) = Selected(providers, S)
      BY DEF Present
    <3>2. ToSet(Selected(providers, S)) = ToSet(providers) \cap S
      BY <1>6, SelectedFacts
    <3> QED
      BY <1>6, <3>1, <3>2
  <2> QED
    BY <1>2, <1>4, <1>15, <2>1
<1>17. InputErrors(c2) = {}
  BY <1>5, <1>16 DEF InputErrors, Error
<1>18. HistoryReplayable(c2)
  BY <1>5, <1>13 DEF HistoryReplayable
<1>19. [request |-> [BaseRequest(c) EXCEPT ![Url] = u], wordlists |-> c.wordlists]
         \in SearchResult(o2, dir)
  <2>1. SearchResult(o2, dir) = {[request |-> BaseRequest(c2), wordlists |-> c2.wordlists]}
    BY <1>14, <1>17, <1>18 DEF SearchResult, c2
  <2> QED
    BY <1>13, <2>1
<1> QED
  BY <1>1, <1>19 DEF o2, c, d

\* A noted hash whose request the history keeps, and can be searched for.
Replayable(n) == n.mode # "sniper" /\ \A w \in ToSet(n.wordlists) : w[1] # Stdin

Replays(n) ==
  /\ entries[n.hash] # Broken
  /\ [request |-> n.request, wordlists |-> n.wordlists]
       \in SearchResult(entries[n.hash], n.cwd)

NotesInv == \A n \in noted : Replayable(n) => Replays(n)

SearchInv(p) ==
  pc[p] = "search" => target[p] \in noted /\ opts[p].search = target[p].hash[1]

ReplayInv == /\ ScanInv /\ NotesInv /\ SearchReproduces
             /\ \A p \in Processes : SearchInv(p)

(* A hash is noted once its options are written, and written once: other
   processes have other hashes. *)
LEMMA NotesNext == ReplayInv /\ [Next]_vars => NotesInv'
<1> SUFFICES ASSUME ReplayInv, [Next]_vars, NEW n \in noted', Replayable(n)
             PROVE  Replays(n)'
  BY DEF NotesInv, Replayable
<1>1. CASE UNCHANGED <<entries, noted>>
  BY <1>1 DEF ReplayInv, NotesInv, Replays
<1>2. ASSUME NEW p \in Processes, PrepareQueueJob(p) PROVE Replays(n)'
  <2>1. n \in noted /\ Replays(n)
    BY <1>2 DEF PrepareQueueJob, ReplayInv, NotesInv
  <2>2. n.hash \in DOMAIN entries
    BY <2>1 DEF ReplayInv, ScanInv, HashInv
  <2>3. PICK hash : entries' = Over(entries, [h \in {hash} |-> Broken])
    BY <1>2 DEF PrepareQueueJob
  <2>4. entries'[n.hash] = entries[n.hash]
    BY <2>2, <2>3 DEF Over
  <2> QED
    BY <2>1, <2>4 DEF Replays
<1>3. ASSUME NEW p \in Processes, WriteHistoryEntry(p) PROVE Replays(n)'
  <2> DEFINE hash == job[p].hash  c == Chosen(p)  u == conf[p].url
             written == historyOptions(conf[p], manager[p])
             new == [hash |-> job[p].hash, request |-> job[p].req, mode |-> conf[p].mode,
                     wordlists |-> conf[p].wordlists, cwd |-> cwd[p]]
  <2>1. /\ pc[p] = "entry" /\ entries' = [entries EXCEPT ![hash] = written]
        /\ noted' = noted \cup {new}
    BY <1>3 DEF WriteHistoryEntry
  <2>2. hash \in DOMAIN entries /\ \A x \in noted : x.hash # hash
    BY <2>1 DEF ReplayInv, ScanInv, HashInv
  <2>3. CASE n \in noted
    <3>1. Replays(n) /\ entries'[n.hash] = entries[n.hash]
      BY <2>1, <2>2, <2>3 DEF ReplayInv, NotesInv
    <3> QED
      BY <3>1 DEF Replays
  <2>4. CASE n = new
    <3>1. /\ OptionsOK(opts[p]) /\ c.errors = {} /\ InputErrors(c) = {}
          /\ conf[p] = [c EXCEPT !.url = u] /\ Reached(c, u)
          /\ conf[p].mode = c.mode /\ conf[p].wordlists = c.wordlists
      BY <2>1, RunningConf DEF ReplayInv, Started
    <3>2. JobOK(c, Current(p))
      BY <2>1 DEF ReplayInv, ScanInv, QueueInv
    <3>3. c.mode = opts[p].mode
      BY ConfigFields DEF Chosen
    <3> HIDE DEF c
    <3>4. c.mode # "sniper" /\ \A w \in ToSet(c.wordlists) : w[1] # Stdin
      BY <2>4, <3>1 DEF Replayable
    <3>5. job[p].req = [BaseRequest(c) EXCEPT ![Url] = u]
      BY <3>2, <3>4 DEF JobOK, Current
    <3>6. /\ written # Broken
          /\ [request |-> job[p].req, wordlists |-> c.wordlists]
               \in SearchResult(written, cwd[p])
      BY <3>1, <3>3, <3>4, <3>5, Rebuilt DEF c, Chosen
    <3>7. entries'[hash] = written
      BY <2>1, <2>2
    <3> HIDE DEF written
    <3> QED
      BY <2>4, <3>1, <3>6, <3>7 DEF Replays
  <2> QED
    BY <2>1, <2>3, <2>4
<1> QED
  BY <1>1, <1>2, <1>3 DEF Next, vars, ParseCommandLine, LoadConfig, Configure, Start, Scan,
     Finish, SearchHistory, Killed, End, Terminated

LEMMA SearchNext ==
  ReplayInv /\ [Next]_vars => SearchReproduces' /\ \A p \in Processes : SearchInv(p)'
<1> SUFFICES ASSUME ReplayInv, [Next]_vars, NEW p \in Processes
             PROVE  /\ SearchInv(p)'
                    /\ (/\ pc'[p] = "searched"
                        /\ target'[p].mode # "sniper"
                        /\ cwd'[p] = target'[p].cwd
                        /\ \A w \in ToSet(target'[p].wordlists) : w[1] # Stdin)
                       => [request |-> target'[p].request,
                           wordlists |-> target'[p].wordlists] \in printed'[p]
  BY DEF SearchReproduces
<1> DEFINE Goal == /\ SearchInv(p)'
                   /\ (/\ pc'[p] = "searched"
                       /\ target'[p].mode # "sniper"
                       /\ cwd'[p] = target'[p].cwd
                       /\ \A w \in ToSet(target'[p].wordlists) : w[1] # Stdin)
                      => [request |-> target'[p].request,
                          wordlists |-> target'[p].wordlists] \in printed'[p]
<1>0. ScanInv
  BY DEF ReplayInv
<1>1. CASE pc'[p] \notin {"search", "searched"}
  BY <1>1 DEF SearchInv
<1>2. CASE /\ pc'[p] = pc[p] /\ opts'[p] = opts[p] /\ target'[p] = target[p]
           /\ printed'[p] = printed[p] /\ cwd' = cwd /\ noted \subseteq noted'
  <2>1. /\ SearchInv(p)
        /\ (/\ pc[p] = "searched"
            /\ target[p].mode # "sniper"
            /\ cwd[p] = target[p].cwd
            /\ \A w \in ToSet(target[p].wordlists) : w[1] # Stdin)
           => [request |-> target[p].request,
               wordlists |-> target[p].wordlists] \in printed[p]
    BY DEF ReplayInv, SearchReproduces
  <2> QED
    BY <1>2, <2>1 DEF SearchInv
<1>3. ASSUME ParseCommandLine(p) PROVE Goal
  <2>1. /\ pc'[p] = "search" =>
             target'[p] \in noted /\ opts'[p].search = target'[p].hash[1]
    BY <1>0, <1>3, ParseCommandLineStep
  <2>2. pc'[p] # "searched" /\ noted' = noted
    BY <1>0, <1>3, Memory DEF ParseCommandLine, Parse, Goto, AfterParse
  <2> QED
    BY <2>1, <2>2 DEF SearchInv
<1>4. ASSUME SearchHistory(p) PROVE Goal
  <2> DEFINE n == target[p]
             hashes == {h \in DOMAIN entries : h[1] = opts[p].search}
  <2>1. /\ pc[p] = "search" /\ pc'[p] = "searched" /\ target' = target /\ cwd' = cwd
        /\ printed'[p] = SearchHash(hashes, cwd[p])
    BY <1>0, <1>4, Memory DEF SearchHistory, End, Goto
  <2>2. n \in noted /\ opts[p].search = n.hash[1] /\ n.hash \in DOMAIN entries
    BY <2>1 DEF ReplayInv, SearchInv, ScanInv, HashInv
  <2>3. ASSUME Replayable(n), cwd[p] = n.cwd
        PROVE  [request |-> n.request, wordlists |-> n.wordlists] \in printed'[p]
    <3>1. Replays(n)
      BY <2>2, <2>3 DEF ReplayInv, NotesInv
    <3>2. n.hash \in {x \in hashes : entries[x] # Broken}
      BY <2>2, <3>1 DEF Replays
    <3> QED
      BY <2>1, <2>3, <3>1, <3>2 DEF Replays, SearchHash
  <2> QED
    BY <2>1, <2>3 DEF Replayable, SearchInv
<1>5. ASSUME NEW q \in Processes, q # p,
             \/ ParseCommandLine(q) \/ LoadConfig(q) \/ Configure(q) \/ Start(q)
             \/ PrepareQueueJob(q) \/ WriteHistoryEntry(q) \/ Scan(q)
             \/ Finish(q) \/ SearchHistory(q) \/ Killed(q)
      PROVE  Goal
  <2>1. /\ pc'[p] = pc[p] /\ opts'[p] = opts[p] /\ target'[p] = target[p]
        /\ printed'[p] = printed[p] /\ cwd' = cwd /\ noted \subseteq noted'
    BY <1>0, <1>5, Memory DEF ParseCommandLine, Parse, Goto, LoadConfig, Configure, Start,
       PrepareQueueJob, WriteHistoryEntry, Scan, Finish, SearchHistory, Killed, End
  <2> QED
    BY <1>2, <2>1
<1>6. ASSUME \/ LoadConfig(p) \/ Configure(p) \/ Start(p) \/ PrepareQueueJob(p)
             \/ WriteHistoryEntry(p) \/ Scan(p) \/ Finish(p) \/ Killed(p)
      PROVE  Goal
  <2>1. pc'[p] \notin {"search", "searched"}
    BY <1>0, <1>6, Memory DEF LoadConfig, Configure, Start, PrepareQueueJob,
       WriteHistoryEntry, Scan, Finish, Killed, End, Goto
  <2> QED
    BY <1>1, <2>1
<1>7. CASE UNCHANGED vars
  BY <1>2, <1>7 DEF vars, process
<1> HIDE DEF Goal
<1>8. Goal
  BY <1>3, <1>4, <1>5, <1>6, <1>7 DEF Next, Terminated, Goal
<1> QED
  BY <1>8 DEF Goal

(* Whatever else is scanned, written or killed, and however many directories of
   the history share its digits, the hash that a request carries leads -search
   back to that request and its word lists (history.go:101-132, main.go:48-72). *)
THEOREM SearchLeadsBack == Spec => []SearchReproduces
<1>1. Init => ReplayInv
  BY ScanInit DEF Init, ReplayInv, NotesInv, SearchReproduces, SearchInv
<1>2. ReplayInv /\ [Next]_vars => ReplayInv'
  BY ScanNext, NotesNext, SearchNext DEF ReplayInv
<1>3. ReplayInv => SearchReproduces
  BY DEF ReplayInv
<1> QED
  BY <1>1, <1>2, <1>3, PTL DEF Spec

-----------------------------------------------------------------------------
(* What the files and the command line say together *)

LEMMA AppendFacts ==
  ASSUME NEW s, IsSequence(s), NEW x
  PROVE  LET t == Append(s, x) IN
         /\ IsSequence(t) /\ Len(s) \in Nat /\ Len(t) = Len(s) + 1
         /\ DOMAIN s = 1 .. Len(s) /\ DOMAIN t = 1 .. Len(s) + 1
         /\ t[Len(s) + 1] = x /\ (\A i \in 1 .. Len(s) : t[i] = s[i])
         /\ Last(t) = x /\ t # <<>> /\ t = s \o <<x>>
<1> DEFINE A == ToSet(s) \cup {x}  t == Append(s, x)
<1>1. s \in Seq(A) /\ x \in A
  BY DEF IsSequence
<1> HIDE DEF A
<1>2. /\ Len(s) \in Nat /\ DOMAIN s = 1 .. Len(s) /\ t \in Seq(A)
      /\ Len(t) = Len(s) + 1 /\ DOMAIN t = 1 .. Len(s) + 1
      /\ t[Len(s) + 1] = x /\ (\A i \in 1 .. Len(s) : t[i] = s[i])
      /\ t = s \o <<x>>
  BY <1>1
<1>3. IsSequence(<<x>>)
  BY DEF IsSequence, ToSet
<1>4. IsSequence(s \o <<x>>)
  BY <1>3, Joined
<1> HIDE DEF t
<1>5. IsSequence(t) /\ t[Len(t)] = x /\ t # <<>>
  BY <1>2, <1>4
<1> QED
  BY <1>2, <1>5 DEF t, Last

LEMMA SequenceFacts ==
  ASSUME NEW n \in Nat, NEW s, s = [i \in 1 .. n |-> s[i]]
  PROVE  IsSequence(s) /\ Len(s) = n
<1>1. s \in [1 .. n -> ToSet(s)]
  BY DEF ToSet
<1> QED
  BY <1>1 DEF IsSequence

LEMMA SequenceNames ==
  ASSUME NEW s, IsSequence(s)
  PROVE  /\ Len(s) \in Nat /\ DOMAIN s = 1 .. Len(s) /\ s = [i \in 1 .. Len(s) |-> s[i]]
         /\ s = <<>> <=> Len(s) = 0
BY DEF IsSequence

LEMMA Associates ==
  ASSUME NEW r, NEW s, NEW t, IsSequence(r), IsSequence(s), IsSequence(t)
  PROVE  (r \o s) \o t = r \o (s \o t)
<1> DEFINE A == ToSet(r) \cup ToSet(s) \cup ToSet(t)
<1>1. r \in Seq(A) /\ s \in Seq(A) /\ t \in Seq(A)
  BY DEF IsSequence
<1> HIDE DEF A
<1> QED
  BY <1>1

LEMMA NothingAppended ==
  ASSUME NEW s, IsSequence(s)
  PROVE  s \o <<>> = s /\ <<>> \o s = s
<1>1. s \in Seq(ToSet(s))
  BY DEF IsSequence
<1> QED
  BY <1>1

\* The numbers of R up to m, one after the other.
Numbering(h, m, R) ==
  /\ h[0] = <<>>
  /\ \A i \in 1 .. m : h[i] = IF i \in R THEN Append(h[i - 1], i) ELSE h[i - 1]

(* Two selections go on alike as long as they have chosen alike. *)
LEMMA SelectAlike ==
  ASSUME NEW m \in Nat, NEW h, NEW k, NEW S, NEW T,
         Numbering(h, m, S), Numbering(k, m, T), \A i \in 1 .. m : i \in S <=> i \in T
  PROVE  h[m] = k[m]
<1> DEFINE U == {i \in 0 .. m : h[i] = k[i]}
<1>1. 0 \in U
  BY DEF Numbering
<1>2. ASSUME NEW i \in 1 .. m, i - 1 \in U PROVE i \in U
  BY <1>2 DEF Numbering
<1>3. 0 .. m \subseteq U
  <2> HIDE DEF U
  <2> QED
    BY <1>1, <1>2, RangeInduction
<1> QED
  BY <1>3

(* The numbers of a set in their order: one more number is the last of them. *)
LEMMA OrderSteps ==
  ASSUME NEW n \in Nat, NEW S
  PROVE  /\ n = 0 => InOrder(n, S) = <<>>
         /\ n # 0 => InOrder(n, S) = IF n \in S THEN Append(InOrder(n - 1, S), n)
                                     ELSE InOrder(n - 1, S)
         /\ \A T : (\A i \in 1 .. n : i \in S <=> i \in T) => InOrder(n, S) = InOrder(n, T)
<1> DEFINE Numbers(m) == [k \in 1 .. m |-> k]
<1>1. ASSUME NEW m \in Nat
      PROVE  /\ IsSequence(Numbers(m)) /\ Len(Numbers(m)) = m
             /\ \A i \in 1 .. m : Numbers(m)[i] = i
             /\ \A R : InOrder(m, R) = Selected(Numbers(m), R)
  <2>1. Numbers(m) = [i \in 1 .. m |-> Numbers(m)[i]]
    OBVIOUS
  <2> HIDE DEF Numbers
  <2>2. IsSequence(Numbers(m)) /\ Len(Numbers(m)) = m
    BY <2>1, SequenceFacts
  <2> QED
    BY <2>2 DEF InOrder, Numbers
<1> HIDE DEF Numbers
<1>2. ASSUME NEW m \in Nat, NEW R
      PROVE  \E h : Numbering(h, m, R) /\ InOrder(m, R) = h[m]
  <2>1. PICK h : Selecting(h, Numbers(m), R)
    BY <1>1, SelectSteps
  <2> QED
    BY <1>1, <2>1 DEF Selecting, Numbering
<1>3. PICK h : Numbering(h, n, S) /\ InOrder(n, S) = h[n]
  BY <1>2
<1>4. CASE n = 0
  <2>1. \A T : InOrder(0, T) = <<>>
    BY <1>2 DEF Numbering
  <2> QED
    BY <1>4, <2>1
<1>5. CASE n # 0
  <2>1. n - 1 \in Nat /\ n \in 1 .. n
    BY <1>5
  <2>2. PICK k : Numbering(k, n - 1, S) /\ InOrder(n - 1, S) = k[n - 1]
    BY <1>2, <2>1
  <2>3. h[n - 1] = k[n - 1]
    <3>1. \A i \in 1 .. n - 1 : i \in 1 .. n
      BY <2>1
    <3>2. Numbering(h, n - 1, S)
      BY <1>3, <3>1 DEF Numbering
    <3> QED
      BY <2>1, <2>2, <3>2, SelectAlike
  <2>4. InOrder(n, S) = IF n \in S THEN Append(InOrder(n - 1, S), n) ELSE InOrder(n - 1, S)
    BY <1>3, <2>1, <2>2, <2>3 DEF Numbering
  <2>5. ASSUME NEW T, \A i \in 1 .. n : i \in S <=> i \in T
        PROVE  InOrder(n, S) = InOrder(n, T)
    <3>1. PICK g : Numbering(g, n, T) /\ InOrder(n, T) = g[n]
      BY <1>2
    <3> QED
      BY <1>3, <2>5, <3>1, SelectAlike
  <2> QED
    BY <1>5, <2>4, <2>5
<1> QED
  BY <1>4, <1>5

LEMMA OrderFacts ==
  ASSUME NEW N \in Nat, NEW S, NEW n \in 0 .. N
  PROVE  LET q == InOrder(n, S) IN
         /\ IsSequence(q) /\ \A i \in 1 .. Len(q) : q[i] \in 1 .. n
         /\ q = <<>> => \A x \in 1 .. n : x \notin S
         /\ q # <<>> => /\ q[Len(q)] \in S
                        /\ \A x \in 1 .. n : x > q[Len(q)] => x \notin S
                        /\ \A i \in 1 .. Len(q) : i # Len(q) => q[i] < q[Len(q)]
<1> DEFINE Good(m) ==
             LET q == InOrder(m, S) IN
             /\ IsSequence(q) /\ \A i \in 1 .. Len(q) : q[i] \in 1 .. m
             /\ q = <<>> => \A x \in 1 .. m : x \notin S
             /\ q # <<>> => /\ q[Len(q)] \in S
                            /\ \A x \in 1 .. m : x > q[Len(q)] => x \notin S
                            /\ \A i \in 1 .. Len(q) : i # Len(q) => q[i] < q[Len(q)]
           T == {m \in 0 .. N : Good(m)}
<1>1. 0 \in T
  <2>1. InOrder(0, S) = <<>>
    BY OrderSteps
  <2>2. IsSequence(<<>>) /\ Len(<<>>) = 0
    BY DEF IsSequence
  <2> QED
    BY <2>1, <2>2
<1>2. ASSUME NEW m \in 1 .. N, m - 1 \in T PROVE m \in T
  <2> DEFINE q == InOrder(m - 1, S)  r == InOrder(m, S)
  <2>1. /\ IsSequence(q) /\ \A i \in 1 .. Len(q) : q[i] \in 1 .. m - 1
        /\ q = <<>> => \A x \in 1 .. m - 1 : x \notin S
        /\ q # <<>> => /\ q[Len(q)] \in S
                       /\ \A x \in 1 .. m - 1 : x > q[Len(q)] => x \notin S
                       /\ \A i \in 1 .. Len(q) : i # Len(q) => q[i] < q[Len(q)]
    BY <1>2
  <2>2. r = IF m \in S THEN Append(q, m) ELSE q
    <3>1. m \in Nat /\ m # 0
      OBVIOUS
    <3> QED
      BY <3>1, OrderSteps
  <2>3. \A x \in 1 .. m : x = m \/ x \in 1 .. m - 1
    OBVIOUS
  <2>4. \A x \in 1 .. m - 1 : x \in 1 .. m /\ x < m
    OBVIOUS
  <2> HIDE DEF q, r
  <2>5. /\ IsSequence(r) /\ \A i \in 1 .. Len(r) : r[i] \in 1 .. m
        /\ r = <<>> => \A x \in 1 .. m : x \notin S
        /\ r # <<>> => /\ r[Len(r)] \in S
                       /\ \A x \in 1 .. m : x > r[Len(r)] => x \notin S
                       /\ \A i \in 1 .. Len(r) : i # Len(r) => r[i] < r[Len(r)]
    <3>1. CASE m \notin S
      BY <2>1, <2>2, <2>3, <2>4, <3>1
    <3>2. CASE m \in S
      <4>1. r = Append(q, m)
        BY <2>2, <3>2
      <4>2. /\ IsSequence(r) /\ Len(q) \in Nat /\ Len(r) = Len(q) + 1
            /\ r[Len(q) + 1] = m /\ \A i \in 1 .. Len(q) : r[i] = q[i]
            /\ r # <<>>
        <5>1. IsSequence(q)
          BY <2>1
        <5>2. IsSequence(r) /\ r # <<>>
          BY <4>1, <5>1, AppendFacts
        <5>3. /\ Len(q) \in Nat /\ Len(r) = Len(q) + 1
              /\ r[Len(q) + 1] = m /\ \A i \in 1 .. Len(q) : r[i] = q[i]
          BY <4>1, <5>1, AppendFacts
        <5> QED
          BY <5>2, <5>3
      <4>3. \A i \in 1 .. Len(r) : i = Len(r) \/ i \in 1 .. Len(q)
        BY <4>2
      <4>4. r[Len(r)] = m
        BY <4>2
      <4>5. \A i \in 1 .. Len(r) : i = Len(r) \/ (r[i] = q[i] /\ q[i] \in 1 .. m - 1)
        BY <2>1, <4>2, <4>3
      <4>6. m \in 1 .. m /\ \A x \in 1 .. m : ~(x > m)
        OBVIOUS
      <4> QED
        BY <2>4, <3>2, <4>2, <4>4, <4>5, <4>6
    <3> QED
      BY <3>1, <3>2
  <2> QED
    BY <2>5, m \in 0 .. N DEF r
<1>3. 0 .. N \subseteq T
  <2> HIDE DEF T
  <2> QED
    BY <1>1, <1>2, RangeInduction
<1>4. n \in T
  BY <1>3
<1> QED
  BY <1>4

\* The values at the places of a set among the first n flags.
Vals(line, n, S) ==
  LET places == InOrder(n, S) IN [i \in DOMAIN places |-> line[places[i]].value]

LEMMA ValuesOfAll == \A line, S : Values(line, S) = Vals(line, Len(line), S)
BY DEF Values, Vals

LEMMA ValsSteps ==
  ASSUME NEW line, NEW n \in Nat, NEW S
  PROVE  /\ IsSequence(Vals(line, n, S)) /\ Len(Vals(line, n, S)) = Len(InOrder(n, S))
         /\ n = 0 => Vals(line, n, S) = <<>>
         /\ n # 0 => Vals(line, n, S) = IF n \in S
                                        THEN Append(Vals(line, n - 1, S), line[n].value)
                                        ELSE Vals(line, n - 1, S)
         /\ \A T : (\A i \in 1 .. n : i \in S <=> i \in T) =>
                     Vals(line, n, S) = Vals(line, n, T)
<1>1. ASSUME NEW m \in Nat
      PROVE  LET q == InOrder(m, S)  v == Vals(line, m, S) IN
             /\ IsSequence(q) /\ IsSequence(v) /\ Len(v) = Len(q)
             /\ v = [i \in 1 .. Len(q) |-> line[q[i]].value]
  <2> DEFINE q == InOrder(m, S)  v == Vals(line, m, S)
  <2>1. IsSequence(q)
    BY OrderFacts, m \in 0 .. m
  <2>2. Len(q) \in Nat /\ DOMAIN q = 1 .. Len(q)
    BY <2>1, SequenceNames
  <2>3. v = [i \in 1 .. Len(q) |-> line[q[i]].value]
    BY <2>2 DEF Vals
  <2> HIDE DEF q
  <2>4. v = [i \in 1 .. Len(q) |-> v[i]]
    BY <2>3
  <2> HIDE DEF v
  <2>5. IsSequence(v) /\ Len(v) = Len(q)
    BY <2>2, <2>4, SequenceFacts
  <2> QED
    BY <2>1, <2>3, <2>5 DEF q, v
<1>2. n = 0 => Vals(line, n, S) = <<>>
  <2>1. n = 0 => InOrder(n, S) = <<>>
    BY OrderSteps
  <2> QED
    BY <2>1 DEF Vals
<1>3. ASSUME n # 0
      PROVE  Vals(line, n, S) = IF n \in S THEN Append(Vals(line, n - 1, S), line[n].value)
                                ELSE Vals(line, n - 1, S)
  <2> DEFINE q == InOrder(n - 1, S)  r == InOrder(n, S)
             v == Vals(line, n - 1, S)  w == Vals(line, n, S)
  <2>0. n - 1 \in Nat
    BY <1>3
  <2>1. r = IF n \in S THEN Append(q, n) ELSE q
    BY <1>3, OrderSteps
  <2>2. CASE n \notin S
    BY <2>1, <2>2 DEF Vals
  <2>3. CASE n \in S
    <3>1. /\ IsSequence(q) /\ IsSequence(v) /\ Len(v) = Len(q)
          /\ v = [i \in 1 .. Len(q) |-> line[q[i]].value]
      BY <1>1, <2>0
    <3>2. w = [i \in 1 .. Len(r) |-> line[r[i]].value]
      BY <1>1
    <3>3. r = Append(q, n)
      BY <2>1, <2>3
    <3> HIDE DEF q, r, v, w
    <3>4. /\ Len(q) \in Nat /\ Len(r) = Len(q) + 1
          /\ r[Len(q) + 1] = n /\ \A i \in 1 .. Len(q) : r[i] = q[i]
      BY <3>1, <3>3, AppendFacts
    <3> DEFINE t == Append(v, line[n].value)
    <3>5. /\ DOMAIN t = 1 .. Len(q) + 1 /\ t[Len(q) + 1] = line[n].value
          /\ \A i \in 1 .. Len(q) : t[i] = v[i]
          /\ IsSequence(t) /\ Len(t) = Len(q) + 1
      <4>1. IsSequence(t)
        BY <3>1, AppendFacts
      <4>2. /\ DOMAIN t = 1 .. Len(v) + 1 /\ Len(t) = Len(v) + 1
            /\ t[Len(v) + 1] = line[n].value /\ \A i \in 1 .. Len(v) : t[i] = v[i]
        BY <3>1, AppendFacts
      <4> QED
        BY <3>1, <4>1, <4>2
    <3> HIDE DEF t
    <3>6. t = [i \in 1 .. Len(q) + 1 |-> t[i]]
      BY <3>5, SequenceNames
    <3>7. \A i \in 1 .. Len(q) + 1 : t[i] = line[r[i]].value
      <4>1. \A i \in 1 .. Len(q) + 1 : i = Len(q) + 1 \/ i \in 1 .. Len(q)
        BY <3>4
      <4> QED
        BY <3>1, <3>4, <3>5, <4>1
    <3>8. w = t
      BY <3>2, <3>4, <3>6, <3>7
    <3> QED
      BY <2>3, <3>8 DEF t, v, w
  <2> QED
    BY <2>2, <2>3
<1>4. ASSUME NEW T, \A i \in 1 .. n : i \in S <=> i \in T
      PROVE  Vals(line, n, S) = Vals(line, n, T)
  <2>1. InOrder(n, S) = InOrder(n, T)
    BY <1>4, OrderSteps
  <2> QED
    BY <2>1 DEF Vals
<1> QED
  BY <1>1, <1>2, <1>3, <1>4

LEMMA ValsNone ==
  ASSUME NEW line, NEW S
  PROVE  Vals(line, 0, S) = <<>>
<1>1. InOrder(0, S) = <<>>
  BY OrderSteps
<1> QED
  BY <1>1 DEF Vals

\* What FlattenSeq has joined after each sequence.
Flattening(h, seqs) ==
  /\ \A i \in 1 .. Len(seqs) : h[i] = IF i = 1 THEN seqs[1] ELSE h[i - 1] \o seqs[i]
  /\ Len(seqs) # 0 => FlattenSeq(seqs) = h[Len(seqs)]

LEMMA FlattenSteps ==
  ASSUME NEW seqs, IsSequence(seqs)
  PROVE  \E h : Flattening(h, seqs)
<1> DEFINE N == Len(seqs)
           Step(g, i) == IF i = 1 THEN seqs[i] ELSE g[i - 1] \o seqs[i]
           h == CHOOSE g : g = [i \in 1 .. N |-> Step(g, i)]
<1>1. N # 0 => FlattenSeq(seqs) = h[N]
  BY DEF FlattenSeq
<1>2. N \in Nat
  BY DEF IsSequence
<1> HIDE DEF N
<1>3. \E g : g = [i \in 1 .. N |-> Step(g, i)]
  <2> DEFINE Upto(m, g) == g = [i \in 1 .. m |-> Step(g, i)]
             T == {m \in 0 .. N : \E g : Upto(m, g)}
  <2>1. 0 \in T
    <3> DEFINE g == [i \in 1 .. 0 |-> <<>>]
    <3>1. Upto(0, g)
      OBVIOUS
    <3> HIDE DEF Upto, g
    <3> QED
      BY <1>2, <3>1
  <2>2. ASSUME NEW m \in 1 .. N, m - 1 \in T PROVE m \in T
    <3>1. PICK g : Upto(m - 1, g)
      BY <2>2
    <3> DEFINE k == [i \in 1 .. m |-> Step(g, i)]
    <3>2. \A i \in 1 .. m : i # 1 => k[i - 1] = g[i - 1]
      <4>1. \A j \in 1 .. m - 1 : g[j] = Step(g, j)
        BY <3>1
      <4>2. \A j \in 1 .. m : k[j] = Step(g, j)
        OBVIOUS
      <4>3. \A i \in 1 .. m : i # 1 => i - 1 \in 1 .. m - 1 /\ i - 1 \in 1 .. m
        BY <1>2
      <4> HIDE DEF k, Step
      <4> QED
        BY <4>1, <4>2, <4>3
    <3>3. \A i \in 1 .. m : Step(k, i) = Step(g, i)
      <4> HIDE DEF k
      <4> QED
        BY <3>2
    <3>4. Upto(m, k)
      BY <3>3
    <3> HIDE DEF Upto, k
    <3> QED
      BY <3>4
  <2>3. N \in T
    <3> HIDE DEF T
    <3> QED
      BY <1>2, <2>1, <2>2, RangeInduction
  <2> QED
    BY <2>3
<1>4. h = [i \in 1 .. N |-> Step(h, i)]
  BY <1>3
<1> HIDE DEF h
<1>5. \A i \in 1 .. N : h[i] = Step(h, i)
  BY <1>4
<1>6. Flattening(h, seqs)
  BY <1>1, <1>5 DEF Flattening, N
<1> QED
  BY <1>6

(* One more sequence is joined to the others. *)
LEMMA FlattenFacts ==
  ASSUME NEW seqs, IsSequence(seqs), NEW x, IsSequence(x)
  PROVE  /\ FlattenSeq(<<>>) = <<>>
         /\ FlattenSeq(Append(seqs, x)) = FlattenSeq(seqs) \o x
<1>0. FlattenSeq(<<>>) = <<>>
  BY DEF FlattenSeq
<1> DEFINE t == Append(seqs, x)  N == Len(seqs)
<1>1. /\ IsSequence(t) /\ N \in Nat /\ Len(t) = N + 1 /\ t[N + 1] = x
      /\ \A i \in 1 .. N : t[i] = seqs[i]
  BY AppendFacts
<1> HIDE DEF t
<1>2. PICK h : Flattening(h, seqs)
  BY FlattenSteps
<1>3. PICK k : Flattening(k, t)
  BY <1>1, FlattenSteps
<1>4. /\ \A i \in 1 .. N : h[i] = IF i = 1 THEN seqs[1] ELSE h[i - 1] \o seqs[i]
      /\ N # 0 => FlattenSeq(seqs) = h[N]
  BY <1>2 DEF Flattening
<1>5. /\ \A i \in 1 .. N + 1 : k[i] = IF i = 1 THEN t[1] ELSE k[i - 1] \o t[i]
      /\ FlattenSeq(t) = k[N + 1]
  BY <1>1, <1>3 DEF Flattening
<1>6. CASE N = 0
  <2>1. seqs = <<>>
    BY <1>6, SequenceNames
  <2>2. FlattenSeq(t) = x
    BY <1>1, <1>5, <1>6
  <2> QED
    BY <1>0, <2>1, <2>2, NothingAppended DEF t
<1>7. CASE N # 0
  <2> DEFINE U == {i \in 0 .. N : i # 0 => h[i] = k[i]}
  <2> HIDE DEF N
  <2>1. 0 \in U
    BY <1>1
  <2>2. ASSUME NEW i \in 1 .. N, i - 1 \in U PROVE i \in U
    <3>1. i \in 1 .. N + 1 /\ t[i] = seqs[i] /\ i \in 0 .. N
      BY <1>1
    <3>2. CASE i = 1
      BY <1>4, <1>5, <3>1, <3>2
    <3>3. CASE i # 1
      BY <1>4, <1>5, <2>2, <3>1, <3>3
    <3> QED
      BY <3>2, <3>3
  <2>3. N \in U
    <3> HIDE DEF U
    <3> QED
      BY <1>1, <2>1, <2>2, RangeInduction
  <2>4. h[N] = k[N]
    BY <1>7, <2>3
  <2>5. k[N + 1] = k[N] \o t[N + 1]
    <3>1. N + 1 \in 1 .. N + 1 /\ N + 1 # 1 /\ (N + 1) - 1 = N
      BY <1>1, <1>7
    <3> QED
      BY <1>5, <3>1
  <2> QED
    BY <1>0, <1>1, <1>4, <1>5, <1>7, <2>4, <2>5 DEF t
<1> QED
  BY <1>6, <1>7

\* One more preflight, and one more variable of the last one.
WithFlight(flights, v) == Append(flights, [file |-> v, vars |-> <<>>])
WithVar(flights, v) == [flights EXCEPT ![Len(flights)].vars = Append(@, v)]

(* One flag, field by field. *)
FlagSets(s, flag, t) ==
  LET given == flag.flag
      flights == s.opts.preflights
  IN
  /\ \A f \in Options \ {"strategies", "preflights"} :
       t.opts[f] = IF given # f THEN s.opts[f]
                   ELSE IF f \in Appended THEN s.opts[f] \o flag.value
                   ELSE flag.value
  /\ t.opts["strategies"] =
       IF given # "strategies" THEN s.opts["strategies"]
       ELSE IF s.replaced THEN s.opts["strategies"] \o flag.value
       ELSE <<>> \o flag.value
  /\ t.replaced = IF given = "strategies" THEN TRUE ELSE s.replaced
  /\ t.error = IF given = "preflight-var" /\ flights = <<>> THEN TRUE ELSE s.error
  /\ t.opts["preflights"] =
       IF given = "preflights" THEN WithFlight(flights, flag.value)
       ELSE IF given = "preflight-var" /\ flights # <<>>
            THEN WithVar(flights, flag.value)
       ELSE flights

LEMMA FlagFields ==
  ASSUME NEW s, StateOK(s), NEW flag, FlagOK(flag)
  PROVE  FlagSets(s, flag, SetFlag(s, flag))
<1> DEFINE t == SetFlag(s, flag)
           given == flag.flag
           flights == s.opts.preflights
<1> SUFFICES FlagSets(s, flag, t)
  OBVIOUS
<1>0. /\ DOMAIN s = {"opts", "replaced", "error"} /\ DOMAIN s.opts = Options
      /\ {"strategies", "preflights"} \subseteq Options /\ "preflight-var" \notin Options
      /\ Appended \subseteq Options \ {"strategies", "preflights"}
  BY OptionNames DEF StateOK, OptionsOK, Scalars, Matchers, Filters, Appended
<1>1. CASE given \in Appended
  <2> DEFINE v == s.opts[given] \o flag.value
  <2>1. t = [s EXCEPT !.opts = [s.opts EXCEPT ![given] = v]]
    BY <1>1 DEF SetFlag, Appended
  <2>2. given \in Options /\ given \notin {"strategies", "preflights", "preflight-var"}
    BY <1>0, <1>1
  <2> HIDE DEF v, given
  <2>3. /\ t.replaced = s.replaced /\ t.error = s.error
        /\ t.opts = [s.opts EXCEPT ![given] = v]
    BY <1>0, <2>1
  <2> HIDE DEF t
  <2> QED
    BY <1>0, <1>1, <2>2, <2>3 DEF v, given, FlagSets
<1>2. CASE given = "strategies"
  <2> DEFINE v == (IF s.replaced THEN s.opts.strategies ELSE <<>>) \o flag.value
  <2>1. t = [s EXCEPT !.opts = [s.opts EXCEPT !["strategies"] = v], !.replaced = TRUE]
    BY <1>2 DEF SetFlag, Appended
  <2>2. v = IF s.replaced THEN s.opts["strategies"] \o flag.value ELSE <<>> \o flag.value
    OBVIOUS
  <2> HIDE DEF v, given
  <2>3. /\ t.replaced = TRUE /\ t.error = s.error
        /\ t.opts = [s.opts EXCEPT !["strategies"] = v]
    BY <1>0, <2>1
  <2> HIDE DEF t
  <2> QED
    BY <1>0, <1>2, <2>2, <2>3 DEF given, FlagSets
<1>3. CASE given = "preflights"
  <2> DEFINE v == WithFlight(flights, flag.value)
  <2>1. t = [s EXCEPT !.opts = [s.opts EXCEPT !["preflights"] = v]]
    BY <1>3 DEF SetFlag, Appended, WithFlight
  <2> HIDE DEF v, given
  <2>2. /\ t.replaced = s.replaced /\ t.error = s.error
        /\ t.opts = [s.opts EXCEPT !["preflights"] = v]
    BY <1>0, <2>1
  <2> HIDE DEF t
  <2> QED
    BY <1>0, <1>3, <2>2 DEF v, given, FlagSets
<1>4. CASE given = "preflight-var"
  <2>1. CASE flights = <<>>
    <3>1. t = [s EXCEPT !.error = TRUE]
      BY <1>4, <2>1 DEF SetFlag, Appended
    <3> HIDE DEF given
    <3>2. t.replaced = s.replaced /\ t.error = TRUE /\ t.opts = s.opts
      BY <1>0, <3>1
    <3> HIDE DEF t
    <3> QED
      BY <1>0, <1>4, <2>1, <3>2 DEF given, FlagSets
  <2>2. CASE flights # <<>>
    <3> DEFINE v == WithVar(flights, flag.value)
    <3>1. t = [s EXCEPT !.opts = [s.opts EXCEPT !["preflights"] = v]]
      BY <1>4, <2>2 DEF SetFlag, Appended, WithVar
    <3> HIDE DEF v, given
    <3>2. /\ t.replaced = s.replaced /\ t.error = s.error
          /\ t.opts = [s.opts EXCEPT !["preflights"] = v]
      BY <1>0, <3>1
    <3> HIDE DEF t
    <3> QED
      BY <1>0, <1>4, <2>2, <3>2 DEF v, given, FlagSets
  <2> QED
    BY <2>1, <2>2
<1>5. CASE given \notin Appended \cup {"strategies", "preflights", "preflight-var"}
  <2>1. t = [s EXCEPT !.opts = [s.opts EXCEPT ![given] = flag.value]]
    BY <1>5 DEF SetFlag
  <2>2. given \in Options
    BY <1>5 DEF FlagOK
  <2> HIDE DEF given
  <2>3. /\ t.replaced = s.replaced /\ t.error = s.error
        /\ t.opts = [s.opts EXCEPT ![given] = flag.value]
    BY <1>0, <2>1
  <2> HIDE DEF t
  <2> QED
    BY <1>0, <1>5, <2>2, <2>3 DEF given, FlagSets
<1> QED
  BY <1>1, <1>2, <1>3, <1>4, <1>5

\* What the first n flags ask for: an option, and the preflights.
AskedOption(file, line, n, f) ==
  LET given == Vals(line, n, Occurrences(line, f)) IN
  IF f \in Appended THEN file[f] \o FlattenSeq(given)
  ELSE IF given = <<>> THEN file[f]
  ELSE IF f = "strategies" THEN FlattenSeq(given)
  ELSE Last(given)

AskedFlight(file, line, n, flights, i) ==
  LET m == Len(file.preflights) IN
  CASE i < m -> file.preflights[i]
    [] i = m -> [file.preflights[i] EXCEPT !.vars = @ \o Vals(line, n, Own(line, 0))]
    [] i > m -> [file |-> line[flights[i - m]].value,
                 vars |-> Vals(line, n, Own(line, flights[i - m]))]

Flights(line, n) == InOrder(n, Occurrences(line, "preflights"))

AskedFlights(file, line, n) ==
  [i \in 1 .. Len(file.preflights) + Len(Flights(line, n)) |->
     AskedFlight(file, line, n, Flights(line, n), i)]

LEMMA AskedParts ==
  ASSUME NEW file, NEW line
  PROVE  /\ Asked(file, line) = [f \in Options |-> Asked(file, line)[f]]
         /\ \A f \in Options \ {"preflights"} :
              Asked(file, line)[f] = AskedOption(file, line, Len(line), f)
         /\ Asked(file, line)["preflights"] = AskedFlights(file, line, Len(line))
<1> DEFINE n == Len(file.preflights)
           flights == InOrder(Len(line), Occurrences(line, "preflights"))
           Given(f) == Values(line, Occurrences(line, f))
           Flight(i) ==
             CASE i < n -> file.preflights[i]
               [] i = n -> [file.preflights[i] EXCEPT
                              !.vars = @ \o Values(line, Own(line, 0))]
               [] i > n -> [file |-> line[flights[i - n]].value,
                            vars |-> Values(line, Own(line, flights[i - n]))]
           all == [i \in 1 .. (n + Len(flights)) |-> Flight(i)]
           Option(f) == IF Given(f) = <<>> THEN file[f]
                        ELSE IF f = "strategies" THEN FlattenSeq(Given(f))
                        ELSE Last(Given(f))
<1>1. Asked(file, line) =
        [f \in Options |->
           CASE f = "preflights" -> all
             [] f \in Appended -> file[f] \o FlattenSeq(Given(f))
             [] OTHER -> Option(f)]
  BY DEF Asked
<1>2. all = AskedFlights(file, line, Len(line))
  <2>1. \A i : Flight(i) = AskedFlight(file, line, Len(line), Flights(line, Len(line)), i)
    BY ValuesOfAll DEF AskedFlight, Flights
  <2> HIDE DEF Flight
  <2> QED
    BY <2>1 DEF AskedFlights, Flights
<1>3. \A f : AskedOption(file, line, Len(line), f) =
               IF f \in Appended THEN file[f] \o FlattenSeq(Given(f)) ELSE Option(f)
  BY ValuesOfAll DEF AskedOption
<1> HIDE DEF all, Given, Option
<1>4. "preflights" \in Options /\ "preflights" \notin Appended
  BY OptionNames DEF Appended
<1> QED
  BY <1>1, <1>2, <1>3, <1>4

\* What has been joined is a sequence.
LEMMA FlattenedValues ==
  ASSUME NEW line, LineOK(line), NEW f \in Appended \cup {"strategies"},
         NEW n \in 0 .. Len(line)
  PROVE  IsSequence(FlattenSeq(Vals(line, n, Occurrences(line, f))))
<1> DEFINE N == Len(line)  S == Occurrences(line, f)
           T == {i \in 0 .. N : IsSequence(FlattenSeq(Vals(line, i, S)))}
<1>1. N \in Nat /\ DOMAIN line = 1 .. N /\ \A i \in 1 .. N : line[i] \in ToSet(line)
  BY SequenceNames DEF LineOK, ToSet
<1>2. IsSequence(<<>>)
  BY DEF IsSequence, ToSet
<1>3. 0 \in T
  <2>1. Vals(line, 0, S) = <<>>
    BY ValsNone
  <2>2. FlattenSeq(<<>>) = <<>>
    BY <1>2, FlattenFacts
  <2> QED
    BY <1>1, <1>2, <2>1, <2>2
<1>4. ASSUME NEW i \in 1 .. N, i - 1 \in T PROVE i \in T
  <2>0. i \in Nat /\ i # 0 /\ i - 1 \in Nat /\ i \in 0 .. N
    BY <1>1
  <2> DEFINE v == Vals(line, i - 1, S)  w == Vals(line, i, S)
  <2>1. w = IF i \in S THEN Append(v, line[i].value) ELSE v
    BY <2>0, ValsSteps
  <2>2. IsSequence(v)
    BY <2>0, ValsSteps
  <2>3. IsSequence(FlattenSeq(v))
    BY <1>4
  <2> HIDE DEF v, w
  <2>4. CASE i \notin S
    BY <2>0, <2>1, <2>3, <2>4 DEF w
  <2>5. CASE i \in S
    <3>1. IsSequence(line[i].value)
      BY <1>1, <2>5 DEF LineOK, FlagOK, OptionOK, Occurrences
    <3>2. FlattenSeq(w) = FlattenSeq(v) \o line[i].value
      BY <2>1, <2>2, <2>5, <3>1, FlattenFacts
    <3> QED
      BY <2>0, <2>3, <3>1, <3>2, Joined DEF w
  <2> QED
    BY <2>4, <2>5
<1>5. 0 .. N \subseteq T
  <2> HIDE DEF T
  <2> QED
    BY <1>1, <1>3, <1>4, RangeInduction
<1> QED
  BY <1>5

LEMMA OptionStep ==
  ASSUME NEW file, OptionsOK(file), NEW line, LineOK(line), NEW n \in 1 .. Len(line),
         NEW f \in Options \ {"preflights"}
  PROVE  LET old == AskedOption(file, line, n - 1, f)
             flag == line[n]
             given == Vals(line, n - 1, Occurrences(line, f))
         IN
         /\ AskedOption(file, line, n, f) =
              IF flag.flag # f THEN old
              ELSE IF f \in Appended THEN old \o flag.value
              ELSE IF f = "strategies" /\ given # <<>> THEN old \o flag.value
              ELSE flag.value
         /\ flag.flag = f => Vals(line, n, Occurrences(line, f)) # <<>>
         /\ flag.flag # f => Vals(line, n, Occurrences(line, f)) = given
<1> DEFINE S == Occurrences(line, f)  v == Vals(line, n - 1, S)  w == Vals(line, n, S)
           x == line[n].value
<1>1. Len(line) \in Nat /\ DOMAIN line = 1 .. Len(line) /\ line[n] \in ToSet(line)
  BY SequenceNames DEF LineOK, ToSet
<1>2. n \in Nat /\ n # 0 /\ n - 1 \in Nat /\ n - 1 \in 0 .. Len(line)
  BY <1>1
<1>3. n \in S <=> line[n].flag = f
  BY <1>1 DEF Occurrences
<1>4. w = IF n \in S THEN Append(v, x) ELSE v
  BY <1>2, ValsSteps
<1>5. IsSequence(v)
  BY <1>2, ValsSteps
<1>6. f \in Appended \cup {"strategies"} => IsSequence(FlattenSeq(v)) /\ IsSequence(file[f])
  BY <1>2, FlattenedValues DEF OptionsOK, OptionOK
<1>7. f \in Appended \cup {"strategies"} /\ line[n].flag = f => IsSequence(x)
  BY <1>1 DEF LineOK, FlagOK, OptionOK
<1>8. /\ AskedOption(file, line, n, f) =
           IF f \in Appended THEN file[f] \o FlattenSeq(w)
           ELSE IF w = <<>> THEN file[f]
           ELSE IF f = "strategies" THEN FlattenSeq(w)
           ELSE Last(w)
      /\ AskedOption(file, line, n - 1, f) =
           IF f \in Appended THEN file[f] \o FlattenSeq(v)
           ELSE IF v = <<>> THEN file[f]
           ELSE IF f = "strategies" THEN FlattenSeq(v)
           ELSE Last(v)
  BY DEF AskedOption
<1> HIDE DEF S, v, w, x
<1>9. CASE line[n].flag # f
  BY <1>3, <1>4, <1>8, <1>9 DEF v, w, S
<1>10. CASE line[n].flag = f
  <2>1. w = Append(v, x) /\ w # <<>> /\ Last(w) = x
    BY <1>3, <1>4, <1>5, <1>10, AppendFacts
  <2>2. CASE f \in Appended
    <3>1. FlattenSeq(w) = FlattenSeq(v) \o x
      BY <1>5, <1>7, <1>10, <2>1, <2>2, FlattenFacts
    <3>2. (file[f] \o FlattenSeq(v)) \o x = file[f] \o (FlattenSeq(v) \o x)
      <4>1. IsSequence(file[f]) /\ IsSequence(FlattenSeq(v)) /\ IsSequence(x)
        BY <1>6, <1>7, <1>10, <2>2
      <4> DEFINE a == file[f]  u == FlattenSeq(v)
      <4> HIDE DEF a, u
      <4>2. IsSequence(a) /\ IsSequence(u) /\ IsSequence(x)
        BY <4>1 DEF a, u
      <4>3. (a \o u) \o x = a \o (u \o x)
        BY <4>2, Associates
      <4> QED
        BY <4>3 DEF a, u
    <3> QED
      BY <1>8, <1>10, <2>1, <2>2, <3>1, <3>2 DEF v, w, x, S
  <2>3. CASE f = "strategies"
    <3>1. FlattenSeq(w) = FlattenSeq(v) \o x
      BY <1>5, <1>7, <1>10, <2>1, <2>3, FlattenFacts
    <3>2. FlattenSeq(<<>>) \o x = x
      BY <1>5, <1>7, <1>10, <2>3, FlattenFacts, NothingAppended
    <3>3. f \notin Appended
      BY <2>3 DEF Appended
    <3> QED
      BY <1>8, <1>10, <2>1, <2>3, <3>1, <3>2, <3>3 DEF v, w, x, S
  <2>4. CASE f \notin Appended \cup {"strategies"}
    BY <1>8, <1>10, <2>1, <2>4 DEF v, w, x, S
  <2> QED
    BY <2>2, <2>3, <2>4
<1> QED
  BY <1>9, <1>10

FlightsOK(file) == /\ IsSequence(file.preflights)
                   /\ \A flight \in ToSet(file.preflights) : FlightOK(flight)

\* Nothing is asked for yet.
LEMMA FlightsFirst ==
  ASSUME NEW file, FlightsOK(file), NEW line
  PROVE  AskedFlights(file, line, 0) = file.preflights
<1> DEFINE P == file.preflights
<1>0. \A S : Vals(line, 0, S) = <<>>
  BY ValsNone
<1>1. Flights(line, 0) = <<>> /\ Vals(line, 0, Own(line, 0)) = <<>>
  <2>1. Flights(line, 0) = <<>>
    BY OrderSteps DEF Flights
  <2>2. Vals(line, 0, Own(line, 0)) = <<>>
    BY <1>0
  <2> QED
    BY <2>1, <2>2
<1>2. Len(P) \in Nat /\ DOMAIN P = 1 .. Len(P) /\ P = [i \in 1 .. Len(P) |-> P[i]]
  BY SequenceNames DEF FlightsOK
<1>3. AskedFlights(file, line, 0) = [i \in 1 .. Len(P) |-> AskedFlight(file, line, 0, <<>>, i)]
  BY <1>1, <1>2 DEF AskedFlights
<1>4. ASSUME NEW i \in 1 .. Len(P) PROVE AskedFlight(file, line, 0, <<>>, i) = P[i]
  <2>1. CASE i < Len(P)
    BY <1>2, <2>1 DEF AskedFlight
  <2>2. CASE i = Len(P)
    <3>1. FlightOK(P[i])
      BY <1>2 DEF FlightsOK, ToSet
    <3>2. P[i].vars \o <<>> = P[i].vars
      BY <3>1, NothingAppended DEF FlightOK
    <3>3. AskedFlight(file, line, 0, <<>>, i) = [P[i] EXCEPT !.vars = P[i].vars]
      <4>1. AskedFlight(file, line, 0, <<>>, i) =
              [P[i] EXCEPT !.vars = P[i].vars \o Vals(line, 0, Own(line, 0))]
        BY <1>2, <2>2 DEF AskedFlight
      <4> QED
        BY <1>1, <3>2, <4>1
    <3>4. P[i] = [file |-> P[i].file, vars |-> P[i].vars]
      BY <3>1 DEF FlightOK
    <3> QED
      BY <3>3, <3>4
  <2> QED
    BY <1>2, <2>1, <2>2
<1> HIDE DEF P
<1> QED
  BY <1>2, <1>3, <1>4 DEF P

(* One more flag is a new preflight without variables, or a variable of the
   last one, or neither. *)
LEMMA FlightStep ==
  ASSUME NEW file, FlightsOK(file), NEW line, LineOK(line), NEW n \in 1 .. Len(line)
  PROVE  LET P == AskedFlights(file, line, n - 1)
             Q == AskedFlights(file, line, n)
             flag == line[n]
         IN
         /\ flag.flag = "preflights" => Q = WithFlight(P, flag.value)
         /\ flag.flag = "preflight-var" /\ P # <<>> => Q = WithVar(P, flag.value)
         /\ flag.flag \notin {"preflights", "preflight-var"} => Q = P
<1> DEFINE P == AskedFlights(file, line, n - 1)
           Q == AskedFlights(file, line, n)
           flag == line[n]
           F == file.preflights
           m == Len(F)
           S == Occurrences(line, "preflights")
           q == Flights(line, n - 1)
           r == Flights(line, n)
           Before0(k) == Vals(line, n - 1, Own(line, k))
           After0(k) == Vals(line, n, Own(line, k))
<1>1. /\ Len(line) \in Nat /\ DOMAIN line = 1 .. Len(line)
      /\ n \in Nat /\ n # 0 /\ n - 1 \in Nat /\ n - 1 \in 0 .. Len(line)
  BY SequenceNames DEF LineOK
<1>2. m \in Nat /\ DOMAIN F = 1 .. m
  BY SequenceNames DEF FlightsOK
<1>3. n \in S <=> flag.flag = "preflights"
  BY <1>1 DEF Occurrences
<1>4. r = IF n \in S THEN Append(q, n) ELSE q
  BY <1>1, OrderSteps DEF Flights
<1>5. /\ IsSequence(q) /\ \A i \in 1 .. Len(q) : q[i] \in 1 .. n - 1
      /\ q = <<>> => \A x \in 1 .. n - 1 : x \notin S
      /\ q # <<>> => /\ q[Len(q)] \in S
                     /\ \A x \in 1 .. n - 1 : x > q[Len(q)] => x \notin S
                     /\ \A i \in 1 .. Len(q) : i # Len(q) => q[i] < q[Len(q)]
  BY <1>1, OrderFacts DEF Flights
<1>6. Len(q) \in Nat /\ (q = <<>> <=> Len(q) = 0)
  BY <1>5, SequenceNames
<1>7. \A k : /\ After0(k) = IF n \in Own(line, k) THEN Append(Before0(k), flag.value)
                            ELSE Before0(k)
             /\ IsSequence(Before0(k))
  <2> TAKE k
  <2>1. After0(k) = IF n \in Own(line, k) THEN Append(Before0(k), flag.value)
                    ELSE Before0(k)
    BY <1>1, ValsSteps
  <2>2. IsSequence(Before0(k))
    BY <1>1, ValsSteps
  <2> QED
    BY <2>1, <2>2
<1>8. \A k \in 0 .. n : n \in Own(line, k) <=>
                          /\ flag.flag = "preflight-var" /\ n > k
                          /\ \A l \in (k + 1) .. n : l \notin S
  BY <1>1 DEF Own, Occurrences
<1>9. /\ P = [i \in 1 .. m + Len(q) |-> AskedFlight(file, line, n - 1, q, i)]
      /\ Q = [i \in 1 .. m + Len(r) |-> AskedFlight(file, line, n, r, i)]
  BY DEF AskedFlights
<1>10. ASSUME NEW i \in Nat, NEW s
       PROVE  /\ i < m => /\ AskedFlight(file, line, n - 1, s, i) = F[i]
                          /\ AskedFlight(file, line, n, s, i) = F[i]
              /\ i = m =>
                   /\ AskedFlight(file, line, n - 1, s, i) =
                        [F[i] EXCEPT !.vars = F[i].vars \o Before0(0)]
                   /\ AskedFlight(file, line, n, s, i) =
                        [F[i] EXCEPT !.vars = F[i].vars \o After0(0)]
              /\ i > m =>
                   /\ AskedFlight(file, line, n - 1, s, i) =
                        [file |-> line[s[i - m]].value, vars |-> Before0(s[i - m])]
                   /\ AskedFlight(file, line, n, s, i) =
                        [file |-> line[s[i - m]].value, vars |-> After0(s[i - m])]
  <2>1. CASE i < m
    BY <1>2, <2>1 DEF AskedFlight
  <2>2. CASE i = m
    BY <1>2, <2>2 DEF AskedFlight
  <2>3. CASE i > m
    BY <1>2, <2>3 DEF AskedFlight
  <2> QED
    BY <1>2, <2>1, <2>2, <2>3
<1> HIDE DEF P, Q, q, r, Before0, After0, S, m, F
<1>11. /\ IsSequence(P) /\ Len(P) = m + Len(q) /\ DOMAIN P = 1 .. m + Len(q)
       /\ \A i \in 1 .. m + Len(q) : P[i] = AskedFlight(file, line, n - 1, q, i)
       /\ P = [i \in 1 .. m + Len(q) |-> P[i]]
  <2>1. P = [i \in 1 .. m + Len(q) |-> P[i]] /\ m + Len(q) \in Nat
    BY <1>2, <1>6, <1>9
  <2> QED
    BY <1>9, <2>1, SequenceFacts
\* The source of the i-th preflight, and what does not concern it.
<1>12. ASSUME NEW i \in 1 .. m + Len(q), After0(0) = Before0(0) \/ i # m,
              i > m => After0(q[i - m]) = Before0(q[i - m])
       PROVE  AskedFlight(file, line, n, q, i) = P[i]
  <2>1. P[i] = AskedFlight(file, line, n - 1, q, i) /\ i \in Nat
    BY <1>2, <1>6, <1>11
  <2>2. CASE i < m
    BY <1>10, <2>1, <2>2
  <2>3. CASE i = m
    <3>1. AskedFlight(file, line, n, q, i) = [F[i] EXCEPT !.vars = F[i].vars \o After0(0)]
      BY <1>10, <2>1, <2>3
    <3>2. P[i] = [F[i] EXCEPT !.vars = F[i].vars \o Before0(0)]
      BY <1>10, <2>1, <2>3
    <3> QED
      BY <1>12, <2>3, <3>1, <3>2
  <2>4. CASE i > m
    <3>1. /\ AskedFlight(file, line, n, q, i) =
               [file |-> line[q[i - m]].value, vars |-> After0(q[i - m])]
          /\ P[i] = [file |-> line[q[i - m]].value, vars |-> Before0(q[i - m])]
      BY <1>10, <2>1, <2>4
    <3> QED
      BY <1>12, <2>4, <3>1
  <2> QED
    BY <1>2, <1>6, <2>2, <2>3, <2>4
<1>13. ASSUME flag.flag \notin {"preflights", "preflight-var"} PROVE Q = P
  <2>1. r = q
    BY <1>3, <1>4, <1>13
  <2>2. /\ After0(0) = Before0(0)
        /\ \A i \in 1 .. m + Len(q) : i > m => After0(q[i - m]) = Before0(q[i - m])
    <3>1. \A k \in 0 .. n : After0(k) = Before0(k)
      BY <1>7, <1>8, <1>13
    <3>2. 0 \in 0 .. n /\ \A i \in 1 .. m + Len(q) : i > m => q[i - m] \in 0 .. n
      BY <1>1, <1>2, <1>5, <1>6
    <3> QED
      BY <3>1, <3>2
  <2> QED
    BY <1>9, <1>11, <1>12, <2>1, <2>2
<1>14. ASSUME flag.flag = "preflights"
       PROVE  Q = WithFlight(P, flag.value)
  <2> DEFINE x == [file |-> flag.value, vars |-> <<>>]  t == Append(P, x)
             L == m + Len(q)
  <2>1. r = Append(q, n)
    BY <1>3, <1>4, <1>14
  <2>2. Len(r) = Len(q) + 1 /\ r[Len(q) + 1] = n /\ \A i \in 1 .. Len(q) : r[i] = q[i]
    BY <1>5, <2>1, AppendFacts
  <2> HIDE DEF x
  <2>3. IsSequence(t) /\ Len(t) = L + 1 /\ t[L + 1] = x /\ \A i \in 1 .. L : t[i] = P[i]
    <3>0. IsSequence(P)
      BY <1>11
    <3>1. IsSequence(t)
      BY <3>0, AppendFacts
    <3>2. /\ Len(t) = Len(P) + 1 /\ t[Len(P) + 1] = x
          /\ \A i \in 1 .. Len(P) : t[i] = P[i]
      BY <3>0, AppendFacts
    <3> QED
      BY <1>11, <3>1, <3>2
  <2> HIDE DEF t
  <2>4. t = [i \in 1 .. L + 1 |-> t[i]]
    BY <2>3, SequenceNames
  <2>5. \A k \in 0 .. n : After0(k) = Before0(k)
    BY <1>7, <1>8, <1>14
  <2>6. ASSUME NEW i \in 1 .. L PROVE AskedFlight(file, line, n, r, i) = t[i]
    <3>0. i \in Nat
      BY <1>2, <1>6
    <3>1. i > m => i - m \in 1 .. Len(q) /\ q[i - m] \in 0 .. n
      BY <1>1, <1>2, <1>5, <1>6
    <3>2. AskedFlight(file, line, n, q, i) = P[i]
      BY <1>1, <1>12, <2>5, <3>1
    <3>3. AskedFlight(file, line, n, r, i) = AskedFlight(file, line, n, q, i)
      <4>1. i > m => r[i - m] = q[i - m]
        BY <2>2, <3>1
      <4>2. CASE i < m
        BY <1>10, <3>0, <4>2
      <4>3. CASE i = m
        <5>1. \A s : AskedFlight(file, line, n, s, i) =
                       [F[i] EXCEPT !.vars = F[i].vars \o After0(0)]
          BY <1>10, <3>0, <4>3
        <5> QED
          BY <5>1
      <4>4. CASE i > m
        <5>1. \A s : AskedFlight(file, line, n, s, i) =
                       [file |-> line[s[i - m]].value, vars |-> After0(s[i - m])]
          BY <1>10, <3>0, <4>4
        <5> QED
          BY <4>1, <4>4, <5>1
      <4> QED
        BY <1>2, <3>0, <4>2, <4>3, <4>4
    <3> QED
      BY <2>3, <3>2, <3>3
  <2>7. AskedFlight(file, line, n, r, L + 1) = t[L + 1]
    <3>1. (L + 1) - m = Len(q) + 1 /\ L + 1 > m /\ L + 1 \in Nat
      BY <1>2, <1>6
    <3>2. After0(n) = <<>>
      <4> DEFINE o == InOrder(n, Own(line, n))
      <4>1. \A k \in 1 .. n : k \notin Own(line, n)
        BY DEF Own
      <4>2. IsSequence(o) /\ (o # <<>> => o[Len(o)] \in Own(line, n))
            /\ \A i \in 1 .. Len(o) : o[i] \in 1 .. n
        BY <1>1, n \in 0 .. n, OrderFacts
      <4> HIDE DEF o
      <4>3. o = <<>>
        <5>1. o # <<>> => Len(o) \in 1 .. Len(o)
          BY <4>2, SequenceNames
        <5> QED
          BY <4>1, <4>2, <5>1
      <4>4. IsSequence(After0(n)) /\ Len(After0(n)) = Len(o)
        BY <1>1, ValsSteps DEF After0, o
      <4> QED
        BY <4>3, <4>4, SequenceNames
    <3>3. r[(L + 1) - m] = n
      BY <2>2, <3>1
    <3> HIDE DEF L
    <3>4. AskedFlight(file, line, n, r, L + 1)
            = [file |-> line[n].value, vars |-> After0(n)]
      BY <1>10, <3>1, <3>3
    <3> QED
      BY <2>3, <3>2, <3>4 DEF L, x
  <2>8. \A i \in 1 .. L + 1 : AskedFlight(file, line, n, r, i) = t[i]
    <3>1. \A i \in 1 .. L + 1 : i = L + 1 \/ i \in 1 .. L
      BY <1>2, <1>6
    <3> QED
      BY <2>6, <2>7, <3>1
  <2>9. m + Len(r) = L + 1
    BY <1>2, <1>6, <2>2
  <2> QED
    BY <1>9, <2>4, <2>8, <2>9 DEF t, x, WithFlight
<1>15. ASSUME flag.flag = "preflight-var", P # <<>>
       PROVE  Q = WithVar(P, flag.value)
  <2> DEFINE L == m + Len(q)
             y == [P[L] EXCEPT !.vars = Append(P[L].vars, flag.value)]
  <2>1. r = q
    BY <1>3, <1>4, <1>15
  <2>2. L \in 1 .. L
    <3>1. Len(P) # 0
      BY <1>11, <1>15, SequenceNames
    <3> QED
      BY <1>2, <1>6, <1>11, <3>1
  <2>3. ASSUME NEW i \in 1 .. L, i # L PROVE AskedFlight(file, line, n, r, i) = P[i]
    <3>1. ASSUME i >= m
          PROVE  /\ Len(q) # 0 /\ q[Len(q)] \in 1 .. n - 1 /\ q[Len(q)] \in S
                 /\ i > m => i - m \in 1 .. Len(q) /\ i - m # Len(q)
      BY <1>1, <1>2, <1>5, <1>6, <2>3, <3>1
    <3>2. i = m => After0(0) = Before0(0)
      <4> SUFFICES ASSUME i = m PROVE After0(0) = Before0(0)
        OBVIOUS
      <4>1. q[Len(q)] \in (0 + 1) .. n /\ q[Len(q)] \in S /\ 0 \in 0 .. n
        BY <1>1, <1>2, <3>1
      <4> QED
        BY <1>7, <1>8, <4>1
    <3>3. i > m => After0(q[i - m]) = Before0(q[i - m])
      <4> SUFFICES ASSUME i > m PROVE After0(q[i - m]) = Before0(q[i - m])
        OBVIOUS
      <4> DEFINE k == q[i - m]
      <4>1. i - m \in 1 .. Len(q) /\ k \in 1 .. n - 1 /\ k < q[Len(q)]
            /\ q[Len(q)] \in 1 .. n - 1 /\ q[Len(q)] \in S
        BY <1>2, <1>5, <1>6, <3>1
      <4> HIDE DEF k
      <4>2. k \in 0 .. n /\ q[Len(q)] \in (k + 1) .. n
        BY <1>1, <4>1
      <4>3. After0(k) = Before0(k)
        BY <1>7, <1>8, <4>1, <4>2
      <4> QED
        BY <4>3 DEF k
    <3> QED
      BY <1>12, <2>1, <3>2, <3>3
  <2>4. AskedFlight(file, line, n, r, L) = y
    <3>1. CASE Len(q) = 0
      <4>1. q = <<>> /\ L = m
        BY <1>2, <1>6, <3>1
      <4>2. n \in Own(line, 0)
        <5>1. \A l \in (0 + 1) .. n : l \notin S
          BY <1>1, <1>3, <1>5, <1>15, <4>1
        <5> QED
          BY <1>1, <1>8, <1>15, <5>1
      <4>3. After0(0) = Append(Before0(0), flag.value) /\ IsSequence(Before0(0))
        BY <1>7, <4>2
      <4>4. FlightOK(F[m])
        BY <1>2, <2>2, <4>1 DEF FlightsOK, ToSet, F
      <4>5. IsSequence(F[m].vars) /\ F[m] = [file |-> F[m].file, vars |-> F[m].vars]
        BY <4>4 DEF FlightOK
      <4> DEFINE a == F[m].vars  b == Before0(0)  v == flag.value
      <4>6. a \o Append(b, v) = Append(a \o b, v)
        <5>1. IsSequence(a) /\ IsSequence(b)
          BY <4>3, <4>5
        <5> HIDE DEF a, b, v
        <5>2. IsSequence(<<v>>)
          BY DEF IsSequence, ToSet
        <5>3. Append(b, v) = b \o <<v>> /\ Append(a \o b, v) = (a \o b) \o <<v>>
          BY <5>1, Joined, AppendFacts
        <5> QED
          BY <5>1, <5>2, <5>3, Associates
      <4>7. P[L] = [F[m] EXCEPT !.vars = a \o b]
            /\ AskedFlight(file, line, n, r, L) = [F[m] EXCEPT !.vars = Append(a \o b, v)]
        <5>1. AskedFlight(file, line, n - 1, q, m) = [F[m] EXCEPT !.vars = a \o b]
          BY <1>2, <1>10
        <5>2. AskedFlight(file, line, n, q, m) = [F[m] EXCEPT !.vars = a \o After0(0)]
          BY <1>2, <1>10
        <5>3. P[L] = AskedFlight(file, line, n - 1, q, L)
          BY <1>11, <2>2
        <5> HIDE DEF L
        <5> QED
          BY <2>1, <4>1, <4>3, <4>6, <5>1, <5>2, <5>3
      <4> HIDE DEF a, b, v, L
      <4>8. DOMAIN F[m] = {"file", "vars"}
        BY <4>5
      <4>9. P[L].vars = a \o b
        BY <4>7, <4>8
      <4> QED
        BY <4>7, <4>9 DEF v
    <3>2. CASE Len(q) # 0
      <4> DEFINE k == q[Len(q)]
      <4>1. /\ q # <<>> /\ Len(q) \in 1 .. Len(q) /\ L - m = Len(q)
            /\ L > m /\ L \in Nat
        BY <1>2, <1>6, <3>2
      <4>2. k \in 1 .. n - 1 /\ \A x \in 1 .. n - 1 : x > k => x \notin S
        BY <1>5, <4>1
      <4> HIDE DEF k
      <4>3. k \in 0 .. n /\ n > k
        BY <1>1, <4>2
      <4>4. n \in Own(line, k)
        <5>1. n \notin S
          BY <1>3, <1>15
        <5>2. \A l \in (k + 1) .. n : l = n \/ (l \in 1 .. n - 1 /\ l > k)
          BY <1>1, <4>2
        <5> QED
          BY <1>8, <1>15, <4>2, <4>3, <5>1, <5>2
      <4>5. After0(k) = Append(Before0(k), flag.value)
        BY <1>7, <4>4
      <4>6. P[L] = AskedFlight(file, line, n - 1, q, L)
        BY <1>11, <2>2
      <4> HIDE DEF L
      <4>7. /\ P[L] = [file |-> line[k].value, vars |-> Before0(k)]
            /\ AskedFlight(file, line, n, r, L)
                 = [file |-> line[k].value, vars |-> After0(k)]
        <5>1. /\ AskedFlight(file, line, n - 1, q, L) =
                   [file |-> line[q[L - m]].value, vars |-> Before0(q[L - m])]
              /\ AskedFlight(file, line, n, q, L) =
                   [file |-> line[q[L - m]].value, vars |-> After0(q[L - m])]
          BY <1>10, <4>1
        <5> QED
          BY <2>1, <4>1, <4>6, <5>1 DEF k
      <4>8. P[L].vars = Before0(k)
        BY <4>7
      <4>9. y = [file |-> line[k].value, vars |-> Append(Before0(k), flag.value)]
        BY <4>7, <4>8
      <4> HIDE DEF y
      <4> QED
        BY <4>5, <4>7, <4>9
    <3> QED
      BY <3>1, <3>2
  <2>5. Q = [i \in 1 .. L |-> IF i = L THEN y ELSE P[i]]
    <3> HIDE DEF y
    <3> QED
      BY <1>9, <2>1, <2>3, <2>4
  <2>6. Len(P) = L
    BY <1>11
  <2>7. [P EXCEPT ![L].vars = Append(@, flag.value)]
          = [i \in DOMAIN P |-> IF i = L THEN y ELSE P[i]]
    <3>1. [P EXCEPT ![L].vars = Append(@, flag.value)] = [P EXCEPT ![L] = y]
      BY <1>11, <2>2
    <3> HIDE DEF y
    <3> QED
      BY <1>11, <2>2, <3>1
  <2> HIDE DEF y
  <2> QED
    BY <1>11, <2>5, <2>6, <2>7 DEF WithVar
<1> QED
  BY <1>13, <1>14, <1>15 DEF P, Q

\* A file that leaves out the preflights has none.
LEMMA FlightsOverDefaults ==
  ASSUME NEW file, FileOK(file)
  PROVE  LET o == Over(file, DefaultOptions) IN
         /\ OptionsOK(o) /\ FlightsOK(o) /\ o.config = NoName
<1> DEFINE o == Over(file, DefaultOptions)
<1>1. /\ {"preflights", "config"} \subseteq DOMAIN DefaultOptions
      /\ DefaultOptions["preflights"] = <<>> /\ DefaultOptions["config"] = NoName
  BY OptionNames DEF Options, DefaultOptions, Scalars, Matchers, Filters, Appended
<1>2. "config" \notin DOMAIN file
  BY DEF FileOK
<1>3. /\ o["config"] = NoName
      /\ o["preflights"] = IF "preflights" \in DOMAIN file THEN file["preflights"] ELSE <<>>
  BY <1>1, <1>2 DEF Over
<1>4. IsSequence(<<>>) /\ ToSet(<<>>) = {}
  BY DEF IsSequence, ToSet
<1> HIDE DEF o
<1>5. FlightsOK(o)
  BY <1>3, <1>4 DEF FlightsOK, FileOK
<1> QED
  BY <1>3, <1>5, FileOverDefaults DEF o

(* Flag after flag, the options are what is asked for; an error is not forgotten. *)
LEMMA LineWins ==
  ASSUME NEW file, OptionsOK(file), FlightsOK(file), NEW line, LineOK(line),
         ~ParseFlags(file, line).error
  PROVE  ParseFlags(file, line).opts = Asked(file, line)
<1>1. PICK g : Parsing(g, file, line)
  BY ParseSteps DEF LineOK
<1> DEFINE N == Len(line)
           Chosen0(n) == Vals(line, n, Occurrences(line, "strategies"))
<1>2. N \in Nat /\ DOMAIN line = 1 .. N /\ \A i \in 1 .. N : FlagOK(line[i])
  BY SequenceNames DEF LineOK, ToSet
<1>3. /\ g[0] = [opts |-> file, replaced |-> FALSE, error |-> FALSE]
      /\ \A i \in 1 .. N : g[i] = SetFlag(g[i - 1], line[i])
      /\ ParseFlags(file, line) = g[N]
  BY <1>1 DEF Parsing
<1> HIDE DEF N
<1> DEFINE Agreed(n) ==
             /\ g[n].replaced = (Chosen0(n) # <<>>)
             /\ \A f \in Options \ {"preflights"} :
                  g[n].opts[f] = AskedOption(file, line, n, f)
             /\ g[n].opts["preflights"] = AskedFlights(file, line, n)
           T == {n \in 0 .. N : StateOK(g[n]) /\ (g[n].error \/ Agreed(n))}
<1>4. 0 \in T
  <2>1. \A S : Vals(line, 0, S) = <<>>
    BY ValsNone
  <2>2. AskedFlights(file, line, 0) = file["preflights"]
    BY FlightsFirst
  <2>3. ASSUME NEW f \in Options \ {"preflights"} PROVE AskedOption(file, line, 0, f) = file[f]
    <3>1. CASE f \in Appended
      <4>1. IsSequence(file[f])
        BY <3>1 DEF OptionsOK, OptionOK
      <4>2. FlattenSeq(<<>>) = <<>>
        BY <4>1, FlattenFacts DEF IsSequence, ToSet
      <4> QED
        BY <2>1, <3>1, <4>1, <4>2, NothingAppended DEF AskedOption
    <3>2. CASE f \notin Appended
      BY <2>1, <3>2 DEF AskedOption
    <3> QED
      BY <3>1, <3>2
  <2>4. StateOK(g[0])
    BY <1>3 DEF StateOK
  <2>5. g[0].opts = file /\ g[0].replaced = FALSE /\ Chosen0(0) = <<>>
    BY <1>3, <2>1
  <2>6. Agreed(0)
    BY <2>2, <2>3, <2>5
  <2> HIDE DEF Agreed
  <2> QED
    BY <1>2, <2>4, <2>6
<1>5. ASSUME NEW n \in 1 .. N, n - 1 \in T PROVE n \in T
  <2> DEFINE s == g[n - 1]  t == g[n]  flag == line[n]  flights == s.opts.preflights
  <2>1. /\ StateOK(s) /\ (s.error \/ Agreed(n - 1)) /\ FlagOK(flag)
        /\ t = SetFlag(s, flag)
    BY <1>2, <1>3, <1>5
  <2>2. StateOK(t)
    BY <2>1, FlagSet
  <2>3. FlagSets(s, flag, t)
    <3>1. StateOK(s) /\ FlagOK(flag) /\ t = SetFlag(s, flag)
      BY <2>1
    <3> HIDE DEF s, t, flag
    <3> QED
      BY <3>1, FlagFields
  <2> HIDE DEF s, t
  <2>4. CASE t.error
    BY <1>2, <2>2, <2>4, n \in 0 .. N DEF t
  <2>5. CASE ~t.error
    <3>1. Agreed(n - 1) /\ ~(flag.flag = "preflight-var" /\ flights = <<>>)
      BY <2>1, <2>3, <2>5 DEF FlagSets
    <3>2. /\ s.replaced = (Chosen0(n - 1) # <<>>)
          /\ \A f \in Options \ {"preflights"} :
               s.opts[f] = AskedOption(file, line, n - 1, f)
          /\ flights = AskedFlights(file, line, n - 1)
      BY <3>1 DEF s
    <3>3. \A f \in Options \ {"preflights"} :
            /\ AskedOption(file, line, n, f) =
                 IF flag.flag # f THEN s.opts[f]
                 ELSE IF f \in Appended THEN s.opts[f] \o flag.value
                 ELSE IF f = "strategies" /\ Vals(line, n - 1, Occurrences(line, f)) # <<>>
                      THEN s.opts[f] \o flag.value
                 ELSE flag.value
            /\ flag.flag = f => Vals(line, n, Occurrences(line, f)) # <<>>
            /\ flag.flag # f => Vals(line, n, Occurrences(line, f))
                                  = Vals(line, n - 1, Occurrences(line, f))
      <4> TAKE f \in Options \ {"preflights"}
      <4> HIDE DEF flag
      <4>1. LET old == AskedOption(file, line, n - 1, f)
                given == Vals(line, n - 1, Occurrences(line, f))
            IN
            /\ AskedOption(file, line, n, f) =
                 IF flag.flag # f THEN old
                 ELSE IF f \in Appended THEN old \o flag.value
                 ELSE IF f = "strategies" /\ given # <<>> THEN old \o flag.value
                 ELSE flag.value
            /\ flag.flag = f => Vals(line, n, Occurrences(line, f)) # <<>>
            /\ flag.flag # f => Vals(line, n, Occurrences(line, f)) = given
        BY OptionStep DEF N, flag
      <4> QED
        BY <3>2, <4>1
    <3>4. t.opts["preflights"] = AskedFlights(file, line, n)
      <4> DEFINE P == AskedFlights(file, line, n - 1)  Q == AskedFlights(file, line, n)
      <4>1. /\ flag.flag = "preflights" => Q = WithFlight(P, flag.value)
            /\ flag.flag = "preflight-var" /\ P # <<>> => Q = WithVar(P, flag.value)
            /\ flag.flag \notin {"preflights", "preflight-var"} => Q = P
        BY FlightStep DEF N
      <4>2. flights = P
        BY <3>2
      <4> HIDE DEF P, Q, flights, flag
      <4>3. CASE flag.flag = "preflights"
        BY <2>3, <4>1, <4>2, <4>3 DEF Q, flights, flag, FlagSets
      <4>4. CASE flag.flag = "preflight-var"
        BY <2>3, <3>1, <4>1, <4>2, <4>4 DEF Q, flights, flag, FlagSets
      <4>5. CASE flag.flag \notin {"preflights", "preflight-var"}
        BY <2>3, <4>1, <4>2, <4>5 DEF Q, flights, flag, FlagSets
      <4> QED
        BY <4>3, <4>4, <4>5
    <3>5. "strategies" \in Options \ {"preflights"} /\ "strategies" \notin Appended
      BY OptionNames DEF Appended
    <3>6. t.replaced = (Chosen0(n) # <<>>)
      BY <2>3, <3>2, <3>3, <3>5 DEF FlagSets
    <3>7. ASSUME NEW f \in Options \ {"preflights"}
          PROVE  t.opts[f] = AskedOption(file, line, n, f)
      <4>1. CASE f # "strategies"
        BY <2>3, <3>3, <4>1 DEF FlagSets
      <4>2. CASE f = "strategies"
        <5>1. flag.flag = "strategies" => <<>> \o flag.value = flag.value
          <6>1. flag.flag = "strategies" => IsSequence(flag.value)
            BY <2>1 DEF FlagOK, OptionOK
          <6> QED
            BY <6>1, NothingAppended
        <5> QED
          BY <2>3, <3>2, <3>3, <3>5, <4>2, <5>1 DEF FlagSets
      <4> QED
        BY <4>1, <4>2
    <3>8. Agreed(n)
      BY <3>4, <3>6, <3>7 DEF t
    <3> HIDE DEF Agreed
    <3> QED
      BY <1>2, <2>2, <3>8, n \in 0 .. N DEF t
  <2> QED
    BY <2>4, <2>5
<1>6. N \in T
  <2> HIDE DEF T
  <2>1. 0 .. N \subseteq T
    BY <1>2, <1>4, <1>5, RangeInduction
  <2> QED
    BY <1>2, <2>1
<1>7. StateOK(g[N]) /\ Agreed(N)
  BY <1>3, <1>6
<1>8. g[N].opts = [f \in Options |-> g[N].opts[f]] /\ "preflights" \in Options
  BY <1>7, OptionNames DEF StateOK, OptionsOK
<1>9. \A f \in Options : g[N].opts[f] = Asked(file, line)[f]
  <2>1. \A f \in Options \ {"preflights"} : g[N].opts[f] = Asked(file, line)[f]
    BY <1>7, AskedParts DEF N
  <2>2. g[N].opts["preflights"] = Asked(file, line)["preflights"]
    BY <1>7, AskedParts DEF N
  <2> QED
    BY <2>1, <2>2
<1> QED
  BY <1>3, <1>8, <1>9, AskedParts

\* The options of a process are what its files and command line say together.
WinsInv(p) ==
  /\ LineOK(cmd[p])
  /\ pc[p] \in Parsed =>
       opts[p] = Asked(Over(FileOf(cmd[p]), DefaultOptions), cmd[p])
  /\ pc[p] = "config" =>
       /\ opts[p] = Asked(Over(rc, DefaultOptions), cmd[p])
       /\ opts[p].config # NoName

\* The file that a command line names is the one that -config has set.
LEMMA Named ==
  ASSUME NEW file, FileOK(file), NEW line, LineOK(line),
         NEW o, o = Asked(Over(file, DefaultOptions), line)
  PROVE  LET named == Values(line, Occurrences(line, "config")) IN
         /\ o.config # NoName => named # <<>> /\ o.config = Last(named)
         /\ o.config = NoName => named = <<>>
<1> DEFINE S == Occurrences(line, "config")  N == Len(line)  named == Vals(line, N, S)
           base == Over(file, DefaultOptions)
<1>1. "config" \in Options \ {"preflights"} /\ "config" \notin Appended \cup {"strategies"}
  BY OptionNames DEF Appended, Scalars
<1>2. base.config = NoName
  BY FlightsOverDefaults
<1> HIDE DEF base
<1>3. o["config"] = IF named = <<>> THEN base["config"] ELSE Last(named)
  <2>1. o["config"] = AskedOption(base, line, N, "config")
    BY <1>1, AskedParts DEF base
  <2> QED
    BY <1>1, <2>1 DEF AskedOption
<1>4. N \in Nat /\ DOMAIN line = 1 .. N /\ \A i \in 1 .. N : FlagOK(line[i])
  BY SequenceNames DEF LineOK, ToSet
<1>5. named # <<>> => Last(named) # NoName
  <2> DEFINE q == InOrder(N, S)
  <2>1. /\ IsSequence(q) /\ \A i \in 1 .. Len(q) : q[i] \in 1 .. N
        /\ q # <<>> => q[Len(q)] \in S
    BY <1>4, N \in 0 .. N, OrderFacts
  <2>2. named = [i \in DOMAIN q |-> line[q[i]].value]
    BY DEF Vals
  <2>3. IsSequence(named) /\ Len(named) = Len(q)
    BY <1>4, ValsSteps
  <2> HIDE DEF q, named, S, N
  <2>4. ASSUME named # <<>> PROVE Last(named) # NoName
    <3>1. Len(q) \in DOMAIN q /\ q # <<>>
      BY <2>1, <2>3, <2>4, SequenceNames
    <3>2. Last(named) = line[q[Len(q)]].value
      BY <2>2, <2>3, <3>1 DEF Last
    <3>3. q[Len(q)] \in S /\ FlagOK(line[q[Len(q)]])
      BY <1>4, <2>1, <3>1, SequenceNames
    <3> QED
      BY <3>2, <3>3 DEF S, Occurrences, FlagOK
  <2> QED
    BY <2>4
<1>6. named = Values(line, S)
  BY ValuesOfAll
<1> HIDE DEF named, S
<1> QED
  BY <1>2, <1>3, <1>5, <1>6 DEF S

LEMMA WinsNext ==
  ASSUME ScanInv, \A p \in Processes : WinsInv(p), [Next]_vars, NEW p \in Processes
  PROVE  WinsInv(p)'
<1>1. rc' = rc
  BY DEF Next, Terminated, vars, ParseCommandLine, LoadConfig, Configure, Start,
     PrepareQueueJob, WriteHistoryEntry, Scan, Finish, SearchHistory, Killed, End
<1>2. \A line : FileOf(line)' = FileOf(line)
  BY <1>1 DEF FileOf
<1>3. CASE /\ cmd'[p] = cmd[p] /\ opts'[p] = opts[p]
           /\ pc'[p] \in Parsed => pc[p] \in Parsed
           /\ pc'[p] = "config" => pc[p] = "config"
  BY <1>1, <1>2, <1>3 DEF WinsInv
<1>4. ASSUME ParseCommandLine(p) PROVE WinsInv(p)'
  <2> DEFINE file == Over(rc, DefaultOptions)  line == cmd'[p]
             state == ParseFlags(file, line)
  <2>1. pc'[p] = AfterParse(state) /\ opts'[p] = state.opts
    BY <1>4, Memory DEF ParseCommandLine, Parse, Goto
  <2>2. LineOK(line)
    <3>1. ScanInv'
      BY <1>4, ParseCommandLineStep
    <3> QED
      BY <3>1 DEF ScanInv, OptionsInv
  <2>3. FileOK(rc)
    BY StartupAssumption DEF ScanInv, TypeInv
  <2>4. OptionsOK(file) /\ FlightsOK(file)
    BY <2>3, FlightsOverDefaults
  <2>5. ASSUME ~state.error PROVE state.opts = Asked(file, line)
    <3> HIDE DEF file, line
    <3> QED
      BY <2>2, <2>4, <2>5, LineWins
  <2>6. pc'[p] = "config" => ~state.error /\ opts'[p].config # NoName
    BY <2>1 DEF AfterParse
  <2>7. pc'[p] \in Parsed => ~state.error /\ opts'[p].config = NoName
    BY <2>1 DEF AfterParse, Parsed
  <2>8. pc'[p] \in Parsed => FileOf(line) = rc
    BY <2>1, <2>2, <2>3, <2>5, <2>7, Named DEF FileOf
  <2> HIDE DEF state
  <2> QED
    BY <1>1, <1>2, <2>1, <2>2, <2>5, <2>6, <2>7, <2>8 DEF WinsInv
<1>5. ASSUME LoadConfig(p) PROVE WinsInv(p)'
  <2>1. cmd' = cmd /\ pc[p] = "config"
    BY <1>5 DEF LoadConfig
  <2>2. CASE opts[p].config \in DOMAIN ConfigFiles
    <3> DEFINE f == ConfigFiles[opts[p].config]
               file == Over(f, DefaultOptions)
               state == ParseFlags(file, cmd[p])
    <3>1. /\ opts'[p] = state.opts
          /\ pc'[p] = IF state.error THEN "failed" ELSE "configure"
      BY <1>5, <2>2, Memory DEF LoadConfig, Goto, ReadConfig
    <3>2. FileOK(f) /\ LineOK(cmd[p])
      BY <2>2, StartupAssumption DEF WinsInv
    <3>3. OptionsOK(file) /\ FlightsOK(file)
      BY <3>2, FlightsOverDefaults
    <3>4. FileOf(cmd[p]) = f
      <4>1. /\ opts[p] = Asked(Over(rc, DefaultOptions), cmd[p])
            /\ opts[p].config # NoName
        BY <2>1 DEF WinsInv
      <4>2. FileOK(rc)
        BY StartupAssumption DEF ScanInv, TypeInv
      <4> QED
        BY <3>2, <4>1, <4>2, Named DEF FileOf
    <3>5. ASSUME ~state.error PROVE state.opts = Asked(file, cmd[p])
      <4> HIDE DEF file
      <4> QED
        BY <3>2, <3>3, <3>5, LineWins
    <3>6. pc'[p] \in Parsed => ~state.error
      BY <3>1 DEF Parsed
    <3>7. pc'[p] # "config"
      BY <3>1
    <3> HIDE DEF state
    <3> QED
      BY <1>2, <2>1, <3>1, <3>4, <3>5, <3>6, <3>7 DEF WinsInv
  <2>3. CASE opts[p].config \notin DOMAIN ConfigFiles
    <3>1. pc'[p] = "failed"
      BY <1>5, <2>3, Memory DEF LoadConfig, Goto
    <3> QED
      BY <2>1, <3>1 DEF WinsInv, Parsed
  <2> QED
    BY <2>2, <2>3
<1>6. ASSUME NEW step \in Ended, End(p, step) PROVE WinsInv(p)'
  <2>1. pc'[p] = step /\ cmd'[p] = <<>>
    BY <1>6, Memory DEF End, Goto
  <2>2. step \notin Parsed \cup {"config"}
    BY DEF Ended, Parsed
  <2>3. LineOK(<<>>)
    BY DEF LineOK, IsSequence, ToSet
  <2> QED
    BY <2>1, <2>2, <2>3 DEF WinsInv
<1>7. ASSUME \/ Configure(p) \/ Start(p) \/ PrepareQueueJob(p) \/ WriteHistoryEntry(p)
             \/ Scan(p)
      PROVE  WinsInv(p)'
  <2>1. /\ cmd'[p] = cmd[p] /\ opts'[p] = opts[p]
        /\ pc[p] \in Parsed /\ pc'[p] # "config"
    BY <1>7, Memory DEF Configure, Start, PrepareQueueJob, WriteHistoryEntry, Scan, Goto, Parsed
  <2> QED
    BY <1>3, <2>1
<1>8. ASSUME NEW q \in Processes, q # p,
             \/ ParseCommandLine(q) \/ LoadConfig(q) \/ Configure(q) \/ Start(q)
             \/ PrepareQueueJob(q) \/ WriteHistoryEntry(q) \/ Scan(q)
             \/ Finish(q) \/ SearchHistory(q) \/ Killed(q)
      PROVE  WinsInv(p)'
  <2>1. pc'[p] = pc[p] /\ cmd'[p] = cmd[p] /\ opts'[p] = opts[p]
    BY <1>8, Memory DEF ParseCommandLine, Parse, Goto, LoadConfig, Configure, Start,
       PrepareQueueJob, WriteHistoryEntry, Scan, Finish, SearchHistory, Killed, End
  <2> QED
    BY <1>3, <2>1
<1>9. CASE UNCHANGED vars
  BY <1>3, <1>9 DEF vars, process
<1>10. ASSUME Finish(p) \/ SearchHistory(p) \/ Killed(p) PROVE WinsInv(p)'
  <2>1. \E step \in Ended : End(p, step)
    BY <1>10 DEF Finish, SearchHistory, Killed, Ended
  <2> QED
    BY <1>6, <2>1
<1> QED
  BY <1>4, <1>5, <1>7, <1>8, <1>9, <1>10 DEF Next, Terminated

(* Whatever the default file, the file of -config and the command line hold, and
   although -config has the command line parsed twice, a scan goes on with what
   they say together: every flag wins over the file, every repeated flag counts
   once, every variable is with its preflight (main.go:43-88, flags.go:60-140,
   optionsparser.go:864-884). *)
THEOREM OptionsAsAsked == Spec => []CommandLineWins
<1> DEFINE Inv == ScanInv /\ \A p \in Processes : WinsInv(p)
<1>1. Init => Inv
  <2> SUFFICES ASSUME Init PROVE Inv
    OBVIOUS
  <2>1. ScanInv
    BY ScanInit
  <2>2. ASSUME NEW p \in Processes PROVE WinsInv(p)
    <3>1. LineOK(<<>>)
      BY DEF LineOK, IsSequence, ToSet
    <3> QED
      BY <3>1 DEF Init, WinsInv, Parsed
  <2> QED
    BY <2>1, <2>2
<1>2. Inv /\ [Next]_vars => Inv'
  BY ScanNext, WinsNext
<1>3. Inv => CommandLineWins
  BY DEF CommandLineWins, WinsInv
<1> QED
  BY <1>1, <1>2, <1>3, PTL DEF Spec

-----------------------------------------------------------------------------
(* The requests of sniper mode *)

(* The next place adds a sign or none. *)
LEMMA SignSteps ==
  ASSUME NEW text, NEW n \in Nat
  PROVE  /\ Signs(text, n) \in Nat
         /\ n = 0 => Signs(text, n) = 0
         /\ n # 0 => Signs(text, n) = IF text[n] = Template THEN Signs(text, n - 1) + 1
                                      ELSE Signs(text, n - 1)
<1> DEFINE Marks(m) == {k \in 1 .. m : text[k] = Template}
<1>1. ASSUME NEW m \in Nat PROVE IsFiniteSet(Marks(m)) /\ Signs(text, m) \in Nat
  <2>1. IsFiniteSet(1 .. m)
    BY FS_Interval
  <2>2. IsFiniteSet(Marks(m))
    BY <2>1, FS_Subset
  <2> QED
    BY <2>2, FS_CardinalityType DEF Signs
<1>2. n = 0 => Signs(text, n) = 0
  <2>1. Marks(0) = {}
    OBVIOUS
  <2> QED
    BY <2>1, FS_EmptySet DEF Signs
<1>3. ASSUME n # 0
      PROVE  Signs(text, n) = IF text[n] = Template THEN Signs(text, n - 1) + 1
                              ELSE Signs(text, n - 1)
  <2>1. n - 1 \in Nat /\ n \notin 1 .. n - 1 /\ 1 .. n = (1 .. n - 1) \cup {n}
    BY <1>3
  <2>2. Marks(n) = IF text[n] = Template THEN Marks(n - 1) \cup {n} ELSE Marks(n - 1)
    BY <2>1
  <2>3. n \notin Marks(n - 1) /\ IsFiniteSet(Marks(n - 1))
    BY <1>1, <2>1
  <2>4. Cardinality(Marks(n - 1) \cup {n}) = Cardinality(Marks(n - 1)) + 1
    BY <2>3, FS_AddElement
  <2>5. Signs(text, n) = Cardinality(Marks(n)) /\ Signs(text, n - 1) = Cardinality(Marks(n - 1))
    BY DEF Signs
  <2> HIDE DEF Marks
  <2> QED
    BY <2>2, <2>4, <2>5
<1> QED
  BY <1>1, <1>2, <1>3

(* There are no fewer signs up to a later place, and more up to a later sign. *)
LEMMA SignsGrow ==
  ASSUME NEW text, NEW n \in Nat, NEW m \in Nat, n <= m
  PROVE  /\ Signs(text, n) <= Signs(text, m)
         /\ n # m /\ text[m] = Template => Signs(text, n) < Signs(text, m)
<1>1. ASSUME NEW l \in Nat, n <= l PROVE Signs(text, n) <= Signs(text, l)
  <2> DEFINE A == {k \in 1 .. n : text[k] = Template}
             B == {k \in 1 .. l : text[k] = Template}
  <2>1. A \subseteq B
    BY <1>1
  <2>2. IsFiniteSet(1 .. l)
    BY FS_Interval
  <2>3. IsFiniteSet(B)
    BY <2>2, FS_Subset
  <2>4. Cardinality(A) <= Cardinality(B)
    BY <2>1, <2>3, FS_Subset
  <2> QED
    BY <2>4 DEF Signs
<1>2. ASSUME n # m, text[m] = Template PROVE Signs(text, n) < Signs(text, m)
  <2>1. m - 1 \in Nat /\ n <= m - 1 /\ m # 0
    BY <1>2
  <2>2. Signs(text, m) = Signs(text, m - 1) + 1
    BY <1>2, <2>1, SignSteps
  <2>3. Signs(text, n) <= Signs(text, m - 1)
    BY <1>1, <2>1
  <2>4. Signs(text, n) \in Nat /\ Signs(text, m - 1) \in Nat
    BY <2>1, SignSteps
  <2> QED
    BY <2>2, <2>3, <2>4
<1> QED
  BY <1>1, <1>2

(* templateLocations finds every sign, the i-th one where i signs are passed. *)
LEMMA LocationFacts ==
  ASSUME NEW text, IsSequence(text)
  PROVE  LET q == templateLocations(text) IN
         /\ IsSequence(q) /\ Len(q) = Signs(text, Len(text))
         /\ \A i \in 1 .. Len(q) : /\ q[i] \in 1 .. Len(text) /\ text[q[i]] = Template
                                   /\ Signs(text, q[i]) = i
<1> DEFINE N == Len(text)
           S == {i \in DOMAIN text : text[i] = Template}
           Good(m) ==
             LET q == InOrder(m, S) IN
             /\ IsSequence(q) /\ Len(q) = Signs(text, m)
             /\ \A i \in 1 .. Len(q) : /\ q[i] \in 1 .. m /\ text[q[i]] = Template
                                       /\ Signs(text, q[i]) = i
           T == {m \in 0 .. N : Good(m)}
<1>1. N \in Nat /\ DOMAIN text = 1 .. N
  BY DEF IsSequence
<1> HIDE DEF N
<1>2. 0 \in T
  <2>1. InOrder(0, S) = <<>>
    BY OrderSteps
  <2>2. IsSequence(<<>>) /\ Len(<<>>) = 0
    BY DEF IsSequence
  <2>3. Signs(text, 0) = 0
    BY SignSteps
  <2> HIDE DEF S
  <2>4. Good(0)
    BY <2>1, <2>2, <2>3
  <2> HIDE DEF Good
  <2> QED
    BY <1>1, <2>4
<1>3. ASSUME NEW m \in 1 .. N, m - 1 \in T PROVE m \in T
  <2> DEFINE q == InOrder(m - 1, S)  r == InOrder(m, S)
  <2>1. /\ IsSequence(q) /\ Len(q) = Signs(text, m - 1)
        /\ \A i \in 1 .. Len(q) : /\ q[i] \in 1 .. m - 1 /\ text[q[i]] = Template
                                  /\ Signs(text, q[i]) = i
    BY <1>3
  <2>2. m \in Nat /\ m # 0 /\ (m \in S <=> text[m] = Template)
    BY <1>1
  <2>3. r = IF m \in S THEN Append(q, m) ELSE q
    BY <2>2, OrderSteps
  <2>4. Signs(text, m) = IF text[m] = Template THEN Signs(text, m - 1) + 1
                         ELSE Signs(text, m - 1)
    BY <2>2, SignSteps
  <2>5. \A x \in 1 .. m - 1 : x \in 1 .. m
    OBVIOUS
  <2> HIDE DEF q, r
  <2>6. /\ IsSequence(r) /\ Len(r) = Signs(text, m)
        /\ \A i \in 1 .. Len(r) : /\ r[i] \in 1 .. m /\ text[r[i]] = Template
                                  /\ Signs(text, r[i]) = i
    <3>1. CASE text[m] # Template
      BY <2>1, <2>2, <2>3, <2>4, <2>5, <3>1
    <3>2. CASE text[m] = Template
      <4>1. r = Append(q, m) /\ m \in 1 .. m
        BY <2>2, <2>3, <3>2
      <4>2. IsSequence(r)
        BY <2>1, <4>1, AppendFacts
      <4>3. /\ Len(q) \in Nat /\ Len(r) = Len(q) + 1
            /\ r[Len(q) + 1] = m /\ \A i \in 1 .. Len(q) : r[i] = q[i]
        BY <2>1, <4>1, AppendFacts
      <4>4. \A i \in 1 .. Len(r) : i = Len(q) + 1 \/ i \in 1 .. Len(q)
        BY <4>3
      <4>5. Len(r) = Signs(text, m)
        BY <2>1, <2>4, <3>2, <4>3
      <4> QED
        BY <2>1, <2>5, <3>2, <4>1, <4>2, <4>3, <4>4, <4>5
    <3> QED
      BY <3>1, <3>2
  <2> QED
    BY <2>6, m \in 0 .. N DEF r
<1>4. N \in T
  <2> HIDE DEF T
  <2>1. 0 .. N \subseteq T
    BY <1>1, <1>2, <1>3, RangeInduction
  <2> QED
    BY <1>1, <2>1
<1> QED
  BY <1>4 DEF templateLocations, N

(* The n-th pair of signs: where it begins and ends, and what it encloses. *)
LEMMA PairFacts ==
  ASSUME NEW text, IsSequence(text), NEW n \in 1 .. Count(text) \div 2
  PROVE  LET q == templateLocations(text)
             a == q[2 * n - 1]
             b == q[2 * n]
         IN /\ a \in 1 .. Len(text) /\ b \in 1 .. Len(text) /\ a < b
            /\ text[a] = Template /\ text[b] = Template
            /\ Signs(text, a) = 2 * n - 1 /\ Signs(text, b) = 2 * n
            /\ \A i \in 1 .. Len(text) :
                 Signs(text, i) = 2 * n - 1 <=> a <= i /\ i < b
            /\ \A i \in 1 .. Len(text) : text[i] = Template /\ i # a => ~(a <= i /\ i < b)
<1> DEFINE N == Len(text)  q == templateLocations(text)
           a == q[2 * n - 1]  b == q[2 * n]
<1>1. /\ IsSequence(q) /\ Len(q) = Signs(text, N)
      /\ \A i \in 1 .. Len(q) : /\ q[i] \in 1 .. N /\ text[q[i]] = Template
                                /\ Signs(text, q[i]) = i
  BY LocationFacts
<1>2. Count(text) = Len(q)
  BY DEF Count
<1>3. N \in Nat /\ Len(q) \in Nat
  BY <1>1 DEF IsSequence
<1> HIDE DEF N, q
<1>4. 2 * n - 1 \in 1 .. Len(q) /\ 2 * n \in 1 .. Len(q)
  <2>1. n \in Nat /\ n >= 1 /\ 2 * n <= Len(q)
    BY <1>2, <1>3
  <2> QED
    BY <1>3, <2>1
<1>5. /\ a \in 1 .. N /\ b \in 1 .. N
      /\ text[a] = Template /\ text[b] = Template
      /\ Signs(text, a) = 2 * n - 1 /\ Signs(text, b) = 2 * n
  BY <1>1, <1>4
<1> HIDE DEF a, b
<1>6. a \in Nat /\ b \in Nat /\ n \in Nat /\ 2 * n - 1 < 2 * n
  BY <1>3, <1>4, <1>5
<1>7. a < b
  <2>1. ~(b <= a)
    <3>1. ASSUME b <= a PROVE FALSE
      BY <1>5, <1>6, <3>1, SignsGrow
    <3> QED
      BY <3>1
  <2> QED
    BY <1>6, <2>1
<1>8. ASSUME NEW i \in 1 .. N
      PROVE  /\ Signs(text, i) = 2 * n - 1 <=> a <= i /\ i < b
             /\ text[i] = Template /\ i # a => ~(a <= i /\ i < b)
  <2>1. i \in Nat /\ Signs(text, i) \in Nat
    BY <1>3, SignSteps
  <2>2. a <= i => Signs(text, i) >= 2 * n - 1
    BY <1>5, <1>6, <2>1, SignsGrow
  <2>3. b <= i => Signs(text, i) >= 2 * n
    BY <1>5, <1>6, <2>1, SignsGrow
  <2>4. i < a => Signs(text, i) < 2 * n - 1
    BY <1>5, <1>6, <2>1, SignsGrow
  <2>5. i < b => Signs(text, i) < 2 * n
    BY <1>5, <1>6, <2>1, SignsGrow
  <2>6. a <= i /\ i # a /\ text[i] = Template => Signs(text, i) > 2 * n - 1
    BY <1>5, <1>6, <2>1, SignsGrow
  <2> QED
    BY <1>6, <2>1, <2>2, <2>3, <2>4, <2>5, <2>6
<1> QED
  BY <1>5, <1>7, <1>8 DEF a, b, q, N

\* What scrubbing has left of a text before the first token and after each one.
Scrubbing(h, text) ==
  /\ h[0] = <<>>
  /\ \A i \in 1 .. Len(text) :
       h[i] = IF text[i] = Template THEN h[i - 1] ELSE Append(h[i - 1], text[i])
  /\ Scrubbed(text) = h[Len(text)]

LEMMA ScrubSteps ==
  ASSUME NEW text, IsSequence(text)
  PROVE  \E h : Scrubbing(h, text)
<1> DEFINE S == ToSet(text) \ {Template}
<1>1. PICK h : Selecting(h, text, S)
  BY SelectSteps
<1>2. \A i \in 1 .. Len(text) : text[i] \in S <=> text[i] # Template
  BY DEF IsSequence, ToSet
<1>3. Scrubbed(text) = Selected(text, S)
  BY DEF Scrubbed
<1> HIDE DEF S
<1>4. /\ h[0] = <<>> /\ Scrubbed(text) = h[Len(text)]
      /\ \A i \in 1 .. Len(text) :
           h[i] = IF text[i] \in S THEN Append(h[i - 1], text[i]) ELSE h[i - 1]
  BY <1>1, <1>3 DEF Selecting
<1>5. ASSUME NEW i \in 1 .. Len(text)
      PROVE  h[i] = IF text[i] = Template THEN h[i - 1] ELSE Append(h[i - 1], text[i])
  BY <1>2, <1>4
<1> QED
  BY <1>4, <1>5 DEF Scrubbing

\* What Tried has kept before the first token and after each one.
Trying(v, text, n) ==
  /\ v[0] = <<>>
  /\ \A i \in 0 .. Len(text) : IsSequence(v[i])
  /\ \A i \in 1 .. Len(text) :
       /\ text[i] = Template /\ Signs(text, i) + 1 = 2 * n => v[i] = Append(v[i - 1], Fuzz)
       /\ text[i] = Template /\ Signs(text, i) + 1 # 2 * n => v[i] = v[i - 1]
       /\ text[i] # Template /\ Signs(text, i) + 1 = 2 * n => v[i] = v[i - 1]
       /\ text[i] # Template /\ Signs(text, i) + 1 # 2 * n =>
            v[i] = Append(v[i - 1], text[i])
  /\ Tried(text, n) = v[Len(text)]

LEMMA TriedSteps ==
  ASSUME NEW text, IsSequence(text), NEW n
  PROVE  \E v : Trying(v, text, n)
<1> DEFINE N == Len(text)
           Kept(i) == IF text[i] = Template THEN Signs(text, i) + 1 = 2 * n
                      ELSE Signs(text, i) + 1 # 2 * n
           S == {i \in DOMAIN text : Kept(i)}
           line == [i \in 1 .. N |->
                      [value |-> IF text[i] = Template THEN Fuzz ELSE text[i]]]
           v == [i \in 0 .. N |-> Vals(line, i, S)]
<1>1. N \in Nat /\ DOMAIN text = 1 .. N
  BY DEF IsSequence
<1>2. \A i \in 1 .. N : line[i].value = IF text[i] = Template THEN Fuzz ELSE text[i]
  OBVIOUS
<1>3. Tried(text, n) = Vals(line, N, S)
  <2> DEFINE q == InOrder(N, S)
  <2>1. IsSequence(q) /\ \A i \in 1 .. Len(q) : q[i] \in 1 .. N
    BY <1>1, OrderFacts, N \in 0 .. N
  <2>2. DOMAIN q = 1 .. Len(q)
    BY <2>1, SequenceNames
  <2>3. Tried(text, n) =
          [j \in DOMAIN q |-> IF text[q[j]] = Template THEN Fuzz ELSE text[q[j]]]
    BY DEF Tried
  <2>4. Vals(line, N, S) = [j \in DOMAIN q |-> line[q[j]].value]
    BY DEF Vals
  <2> HIDE DEF q, line
  <2> QED
    BY <1>2, <2>1, <2>2, <2>3, <2>4
<1>4. \A i \in 1 .. N : i \in S <=> Kept(i)
  BY <1>1
<1> HIDE DEF S, line
<1>5. /\ \A i \in 0 .. N : v[i] = Vals(line, i, S)
      /\ \A i \in 0 .. N : IsSequence(v[i])
      /\ v[0] = <<>>
  <2>1. \A i \in 0 .. N : i \in Nat /\ v[i] = Vals(line, i, S)
    BY <1>1
  <2>2. \A i \in Nat : IsSequence(Vals(line, i, S))
    BY ValsSteps
  <2>3. Vals(line, 0, S) = <<>>
    BY ValsSteps
  <2>4. 0 \in 0 .. N
    BY <1>1
  <2> HIDE DEF v, N
  <2> QED
    BY <2>1, <2>2, <2>3, <2>4
<1>6. \A i \in 1 .. N : i - 1 \in 0 .. N /\ i \in 0 .. N /\ i \in Nat /\ i # 0
  BY <1>1
<1> HIDE DEF v, N
<1>7. ASSUME NEW i \in 1 .. N
      PROVE  v[i] = IF i \in S THEN Append(v[i - 1], line[i].value) ELSE v[i - 1]
  BY <1>5, <1>6, ValsSteps
<1>8. ASSUME NEW i \in 1 .. N
      PROVE  /\ text[i] = Template /\ Signs(text, i) + 1 = 2 * n =>
                  v[i] = Append(v[i - 1], Fuzz)
             /\ text[i] = Template /\ Signs(text, i) + 1 # 2 * n => v[i] = v[i - 1]
             /\ text[i] # Template /\ Signs(text, i) + 1 = 2 * n => v[i] = v[i - 1]
             /\ text[i] # Template /\ Signs(text, i) + 1 # 2 * n =>
                  v[i] = Append(v[i - 1], text[i])
  BY <1>2, <1>4, <1>7
<1>9. Trying(v, text, n)
  BY <1>1, <1>3, <1>5, <1>8, N \in 0 .. N DEF Trying, N
<1> QED
  BY <1>9

(* Without a pair to try, Tried is scrubbing. *)
LEMMA TriedNone ==
  ASSUME NEW text, IsSequence(text)
  PROVE  Tried(text, 0) = Scrubbed(text)
<1> DEFINE N == Len(text)
<1>1. PICK h : Scrubbing(h, text)
  BY ScrubSteps
<1>2. PICK v : Trying(v, text, 0)
  BY TriedSteps
<1>3. N \in Nat
  BY DEF IsSequence
<1> DEFINE U == {i \in 0 .. N : v[i] = h[i]}
<1>4. 0 \in U
  BY <1>1, <1>2, <1>3 DEF Scrubbing, Trying
<1>5. ASSUME NEW i \in 1 .. N, i - 1 \in U PROVE i \in U
  <2>1. i \in Nat /\ i \in 0 .. N
    BY <1>3
  <2>2. Signs(text, i) + 1 # 2 * 0
    BY <2>1, SignSteps
  <2>3. v[i] = h[i]
    BY <1>1, <1>2, <1>5, <2>2 DEF Scrubbing, Trying
  <2> QED
    BY <2>1, <2>3
<1>6. N \in U
  <2> HIDE DEF U
  <2>1. 0 .. N \subseteq U
    BY <1>3, <1>4, <1>5, RangeInduction
  <2> QED
    BY <1>3, <2>1
<1> QED
  BY <1>1, <1>2, <1>6 DEF Scrubbing, Trying

(* injectKeyword puts one token where there were several. *)
LEMMA InjectFacts ==
  ASSUME NEW text, IsSequence(text), NEW a \in 1 .. Len(text), NEW b \in 1 .. Len(text),
         a <= b
  PROVE  LET t == injectKeyword(text, a, b) IN
         /\ IsSequence(t) /\ Len(t) = Len(text) - (b - a)
         /\ t[a] = Fuzz
         /\ \A i \in 1 .. a - 1 : t[i] = text[i]
         /\ \A i \in b + 1 .. Len(text) : t[i - (b - a)] = text[i]
<1> DEFINE N == Len(text)  A == ToSet(text) \cup {Fuzz}
           l == SubSeq(text, 1, a - 1)  r == SubSeq(text, b + 1, N)
           f == <<Fuzz>>
<1>1. text \in Seq(A) /\ N \in Nat /\ a \in Nat /\ b \in Nat
  BY DEF IsSequence
<1>2. f \in Seq(A) /\ Len(f) = 1 /\ f[1] = Fuzz
  OBVIOUS
<1>3. /\ l \in Seq(A) /\ Len(l) = a - 1
      /\ \A i \in 1 .. a - 1 : l[i] = text[i]
  <2>1. 1 \in 1 .. N + 1 /\ a - 1 \in 0 .. N
    BY <1>1
  <2>2. /\ l \in Seq(A)
        /\ Len(l) = IF 1 <= a - 1 THEN (a - 1) - 1 + 1 ELSE 0
        /\ \A i \in 1 .. (a - 1) - 1 + 1 : l[i] = text[1 + i - 1]
    BY <1>1, <2>1, SubSeqProperties
  <2> HIDE DEF l, N
  <2>3. (a - 1) - 1 + 1 = a - 1 /\ (~(1 <= a - 1) => a - 1 = 0)
    BY <1>1
  <2>4. \A i \in 1 .. a - 1 : 1 + i - 1 = i
    BY <1>1
  <2> QED
    BY <2>2, <2>3, <2>4
<1>4. /\ r \in Seq(A) /\ Len(r) = N - b
      /\ \A i \in 1 .. N - b : r[i] = text[b + i]
  <2>1. b + 1 \in 1 .. N + 1 /\ N \in 0 .. N
    BY <1>1
  <2>2. /\ r \in Seq(A)
        /\ Len(r) = IF b + 1 <= N THEN N - (b + 1) + 1 ELSE 0
        /\ \A i \in 1 .. N - (b + 1) + 1 : r[i] = text[(b + 1) + i - 1]
    BY <1>1, <2>1, SubSeqProperties
  <2>0. b <= N
    BY <1>1
  <2> HIDE DEF r, N
  <2>3. N - (b + 1) + 1 = N - b /\ (~(b + 1 <= N) => N - b = 0)
    BY <1>1, <2>0
  <2>4. \A i \in 1 .. N - b : (b + 1) + i - 1 = b + i
    BY <1>1
  <2> QED
    BY <2>2, <2>3, <2>4
<1>0. a <= N /\ b <= N
  BY <1>1
<1> HIDE DEF l, r, f, A, N
<1> DEFINE u == l \o f  t == u \o r
<1>5. /\ u \in Seq(A) /\ Len(u) = a /\ u[a] = Fuzz
      /\ \A i \in 1 .. a - 1 : u[i] = text[i]
  <2>1. /\ u \in Seq(A) /\ Len(u) = Len(l) + Len(f)
        /\ \A i \in 1 .. Len(l) + Len(f) :
             u[i] = IF i <= Len(l) THEN l[i] ELSE f[i - Len(l)]
    BY <1>2, <1>3, ConcatProperties
  <2> HIDE DEF u
  <2>2. Len(l) + Len(f) = a /\ a \in 1 .. a /\ ~(a <= a - 1) /\ a - (a - 1) = 1
    BY <1>1, <1>2, <1>3
  <2>3. \A i \in 1 .. a - 1 : i \in 1 .. a /\ i <= a - 1
    BY <1>1
  <2>4. u[a] = Fuzz
    BY <1>2, <1>3, <2>1, <2>2
  <2> QED
    BY <1>3, <2>1, <2>2, <2>3, <2>4
<1> HIDE DEF u
<1>6. /\ t \in Seq(A) /\ Len(t) = N - (b - a)
      /\ \A i \in 1 .. a : t[i] = u[i]
      /\ \A i \in b + 1 .. N : t[i - (b - a)] = text[i]
  <2>1. /\ t \in Seq(A) /\ Len(t) = Len(u) + Len(r)
        /\ \A i \in 1 .. Len(u) + Len(r) :
             t[i] = IF i <= Len(u) THEN u[i] ELSE r[i - Len(u)]
    BY <1>4, <1>5, ConcatProperties
  <2> HIDE DEF t
  <2>2. Len(u) + Len(r) = N - (b - a)
    BY <1>0, <1>1, <1>4, <1>5
  <2>3. \A i \in 1 .. a : i \in 1 .. N - (b - a) /\ i <= a
    BY <1>0, <1>1
  <2>4. \A i \in b + 1 .. N :
          /\ i - (b - a) \in 1 .. N - (b - a) /\ ~(i - (b - a) <= a)
          /\ (i - (b - a)) - a = i - b /\ i - b \in 1 .. N - b /\ b + (i - b) = i
    BY <1>0, <1>1
  <2>5. \A i \in 1 .. a : t[i] = u[i]
    BY <1>5, <2>1, <2>2, <2>3
  <2>6. ASSUME NEW i \in b + 1 .. N PROVE t[i - (b - a)] = text[i]
    <3>1. t[i - (b - a)] = r[i - b]
      BY <1>5, <2>1, <2>2, <2>4
    <3>2. r[i - b] = text[b + (i - b)]
      BY <1>4, <2>4
    <3> QED
      BY <2>4, <3>1, <3>2
  <2> QED
    BY <2>1, <2>2, <2>5, <2>6
<1> HIDE DEF t
<1>7. IsSequence(t)
  BY <1>6 DEF IsSequence, ToSet
<1>8. t[a] = Fuzz /\ \A i \in 1 .. a - 1 : t[i] = text[i]
  <2>1. a \in 1 .. a /\ \A i \in 1 .. a - 1 : i \in 1 .. a
    BY <1>1
  <2> QED
    BY <1>5, <1>6, <2>1
<1>9. injectKeyword(text, a, b) = t
  BY DEF injectKeyword, l, r, f, u, t, N
<1> QED
  BY <1>6, <1>7, <1>8, <1>9 DEF N

\* Where a place of a text is when what is between two others has become one.
Moved(i, a, b) == IF i <= a THEN i ELSE IF i <= b THEN a ELSE i - (b - a)

LEMMA MovedFacts ==
  ASSUME NEW N \in Nat, NEW a \in 1 .. N, NEW b \in 1 .. N, a < b, NEW i \in 1 .. N
  PROVE  /\ Moved(0, a, b) = 0 /\ Moved(N, a, b) = N - (b - a)
         /\ i <= a => Moved(i, a, b) = i /\ Moved(i - 1, a, b) = i - 1
         /\ a < i /\ i <= b => Moved(i, a, b) = a /\ Moved(i - 1, a, b) = a
         /\ b < i => /\ Moved(i, a, b) = i - (b - a)
                     /\ Moved(i - 1, a, b) = (i - (b - a)) - 1
         /\ Moved(i, a, b) \in 1 .. N - (b - a)
<1>1. /\ N \in Int /\ a \in Int /\ b \in Int /\ i \in Int
      /\ 1 <= a /\ a <= N /\ 1 <= b /\ b <= N /\ 1 <= i /\ i <= N
  OBVIOUS
<1>2. Moved(0, a, b) = 0 /\ Moved(N, a, b) = N - (b - a)
  BY <1>1 DEF Moved
<1>3. i <= a => Moved(i, a, b) = i /\ Moved(i - 1, a, b) = i - 1
  BY <1>1 DEF Moved
<1>4. a < i /\ i <= b => Moved(i, a, b) = a /\ Moved(i - 1, a, b) = a
  BY <1>1 DEF Moved
<1>5. b < i => /\ Moved(i, a, b) = i - (b - a)
               /\ Moved(i - 1, a, b) = (i - (b - a)) - 1
  BY <1>1 DEF Moved
<1>6. Moved(i, a, b) \in 1 .. N - (b - a)
  BY <1>1 DEF Moved
<1> QED
  BY <1>2, <1>3, <1>4, <1>5, <1>6

(* To inject the keyword at a pair and to scrub the rest is to try the pair, and
   two signs less are there to scrub. *)
LEMMA TriedPair ==
  ASSUME NEW text, IsSequence(text), NEW n \in 1 .. Count(text) \div 2, Fuzz # Template
  PROVE  LET q == templateLocations(text)
             t == injectKeyword(text, q[2 * n - 1], q[2 * n])
         IN /\ IsSequence(t) /\ Scrubbed(t) = Tried(text, n)
            /\ Count(t) = Count(text) - 2
<1> DEFINE N == Len(text)  q == templateLocations(text)
           a == q[2 * n - 1]  b == q[2 * n]
           t == injectKeyword(text, a, b)
<1>1. /\ a \in 1 .. N /\ b \in 1 .. N /\ a < b
      /\ text[a] = Template /\ text[b] = Template
      /\ Signs(text, a) = 2 * n - 1 /\ Signs(text, b) = 2 * n
      /\ \A i \in 1 .. N : Signs(text, i) = 2 * n - 1 <=> a <= i /\ i < b
      /\ \A i \in 1 .. N : text[i] = Template /\ i # a => ~(a <= i /\ i < b)
  BY PairFacts
<1>2. /\ Len(q) = Signs(text, N)
  BY LocationFacts
<1>3. N \in Nat /\ n \in Nat /\ n >= 1
  <2>1. N \in Nat
    BY DEF IsSequence
  <2> QED
    BY <2>1
<1> HIDE DEF N, q, a, b
<1>4. a \in Nat /\ b \in Nat /\ a <= b /\ \A i \in 1 .. N : i \in Nat /\ i \in 0 .. N
  BY <1>1, <1>3
<1>5. /\ IsSequence(t) /\ Len(t) = N - (b - a) /\ t[a] = Fuzz
      /\ \A i \in 1 .. a - 1 : t[i] = text[i]
      /\ \A i \in b + 1 .. N : t[i - (b - a)] = text[i]
  BY <1>1, <1>4, InjectFacts DEF N
<1> HIDE DEF t
<1>6. ASSUME NEW i \in 1 .. N
      PROVE  /\ i < a => t[i] = text[i]
             /\ b < i => t[i - (b - a)] = text[i]
             /\ Signs(text, i) + 1 = 2 * n <=> a <= i /\ i < b
             /\ text[i] = Template => ((a <= i /\ i < b) <=> i = a)
  <2>1. i < a => i \in 1 .. a - 1
    BY <1>4
  <2>2. b < i => i \in b + 1 .. N
    BY <1>3, <1>4
  <2>3. Signs(text, i) + 1 = 2 * n <=> Signs(text, i) = 2 * n - 1
    <3>1. Signs(text, i) \in Nat
      BY <1>4, SignSteps
    <3> QED
      BY <1>3, <3>1
  <2>4. a <= a /\ a < b
    BY <1>1, <1>4
  <2> QED
    BY <1>1, <1>5, <2>1, <2>2, <2>3, <2>4
<1>7. PICK h : Scrubbing(h, t)
  BY <1>5, ScrubSteps
<1>8. PICK v : Trying(v, text, n)
  BY TriedSteps
<1>9. Moved(0, a, b) = 0 /\ Moved(N, a, b) = Len(t)
  BY <1>1, <1>3, <1>5, MovedFacts
<1> DEFINE Around(i) ==
             /\ i <= a => Moved(i, a, b) = i /\ Moved(i - 1, a, b) = i - 1
             /\ a < i /\ i <= b => Moved(i, a, b) = a /\ Moved(i - 1, a, b) = a
             /\ b < i => /\ Moved(i, a, b) = i - (b - a)
                         /\ Moved(i - 1, a, b) = (i - (b - a)) - 1
             /\ Moved(i, a, b) \in 1 .. Len(t)
<1>10. ASSUME NEW i \in 1 .. N PROVE Around(i)
  <2>1. a \in 1 .. N /\ b \in 1 .. N /\ a < b /\ Len(t) = N - (b - a)
    BY <1>1, <1>5
  <2>2. /\ i <= a => Moved(i, a, b) = i /\ Moved(i - 1, a, b) = i - 1
        /\ a < i /\ i <= b => Moved(i, a, b) = a /\ Moved(i - 1, a, b) = a
    BY <1>3, <2>1, MovedFacts
  <2>3. b < i => /\ Moved(i, a, b) = i - (b - a)
                 /\ Moved(i - 1, a, b) = (i - (b - a)) - 1
    BY <1>3, <2>1, MovedFacts
  <2>4. Moved(i, a, b) \in 1 .. N - (b - a)
    BY <1>3, <2>1, MovedFacts
  <2> QED
    BY <2>1, <2>2, <2>3, <2>4
<1>11. Scrubbed(t) = Tried(text, n)
  <2> DEFINE U == {i \in 0 .. N : v[i] = h[Moved(i, a, b)]}
  <2>1. 0 \in U
    BY <1>3, <1>7, <1>8, <1>9 DEF Scrubbing, Trying
  <2>2. ASSUME NEW i \in 1 .. N, i - 1 \in U PROVE i \in U
    <3> DEFINE m == Moved(i, a, b)
    <3>1. v[i - 1] = h[Moved(i - 1, a, b)]
      BY <2>2
    <3>2. /\ text[i] = Template /\ Signs(text, i) + 1 = 2 * n => v[i] = Append(v[i - 1], Fuzz)
          /\ text[i] = Template /\ Signs(text, i) + 1 # 2 * n => v[i] = v[i - 1]
          /\ text[i] # Template /\ Signs(text, i) + 1 = 2 * n => v[i] = v[i - 1]
          /\ text[i] # Template /\ Signs(text, i) + 1 # 2 * n =>
               v[i] = Append(v[i - 1], text[i])
      BY <1>8 DEF Trying, N
    <3>3. /\ i <= a => m = i /\ Moved(i - 1, a, b) = i - 1
          /\ a < i /\ i <= b => m = a /\ Moved(i - 1, a, b) = a
          /\ b < i => m = i - (b - a) /\ Moved(i - 1, a, b) = (i - (b - a)) - 1
          /\ m \in 1 .. Len(t)
      BY <1>10
    <3>4. h[m] = IF t[m] = Template THEN h[m - 1] ELSE Append(h[m - 1], t[m])
      BY <1>7, <3>3 DEF Scrubbing
    <3> HIDE DEF m
    <3>5. CASE i < a
      <4>1. m = i /\ Moved(i - 1, a, b) = m - 1 /\ t[m] = text[i]
        BY <1>4, <1>6, <3>3, <3>5
      <4>2. Signs(text, i) + 1 # 2 * n
        BY <1>4, <1>6, <3>5
      <4> QED
        BY <3>1, <3>2, <3>4, <4>1, <4>2, <1>4 DEF m
    <3>6. CASE i = a
      <4>1. m = a /\ Moved(i - 1, a, b) = m - 1 /\ t[m] = Fuzz
        BY <1>4, <1>5, <3>3, <3>6
      <4>2. Signs(text, i) + 1 = 2 * n /\ text[i] = Template
        BY <1>1, <1>4, <1>6, <3>6
      <4> QED
        BY <3>1, <3>2, <3>4, <4>1, <4>2, <1>4 DEF m
    <3>7. CASE a < i /\ i < b
      <4>1. m = a /\ Moved(i - 1, a, b) = a
        BY <1>4, <3>3, <3>7
      <4>2. Signs(text, i) + 1 = 2 * n /\ text[i] # Template
        BY <1>4, <1>6, <3>7
      <4> QED
        BY <3>1, <3>2, <4>1, <4>2, <1>4 DEF m
    <3>8. CASE i = b
      <4>1. m = a /\ Moved(i - 1, a, b) = a
        BY <1>1, <1>4, <3>3, <3>8
      <4>2. Signs(text, i) + 1 # 2 * n /\ text[i] = Template
        BY <1>1, <1>4, <1>6, <3>8
      <4> QED
        BY <3>1, <3>2, <4>1, <4>2, <1>4 DEF m
    <3>9. CASE b < i
      <4>1. m = i - (b - a) /\ Moved(i - 1, a, b) = m - 1 /\ t[m] = text[i]
        BY <1>4, <1>6, <3>3, <3>9
      <4>2. Signs(text, i) + 1 # 2 * n
        BY <1>4, <1>6, <3>9
      <4> QED
        BY <3>1, <3>2, <3>4, <4>1, <4>2, <1>4 DEF m
    <3> QED
      BY <1>1, <1>4, <3>5, <3>6, <3>7, <3>8, <3>9
  <2>3. N \in U
    <3> HIDE DEF U
    <3>1. 0 .. N \subseteq U
      BY <1>3, <2>1, <2>2, RangeInduction
    <3> QED
      BY <1>3, <3>1
  <2> QED
    BY <1>7, <1>8, <1>9, <2>3 DEF Scrubbing, Trying, N
<1>12. Count(t) = Count(text) - 2
  <2> DEFINE Less(i) == IF i < a THEN 0 ELSE IF i < b THEN 1 ELSE 2
             U == {i \in 0 .. N : Signs(t, Moved(i, a, b)) = Signs(text, i) - Less(i)}
  <2>1. 0 \in U
    <3>1. Signs(t, 0) = 0 /\ Signs(text, 0) = 0
      BY SignSteps
    <3>2. 0 < a /\ 0 \in 0 .. N
      BY <1>1, <1>3
    <3> QED
      BY <1>9, <3>1, <3>2
  <2>2. ASSUME NEW i \in 1 .. N, i - 1 \in U PROVE i \in U
    <3> DEFINE m == Moved(i, a, b)
    <3>1. Signs(t, Moved(i - 1, a, b)) = Signs(text, i - 1) - Less(i - 1)
      BY <2>2
    <3>2. /\ i <= a => m = i /\ Moved(i - 1, a, b) = i - 1
          /\ a < i /\ i <= b => m = a /\ Moved(i - 1, a, b) = a
          /\ b < i => m = i - (b - a) /\ Moved(i - 1, a, b) = (i - (b - a)) - 1
          /\ m \in 1 .. Len(t)
      BY <1>10
    <3>3. i \in Nat /\ i # 0 /\ i - 1 \in Nat /\ m \in Nat /\ m # 0 /\ i \in 0 .. N
      BY <1>4, <3>2
    <3> HIDE DEF m
    <3>4. Signs(t, m) = IF t[m] = Template THEN Signs(t, m - 1) + 1 ELSE Signs(t, m - 1)
      BY <3>3, SignSteps
    <3>5. Signs(text, i) = IF text[i] = Template THEN Signs(text, i - 1) + 1
                           ELSE Signs(text, i - 1)
      BY <3>3, SignSteps
    <3>6. Signs(text, i) \in Nat /\ Signs(text, i - 1) \in Nat
      BY <3>3, SignSteps
    <3>7. CASE i < a
      <4>1. m = i /\ Moved(i - 1, a, b) = m - 1 /\ t[m] = text[i]
        BY <1>4, <1>6, <3>2, <3>7
      <4>2. Less(i) = 0 /\ Less(i - 1) = 0
        BY <1>4, <3>3, <3>7
      <4> QED
        BY <3>1, <3>3, <3>4, <3>5, <3>6, <4>1, <4>2 DEF m
    <3>8. CASE i = a
      <4>1. m = a /\ Moved(i - 1, a, b) = m - 1 /\ t[m] = Fuzz
        BY <1>4, <1>5, <3>2, <3>8
      <4>2. Less(i) = 1 /\ Less(i - 1) = 0 /\ text[i] = Template
        BY <1>1, <1>4, <3>3, <3>8
      <4> QED
        BY <3>1, <3>3, <3>4, <3>5, <3>6, <4>1, <4>2 DEF m
    <3>9. CASE a < i /\ i < b
      <4>1. m = a /\ Moved(i - 1, a, b) = a
        BY <1>4, <3>2, <3>9
      <4>2. Less(i) = 1 /\ Less(i - 1) = 1 /\ text[i] # Template
        BY <1>4, <1>6, <3>3, <3>9
      <4> QED
        BY <3>1, <3>3, <3>5, <3>6, <4>1, <4>2 DEF m
    <3>10. CASE i = b
      <4>1. m = a /\ Moved(i - 1, a, b) = a
        BY <1>1, <1>4, <3>2, <3>10
      <4>2. Less(i) = 2 /\ Less(i - 1) = 1 /\ text[i] = Template
        BY <1>1, <1>4, <3>3, <3>10
      <4> QED
        BY <3>1, <3>3, <3>5, <3>6, <4>1, <4>2 DEF m
    <3>11. CASE b < i
      <4>1. m = i - (b - a) /\ Moved(i - 1, a, b) = m - 1 /\ t[m] = text[i]
        BY <1>4, <1>6, <3>2, <3>11
      <4>2. Less(i) = 2 /\ Less(i - 1) = 2
        BY <1>1, <1>4, <3>3, <3>11
      <4> QED
        BY <3>1, <3>3, <3>4, <3>5, <3>6, <4>1, <4>2 DEF m
    <3> QED
      BY <1>1, <1>4, <3>7, <3>8, <3>9, <3>10, <3>11
  <2>3. N \in U
    <3> HIDE DEF U
    <3>1. 0 .. N \subseteq U
      BY <1>3, <2>1, <2>2, RangeInduction
    <3> QED
      BY <1>3, <3>1
  <2>4. Less(N) = 2
    BY <1>1, <1>3, <1>4
  <2>5. Signs(t, Len(t)) = Signs(text, N) - 2
    BY <1>9, <2>3, <2>4
  <2>6. Count(t) = Signs(t, Len(t))
    BY <1>5, LocationFacts DEF Count
  <2> QED
    BY <1>2, <2>5, <2>6 DEF Count, q
<1> QED
  BY <1>5, <1>11, <1>12 DEF t, a, b, q

\* Texts in which the keyword stands nowhere, and in which it stands once.
Never(s) == \A i \in DOMAIN s : s[i] # Fuzz
Once(s)  == \E k \in DOMAIN s : \A i \in DOMAIN s : s[i] = Fuzz <=> i = k

LEMMA OneMoreToken ==
  ASSUME NEW s, IsSequence(s), NEW x
  PROVE  /\ Never(s) /\ x # Fuzz => Never(Append(s, x))
         /\ Never(s) => Once(Append(s, Fuzz))
         /\ Once(s) /\ x # Fuzz => Once(Append(s, x))
<1>1. ASSUME NEW y
      PROVE  /\ Len(s) \in Nat /\ DOMAIN s = 1 .. Len(s)
             /\ DOMAIN Append(s, y) = 1 .. Len(s) + 1
             /\ Append(s, y)[Len(s) + 1] = y
             /\ \A i \in 1 .. Len(s) : Append(s, y)[i] = s[i]
  <2> DEFINE t == Append(s, y)
  <2>1. Len(s) \in Nat /\ DOMAIN s = 1 .. Len(s) /\ DOMAIN t = 1 .. Len(s) + 1
    BY AppendFacts
  <2>2. t[Len(s) + 1] = y /\ \A i \in 1 .. Len(s) : t[i] = s[i]
    BY AppendFacts
  <2> QED
    BY <2>1, <2>2
<1> DEFINE N == Len(s)
<1>2. /\ N \in Nat /\ N + 1 \in 1 .. N + 1
      /\ \A i \in 1 .. N + 1 : i = N + 1 \/ i \in 1 .. N
      /\ \A i \in 1 .. N : i \in 1 .. N + 1 /\ i # N + 1
  BY <1>1
<1> HIDE DEF N
<1>3. Never(s) /\ x # Fuzz => Never(Append(s, x))
  BY <1>1, <1>2 DEF Never, N
<1>4. ASSUME Never(s) PROVE Once(Append(s, Fuzz))
  <2> DEFINE t == Append(s, Fuzz)
  <2>1. /\ DOMAIN t = 1 .. N + 1 /\ t[N + 1] = Fuzz
        /\ \A i \in 1 .. N : t[i] = s[i] /\ s[i] # Fuzz
    BY <1>1, <1>4 DEF Never, N
  <2> HIDE DEF t
  <2>2. \A i \in DOMAIN t : t[i] = Fuzz <=> i = N + 1
    BY <1>2, <2>1
  <2>3. Once(t)
    BY <1>2, <2>1, <2>2 DEF Once
  <2> QED
    BY <2>3 DEF t
<1>5. ASSUME Once(s), x # Fuzz PROVE Once(Append(s, x))
  <2> DEFINE t == Append(s, x)
  <2>1. PICK k \in 1 .. N : \A i \in 1 .. N : s[i] = Fuzz <=> i = k
    BY <1>1, <1>5 DEF Once, N
  <2>2. DOMAIN t = 1 .. N + 1 /\ t[N + 1] = x /\ \A i \in 1 .. N : t[i] = s[i]
    BY <1>1 DEF N
  <2> HIDE DEF t
  <2>3. k \in DOMAIN t /\ k # N + 1
    BY <1>2, <2>2
  <2>4. \A i \in DOMAIN t : t[i] = Fuzz <=> i = k
    BY <1>2, <1>5, <2>1, <2>2, <2>3
  <2>5. Once(t)
    BY <2>3, <2>4 DEF Once
  <2> QED
    BY <2>5 DEF t
<1> QED
  BY <1>3, <1>4, <1>5

(* The keyword comes into a text with the pair that is tried. *)
LEMMA TriedKeyword ==
  ASSUME NEW text, IsSequence(text), ~Contains(text, Fuzz)
  PROVE  /\ Never(Tried(text, 0))
         /\ \A n \in 1 .. Count(text) \div 2 : Once(Tried(text, n))
<1> DEFINE N == Len(text)
<1>1. N \in Nat /\ \A i \in 1 .. N : text[i] # Fuzz /\ i \in Nat /\ i - 1 \in 0 .. N /\ i \in 0 .. N
  <2>1. N \in Nat
    BY DEF IsSequence
  <2>2. \A i \in 1 .. N : text[i] # Fuzz
    BY DEF Contains
  <2> QED
    BY <2>1, <2>2
<1>2. Never(<<>>)
  BY DEF Never
<1>3. Never(Tried(text, 0))
  <2>1. PICK v : Trying(v, text, 0)
    BY TriedSteps
  <2>2. /\ v[0] = <<>> /\ \A i \in 0 .. N : IsSequence(v[i])
        /\ \A i \in 1 .. N :
             /\ text[i] = Template /\ Signs(text, i) + 1 # 2 * 0 => v[i] = v[i - 1]
             /\ text[i] # Template /\ Signs(text, i) + 1 # 2 * 0 =>
                  v[i] = Append(v[i - 1], text[i])
        /\ Tried(text, 0) = v[N]
    BY <2>1 DEF Trying
  <2> DEFINE U == {i \in 0 .. N : Never(v[i])}
  <2> HIDE DEF N
  <2>3. 0 \in U
    BY <1>1, <1>2, <2>2
  <2>4. ASSUME NEW i \in 1 .. N, i - 1 \in U PROVE i \in U
    <3>1. Signs(text, i) + 1 # 2 * 0
      BY <1>1, SignSteps
    <3>2. Never(v[i - 1]) /\ IsSequence(v[i - 1]) /\ text[i] # Fuzz
      BY <1>1, <2>2, <2>4
    <3>3. Never(v[i])
      BY <2>2, <3>1, <3>2, OneMoreToken
    <3> QED
      BY <1>1, <3>3
  <2>5. N \in U
    <3> HIDE DEF U
    <3>1. 0 .. N \subseteq U
      BY <1>1, <2>3, <2>4, RangeInduction
    <3> QED
      BY <1>1, <3>1
  <2> QED
    BY <2>2, <2>5
<1>4. ASSUME NEW n \in 1 .. Count(text) \div 2 PROVE Once(Tried(text, n))
  <2> DEFINE q == templateLocations(text)
             a == q[2 * n - 1]  b == q[2 * n]
  <2>1. PICK v : Trying(v, text, n)
    BY TriedSteps
  <2>2. /\ v[0] = <<>> /\ \A i \in 0 .. N : IsSequence(v[i])
        /\ \A i \in 1 .. N :
             /\ text[i] = Template /\ Signs(text, i) + 1 = 2 * n => v[i] = Append(v[i - 1], Fuzz)
             /\ text[i] = Template /\ Signs(text, i) + 1 # 2 * n => v[i] = v[i - 1]
             /\ text[i] # Template /\ Signs(text, i) + 1 = 2 * n => v[i] = v[i - 1]
             /\ text[i] # Template /\ Signs(text, i) + 1 # 2 * n =>
                  v[i] = Append(v[i - 1], text[i])
        /\ Tried(text, n) = v[N]
    BY <2>1 DEF Trying
  <2>3. /\ a \in 1 .. N /\ b \in 1 .. N /\ a < b /\ text[a] = Template
        /\ \A i \in 1 .. N : Signs(text, i) = 2 * n - 1 <=> a <= i /\ i < b
        /\ \A i \in 1 .. N : text[i] = Template /\ i # a => ~(a <= i /\ i < b)
    BY PairFacts
  <2> HIDE DEF N, a, b, q
  <2>4. a \in Nat /\ b \in Nat /\ n \in Nat
    <3>1. Count(text) \in Nat
      BY LocationFacts, SequenceNames DEF Count
    <3> QED
      BY <1>1, <2>3, <3>1
  <2>5. ASSUME NEW i \in 1 .. N
        PROVE  Signs(text, i) + 1 = 2 * n <=> a <= i /\ i < b
    <3>1. Signs(text, i) \in Nat
      BY <1>1, SignSteps
    <3> QED
      BY <2>3, <2>4, <3>1
  <2> DEFINE U == {i \in 0 .. N : IF i < a THEN Never(v[i]) ELSE Once(v[i])}
  <2>6. 0 \in U
    BY <1>1, <1>2, <2>2, <2>3
  <2>7. ASSUME NEW i \in 1 .. N, i - 1 \in U PROVE i \in U
    <3>1. IF i - 1 < a THEN Never(v[i - 1]) ELSE Once(v[i - 1])
      BY <2>7
    <3>2. IsSequence(v[i - 1]) /\ text[i] # Fuzz
      BY <1>1, <2>2
    <3>3. CASE i < a
      <4>1. Never(v[i - 1]) /\ Signs(text, i) + 1 # 2 * n
        BY <1>1, <2>4, <2>5, <3>1, <3>3
      <4>2. Never(v[i])
        BY <2>2, <3>2, <4>1, OneMoreToken
      <4> QED
        BY <1>1, <3>3, <4>2
    <3>4. CASE i = a
      <4>1. Never(v[i - 1]) /\ Signs(text, i) + 1 = 2 * n /\ text[i] = Template
        BY <1>1, <2>3, <2>4, <2>5, <3>1, <3>4
      <4>2. Once(v[i])
        BY <2>2, <3>2, <4>1, OneMoreToken
      <4> QED
        BY <1>1, <2>4, <3>4, <4>2
    <3>5. CASE a < i
      <4>1. Once(v[i - 1])
        BY <1>1, <2>4, <3>1, <3>5
      <4>2. text[i] = Template => Signs(text, i) + 1 # 2 * n
        BY <1>1, <2>3, <2>4, <2>5, <3>5
      <4>3. Once(v[i])
        BY <2>2, <3>2, <4>1, <4>2, OneMoreToken
      <4> QED
        BY <1>1, <2>4, <3>5, <4>3
    <3> QED
      BY <1>1, <2>4, <3>3, <3>4, <3>5
  <2>8. N \in U
    <3> HIDE DEF U
    <3>1. 0 .. N \subseteq U
      BY <1>1, <2>6, <2>7, RangeInduction
    <3> QED
      BY <1>1, <3>1
  <2> QED
    BY <1>1, <2>2, <2>3, <2>8
<1> QED
  BY <1>3, <1>4

\* A request that sniper mode starts from.
Sniped(base) ==
  /\ DOMAIN base = Parts
  /\ \A part \in Parts : /\ IsSequence(base[part]) /\ ~Contains(base[part], Fuzz)
                         /\ Even(Count(base[part]))

LEMMA PlaceFacts ==
  ASSUME NEW base, NEW l
  PROVE  l \in Places(base) <=>
           /\ l.part \in Parts /\ Even(Count(base[l.part]))
           /\ l.pair \in 1 .. (Count(base[l.part]) \div 2)
           /\ l = [part |-> l.part, pair |-> l.pair]
<1> DEFINE In(q) == {[part |-> q, pair |-> i] : i \in 1 .. (Count(base[q]) \div 2)}
           S == {q \in Parts : Even(Count(base[q]))}
<1>1. Places(base) = UNION {In(q) : q \in S}
  BY DEF Places
<1>2. \A q : l \in In(q) <=> /\ l.part = q /\ l = [part |-> l.part, pair |-> l.pair]
                             /\ l.pair \in 1 .. (Count(base[q]) \div 2)
  OBVIOUS
<1> HIDE DEF In
<1> QED
  BY <1>1, <1>2

(* One request of sniper mode: its part with the pair that is tried, and the
   others without their signs. *)
LEMMA SniperParts ==
  ASSUME NEW base, Sniped(base), NEW l \in Places(base)
  PROVE  /\ l.part \in Parts /\ l.pair \in 1 .. Count(base[l.part]) \div 2
         /\ \A part \in Parts :
              SniperRequest(base, l)[part] =
                Tried(base[part], IF part = l.part THEN l.pair ELSE 0)
<1> DEFINE x == l.part  n == l.pair
           q == templateLocations(base[x])
           t == injectKeyword(base[x], q[2 * n - 1], q[2 * n])
           req == [base EXCEPT ![x] = t]
<1>1. x \in Parts /\ n \in 1 .. Count(base[x]) \div 2
  BY PlaceFacts
<1>2. SniperRequest(base, l) = scrubTemplates(req)
  BY DEF SniperRequest
<1>3. IsSequence(base[x]) /\ Even(Count(base[x])) /\ Fuzz # Template
  BY <1>1, StartupAssumption DEF Sniped
<1>4. IsSequence(t) /\ Scrubbed(t) = Tried(base[x], n) /\ Count(t) = Count(base[x]) - 2
  BY <1>1, <1>3, TriedPair
<1>5. Even(Count(t))
  <2>1. Count(base[x]) \in Nat
    BY <1>3, LocationFacts, SequenceNames DEF Count
  <2> QED
    BY <1>3, <1>4, <2>1 DEF Even
<1>6. DOMAIN base = Parts
  BY DEF Sniped
<1> HIDE DEF t, x, n
<1>7. ASSUME NEW part \in Parts
      PROVE  scrubTemplates(req)[part] = Tried(base[part], IF part = x THEN n ELSE 0)
  <2>1. CASE part = x
    <3>1. req[part] = t
      BY <1>6, <2>1
    <3>2. scrubTemplates(req)[part] = Scrubbed(t)
      BY <1>5, <3>1 DEF scrubTemplates
    <3> QED
      BY <1>4, <2>1, <3>2
  <2>2. CASE part # x
    <3>1. req[part] = base[part]
      BY <1>6, <2>2
    <3>2. IsSequence(base[part]) /\ Even(Count(base[part]))
      BY DEF Sniped
    <3>3. scrubTemplates(req)[part] = Scrubbed(base[part])
      BY <3>1, <3>2 DEF scrubTemplates
    <3>4. Tried(base[part], 0) = Scrubbed(base[part])
      BY <3>2, TriedNone
    <3> QED
      BY <2>2, <3>3, <3>4
  <2> QED
    BY <2>1, <2>2
<1> QED
  BY <1>1, <1>2, <1>7 DEF x, n

(* Every sign is in a place. *)
LEMMA SignsPlaced ==
  ASSUME NEW base, Sniped(base), NEW part \in Parts, NEW i \in DOMAIN base[part],
         base[part][i] = Template
  PROVE  [part |-> part, pair |-> (Signs(base[part], i) + 1) \div 2] \in Places(base)
<1> DEFINE text == base[part]  N == Len(text)
           l == [part |-> part, pair |-> (Signs(text, i) + 1) \div 2]
<1>1. IsSequence(text) /\ Even(Count(text))
  BY DEF Sniped
<1>2. N \in Nat /\ DOMAIN text = 1 .. N /\ Count(text) = Signs(text, N)
  BY <1>1, SequenceNames, LocationFacts DEF Count
<1>3. i \in Nat /\ i <= N /\ i # 0 /\ i - 1 \in Nat
  BY <1>2
<1>4. text[i] = Template
  OBVIOUS
<1> HIDE DEF N, text
<1>5. /\ Signs(text, i) \in Nat /\ Signs(text, i - 1) \in Nat
      /\ Signs(text, N) \in Nat
  BY <1>2, <1>3, SignSteps
<1>6. Signs(text, i) = Signs(text, i - 1) + 1
  BY <1>3, <1>4, SignSteps
<1>7. Signs(text, i) <= Signs(text, N)
  BY <1>2, <1>3, SignsGrow
<1>8. (Signs(text, i) + 1) \div 2 \in 1 .. (Count(text) \div 2)
  <2> DEFINE s == Signs(text, i)  m == Count(text)
  <2>1. s \in Nat /\ s >= 1 /\ m \in Nat /\ s <= m /\ m % 2 = 0
    BY <1>1, <1>2, <1>5, <1>6, <1>7 DEF Even
  <2> HIDE DEF s, m
  <2>2. (s + 1) \div 2 \in 1 .. (m \div 2)
    BY <2>1
  <2> QED
    BY <2>2 DEF s, m
<1>9. l.part = part /\ l.pair = (Signs(text, i) + 1) \div 2
      /\ l = [part |-> l.part, pair |-> l.pair]
  OBVIOUS
<1> HIDE DEF l
<1>10. l \in Places(base)
  BY <1>1, <1>8, <1>9, PlaceFacts DEF text
<1> QED
  BY <1>10 DEF l, text

\* The jobs that Start makes of a configured request.
JobsOf(base, url) ==
  {[url |-> url, depth |-> 0, place |-> l, req |-> SniperRequest(base, l)] :
     l \in Places(base)}

LEMMA SniperJobs ==
  ASSUME NEW base, Sniped(base), NEW url
  PROVE  OneJobEach(base, JobsOf(base, url))
<1> DEFINE J(l) == [url |-> url, depth |-> 0, place |-> l, req |-> SniperRequest(base, l)]
           jobs == {J(l) : l \in Places(base)}
<1>1. \A l : J(l).place = l /\ J(l).req = SniperRequest(base, l)
  OBVIOUS
<1> HIDE DEF J
<1>2. ASSUME NEW l \in Places(base)
      PROVE  /\ \A part \in Parts :
                  SniperRequest(base, l)[part] =
                    Tried(base[part], IF part = l.part THEN l.pair ELSE 0)
             /\ \E part \in Parts : \E i \in DOMAIN SniperRequest(base, l)[part] :
                  \A q \in Parts : \A k \in DOMAIN SniperRequest(base, l)[q] :
                    SniperRequest(base, l)[q][k] = Fuzz <=> q = part /\ k = i
  <2> DEFINE req == SniperRequest(base, l)  x == l.part
  <2>1. /\ x \in Parts /\ l.pair \in 1 .. Count(base[x]) \div 2
        /\ \A part \in Parts :
             req[part] = Tried(base[part], IF part = x THEN l.pair ELSE 0)
    BY SniperParts
  <2>2. \A part \in Parts : IsSequence(base[part]) /\ ~Contains(base[part], Fuzz)
    BY DEF Sniped
  <2> HIDE DEF req, x
  <2>3. Once(req[x])
    BY <2>1, <2>2, TriedKeyword
  <2>4. \A part \in Parts : part # x => Never(req[part])
    BY <2>1, <2>2, TriedKeyword
  <2>5. PICK i \in DOMAIN req[x] : \A k \in DOMAIN req[x] : req[x][k] = Fuzz <=> k = i
    BY <2>3 DEF Once
  <2>6. \A q \in Parts : \A k \in DOMAIN req[q] : req[q][k] = Fuzz <=> q = x /\ k = i
    BY <2>4, <2>5 DEF Never
  <2>7. \E part \in Parts : \E m \in DOMAIN req[part] :
          \A q \in Parts : \A k \in DOMAIN req[q] : req[q][k] = Fuzz <=> q = part /\ k = m
    BY <2>1, <2>5, <2>6
  <2> QED
    BY <2>1, <2>7 DEF req, x
<1>3. ASSUME NEW part \in Parts, NEW i \in DOMAIN base[part], base[part][i] = Template
      PROVE  Cardinality({j \in jobs : j.place =
               [part |-> part, pair |-> (Signs(base[part], i) + 1) \div 2]}) = 1
  <2> DEFINE l == [part |-> part, pair |-> (Signs(base[part], i) + 1) \div 2]
  <2>1. l \in Places(base)
    BY <1>3, SignsPlaced
  <2> HIDE DEF l
  <2>2. {j \in jobs : j.place = l} = {J(l)}
    BY <1>1, <2>1
  <2>3. Cardinality({J(l)}) = 1
    BY FS_Singleton
  <2>4. Cardinality({j \in jobs : j.place = l}) = 1
    BY <2>2, <2>3
  <2> QED
    BY <2>4 DEF l
<1>4. \A j \in jobs : \E l \in Places(base) : j.place = l /\ j.req = SniperRequest(base, l)
  BY <1>1
<1> HIDE DEF jobs
<1>5. OneJobEach(base, jobs)
  <2>1. \A j \in jobs : \A part \in Parts :
          j.req[part] = Tried(base[part], IF part = j.place.part THEN j.place.pair ELSE 0)
    BY <1>2, <1>4
  <2>2. \A j \in jobs : \E part \in Parts : \E i \in DOMAIN j.req[part] :
          \A q \in Parts : \A k \in DOMAIN j.req[q] :
            j.req[q][k] = Fuzz <=> q = part /\ k = i
    <3> TAKE j \in jobs
    <3>1. PICK l \in Places(base) : j.req = SniperRequest(base, l)
      BY <1>4
    <3> QED
      BY <1>2, <3>1
  <2> QED
    BY <1>3, <2>1, <2>2 DEF OneJobEach
<1> QED
  BY <1>5 DEF jobs, J, JobsOf

\* The headers before the first of a list is set and after each one.
Setting(h, headers, list) ==
  /\ h[0] = headers
  /\ \A i \in 1 .. Len(list) : h[i] = SetHeader(h[i - 1], list[i])
  /\ SetHeaders(headers, list) = h[Len(list)]

LEMMA HeaderSteps ==
  ASSUME NEW headers, NEW list, IsSequence(list)
  PROVE  \E h : Setting(h, headers, list)
<1> DEFINE N == Len(list)
           Step(g, i) == IF i = 0 THEN headers ELSE SetHeader(g[i - 1], list[i])
           h == CHOOSE g : g = [i \in 0 .. N |-> Step(g, i)]
<1>1. SetHeaders(headers, list) = h[N]
  BY DEF SetHeaders
<1>2. N \in Nat
  BY DEF IsSequence
<1> HIDE DEF N
<1>3. \E g : g = [i \in 0 .. N |-> Step(g, i)]
  <2> DEFINE Upto(m, g) == g = [i \in 0 .. m |-> Step(g, i)]
             T == {m \in 0 .. N : \E g : Upto(m, g)}
  <2>1. 0 \in T
    <3> DEFINE g == [i \in 0 .. 0 |-> headers]
    <3>1. Upto(0, g)
      OBVIOUS
    <3> HIDE DEF Upto, g
    <3> QED
      BY <1>2, <3>1
  <2>2. ASSUME NEW m \in 1 .. N, m - 1 \in T PROVE m \in T
    <3>1. PICK g : Upto(m - 1, g)
      BY <2>2
    <3> DEFINE k == [i \in 0 .. m |-> Step(g, i)]
    <3>2. \A i \in 1 .. m : i - 1 \in 0 .. m - 1 /\ k[i - 1] = g[i - 1]
      <4>1. \A j \in 0 .. m - 1 : g[j] = Step(g, j)
        BY <3>1
      <4>2. \A j \in 0 .. m : k[j] = Step(g, j)
        OBVIOUS
      <4>3. \A i \in 1 .. m : i - 1 \in 0 .. m - 1 /\ i - 1 \in 0 .. m
        BY <1>2
      <4> HIDE DEF k, Step
      <4> QED
        BY <4>1, <4>2, <4>3
    <3>3. \A i \in 0 .. m : Step(k, i) = Step(g, i)
      <4> HIDE DEF k
      <4> QED
        BY <3>2
    <3>4. Upto(m, k)
      BY <3>3
    <3> HIDE DEF Upto, k
    <3> QED
      BY <3>4
  <2>3. N \in T
    <3> HIDE DEF T
    <3> QED
      BY <1>2, <2>1, <2>2, RangeInduction
  <2> QED
    BY <2>3
<1>4. h = [i \in 0 .. N |-> Step(h, i)]
  BY <1>3
<1> HIDE DEF h
<1>5. \A i \in 0 .. N : h[i] = Step(h, i)
  BY <1>4
<1>6. h[0] = headers /\ \A i \in 1 .. N : h[i] = SetHeader(h[i - 1], list[i])
  BY <1>2, <1>5
<1>7. Setting(h, headers, list)
  BY <1>1, <1>6 DEF Setting, N
<1> QED
  BY <1>7

\* Header values that are texts.
HeadersOK(headers) == \A name \in DOMAIN headers : IsSequence(headers[name])

LEMMA HeaderTexts ==
  ASSUME NEW headers, HeadersOK(headers), NEW list, IsSequence(list),
         \A x \in ToSet(list) : IsSequence(x.value)
  PROVE  HeadersOK(SetHeaders(headers, list))
<1> DEFINE N == Len(list)
<1>1. PICK h : Setting(h, headers, list)
  BY HeaderSteps
<1>2. N \in Nat /\ \A i \in 1 .. N : list[i] \in ToSet(list)
  BY SequenceNames DEF ToSet
<1>3. /\ h[0] = headers /\ SetHeaders(headers, list) = h[N]
      /\ \A i \in 1 .. N : h[i] = SetHeader(h[i - 1], list[i])
  BY <1>1 DEF Setting
<1> HIDE DEF N
<1> DEFINE U == {i \in 0 .. N : HeadersOK(h[i])}
<1>4. 0 \in U
  BY <1>2, <1>3
<1>5. ASSUME NEW i \in 1 .. N, i - 1 \in U PROVE i \in U
  <2>1. HeadersOK(h[i - 1]) /\ IsSequence(list[i].value) /\ i \in 0 .. N
    BY <1>2, <1>5
  <2>2. h[i] = Over([name \in {list[i].name} |-> list[i].value], h[i - 1])
    BY <1>3 DEF SetHeader
  <2>3. HeadersOK(h[i])
    BY <2>1, <2>2 DEF Over, HeadersOK
  <2> QED
    BY <2>1, <2>3
<1>6. N \in U
  <2> HIDE DEF U
  <2>1. 0 .. N \subseteq U
    BY <1>2, <1>4, <1>5, RangeInduction
  <2> QED
    BY <1>2, <2>1
<1> QED
  BY <1>3, <1>6

(* What is configured are texts, those of the request file and of the options. *)
LEMMA FieldTexts ==
  ASSUME NEW o, OptionsOK(o)
  PROVE  TextsOK(RequestFields(o))
<1> DEFINE raw == parseRawRequest(o)  f == RequestFields(o)
           data == Or(o.data, raw.data)  method == Or(o.method, raw.method)
<1>1. IsSequence(<<>>) /\ IsSequence(<<"GET">>) /\ IsSequence(<<"POST">>)
  BY DEF IsSequence, ToSet
<1>2. TextsOK(raw)
  <2>1. CASE o.request \in DOMAIN RequestFiles
    BY <2>1, StartupAssumption DEF parseRawRequest
  <2>2. CASE o.request \notin DOMAIN RequestFiles
    <3>1. raw = NewConfig
      BY <2>2 DEF parseRawRequest
    <3>2. /\ NewConfig.method = <<"GET">> /\ NewConfig.url = <<>>
          /\ NewConfig.data = <<>> /\ DOMAIN NewConfig.headers = {}
      BY DEF NewConfig
    <3> QED
      BY <1>1, <3>1, <3>2 DEF TextsOK
  <2> QED
    BY <2>1, <2>2
<1>3. IsSequence(o.url) /\ IsSequence(o.method) /\ IsSequence(o.data)
  BY OptionNames DEF OptionsOK, OptionOK, Scalars
<1>4. /\ IsSequence(o.headers) /\ IsSequence(o.cookies)
      /\ \A h \in ToSet(o.headers) : IsSequence(h.value)
  BY OptionNames DEF OptionsOK, OptionOK, Appended
<1>5. /\ IsSequence(effectiveHeaders(o))
      /\ \A h \in ToSet(effectiveHeaders(o)) : IsSequence(h.value)
  <2> DEFINE cookie == [name |-> <<"Cookie">>, value |-> o.cookies]
             t == Append(o.headers, cookie)
  <2>1. IsSequence(<<cookie>>) /\ ToSet(<<cookie>>) = {cookie}
    BY DEF IsSequence, ToSet
  <2>2. cookie.value = o.cookies
    OBVIOUS
  <2>3. effectiveHeaders(o) = IF o.cookies = <<>> THEN o.headers ELSE t
    BY DEF effectiveHeaders
  <2> HIDE DEF cookie
  <2>4. t = o.headers \o <<cookie>>
    BY <1>4, AppendFacts
  <2>5. IsSequence(t) /\ ToSet(t) = ToSet(o.headers) \cup {cookie}
    BY <1>4, <2>1, <2>4, Joined
  <2> HIDE DEF t
  <2> QED
    BY <1>4, <2>2, <2>3, <2>5
<1>6. /\ f.method = MethodOf(o, method, data) /\ f.url = Or(o.url, raw.url)
      /\ f.data = data /\ f.headers = SetHeaders(raw.headers, effectiveHeaders(o))
  BY DEF RequestFields
<1> HIDE DEF raw, f
<1>7. IsSequence(f.url) /\ IsSequence(f.data) /\ IsSequence(method)
  BY <1>2, <1>3, <1>6 DEF Or, TextsOK
<1>8. IsSequence(f.method)
  BY <1>1, <1>6, <1>7 DEF MethodOf
<1>9. HeadersOK(f.headers)
  <2>1. HeadersOK(raw.headers)
    BY <1>2 DEF TextsOK, HeadersOK
  <2> QED
    BY <1>5, <1>6, <2>1, HeaderTexts
<1>10. TextsOK(f)
  BY <1>7, <1>8, <1>9 DEF TextsOK, HeadersOK
<1> QED
  BY <1>10 DEF f

LEMMA BaseTexts ==
  ASSUME NEW c, TextsOK(c), NEW part \in Parts
  PROVE  IsSequence(BaseRequest(c)[part])
<1>1. IsSequence(<<>>)
  BY DEF IsSequence, ToSet
<1>2. CASE part \in {Method, Url, Data}
  BY <1>2, PartNames DEF BaseRequest, TextsOK, Method, Url, Data
<1>3. CASE part \notin {Method, Url, Data}
  <2>1. PICK kind \in {"name", "value"}, name \in Headers : part = <<kind, name>>
    BY <1>3 DEF Parts, Method, Url, Data
  <2>2. part[1] = kind /\ part[2] = name /\ part # Method /\ part # Url /\ part # Data
    BY <1>3, <2>1
  <2>3. BaseRequest(c)[part] =
          IF kind = "name" THEN IF name \in DOMAIN c.headers THEN name ELSE <<>>
          ELSE IF name \in DOMAIN c.headers THEN c.headers[name] ELSE <<>>
    BY <2>1, <2>2 DEF BaseRequest
  <2> QED
    BY <1>1, <2>3, StartupAssumption DEF TextsOK
<1> QED
  BY <1>2, <1>3

(* What ConfigFromOptions lets through in sniper mode: every sign has its pair
   and no text has the keyword yet. *)
LEMMA SniperConf ==
  ASSUME NEW o, OptionsOK(o), NEW dir, ConfigFromOptions(o, dir).errors = {},
         ConfigFromOptions(o, dir).mode = "sniper"
  PROVE  Sniped(BaseRequest(ConfigFromOptions(o, dir)))
<1> DEFINE c == ConfigFromOptions(o, dir)
           f == RequestFields(o)
<1>1. templatePresent(BaseRequest(f)) /\ ~RequestContainsKeyword(BaseRequest(f), Fuzz)
  BY ConfigFacts
<1>2. /\ c.method = f.method /\ c.url = f.url /\ c.data = f.data /\ c.headers = f.headers
  BY ConfigFields
<1>3. TextsOK(f)
  BY FieldTexts
<1> HIDE DEF c, f
<1>4. /\ DOMAIN BaseRequest(c) = Parts /\ DOMAIN BaseRequest(f) = Parts
      /\ BaseRequest(c) = [BaseRequest(f) EXCEPT ![Url] = c.url]
      /\ BaseRequest(f)[Url] = c.url
  BY <1>2, BaseUrl, BaseParts
<1>5. \A part \in Parts : BaseRequest(c)[part] = BaseRequest(f)[part]
  BY <1>4
<1>6. ASSUME NEW part \in Parts
      PROVE  /\ IsSequence(BaseRequest(c)[part])
             /\ ~Contains(BaseRequest(c)[part], Fuzz)
             /\ Even(Count(BaseRequest(c)[part]))
  BY <1>1, <1>3, <1>5, BaseTexts DEF templatePresent, RequestContainsKeyword
<1>7. Sniped(BaseRequest(c))
  BY <1>4, <1>6 DEF Sniped
<1> QED
  BY <1>7 DEF c

LEMMA JobsAtStart ==
  ASSUME ScanInv, NEW p \in Processes, Start(p), conf[p].mode = "sniper"
  PROVE  OneJobEach(BaseRequest(conf[p]), queue'[p])
<1> DEFINE c == Chosen(p)  base == BaseRequest(conf[p])
<1>1. /\ pc[p] = "built"
      /\ queue' = [queue EXCEPT ![p] =
           IF conf[p].mode = "sniper"
           THEN {[url |-> conf[p].url, depth |-> 0, place |-> l,
                  req |-> SniperRequest(base, l)] : l \in Places(base)}
           ELSE {[url |-> conf[p].url, depth |-> 0, req |-> base]}]
  BY DEF Start
<1>2. queue'[p] = JobsOf(base, conf[p].url)
  BY <1>1, Memory DEF JobsOf
<1>3. /\ OptionsOK(opts[p]) /\ c.errors = {} /\ conf[p].mode = c.mode
      /\ base = [BaseRequest(c) EXCEPT ![Url] = conf[p].url]
  BY <1>1, RunningConf
<1>4. conf[p].url = c.url
  BY <1>1 DEF ScanInv, ConfInv
<1>5. Sniped(BaseRequest(c))
  BY <1>3, SniperConf DEF Chosen
<1>6. DOMAIN BaseRequest(c) = Parts /\ BaseRequest(c)[Url] = c.url /\ DOMAIN base = Parts
  BY BaseParts
<1> HIDE DEF c, base
<1>7. \A part \in Parts : base[part] = BaseRequest(c)[part]
  BY <1>3, <1>4, <1>6
<1>8. Sniped(base)
  BY <1>5, <1>6, <1>7 DEF Sniped
<1>9. OneJobEach(base, queue'[p])
  BY <1>2, <1>8, SniperJobs
<1> QED
  BY <1>9 DEF base

\* A scan in sniper mode that has taken no job yet.
Begun(p) == /\ pc[p] = "running" /\ conf[p].mode = "sniper" /\ job[p] = NoJob
            /\ HeadersApart(BaseRequest(conf[p]))

LEMMA SniperNext == ScanInv /\ SniperOnePlaceEach /\ [Next]_vars => SniperOnePlaceEach'
<1> SUFFICES ASSUME ScanInv, SniperOnePlaceEach, [Next]_vars PROVE SniperOnePlaceEach'
  OBVIOUS
<1>1. SUFFICES ASSUME NEW q \in Processes, Begun(q)'
               PROVE  OneJobEach(BaseRequest(conf'[q]), queue'[q])
  BY DEF SniperOnePlaceEach, Begun
<1>2. Begun(q) => OneJobEach(BaseRequest(conf[q]), queue[q])
  BY DEF SniperOnePlaceEach, Begun
<1> DEFINE Same == /\ pc'[q] = pc[q] /\ conf'[q] = conf[q] /\ job'[q] = job[q]
                   /\ queue'[q] = queue[q]
<1>3. ASSUME Same PROVE OneJobEach(BaseRequest(conf'[q]), queue'[q])
  <2>1. Begun(q)
    BY <1>1, <1>3 DEF Begun
  <2> QED
    BY <1>2, <1>3, <2>1
<1>4. CASE UNCHANGED vars
  BY <1>3, <1>4 DEF vars, process
<1>5. ASSUME NEW p \in Processes,
             \/ ParseCommandLine(p) \/ LoadConfig(p) \/ Configure(p)
             \/ PrepareQueueJob(p) \/ WriteHistoryEntry(p)
             \/ Finish(p) \/ SearchHistory(p) \/ Killed(p)
      PROVE  Same
  <2>1. q # p => Same
    BY <1>5, Memory DEF ParseCommandLine, LoadConfig, Configure, PrepareQueueJob,
       WriteHistoryEntry, Finish, SearchHistory, Killed, End, Goto, Parse
  <2>2. pc'[p] # "running"
    BY <1>5, Memory DEF ParseCommandLine, LoadConfig, Configure, PrepareQueueJob,
       WriteHistoryEntry, Finish, SearchHistory, Killed, End, Goto, Parse, AfterParse
  <2> QED
    BY <1>1, <2>1, <2>2 DEF Begun
<1>6. ASSUME NEW p \in Processes, Start(p)
      PROVE  OneJobEach(BaseRequest(conf'[q]), queue'[q])
  <2>1. q # p => Same
    BY <1>6, Memory DEF Start, Goto
  <2>2. conf' = conf
    BY <1>6 DEF Start
  <2>3. CASE q = p
    BY <1>1, <1>6, <2>2, <2>3, JobsAtStart DEF Begun
  <2> QED
    BY <1>3, <2>1, <2>3
<1>7. ASSUME NEW p \in Processes, Scan(p) PROVE Same
  <2>1. q # p => Same
    BY <1>7, Memory DEF Scan, Goto
  <2>2. pc[p] = "scanning" /\ job' = job
    BY <1>7 DEF Scan
  <2>3. job[p].hash \in Digits \X Processes \X Nat
    BY <2>2 DEF ScanInv, HashInv
  <2>4. job[p] # NoJob
    <3>1. \A h \in Digits \X Processes \X Nat : h # <<>>
      OBVIOUS
    <3> QED
      BY <2>3, <3>1 DEF NoJob
  <2> QED
    BY <1>1, <2>1, <2>2, <2>4 DEF Begun
<1> QED
  BY <1>3, <1>4, <1>5, <1>6, <1>7 DEF Next, Terminated

(* Whatever the options and the request, if no header has signs on both sides
   and no two have the same name without signs, sniper mode starts with exactly
   one job for every pair of signs: its request is the configured one with FUZZ
   instead of the pair and of what it encloses, FUZZ stands in it once, and all
   other signs are gone.  templateLocations, injectKeyword and scrubTemplates do together
   what one reading of the text would, equal tokens and empty places
   included (request.go:73-205), and templatePresent refuses every request of
   which a sign would be left (optionsparser.go:824-862). *)
THEOREM PlacesTriedOnce == Spec => []SniperOnePlaceEach
<1>1. Init => SniperOnePlaceEach
  BY DEF Init, SniperOnePlaceEach
<1> QED
  BY <1>1, ScanInvariant, SniperNext, PTL DEF Spec
=============================================================================
