------------------------------- MODULE Startup -------------------------------
(***************************************************************************)
(* The start of ffuf, from the command line to the queue of jobs, and the  *)
(* history it shares with every other start: main.go, the option parser    *)
(* and the flags of pkg/ffuf, pkg/assembly, pkg/filter/fromconfig.go, the  *)
(* beginning of Job.Start and prepareQueueJob, and pkg/engine/history.go.  *)
(*                                                                         *)
(* Processes run side by side over one configuration directory.  A process *)
(* scans, and notes the hash that its requests carry (the keyword          *)
(* FFUFHASH), or searches for a hash that a scan has noted.  It may be     *)
(* killed between any two steps.                                           *)
(*                                                                         *)
(* Options are named by their fields, and a flag by its option.  A command *)
(* line is a sequence of [flag, value].  An option whose value is checked  *)
(* by itself (a delay, a proxy, an output format) is "malformed" or not.   *)
(***************************************************************************)
EXTENDS Requests

CONSTANTS
  Processes,
  CommandLines,     \* of each process: the command lines of scans that are tried
  RcFiles,          \* what the default configuration file may hold
  ConfigFiles,      \* the files of -config: their names, and what they set
  RequestFiles,     \* the files of -request: their names and requests
  FlightFiles,      \* the files of -preflight that exist
  Lists,            \* the paths of word lists that exist
  Dirs,             \* of each process: where it may be started
  Stdin,            \* the path "-"
  Digits,           \* first digits of history hashes
  NoName            \* an option that is not given

Scalars  == {"url", "mode", "method", "data", "request", "recursion", "ac",
             "config", "search", "malformed", "mc"}
Matchers == {"ms", "mr"}                 \* matchers besides the status code
Filters  == {"fc", "fs", "fw"}
Appended == {"headers", "cookies", "acc", "wordlists", "commands"}

DefaultOptions ==
  [f \in Scalars \cup Matchers \cup Filters \cup Appended
     \cup {"strategies", "preflights"} |->
    CASE f \in {"url", "data", "method"} -> <<>>
      [] f \in {"recursion", "ac", "malformed"} -> FALSE
      [] f = "mode" -> "clusterbomb"
      [] f = "mc" -> "default"
      [] f \in {"request", "config", "search"} \cup Matchers \cup Filters ->
           NoName
      [] f = "strategies" -> <<"basic">>
      [] OTHER -> <<>>]

Options == DOMAIN DefaultOptions

\* The name of a directory that recursion finds.
Directory == "dir"

IsSequence(v) == v \in Seq(ToSet(v))

\* The values of an option: a text, or a list, of word lists with keywords.
OptionOK(option, value) ==
  /\ option \in Appended \cup {"url", "method", "data", "strategies"} =>
       IsSequence(value)
  /\ option = "headers" => \A h \in ToSet(value) : IsSequence(h.value)
  /\ option \in {"wordlists", "commands"} =>
       \A w \in ToSet(value) : w.keyword # Directory

FlightOK(flight) == /\ flight = [file |-> flight.file, vars |-> flight.vars]
                    /\ IsSequence(flight.vars)

\* A file cannot name another one: ConfigFile has the tag toml:"-".
FileOK(file) == /\ DOMAIN file \subseteq Options \ {"config"}
                /\ \A option \in DOMAIN file : OptionOK(option, file[option])
                /\ "preflights" \in DOMAIN file =>
                     /\ IsSequence(file.preflights)
                     /\ \A flight \in ToSet(file.preflights) : FlightOK(flight)

FlagOK(flag) == /\ flag.flag \in Options \cup {"preflight-var"}
                /\ flag.flag = "config" => flag.value # NoName
                /\ OptionOK(flag.flag, flag.value)

\* The texts of a request.
TextsOK(fields) ==
  /\ IsSequence(fields.method) /\ IsSequence(fields.url) /\ IsSequence(fields.data)
  /\ \A name \in DOMAIN fields.headers : IsSequence(fields.headers[name])

\* Only a search has -search, and a search for a hash has no other flag.
ASSUME StartupAssumption ==
  /\ \A p \in Processes : \A line \in CommandLines[p] :
       /\ IsSequence(line)
       /\ \A flag \in ToSet(line) : FlagOK(flag) /\ flag.flag # "search"
  /\ \A file \in RcFiles : FileOK(file) /\ "search" \notin DOMAIN file
  /\ \A name \in DOMAIN ConfigFiles : FileOK(ConfigFiles[name])
  /\ \A name \in DOMAIN RequestFiles : TextsOK(RequestFiles[name])
  /\ \A name \in Headers : IsSequence(name)
  /\ Fuzz # Template /\ Fuzz # Directory /\ NoName \notin Digits

VARIABLES
  rc,                \* the default configuration file
  pc, cwd, cmd,      \* of a process: its step, working directory, command line
  opts, conf,        \* ConfigOptions and Config
  manager,           \* MatcherManager
  queue, job,        \* jobs of the queue, the one that is prepared
  entries,           \* the history directory: hash -> options, or Broken
  target, printed,   \* what a process searches, and what it prints
  noted              \* history: what the requests of a hash were

process == <<cwd, cmd, opts, conf, manager, queue, job, target, printed>>
vars    == <<rc, pc, process, entries, noted>>

Broken == [options |-> FALSE]      \* a directory without readable options
NoConf == [errors |-> {}]
NoJob  == [hash |-> <<>>]
NoManager == [matchers |-> {}, filters |-> {}]

Init == /\ rc \in RcFiles
        /\ pc = [p \in Processes |-> "start"]
        /\ cwd \in {dir \in [Processes -> UNION {Dirs[p] : p \in Processes}] :
                    \A p \in Processes : dir[p] \in Dirs[p]}
        /\ cmd = [p \in Processes |-> <<>>]
        /\ opts = [p \in Processes |-> DefaultOptions]
        /\ conf = [p \in Processes |-> NoConf]
        /\ manager = [p \in Processes |-> NoManager]
        /\ queue = [p \in Processes |-> {}]
        /\ job = [p \in Processes |-> NoJob]
        /\ entries = <<>>
        /\ target = [p \in Processes |-> NoName]
        /\ printed = [p \in Processes |-> {}]
        /\ noted = {}

Goto(p, step) == pc' = [pc EXCEPT ![p] = step]

\* The memory of a process that has ended is gone.
End(p, step) == /\ Goto(p, step)
                /\ cmd' = [cmd EXCEPT ![p] = <<>>]
                /\ opts' = [opts EXCEPT ![p] = DefaultOptions]
                /\ conf' = [conf EXCEPT ![p] = NoConf]
                /\ manager' = [manager EXCEPT ![p] = NoManager]
                /\ queue' = [queue EXCEPT ![p] = {}]
                /\ job' = [job EXCEPT ![p] = NoJob]
                /\ UNCHANGED <<rc, cwd, entries, target, noted>>
-----------------------------------------------------------------------------
(* Flags and files *)

\* Each occurrence of a flag that is given more than once is appended; the
\* first one of -acs drops what is there; a variable belongs to the preflight
\* before it.  The second field says whether -acs has occurred.
SetFlag(state, flag) ==
  LET o == state.opts IN
  CASE flag.flag \in Appended ->
         [state EXCEPT !.opts[flag.flag] = @ \o flag.value]
    [] flag.flag = "strategies" ->
         [state EXCEPT !.opts.strategies =
                         (IF state.replaced THEN @ ELSE <<>>) \o flag.value,
                       !.replaced = TRUE]
    [] flag.flag = "preflights" ->
         [state EXCEPT !.opts.preflights =
                         Append(@, [file |-> flag.value, vars |-> <<>>])]
    [] flag.flag = "preflight-var" ->
         IF o.preflights = <<>> THEN [state EXCEPT !.error = TRUE]
         ELSE [state EXCEPT !.opts.preflights[Len(o.preflights)].vars =
                              Append(@, flag.value)]
    [] OTHER -> [state EXCEPT !.opts[flag.flag] = flag.value]

\* flag.Parse ends the process at the first flag that is wrong.
ParseFlags(options, line) ==
  LET parsed[i \in 0..Len(line)] ==
        IF i = 0 THEN [opts |-> options, replaced |-> FALSE, error |-> FALSE]
        ELSE SetFlag(parsed[i - 1], line[i])
  IN  parsed[Len(line)]

\* Faulty: the file is read over the options that are there.
ReadConfigOver(options, file) == Over(file, options)

\* toml.Unmarshal sets the fields that the file names.
ReadConfig(options, file) == Over(file, DefaultOptions)

----------------------------------------------------------------------------
(* ConfigFromOptions *)

\* -b/-cookie becomes one more header.
effectiveHeaders(o) ==
  IF o.cookies = <<>> THEN o.headers
  ELSE Append(o.headers, [name |-> <<"Cookie">>, value |-> o.cookies])

Abs(dir, path) ==
  IF path = Stdin \/ path[1] = "/" THEN path ELSE dir \o path

\* A word list or command without a keyword is FUZZ, and the template of
\* sniper mode.
Provider(o, name, value, keyword) ==
  [name |-> name, value |-> value,
   keyword |-> IF keyword = NoName THEN Fuzz ELSE keyword,
   template |-> o.mode = "sniper" /\ keyword = NoName]

\* In sniper mode those with a keyword are refused, and left out.
InputProviders(o, dir) ==
  LET Kept(seq) ==
        Selected(seq, {w \in ToSet(seq) : o.mode # "sniper" \/ w.keyword = NoName})
      lists == Kept(o.wordlists)
      comms == Kept(o.commands)
  IN  [i \in DOMAIN lists |->
         Provider(o, "wordlist", Abs(dir, lists[i].file), lists[i].keyword)]
      \o [i \in DOMAIN comms |->
           Provider(o, "command", comms[i].file, comms[i].keyword)]

Error(name, condition) == IF condition THEN {name} ELSE {}

ModeErrors(o) ==
  LET inputs == ToSet(o.wordlists \o o.commands) IN
  Error("mode", o.mode \notin {"clusterbomb", "pitchfork", "sniper"})
  \cup Error("url", o.url = <<>> /\ o.request = NoName)
  \cup Error("inputs", /\ o.mode = "sniper"
                       /\ \/ Len(o.wordlists) > 1 \/ Len(o.commands) > 1
                          \/ \E w \in inputs : w.keyword # NoName)

NewConfig == [method |-> <<"GET">>, url |-> <<>>, data |-> <<>>,
              headers |-> <<>>]

\* parseRawRequest: the fields that a request file gives.
parseRawRequest(o) ==
  IF o.request \in DOMAIN RequestFiles THEN RequestFiles[o.request]
  ELSE NewConfig

SetHeader(headers, h) == Over([name \in {h.name} |-> h.value], headers)

SetHeaders(headers, list) ==
  LET after[i \in 0..Len(list)] ==
        IF i = 0 THEN headers ELSE SetHeader(after[i - 1], list[i])
  IN  after[Len(list)]

Or(given, otherwise) == IF given = <<>> THEN otherwise ELSE given

\* Data makes a POST of a GET that no file has asked for.
MethodOf(o, method, data) ==
  IF data # <<>> /\ method = <<"GET">> /\ o.request = NoName THEN <<"POST">>
  ELSE method

\* The request: the file's, overridden by the options.
RequestFields(o) ==
  LET raw  == parseRawRequest(o)
      data == Or(o.data, raw.data)
  IN [method  |-> MethodOf(o, Or(o.method, raw.method), data),
      url     |-> Or(o.url, raw.url),
      data    |-> data,
      headers |-> SetHeaders(raw.headers, effectiveHeaders(o))]

\* The options that are checked alone.
ValueErrors(o) == Error("value", o.malformed)

\* -acc and -acs set it, and the value of -ac is written over that.
AutoCalibration(o) == o.ac

FlightErrors(o) ==
  Error("preflight", \E f \in ToSet(o.preflights) : f.file \notin FlightFiles)

\* Faulty: a template that is missing is a warning, as a keyword is.
TemplateErrorsNone(providers, req) == {}

TemplateErrors(providers, req) ==
  Error("template", /\ \E v \in ToSet(providers) : v.template
                    /\ ~templatePresent(req))

\* A provider whose keyword or template is nowhere is left out.
Present(providers, req) ==
  Selected(providers,
           {v \in ToSet(providers) :
              IF v.template THEN templatePresent(req)
              ELSE RequestContainsKeyword(req, v.keyword)})

EndsInFuzz(url) == url # <<>> /\ Last(url) = Fuzz

PlaceErrors(o, req) ==
  Error("sniper", o.mode = "sniper" /\ RequestContainsKeyword(req, Fuzz))
  \cup Error("recursion", o.recursion /\ ~EndsInFuzz(req[Url]))

\* Config.Options, with the headers that hold the cookies.
Snapshot(o) == [o EXCEPT !.headers = effectiveHeaders(o)]

ConfigFromOptions(o, dir) ==
  LET fields    == RequestFields(o)
      req       == BaseRequest(fields)
      providers == InputProviders(o, dir)
  IN [method     |-> fields.method,
      url        |-> fields.url,
      data       |-> fields.data,
      headers    |-> fields.headers,
      mode       |-> o.mode,
      recursion  |-> o.recursion,
      acc        |-> o.acc,
      ac         |-> AutoCalibration(o),
      providers  |-> Present(providers, req),
      wordlists  |-> [i \in DOMAIN o.wordlists |->
                        <<Abs(dir, o.wordlists[i].file),
                          o.wordlists[i].keyword>>],
      options    |-> Snapshot(o),
      errors     |->
        ModeErrors(o) \cup ValueErrors(o) \cup FlightErrors(o)
        \cup PlaceErrors(o, req)
        \cup TemplateErrors(providers, req)
        \cup Error("none", providers = <<>>)
        \cup Error("request", o.request \notin {NoName} \cup DOMAIN RequestFiles)]

\* BuildJob: NewInputProvider opens every word list.
InputErrors(c) ==
  Error("list", \E v \in ToSet(c.providers) :
                  v.name = "wordlist" /\ v.value \notin Lists \cup {Stdin})

\* main.SetupFilters: the status matcher is there unless the command line has
\* another one and not this one.
SetupFilters(o, line) ==
  LET Visited(flags) == \E f \in ToSet(line) : f.flag \in flags IN
  [matchers |-> {m \in Matchers : o[m] # NoName}
                \cup Error("mc", Visited({"mc"}) \/ ~Visited(Matchers)),
   filters  |-> {f \in Filters : o[f] # NoName}]
-----------------------------------------------------------------------------
(* History *)

\* The word filter, "word" in the manager, is asked for as
\* "words" and not found.  Cookies and -search are not written.
historyOptions(c, m) ==
  [f \in DOMAIN c.options |->
    CASE f = "url"     -> c.url
      [] f = "cookies" -> <<>>
      [] f \in {"search", "fw"} -> NoName
      [] f \in (Filters \cup Matchers \cup {"mc"}) \ (m.filters \cup m.matchers)
           -> NoName
      [] OTHER -> c.options[f]]

HistoryReplayable(c) == \A w \in ToSet(c.wordlists) : w[1] # Stdin

\* printSearchResults: the request of a candidate, unless its input fails.
SearchResult(o, dir) ==
  LET c == ConfigFromOptions(o, dir) IN
  IF c.errors # {} \/ ~HistoryReplayable(c) \/ InputErrors(c) # {} THEN {}
  ELSE {[request |-> BaseRequest(c), wordlists |-> c.wordlists]}

\* Faulty: the search ends at the first directory that cannot be read.
SearchHashStrict(hashes, dir) ==
  IF \E h \in hashes : entries[h] = Broken THEN {}
  ELSE UNION {SearchResult(entries[h], dir) : h \in hashes}

\* SearchHash, and main's loop over the candidates.
SearchHash(hashes, dir) ==
  UNION {SearchResult(entries[h], dir) :
           h \in {x \in hashes : entries[x] # Broken}}
-----------------------------------------------------------------------------
(* The steps of a process *)
AfterParse(state) ==
  IF state.error THEN "failed"
  ELSE IF state.opts.search # NoName THEN "search"
  ELSE IF state.opts.config # NoName THEN "config" ELSE "configure"

Search(note) == <<[flag |-> "search", value |-> note.hash[1]]>>

Parse(p, options) ==
  LET state == ParseFlags(options, cmd'[p]) IN
  /\ opts' = [opts EXCEPT ![p] = state.opts]
  /\ Goto(p, AfterParse(state))

\* ReadDefaultConfig and the first ParseFlags, for a scan or for a search.
ParseCommandLine(p) ==
  /\ pc[p] = "start"
  /\ \/ \E line \in CommandLines[p] : cmd' = [cmd EXCEPT ![p] = line]
        /\ UNCHANGED target
     \/ \E note \in noted : /\ cmd' = [cmd EXCEPT ![p] = Search(note)]
                            /\ target' = [target EXCEPT ![p] = note]
  /\ Parse(p, Over(rc, DefaultOptions))
  /\ UNCHANGED <<rc, cwd, conf, manager, queue, job, entries, printed, noted>>

\* -config: the options start anew from the file, and the command line is
\* parsed again.
LoadConfig(p) ==
  /\ pc[p] = "config"
  /\ UNCHANGED <<rc, cwd, cmd, conf, manager, queue, job, entries, target,
                 printed, noted>>
  /\ IF opts[p].config \in DOMAIN ConfigFiles
     THEN LET state == ParseFlags(ReadConfig(opts[p], ConfigFiles[opts[p].config]),
                                  cmd[p]) IN
          /\ opts' = [opts EXCEPT ![p] = state.opts]
          /\ Goto(p, IF state.error THEN "failed" ELSE "configure")
     ELSE Goto(p, "failed") /\ UNCHANGED opts

\* ConfigFromOptions, BuildJob and SetupFilters.
Configure(p) ==
  /\ pc[p] = "configure"
  /\ LET c == ConfigFromOptions(opts[p], cwd[p]) IN
     /\ conf' = [conf EXCEPT ![p] = c]
     /\ Goto(p, IF c.errors \cup InputErrors(c) = {} THEN "built" ELSE "failed")
  /\ manager' = [manager EXCEPT ![p] = SetupFilters(opts[p], cmd[p])]
  /\ UNCHANGED <<rc, cwd, cmd, opts, queue, job, entries, target, printed, noted>>

\* Job.Start: a job of the queue for every place, or one for all.
Start(p) ==
  /\ pc[p] = "built"
  /\ LET base   == BaseRequest(conf[p])
         places == IF conf[p].mode = "sniper" THEN Places(base) ELSE {}
     IN  queue' = [queue EXCEPT ![p] =
           IF conf[p].mode = "sniper"
           THEN {[url |-> conf[p].url, depth |-> 0, place |-> l,
                  req |-> SniperRequest(base, l)] : l \in places}
           ELSE {[url |-> conf[p].url, depth |-> 0, req |-> base]}]
  /\ Goto(p, "running")
  /\ UNCHANGED <<rc, cwd, cmd, opts, conf, manager, job, entries, target,
                 printed, noted>>

First(j, jobs) ==
  \A k \in jobs : "place" \in DOMAIN k => ~Before(k.place, j.place)

\* prepareQueueJob as far as the directory of the history entry; its name is
\* a hash, of which a FFUFHASH shows the first digits.
PrepareQueueJob(p) ==
  /\ pc[p] = "running"
  /\ \E j \in queue[p], digit \in Digits :
       /\ First(j, queue[p])
       /\ LET hash == <<digit, p, Cardinality({h \in DOMAIN entries : h[2] = p})>> IN
          /\ entries' = Over(entries, [h \in {hash} |-> Broken])
          /\ job' = [job EXCEPT ![p] = [hash |-> hash, depth |-> j.depth,
                                        req |-> j.req]]
       /\ queue' = [queue EXCEPT ![p] = @ \ {j}]
       /\ conf' = [conf EXCEPT ![p].url = j.url]
  /\ Goto(p, "entry")
  /\ UNCHANGED <<rc, cwd, cmd, opts, manager, target, printed, noted>>

\* WriteHistoryEntry writes the options, and requests carry the hash.
WriteHistoryEntry(p) ==
  /\ pc[p] = "entry"
  /\ entries' = [entries EXCEPT ![job[p].hash] =
                   historyOptions(conf[p], manager[p])]
  /\ noted' = noted \cup
       {[hash |-> job[p].hash, request |-> job[p].req, mode |-> conf[p].mode,
         wordlists |-> conf[p].wordlists, cwd |-> cwd[p]]}
  /\ Goto(p, "scanning")
  /\ UNCHANGED <<rc, cwd, cmd, opts, conf, manager, queue, job, target, printed>>

\* The URL that recursion makes of a directory it has found.
Found(url) == SubSeq(url, 1, Len(url) - 1) \o <<Directory, Fuzz>>

\* Faulty: recursion does not look at the depth.
ScanAnyDepth(p) ==
  /\ pc[p] = "scanning"
  /\ conf[p].recursion
  /\ LET url == Found(job[p].req[Url]) IN
     queue' = [queue EXCEPT ![p] = @ \cup
       {[url |-> url, depth |-> job[p].depth + 1,
         req |-> RecursionRequest(conf[p], url)]}]
  /\ Goto(p, "running")
  /\ UNCHANGED <<rc, cwd, cmd, opts, conf, manager, job, entries, target,
                 printed, noted>>

\* A request goroutine may find a directory to go on from.
Scan(p) ==
  /\ pc[p] = "scanning"
  /\ \/ UNCHANGED queue
     \/ /\ conf[p].recursion /\ job[p].depth = 0
        /\ LET url == Found(job[p].req[Url]) IN
           queue' = [queue EXCEPT ![p] = @ \cup
             {[url |-> url, depth |-> 1,
               req |-> RecursionRequest(conf[p], url)]}]
  /\ Goto(p, "running")
  /\ UNCHANGED <<rc, cwd, cmd, opts, conf, manager, job, entries, target,
                 printed, noted>>

\* The end of the queue, or os.Exit after an error.
Finish(p) ==
  /\ \/ pc[p] = "running" /\ queue[p] = {}
     \/ pc[p] = "failed"
  /\ End(p, "done") /\ UNCHANGED printed

\* -search: the directories with the digits of the hash, then their options.
SearchHistory(p) ==
  /\ pc[p] = "search"
  /\ LET hashes == {h \in DOMAIN entries : h[1] = opts[p].search} IN
     printed' = [printed EXCEPT ![p] = SearchHash(hashes, cwd[p])]
  /\ End(p, "searched")

Ended == {"done", "searched", "killed"}

Killed(p) == /\ pc[p] \notin Ended \cup {"start"}
             /\ End(p, "killed") /\ UNCHANGED printed

Terminated == /\ \A p \in Processes : pc[p] \in Ended \cup {"start"}
              /\ UNCHANGED vars

Next == \/ \E p \in Processes :
             \/ ParseCommandLine(p) \/ LoadConfig(p) \/ Configure(p) \/ Start(p)
             \/ PrepareQueueJob(p) \/ WriteHistoryEntry(p) \/ Scan(p)
             \/ Finish(p) \/ SearchHistory(p) \/ Killed(p)
        \/ Terminated

Spec == Init /\ [][Next]_vars
-----------------------------------------------------------------------------
Parsed  == {"configure", "built", "running", "entry", "scanning"}
Started == {"running", "entry", "scanning"}

TypeOK ==
  /\ pc \in [Processes -> Parsed \cup Ended \cup {"start", "failed", "search", "config"}]
  /\ \A p \in Processes :
       /\ DOMAIN opts[p] = Options
       /\ manager[p].matchers \subseteq Matchers \cup {"mc"}
       /\ manager[p].filters \subseteq Filters
       /\ \A j \in queue[p] : DOMAIN j.req = Parts /\ j.depth \in 0..1
       /\ pc[p] \in {"entry", "scanning"} => job[p].hash \in DOMAIN entries
  /\ \A n \in noted : n.hash \in DOMAIN entries
  /\ \A h \in DOMAIN entries : h \in Digits \X Processes \X Nat

Occurrences(line, flag) == {k \in DOMAIN line : line[k].flag = flag}

\* The variables of the preflight that is the i-th flag, or of one from a file,
\* for which i is 0: those before the next preflight.
Own(line, i) ==
  {k \in Occurrences(line, "preflight-var") :
     k > i /\ \A l \in (i + 1)..k : line[l].flag # "preflights"}

\* The values at places on a command line, in their order.
Values(line, S) ==
  LET places == InOrder(Len(line), S) IN
  [i \in DOMAIN places |-> line[places[i]].value]

\* What the user asks for: the value on the command line before the one in
\* the file; what may be given more than once after that of the file, once,
\* although -config has the command line parsed a second time; only -acs
\* replaces.  Every variable is with the preflight it follows (README.md:143,
\* flags.go:113).
Asked(file, line) ==
  LET n == Len(file.preflights)
      flights == InOrder(Len(line), Occurrences(line, "preflights"))
      Given(f) == Values(line, Occurrences(line, f))
  IN
  [f \in Options |->
    CASE f = "preflights" ->
           [i \in 1..(n + Len(flights)) |->
              CASE i < n -> file.preflights[i]
                [] i = n -> [file.preflights[i] EXCEPT
                               !.vars = @ \o Values(line, Own(line, 0))]
                [] i > n -> [file |-> line[flights[i - n]].value,
                             vars |-> Values(line, Own(line, flights[i - n]))]]
      [] f \in Appended -> file[f] \o FlattenSeq(Given(f))
      [] OTHER -> IF Given(f) = <<>> THEN file[f]
                  ELSE IF f = "strategies" THEN FlattenSeq(Given(f))
                  ELSE Last(Given(f))]

\* The file of -config, or else the default one.
FileOf(line) ==
  LET named == Values(line, Occurrences(line, "config")) IN
  IF named = <<>> THEN rc ELSE ConfigFiles[Last(named)]

\* However often the command line is parsed, the options are what the files
\* and the command line say together.
CommandLineWins ==
  \A p \in Processes : pc[p] \in Parsed =>
    opts[p] = Asked(Over(FileOf(cmd[p]), DefaultOptions), cmd[p])

\* The hash in a request leads back to the request: whatever other scans have
\* written, are writing or were killed at, -search rebuilds from the history
\* the request and the word lists of the job that sent it.  Not for sniper
\* mode, whose entries have the places and not the request, nor for word lists
\* from stdin; a relative path is looked up where the search runs.
SearchReproduces ==
  \A p \in Processes :
    LET n == target[p] IN
    (/\ pc[p] = "searched"
     /\ n.mode # "sniper"
     /\ cwd[p] = n.cwd
     /\ \A w \in ToSet(n.wordlists) : w[1] # Stdin)
    => [request |-> n.request, wordlists |-> n.wordlists] \in printed[p]

\* A matcher flag without a value, and no -mc: main.SetupFilters sees that a
\* matcher was passed, and filter.FromConfig that it is empty.
MatcherEmptied(line) ==
  /\ \E flag \in ToSet(line) : flag.flag \in Matchers /\ flag.value = NoName
  /\ \A flag \in ToSet(line) : flag.flag # "mc"

\* A scan that starts can do so: sniper mode has the provider that Start looks
\* at and a place for its words, recursion has a URL to go on from, and there
\* is a matcher, without which every response would be dropped, unless the
\* command line empties one and does not give -mc.
FitToStart ==
  \A p \in Processes : pc[p] \in Started =>
    /\ conf[p].mode = "sniper" => /\ conf[p].providers # <<>>
                                  /\ Head(conf[p].providers).template
    /\ conf[p].recursion => EndsInFuzz(conf[p].url)
    /\ manager[p].matchers = {} => MatcherEmptied(cmd[p])

\* How many template signs there are up to a place of a text.
Signs(text, i) == Cardinality({k \in 1..i : text[k] = Template})

\* The text that tries its n-th pair of signs: FUZZ instead of the pair and of
\* what it encloses, and no other sign.  With 0, the text without its signs.
Tried(text, n) ==
  LET Kept(i) == IF text[i] = Template THEN Signs(text, i) + 1 = 2 * n
                 ELSE Signs(text, i) + 1 # 2 * n
      kept    == InOrder(Len(text), {i \in DOMAIN text : Kept(i)})
  IN  [j \in DOMAIN kept |->
         IF text[kept[j]] = Template THEN Fuzz ELSE text[kept[j]]]

\* Every job tries one place: its request is the configured one with FUZZ in
\* that place and without the signs of the others, so that FUZZ stands in it
\* once; and every sign belongs to a place that exactly one job tries.
OneJobEach(base, jobs) ==
  /\ \A j \in jobs : \A part \in Parts :
       j.req[part] = Tried(base[part], IF part = j.place.part THEN j.place.pair ELSE 0)
  /\ \A j \in jobs : \E part \in Parts : \E i \in DOMAIN j.req[part] :
       \A q \in Parts : \A k \in DOMAIN j.req[q] :
         j.req[q][k] = Fuzz <=> q = part /\ k = i
  /\ \A part \in Parts : \A i \in DOMAIN base[part] :
       base[part][i] = Template =>
         Cardinality({j \in jobs :
           j.place = [part |-> part, pair |-> (Signs(base[part], i) + 1) \div 2]}) = 1

\* No header has signs in its name and in its value, and no two have the same
\* name without signs: what scrubTemplates leaves of such headers depends on the
\* order in which Go walks the map (request.go:192-204).
HeadersApart(base) ==
  LET Name(h) == base[<<"name", h>>] IN
  \A h \in Headers :
    /\ Contains(Name(h), Template) => ~Contains(base[<<"value", h>>], Template)
    /\ \A other \in Headers \ {h} :
         Name(h) # <<>> => Scrubbed(Name(h)) # Scrubbed(Name(other))

\* Sniper mode leaves no sign without its place, and no place without a job of
\* its own, which changes nothing else, when the signs are found, the keyword
\* is put in and the other signs are taken out one after the other
\* (request.go:73, and templatePresent, optionsparser.go:824).  It is about
\* requests whose headers are apart.
SniperOnePlaceEach ==
  \A p \in Processes :
    LET base == BaseRequest(conf[p]) IN
    (/\ pc[p] = "running" /\ conf[p].mode = "sniper" /\ job[p] = NoJob
     /\ HeadersApart(base)) => OneJobEach(base, queue[p])
=============================================================================
