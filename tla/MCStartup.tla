----------------------------- MODULE MCStartup -----------------------------
(* Command lines, configuration files and request files for Startup. *)
EXTENDS Startup

Flag(f, v) == [flag |-> f, value |-> v]
List(path, keyword) == Flag("wordlists", <<[file |-> path, keyword |-> keyword]>>)
Header(name, value) == Flag("headers", <<[name |-> name, value |-> value]>>)

X      == <<"X-Test">>
Marked == <<Template, "X", Template>>
Words1 == <<"/", "words">>
MCHeaders == {X, Marked, <<"Cookie">>, <<"Host">>}
MCLists == {Words1, <<"/", "a", "list">>, <<"/", "b", "list">>}
MCDirs == 1 :> {<<"/", "a">>} @@ 2 :> {<<"/", "b">>}
          @@ 3 :> {<<"/", "a">>, <<"/", "b">>}
MCStdin == <<"-">>

Target == Flag("url", <<"host", Fuzz>>)
Plain  == <<Target, List(Words1, NoName)>>
Sniper(text) == <<Flag("mode", "sniper"), List(Words1, NoName), Flag("url", text)>>

Deep == Plain \o <<Flag("recursion", TRUE), Header(X, <<"v">>)>>

Lines ==
  { Deep,
    Plain \o <<Flag("cookies", <<"s">>), Flag("data", <<"k", Fuzz>>),
               Flag("strategies", <<"advanced">>), Flag("strategies", <<"own">>)>>,
    Plain \o <<Flag("preflight-var", "T"), Flag("preflights", "login"),
               Flag("preflight-var", "U"), Flag("preflights", "second"),
               Flag("preflight-var", "V"), Flag("preflight-var", "W")>>,
    Plain \o <<Flag("config", "conf"), Header(X, <<"w">>), Flag("preflight-var", "T"),
               Flag("preflights", "second"), Flag("strategies", <<"own">>)>>,
    <<Flag("config", "conf"), Flag("mc", "all")>>,
    <<Flag("request", "raw"), Flag("data", <<"d">>), List(<<"list">>, "HOST"),
      Flag("commands", <<[file |-> <<"seq">>, keyword |-> NoName]>>)>>,
    <<Target, List(<<"list">>, "LOST"), Flag("ms", "1"), Flag("fw", "2")>>,
    <<Target, List(MCStdin, NoName), Flag("acc", <<"x">>), Flag("ms", "1"),
      Flag("mc", "200")>>,
    Sniper(<<"h", Template, Template, "h", Template, Template, "h">>),
    Sniper(<<"h", Template, "a", Template, "/", Template, "b", Template>>),
    Sniper(<<"host">>)
      \o <<Flag("data", <<"d", Template, Template>>), Header(Marked, <<"v">>),
           Header(X, <<Template, "y", Template>>)>>,
    Sniper(<<"h", Template, "a">>),
    Sniper(<<"host">>),
    Sniper(<<Template, "h", Template, Fuzz>>),
    <<List(Words1, "W"), Flag("mode", "sniper")>>,
    <<Flag("url", <<Fuzz, "x">>), Flag("recursion", TRUE), List(Words1, NoName)>>,
    <<Target>>, <<Flag("config", "missing")>>,
    Plain \o <<Flag("ms", NoName), Flag("fw", "2")>>,
    Plain \o <<Flag("malformed", TRUE)>>,
    Plain \o <<Flag("preflights", "missing")>> }

MCCommandLines == 1 :> Lines @@ 2 :> {Deep} @@ 3 :> {}

MCRcFiles ==
  { <<>>,
    [headers |-> <<[name |-> X, value |-> <<"rc">>]>>, strategies |-> <<"mine">>,
     preflights |-> <<[file |-> "login", vars |-> <<"R">>]>>] }

MCConfigFiles ==
  [conf |-> [headers |-> <<[name |-> X, value |-> <<"file">>]>>,
             url |-> <<"other", Fuzz>>, mc |-> "200",
             wordlists |-> <<[file |-> Words1, keyword |-> NoName]>>,
             preflights |-> <<[file |-> "login", vars |-> <<"F">>]>>]]

MCRequestFiles ==
  [raw |-> [method |-> <<"PUT">>, url |-> <<"HOST", "path">>, data |-> <<"old">>,
            headers |-> (<<"Host">> :> <<"HOST", Fuzz>>)]]
=============================================================================
