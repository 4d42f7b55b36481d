------------------------------ MODULE Requests ------------------------------
(***************************************************************************)
(* Requests as pkg/ffuf/request.go builds them from the configuration.  A  *)
(* text is a sequence of tokens: the template sign that sniper mode puts   *)
(* around a place, a keyword, or anything else.  A request maps its parts  *)
(* to texts; a header is known by the name it is configured with, and its  *)
(* name is empty while it is not there.                                    *)
(*                                                                         *)
(* The headers of a request are a Go map.  What scrubTemplates leaves of   *)
(* one with signs in its name and in its value, or of two whose names are  *)
(* the same without signs, depends on the order in which Go walks it; that *)
(* is left out here, and what is claimed excludes it (HeadersApart).       *)
(***************************************************************************)
EXTENDS Naturals, FiniteSets, SequencesExt

CONSTANTS Headers, Template, Fuzz

\* f where it has a value, and g elsewhere.
Over(f, g) == [x \in DOMAIN f \cup DOMAIN g |-> IF x \in DOMAIN f THEN f[x] ELSE g[x]]

\* The elements of a sequence that are in a set, in their order.
Selected(seq, S) ==
  LET kept[i \in 0..Len(seq)] ==
        IF i = 0 THEN <<>>
        ELSE IF seq[i] \in S THEN Append(kept[i - 1], seq[i]) ELSE kept[i - 1]
  IN  kept[Len(seq)]

\* The numbers of S up to n, in their order.
InOrder(n, S) == Selected([k \in 1..n |-> k], S)

Parts == {<<"method">>, <<"url">>, <<"data">>} \cup ({"name", "value"} \X Headers)

Method == <<"method">>
Url    == <<"url">>
Data   == <<"data">>

\* BaseRequest over the fields of a Config.
BaseRequest(conf) ==
  [part \in Parts |->
    CASE part = Method -> conf.method
      [] part = Url    -> conf.url
      [] part = Data   -> conf.data
      [] part[1] = "name" ->
           IF part[2] \in DOMAIN conf.headers THEN part[2] ELSE <<>>
      [] part[1] = "value" ->
           IF part[2] \in DOMAIN conf.headers THEN conf.headers[part[2]]
           ELSE <<>>]

RecursionRequest(conf, path) == [BaseRequest(conf) EXCEPT ![Url] = path]

-----------------------------------------------------------------------------
templateLocations(text) ==
  InOrder(Len(text), {i \in DOMAIN text : text[i] = Template})

Count(text) == Len(templateLocations(text))
Even(n) == n % 2 = 0

RequestContainsKeyword(req, kw) == \E part \in Parts : Contains(req[part], kw)

\* templatePresent: somewhere, and in pairs wherever it is.
templatePresent(req) ==
  /\ \E part \in Parts : Count(req[part]) > 0
  /\ \A part \in Parts : Even(Count(req[part]))

injectKeyword(text, first, last) ==
  SubSeq(text, 1, first - 1) \o <<Fuzz>> \o SubSeq(text, last + 1, Len(text))

Scrubbed(text) == Selected(text, ToSet(text) \ {Template})

\* Headers with an odd number of signs are left as they are.
scrubTemplates(req) ==
  [part \in Parts |->
    IF Len(part) = 1 \/ Even(Count(req[part])) THEN Scrubbed(req[part])
    ELSE req[part]]

\* The places of sniper mode: the i-th pair of signs of a part.
Places(req) ==
  UNION {{[part |-> part, pair |-> i] : i \in 1..(Count(req[part]) \div 2)} :
           part \in {q \in Parts : Even(Count(req[q]))}}

\* Faulty: a place begins at the sign that ends the one before.
SniperRequestNext(req, place) ==
  LET tokens == templateLocations(req[place.part])
      text   == injectKeyword(req[place.part], tokens[place.pair],
                              tokens[place.pair + 1])
  IN  scrubTemplates([req EXCEPT ![place.part] = text])

SniperRequest(req, place) ==
  LET tokens == templateLocations(req[place.part])
      text   == injectKeyword(req[place.part], tokens[2 * place.pair - 1],
                              tokens[2 * place.pair])
  IN  scrubTemplates([req EXCEPT ![place.part] = text])

\* SniperRequests walks method, URL, data and then the headers in map order.
Rank(place) == CASE place.part = Method -> 1 [] place.part = Url -> 2
                 [] place.part = Data -> 3 [] OTHER -> 4
Before(a, b) == Rank(a) < Rank(b) \/ (a.part = b.part /\ a.pair < b.pair)
=============================================================================
