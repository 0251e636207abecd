------------------------- MODULE MCPricingRequests -------------------------
(***************************************************************************)
(* Small sets of requests for both profiles, around the thresholds of the  *)
(* code: similarities at 39 and 40, ages at 90 and 91 days, weights whose  *)
(* halves meet a quartile exactly, bounds that are no multiples.           *)
(***************************************************************************)
EXTENDS PricingRequests, TLC

CONSTANTS acme, globex, usd, eur

Fresh == 199  \* a market day before the cutoff
Day90 == 19
Day91 == 18
Future == 201

Source(observation, family) == [observation |-> observation, family |-> family]

Comparable(id, price, similarity, observed) ==
  [id |-> id, price |-> price, similarity |-> similarity, observed |-> observed,
   known |-> observed, agrees |-> TRUE, usable |-> TRUE, staysMatch |-> TRUE,
   source |-> Source(id, 1)]

LineageOf(comparables) ==
  [i \in DOMAIN comparables |-> [id |-> i, source |-> comparables[i].source]]

Request(comparables, strategy) ==
  [profile |-> "statistical", current |-> TRUE, strategy |-> strategy,
   comparables |-> comparables, lineage |-> LineageOf(comparables), staysMatch |-> TRUE,
   observed |-> Fresh, unpublished |-> TRUE]

\* Price lists: spread out, with ties, with outliers, half a cent.
PriceLists5 ==
  {<<10000, 11000, 12000, 13000, 14000>>, <<10050, 10050, 20000, 20000, 30000>>,
   <<90000, 10000, 11000, 12000, 10000>>, <<10000, 20000, 30000, 40000, 50000>>}
PriceLists4 == {<<10000, 11000, 12000, 60000>>, <<20000, 10000, 40000, 30000>>}
PriceLists8 ==
  {<<10000, 10000, 11000, 11000, 12000, 12000, 13000, 13000>>,
   <<10000, 11000, 12000, 13000, 14000, 15000, 16000, 17000>>}

FiveComparables ==
  {[i \in 1..5 |-> Comparable(i, p[i], s[i], Fresh)] :
     p \in PriceLists5, s \in [1..5 -> {40, 70, 80}]}
FourComparables ==
  {[i \in 1..4 |-> Comparable(5 - i, p[i], e[i][1], e[i][2])] :
     p \in PriceLists4,
     e \in [1..4 -> {39, 40, 90} \X {Day90} \cup {39, 90} \X {Day91}]}
EightComparables ==
  {[i \in 1..8 |-> Comparable(i, p[i], s[i], Fresh)] :
     p \in PriceLists8, s \in [1..8 -> {79, 100}]}

\* Everything that can be wrong with the second of three comparables and with
\* the lineage.
SecondComparables ==
  {[id |-> id, price |-> 10000, similarity |-> 80, observed |-> Fresh, known |-> known,
    agrees |-> agrees, usable |-> usable, staysMatch |-> TRUE,
    source |-> Source(observation, family)] :
     id \in {1, 2}, known \in {Fresh, Future}, agrees \in BOOLEAN, usable \in BOOLEAN,
     observation \in {1, 2}, family \in {1, 2}}
Sources == {Source(observation, family) : observation \in {1, 2}, family \in {1, 2}}
Lineages(ids) == {[i \in DOMAIN ids |-> [id |-> ids[i], source |-> s[i]]] :
                    s \in [DOMAIN ids -> Sources]}
ContractRequest(second, lineage) ==
  [Request(<<Comparable(1, 10000, 80, Fresh), second, Comparable(3, 10000, 80, Fresh)>>,
           "balanced")
     EXCEPT !.lineage = lineage \o <<[id |-> 3, source |-> Source(3, 1)]>>]
ContractRequests ==
  {ContractRequest(second, lineage) :
     second \in SecondComparables, lineage \in Lineages(<<1, 2>>)}
    \cup {ContractRequest(Comparable(2, 10000, 80, Fresh), lineage) :
            lineage \in Lineages(<<1>>) \cup Lineages(<<1, 1>>) \cup Lineages(<<1, 2, 4>>)}
OtherRequests ==
  LET some == Request(<<Comparable(1, 10000, 80, Fresh)>>, "balanced")
  IN  {some, [some EXCEPT !.profile = "experimental"], [some EXCEPT !.current = FALSE]}

\* What the schema refuses: one fault each, of a request or of a comparable.
Misfits ==
  LET some == Request([i \in 1..3 |-> Comparable(i, 10000, 80, Fresh)], "balanced")
  IN  {[some EXCEPT !.staysMatch = FALSE], [some EXCEPT !.observed = Future],
       [some EXCEPT !.unpublished = FALSE], [some EXCEPT !.lineage = <<>>],
       Request(<<>>, "balanced"),
       Request([i \in 1..9 |-> Comparable(i, 10000, 80, Fresh)], "balanced")}
        \cup {[some EXCEPT !.comparables[2] = c] :
               c \in {Comparable(2, 0, 80, Fresh), Comparable(2, 10000, 101, Fresh),
                      [Comparable(2, 10000, 80, Fresh) EXCEPT !.known = Fresh - 1],
                      [Comparable(2, 10000, 80, Fresh) EXCEPT !.staysMatch = FALSE]}}

ThreeComparables ==
  {[i \in 1..3 |-> Comparable(i, 10000 * i, s[i], Fresh)] :
     s \in [1..3 -> {40, 54, 55, 56, 100}]}

SmallRequests ==
  {Request(c, "balanced") : c \in FiveComparables \cup FourComparables \cup EightComparables}
    \cup {Request(c, strategy) : c \in ThreeComparables,
            strategy \in {"conservative", "balanced", "premium"}}
    \cup ContractRequests \cup OtherRequests \cup Misfits

Signals ==
  [historical_occupancy_7d |-> 50, booking_pace_7d |-> 0, competitor_price_median |-> 10,
   event_intensity |-> 5, review_score |-> 0, bedrooms |-> 20, accommodates |-> 1]

\* Bounds, increments and change limits for one tenant; every mismatch of scope
\* for one of them.
Context(tenant, currency, current, bounds, increment, change, occupancy) ==
  [tenant |-> tenant, currency |-> currency, current |-> current, minimum |-> bounds[1],
   maximum |-> bounds[2], increment |-> increment, change |-> change, occupancy |-> occupancy,
   signals |-> Signals, printable |-> TRUE, asOf |-> 1, stay |-> 1]
Bounds == {1, 9, 12} \X {9, 11, 14, 20}

\* One fault each, and what lies just within the limits.
Faulty(c) ==
  {[c EXCEPT !.current = 0], [c EXCEPT !.increment = 0], [c EXCEPT !.change = 36],
   [c EXCEPT !.occupancy = 101], [c EXCEPT !.printable = FALSE], [c EXCEPT !.stay = 0]}
    \cup {[c EXCEPT !.signals = s] :
            s \in {[Signals EXCEPT !.accommodates = 0], [Signals EXCEPT !.event_intensity = 6],
                   [latitude |-> 90] @@ Signals, [latitude |-> 90, longitude |-> 0] @@ Signals,
                   [latitude |-> 91, longitude |-> 0] @@ Signals}}

SmallPayloads ==
  {Context(acme, usd, current, b, increment, change, occupancy) :
     current \in {10, 13}, b \in Bounds, increment \in {1, 2, 3, 7},
     change \in {0, 20, 35}, occupancy \in {NoMinimum, 50}}
    \cup Faulty(Context(acme, usd, 10, <<9, 11>>, 2, 20, NoMinimum))
    \cup {Context(tenant, currency, 10, <<9, 11>>, 2, 20, NoMinimum) :
            tenant \in {acme, globex}, currency \in {usd, eur}}

\* What the configured URI may hold.
Model(tenant, compatible, warm) ==
  [tenants |-> {tenant}, currency |-> usd, compatible |-> compatible, warm |-> warm]
SmallPredictors == {Model(acme, TRUE, TRUE), Model(globex, TRUE, TRUE),
                    Model(acme, FALSE, TRUE), Model(acme, TRUE, FALSE)}
Scenario(from, holding, asked) ==
  [settings |-> from, source |-> holding, call |-> asked]

\* A local process that asks nobody for a key answers every request.
Local ==
  [production |-> FALSE, apiKey |-> "none", hosts |-> FALSE, keyTenant |-> NoTenant,
   servingTenant |-> NoTenant, trustProxy |-> FALSE, header |-> FALSE, uri |-> "other"]
Call(kind, tenant, payload, key, header) ==
  [kind |-> kind, tenant |-> tenant, payload |-> payload, key |-> key, header |-> header]
LocalScenarios ==
  {Scenario([Local EXCEPT !.uri = "none"], NoModel,
            Call("statistical", acme, r, FALSE, NoTenant)) : r \in SmallRequests}
    \cup {Scenario(Local, Model(acme, TRUE, TRUE),
                   Call("performance-aware", c.tenant, c, FALSE, NoTenant)) : c \in SmallPayloads}

\* Every way to name tenants in settings, model, key, header and payload.
SmallCalls(headers) ==
  {Call("statistical", tenant, Request(<<Comparable(1, 10000, 80, Fresh)>>, "balanced"),
        key, header) : tenant \in {acme, globex}, key \in BOOLEAN, header \in headers}
    \cup {Call("performance-aware", tenant,
               Context(tenant, usd, 10, <<9, 11>>, 2, 20, NoMinimum), key, header) :
             tenant \in {acme, globex}, key \in BOOLEAN, header \in headers}
Named == {acme, globex, NoTenant}
KeySettings ==
  [production : BOOLEAN, apiKey : {"none", "long"}, hosts : {TRUE}, keyTenant : Named,
   servingTenant : Named, trustProxy : {FALSE}, header : {FALSE}, uri : {"none", "champion"}]
ProxySettings ==
  [production : BOOLEAN, apiKey : {"long"}, hosts : {TRUE}, keyTenant : {NoTenant},
   servingTenant : Named, trustProxy : {TRUE}, header : {TRUE}, uri : {"none", "champion"}]
AccessScenarios ==
  {Scenario(s, Model(tenant, TRUE, TRUE), c) :
     s \in KeySettings, tenant \in {acme, globex}, c \in SmallCalls({NoTenant})}
    \cup {Scenario(s, Model(tenant, TRUE, TRUE), c) : s \in ProxySettings,
            tenant \in {acme, globex}, c \in SmallCalls(Named \cup {BadIdentity})}

\* Settings and models with one fault, for a production process of one tenant.
Production ==
  [production |-> TRUE, apiKey |-> "long", hosts |-> TRUE, keyTenant |-> acme,
   servingTenant |-> acme, trustProxy |-> FALSE, header |-> FALSE, uri |-> "champion"]
FaultySettings ==
  {[Production EXCEPT !.apiKey = "short"], [Production EXCEPT !.hosts = FALSE],
   [Production EXCEPT !.uri = "other"], [Production EXCEPT !.trustProxy = TRUE]}
FaultyScenarios ==
  {Scenario(s, Model(acme, TRUE, TRUE), c) : s \in FaultySettings, c \in SmallCalls({NoTenant})}
    \cup {Scenario(s, m, c) : s \in {Local, Production}, m \in SmallPredictors \cup {NoModel},
            c \in SmallCalls({NoTenant})}
    \cup {Scenario(Production, Model(acme, TRUE, TRUE),
                   Call("performance-aware", acme,
                        Context(acme, eur, 10, <<9, 11>>, 2, 20, NoMinimum), TRUE, NoTenant))}

SmallScenarios == LocalScenarios \cup AccessScenarios \cup FaultyScenarios
============================================================================
