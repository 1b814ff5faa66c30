---------------------------- MODULE CommandCenter ----------------------------
(***************************************************************************)
(* The traffic figures of an organization's websites: those its own        *)
(* tracker recorded (services/analytics/aggregation.py and their routes),  *)
(* those it read from Google Analytics (services/integrations/             *)
(* ai_intelligence.py, classification.py), and the command center, which   *)
(* puts the evidence on one website together (services/command_center.py). *)
(*                                                                         *)
(* Times are quarters of a day, percentages tenths.  What is recorded:     *)
(*   visits  [site, at, seen, channel, page, visitor  0 for none, views],  *)
(*           where page is [host, www, path, tail];                        *)
(*   sales   confirmed and claimed conversions, [visit  0 for none, site,  *)
(*           at, type, cents, verified];                                   *)
(*   audits  in their order, [key, done, fails  signals that fail].        *)
(* w is a window, [sites  none for all, from, to  exclusive].              *)
(***************************************************************************)
EXTENDS SiteOverview, Visibility

CONSTANTS MinSample,      \* _MIN_SAMPLE_SESSIONS
          HighSample,     \* sessions that give high confidence (100)
          MinTrend,       \* MIN_SESSIONS_FOR_TREND
          MinAnswers,     \* MIN_ANSWER_SAMPLES_HIGH_CONF
          MaxRange,       \* _MAX_RANGE_DAYS
          StaleDays,      \* SCAN_STALE_DAYS and ANSWER_RUN_STALE_DAYS
          InactiveDays,   \* TRACKING_INACTIVE_DAYS
          WindowDays,     \* TRAFFIC_WINDOW_DAYS
          MaxMappings     \* the event mappings of a property (50)

ASSUME TrafficAssumption ==
  /\ {MinSample, HighSample, MinTrend, MinAnswers} \subseteq Nat \ {0}
  /\ {MaxRange, StaleDays, InactiveDays, WindowDays, MaxMappings} \subseteq Nat

Day == 4
DayOf(t) == t \div Day
PerHundred(a, b) == IF b = 0 THEN Unknown ELSE Nearest(10000 * a, b)

\* _parse_range: the days asked for, Unknown for the default; the check allows the last day too
ParseRange(first, last, now) ==
  LET to == IF last = Unknown THEN now ELSE Day * (last + 1)
      from == IF first = Unknown THEN now - 30 * Day ELSE Day * first IN
  IF from > to \/ DayOf(to - from) > MaxRange + 1 THEN [ok |-> FALSE, from |-> 0, to |-> 0]
  ELSE [ok |-> TRUE, from |-> from, to |-> to]

----------------------------------------------------------------------------
(* The tracker's figures (aggregation.py)                                  *)

Assistants == {"chatgpt", "perplexity", "gemini", "copilot", "claude", "other_identifiable_ai"}
Diagnostic(page) == page.tail = "diagnostic"
\* page_key: neither "www." nor the slash, query or fragment at the end tells pages apart.
PageKey(page) == 10 * page.host + page.path

InWindow(x, w) == w.from <= x.at /\ x.at < w.to /\ (w.sites = {} \/ x.site \in w.sites)
SessionsIn(d, w) == {i \in DOMAIN d.visits : InWindow(d.visits[i], w) /\ ~ Diagnostic(d.visits[i].page)}
SalesIn(d, w) ==
  {k \in DOMAIN d.sales : /\ InWindow(d.sales[k], w)
                          /\ d.sales[k].visit # 0 => ~ Diagnostic(d.visits[d.sales[k].visit].page)}
Confirmed(d, w) == {k \in SalesIn(d, w) : d.sales[k].verified}
ChannelOf(d, k) == IF d.sales[k].visit = 0 THEN "unlinked" ELSE d.visits[d.sales[k].visit].channel
Revenue(d, S) == MapThenSumSet(LAMBDA k : d.sales[k].cents, {k \in S : d.sales[k].type = "purchase"})

\* conversion_tracking_configured and first_session_at
Configured(d, sites) == \E k \in DOMAIN d.sales : d.sales[k].verified /\ (sites = {} \/ d.sales[k].site \in sites)
Starts(d, sites) ==
  {d.visits[i].at : i \in {j \in DOMAIN d.visits : /\ ~ Diagnostic(d.visits[j].page)
                                                   /\ sites = {} \/ d.visits[j].site \in sites}}

Visitors(d, S) == {d.visits[i].visitor : i \in S} \ {0}
Summary(d, w) ==
  LET S == SessionsIn(d, w)
      ai == {i \in S : d.visits[i].channel \in Assistants}
      sold == Confirmed(d, w)
      aiSold == {k \in sold : ChannelOf(d, k) \in Assistants}
      ofType(K, t) == Cardinality({k \in K : d.sales[k].type = t}) IN
  [sessions |-> Cardinality(S), views |-> MapThenSumSet(LAMBDA i : d.visits[i].views, S),
   visitors |-> Cardinality(Visitors(d, S)), ai |-> Cardinality(ai), ai_visitors |-> Cardinality(Visitors(d, ai)),
   share |-> Percent(Cardinality(ai), Cardinality(S)), ai_conversions |-> Cardinality(aiSold),
   ai_rate |-> PerHundred(Cardinality(aiSold), Cardinality(ai)), ai_revenue |-> Revenue(d, aiSold),
   bookings |-> ofType(sold, "booking"), leads |-> ofType(sold, "lead"),
   claimed |-> [t \in {"booking", "lead"} |-> ofType(SalesIn(d, w) \ sold, t)],
   configured |-> Configured(d, w.sites)]
\* GET /business-impact/summary: conversions only for those who pay
ProFigures == {"ai_conversions", "ai_rate", "ai_revenue", "bookings", "leads", "claimed"}
ServedSummary(d, w, pro) ==
  [f \in DOMAIN Summary(d, w) |-> IF f \in ProFigures /\ ~ pro THEN Unknown ELSE Summary(d, w)[f]]

\* traffic_over_time: every day of the range, in the timezone of the organization; before
\* the first session there is no total
OverTime(d, w, offset) ==
  [day \in DayOf(w.from + offset) .. DayOf(w.to + offset - 1) |->
     LET S == {i \in SessionsIn(d, w) : DayOf(d.visits[i].at + offset) = day}
         tracked == \E t \in Starts(d, w.sites) : DayOf(t + offset) <= day IN
     [tracked |-> tracked, total |-> IF tracked THEN Cardinality(S) ELSE Unknown,
      channels |-> [c \in {d.visits[i].channel : i \in S} |-> Cardinality({i \in S : d.visits[i].channel = c})]]]

ChannelBreakdown(d, w) ==
  [c \in {d.visits[i].channel : i \in SessionsIn(d, w)} \union {ChannelOf(d, k) : k \in Confirmed(d, w)} |->
     LET n == Cardinality({i \in SessionsIn(d, w) : d.visits[i].channel = c})
         sold == {k \in Confirmed(d, w) : ChannelOf(d, k) = c} IN
     [sessions |-> n, conversions |-> Cardinality(sold), revenue |-> Revenue(d, sold),
      rate |-> PerHundred(Cardinality(sold), n)]]

\* _prioritize of one page; conversions count only where they are measured at all
TrafficPattern(r, measured) ==
  LET share == Percent(r.ai, r.sessions) IN
  CASE r.sessions < MinSample -> "none"
    [] r.sessions >= MinSample /\ ~ measured -> IF 20 * r.ai >= 3 * r.sessions THEN "unmeasured" ELSE "steady"
    [] OTHER -> IF 20 * r.ai >= 3 * r.sessions /\ r.rate < 100 THEN "ai_converts_poorly"
                ELSE IF r.rate >= 300 /\ r.sessions < HighSample THEN "converts_well"
                ELSE IF 10 * r.ai >= r.sessions /\ r.revenue > 0 THEN "ai_outcome" ELSE "steady"
PatternPriority == [ai_converts_poorly |-> 0, unmeasured |-> 1, converts_well |-> 1, ai_outcome |-> 1, steady |-> 2,
                    none |-> 3]

\* landing_page_performance: by page; a conversion counts for the page its visit began on, if
\* that address was visited in the window too
LandingPage(d, w, key) ==
  LET S == {i \in SessionsIn(d, w) : PageKey(d.visits[i].page) = key}
      variants == {d.visits[i].page : i \in S}
      sold == {k \in Confirmed(d, w) : d.sales[k].visit # 0 /\ d.visits[d.sales[k].visit].page \in variants}
      measured == Configured(d, w.sites)
      row == [key |-> key, sessions |-> Cardinality(S), variants |-> Cardinality(variants),
              ai |-> Cardinality({i \in S : d.visits[i].channel \in Assistants}),
              conversions |-> IF measured THEN Cardinality(sold) ELSE Unknown, revenue |-> Revenue(d, sold),
              rate |-> IF measured THEN PerHundred(Cardinality(sold), Cardinality(S)) ELSE Unknown] IN
  row @@ ("pattern" :> TrafficPattern(row, measured))
\* _aeo_context: the newest completed audit of the page
FailingSignals(d, key) ==
  LET n == Max({0} \union {i \in DOMAIN d.audits : d.audits[i].key = key /\ d.audits[i].done}) IN
  IF n = 0 THEN {} ELSE d.audits[n].fails
\* By priority, then by sessions; pages equal in both come as their keys do.
LandingPages(d, w) ==
  LET rows == {LandingPage(d, w, PageKey(d.visits[i].page)) : i \in SessionsIn(d, w)}
      rank(r) == 1000000 * PatternPriority[r.pattern] + 1000 * (500 - r.sessions) + r.key IN
  First([k \in 1 .. Cardinality(rows) |->
           CHOOSE r \in rows : Cardinality({s \in rows : rank(s) < rank(r)}) = k - 1], Cardinality(rows))

----------------------------------------------------------------------------
(* Google Analytics (classification.py, ai_intelligence.py).  A connection *)
(* is [property  0 for none, linked  the website or 0, revoked, failed     *)
(* whether the last sync failed, synced, landed, evented  when each report *)
(* was last read, Unknown for never, keys  the key events or Never,        *)
(* currency, rows, landing, events, mappings].                             *)
(* A host is the sequence of its names, the last first.                    *)

KnownHost == << <<"com", "chatgpt">> :> "chatgpt", <<"com", "openai", "chat">> :> "chatgpt",
                <<"ai", "perplexity">> :> "perplexity", <<"com", "google", "gemini">> :> "gemini",
                <<"com", "microsoft", "copilot">> :> "copilot", <<"ai", "claude">> :> "claude",
                <<"com", "you">> :> "other_ai", <<"com", "poe">> :> "other_ai" >>
AiClasses == {"chatgpt", "perplexity", "gemini", "claude", "copilot", "other_ai"}
\* The host itself or a part of it, never a name that only looks like it
ClassifySource(host, medium) ==
  LET known == {k \in DOMAIN KnownHost : \E h \in DOMAIN KnownHost[k] : IsPrefix(h, host)} IN
  IF known # {} THEN LET k == KnownHost[Min(known)] IN k[CHOOSE h \in DOMAIN k : TRUE]
  ELSE IF host = <<>> \/ (host = <<"google">> /\ medium = "organic") THEN "unattributable"
  ELSE "other_identifiable"
ChannelClass == [organic_search |-> "organic_search", organic_shopping |-> "organic_search",
  paid_search |-> "paid_search", paid_shopping |-> "paid_search", direct |-> "direct", referral |-> "referral",
  organic_social |-> "social", paid_social |-> "social"]
TrafficClasses == AiClasses \union {"organic_search", "paid_search", "direct", "referral", "social", "other"}
TrafficClass(r) ==
  LET label == ClassifySource(r.host, r.medium) IN
  IF label \in AiClasses THEN label
  ELSE IF r.group \in DOMAIN ChannelClass THEN ChannelClass[r.group]
  ELSE IF r.medium = "organic" THEN "organic_search" ELSE "other"

\* validate_mappings and replace_mappings: all of them or none; they are of the property that
\* is selected now
ValidMappings(items) ==
  /\ Len(items) <= MaxMappings
  /\ \A i, j \in DOMAIN items : items[i].name = items[j].name => i = j
  /\ \A i \in DOMAIN items : /\ items[i].role \in {"conversion", "funnel"}
                             /\ items[i].role = "conversion" => items[i].type \in {"purchase", "lead", "custom"}
Cleaned(it, property) ==
  [it EXCEPT !.type = IF it.role = "conversion" THEN @ ELSE "none", !.revenue = @ /\ it.role = "conversion"]
    @@ ("property" :> property)
ReplaceMappings(g, items) ==
  IF g.property = 0 \/ ~ ValidMappings(items) THEN g
  ELSE [g EXCEPT !.mappings = {Cleaned(items[i], g.property) : i \in DOMAIN items}]
Mappings(g) == {m \in g.mappings : m.property = g.property}

\* conversion_definition: what the business chose, else what is marked in GA4, else nothing
StandardType == [purchase |-> "purchase", generate_lead |-> "lead"]
TypeByName(name) == IF name \in DOMAIN StandardType THEN StandardType[name] ELSE "custom"
ConversionDefinition(g) ==
  LET chosen == {m \in Mappings(g) : m.role = "conversion"} IN
  IF chosen # {}
  THEN [mode |-> "mapped", revenue |-> {m.name : m \in {x \in chosen : x.revenue}},
        types |-> [n \in {m.name : m \in chosen} |-> (CHOOSE m \in chosen : m.name = n).type]]
  ELSE IF g.keys \notin {Never, {}}
  THEN [mode |-> "ga4_key_events", types |-> [n \in g.keys |-> TypeByName(n)],
        revenue |-> g.keys \intersect {"purchase"}]
  ELSE [mode |-> "none", types |-> <<>>, revenue |-> {}]

InDays(S, from, to) == {i \in DOMAIN S : from <= S[i].date /\ S[i].date <= to}
SumOf(S, I, f) == MapThenSumSet(LAMBDA i : S[i][f], I)
KnownSum(S, I, f) ==
  LET known == {i \in I : S[i][f] # Unknown} IN IF known = {} THEN Unknown ELSE SumOf(S, known, f)

\* build_intelligence over the days from .. to; readers see the fifteen largest pages
Intelligence(g, from, to) ==
  LET I == InDays(g.rows, from, to)
      E == InDays(g.events, from, to)
      L == InDays(g.landing, from, to)
      def == ConversionDefinition(g)
      measured == g.evented # Unknown /\ def.mode # "none"
      chosen == IF measured THEN {i \in E : g.events[i].name \in DOMAIN def.types} ELSE {}
      paid == g.currency /\ \E i \in I : g.rows[i].revenue # Unknown
      total == SumOf(g.rows, I, "sessions")
      row(C) == LET J == {i \in I : TrafficClass(g.rows[i]) \in C}
                    n == SumOf(g.rows, J, "sessions")
                    sold == SumOf(g.events, {i \in chosen : g.events[i].class \in C}, "count") IN
                [sessions |-> n, share |-> Percent(n, total), conversions |-> IF measured THEN sold ELSE Unknown,
                 rate |-> IF measured THEN PerHundred(sold, n) ELSE Unknown,
                 revenue |-> IF paid THEN KnownSum(g.rows, J, "revenue") ELSE Unknown]
      onDay(day, C) ==
        SumOf(g.rows, {i \in I : g.rows[i].date = day /\ TrafficClass(g.rows[i]) \in C}, "sessions")
      pageSum(p, C) == SumOf(g.landing, {i \in L : g.landing[i].path = p /\ g.landing[i].class \in C}, "sessions")
      shown == {c \in TrafficClasses : row({c}).sessions > 0 \/ row({c}).conversions > 0} IN
  [total |-> total, ai |-> row(AiClasses), organic |-> row({"organic_search"}), measured |-> measured,
   conversions |-> IF measured THEN SumOf(g.events, chosen, "count") ELSE Unknown,
   by_type |-> [t \in {def.types[g.events[i].name] : i \in chosen} |->
                  SumOf(g.events, {i \in chosen : def.types[g.events[i].name] = t}, "count")],
   comparison |-> [c \in shown |-> row({c})],
   daily |-> [day \in {g.rows[i].date : i \in I} |->
                [ai |-> onDay(day, AiClasses), organic |-> onDay(day, {"organic_search"}),
                 other |-> onDay(day, TrafficClasses \ (AiClasses \union {"organic_search"}))]],
   pages |-> [p \in {g.landing[i].path : i \in L} |->
                [sessions |-> pageSum(p, TrafficClasses \union {"unsplit"}), ai |-> pageSum(p, AiClasses),
                 organic |-> pageSum(p, {"organic_search"})]],
   unsplit |-> SumOf(g.landing, {i \in L : g.landing[i].class = "unsplit"}, "sessions"),
   partial |-> g.rows # <<>> /\ Min({g.rows[i].date : i \in DOMAIN g.rows}) > from]

\* event_catalog: every event seen or mapped, with a suggestion for those not mapped
EventCatalog(g, from, to) ==
  LET seen == {g.events[i].name : i \in InDays(g.events, from, to)}
      mapped == {m.name : m \in Mappings(g)} IN
  [events |-> [n \in seen \union mapped |->
                 [seen |-> n \in seen, mapped |-> n \in mapped,
                  suggested |-> n \notin mapped /\ n \in DOMAIN StandardType,
                  key |-> IF g.keys = Never THEN Unknown ELSE IF n \in g.keys THEN 1 ELSE 0]],
   collected |-> seen \intersect DOMAIN StandardType]

----------------------------------------------------------------------------
(* The indicators of one website (command_center.py).  A desk is           *)
(*   [site, now, pro, from, to, data  of the tracker,                      *)
(*    scan      the latest, none or [at, sections, causal  the sections    *)
(*              whose issues are worded as causes],                        *)
(*    run       the latest real one, none or [at, partial, answers,        *)
(*              causal  prompts worded so],                                *)
(*    ga        the connection or none, crawls  the sequence of them].     *)

None == [none |-> TRUE]
Old(at, now, days) == DayOf(now - at) > days
PctChange(cur, prev) == IF prev = 0 THEN Unknown ELSE Nearest(1000 * (cur - prev), prev)
Window(k) == [sites |-> {k.site}, from |-> k.from, to |-> k.to]
Before(k) == [sites |-> {k.site}, from |-> 2 * k.from - k.to, to |-> k.from]
OnSite(k) == {i \in DOMAIN k.data.visits : k.data.visits[i].site = k.site}
FirstSeen(k) == Min({k.data.visits[i].at : i \in OnSite(k)})
LastSeen(k) == Max({k.data.visits[i].seen : i \in OnSite(k)})
\* The previous period counts only if tracking covered all of it.
HasPrevious(k) == OnSite(k) # {} /\ FirstSeen(k) <= Before(k).from

TechnicalStatus(k) ==
  IF k.scan = None THEN "not_configured" ELSE IF Old(k.scan.at, k.now, StaleDays) THEN "stale" ELSE "available"
AiStatus(k) ==
  CASE k.run = None -> "not_configured"
    [] k.run # None /\ Successful(k.run.answers) = {} -> "insufficient_data"
    [] OTHER -> IF Old(k.run.at, k.now, StaleDays) THEN "stale" ELSE IF k.run.partial THEN "partial" ELSE "available"
TrafficStatus(k) ==
  IF OnSite(k) = {} THEN "not_configured"
  ELSE IF k.now - LastSeen(k) > Day * InactiveDays THEN "stale"
  ELSE IF Summary(k.data, Window(k)).sessions = 0 THEN "zero" ELSE "available"

\* _ga4; the range is in whole days, the last one before "to"
GaDays(k) == [from |-> DayOf(k.from), to |-> DayOf(k.to - Day)]
GaRows(k) == InDays(k.ga.rows, GaDays(k).from, GaDays(k).to)
GaFirst(k) == Min({k.ga.rows[i].date : i \in DOMAIN k.ga.rows})
GaStatus(k) ==
  LET g == k.ga IN
  IF g = None THEN "not_configured"
  ELSE IF g.property = 0 \/ g.linked = 0 THEN "not_configured"
  ELSE IF g.linked # k.site \/ ~ k.pro THEN "unavailable"
  ELSE IF g.revoked THEN "not_configured"
  ELSE IF g.synced = Unknown THEN IF g.failed THEN "error" ELSE "not_configured"
  ELSE IF g.rows = <<>> THEN "insufficient_data"
  ELSE IF GaFirst(k) > GaDays(k).to THEN "unavailable"
  ELSE IF g.failed THEN "error" ELSE IF k.now - g.synced > 2 * Day THEN "stale"
  ELSE IF GaFirst(k) > GaDays(k).from THEN "partial"
  ELSE IF SumOf(g.rows, GaRows(k), "sessions") = 0 THEN "zero" ELSE "available"
GaShown(k) ==
  /\ k.ga # None
  /\ k.ga.property # 0 /\ k.ga.linked = k.site /\ k.pro /\ ~ k.ga.revoked /\ k.ga.synced # Unknown
  /\ k.ga.rows # <<>> /\ GaFirst(k) <= GaDays(k).to
KeyEventsKnown(k) ==
  /\ k.ga # None
  /\ k.ga.property # 0 /\ k.ga.linked = k.site /\ k.pro /\ ~ k.ga.revoked /\ k.ga.synced # Unknown
  /\ k.ga.keys \notin {Never, {}}

\* _action_center: what is open in the newest completed crawl, whatever it is
OpenRows(k) == OpenOnes(FindingsOf(k.crawls[Max(Completed(k.crawls))]))
ActionStatus(k) ==
  IF Completed(k.crawls) = {} THEN "not_configured" ELSE IF OpenRows(k) = {} THEN "zero" ELSE "available"

Indicators(k) ==
  LET cur == Summary(k.data, Window(k))
      prev == Summary(k.data, Before(k)) IN
  [technical |-> TechnicalStatus(k), ai_visibility |-> AiStatus(k), traffic |-> TrafficStatus(k), ga4 |-> GaStatus(k),
   action_center |-> ActionStatus(k),
   conversions |-> IF Configured(k.data, {k.site}) \/ KeyEventsKnown(k) THEN "available" ELSE "not_configured",
   change |-> IF HasPrevious(k) THEN PctChange(cur.sessions, prev.sessions) ELSE Unknown,
   ga_sessions |-> IF GaShown(k) THEN SumOf(k.ga.rows, GaRows(k), "sessions") ELSE Unknown,
   ga_ai |-> IF GaShown(k)
             THEN SumOf(k.ga.rows,
                        {i \in GaRows(k) : ClassifySource(k.ga.rows[i].host, k.ga.rows[i].medium) \in AiClasses},
                        "sessions") ELSE Unknown]

----------------------------------------------------------------------------
(* The findings and their validation.  A finding is [id, priority 0 high   *)
(* .. 2 low, title, evidence, sample  the numbers in each, in tenths,      *)
(* calc  none or a calculation, says  its statements,                      *)
(* [type, quote, numbers, causal]].                                        *)

Nums(S) == {10 * n : n \in S}
Calculated(formula, a, b) ==
  IF b = 0 THEN None
  ELSE [formula |-> formula, inputs |-> <<a, b>>,
        result |-> IF formula = "pct_change" THEN Nearest(1000 * (a - b), b) ELSE Nearest(1000 * a, b)]
Magnitude(n) == Max({n, -n})
CalcNumbers(c) == IF c = None THEN {} ELSE Nums({c.inputs[1], c.inputs[2], 100}) \union {Magnitude(c.result)}
Says(type, numbers) == [type |-> type, quote |-> FALSE, numbers |-> numbers, causal |-> FALSE]
Quoted(causal) == [type |-> "observed", quote |-> TRUE, numbers |-> {}, causal |-> causal]

\* validation_errors
Stated(f) == {s \in f.says : s.type \in {"observed", "calculated"}}
ValidationErrors(f) ==
  {e \in {"no_evidence", "nothing_observed", "not_reproduced", "ungrounded", "causal"} :
     \/ e = "no_evidence" /\ f.evidence = {}
     \/ e = "nothing_observed" /\ \A s \in f.says : s.type # "observed"
     \/ /\ e = "not_reproduced"
        /\ \E s \in f.says : s.type = "calculated"
        /\ f.calc = None \/ f.calc # Calculated(f.calc.formula, f.calc.inputs[1], f.calc.inputs[2])
     \/ /\ e = "ungrounded"
        /\ ~ (f.title \union UNION {s.numbers : s \in {x \in Stated(f) : ~ x.quote}}
                \subseteq f.evidence \union f.sample \union CalcNumbers(f.calc))
     \/ e = "causal" /\ \E s \in Stated(f) : s.causal}

Finding(id, priority, title, evidence, sample, calc, says) ==
  [id |-> id, priority |-> priority, title |-> Nums(title), evidence |-> Nums(evidence), sample |-> Nums(sample),
   calc |-> calc, says |-> says]

TechnicalFindings(k) ==
  IF k.scan = None THEN {}
  ELSE LET s == k.scan.sections
           top == First(Recommendations(s), 3) IN
       {Finding(<<"technical", i>>, Urgency(s[i]), {}, {s[i].score, 100}, {}, None,
                {Says("observed", Nums({s[i].score, 100})), Says("recommendation", {})}
                  \union (IF s[i].issues > 0 THEN {Quoted(i \in k.scan.causal)} ELSE {})) :
          i \in {top[n] : n \in {m \in DOMAIN top : Urgency(s[top[m]]) <= 1}}}

GapPrompts(k) == {p \in PromptsOf(k.run.answers) : IsGap(k.run.answers, p)}
VisibilityFindings(k) ==
  IF k.run = None THEN {}
  ELSE LET analyzed == Cardinality(Successful(k.run.answers))
           gaps == Cardinality(GapPrompts(k))
           all == Cardinality(PromptsOf(k.run.answers)) IN
       {Finding(<<"gaps">>, IF 2 * gaps >= all THEN 0 ELSE 1, {gaps, all}, {gaps, all, analyzed}, {analyzed}, None,
                {Says("observed", Nums({gaps})), Says("recommendation", {})}
                  \union {Quoted(p \in k.run.causal) :
                             p \in {q \in GapPrompts(k) : Cardinality({r \in GapPrompts(k) : r < q}) < 3}}
                  \union {Says("unavailable", Nums({m})) : m \in {analyzed} \intersect (0 .. MinAnswers - 1)}) :
          n \in {gaps} \ {0}}

TrendFinding(cur, prev) ==
  LET calc == Calculated("pct_change", cur, prev) IN
  IF cur < MinTrend \/ prev < MinTrend \/ Magnitude(calc.result) < 200 THEN {}
  ELSE {[Finding(<<"sessions">>, IF calc.result <= -300 THEN 0 ELSE IF calc.result < 0 THEN 1 ELSE 2, {}, {cur, prev},
                 {cur + prev}, calc,
                 {Says("observed", Nums({cur, prev})), Says("recommendation", {}),
                  Says("calculated", Nums({cur, prev}) \union {Magnitude(calc.result)})})
         EXCEPT !.title = {Magnitude(calc.result)}]}
TrendFindings(k) ==
  IF HasPrevious(k) THEN TrendFinding(Summary(k.data, Window(k)).sessions, Summary(k.data, Before(k)).sessions) ELSE {}
ShareFinding(s) ==
  LET calc == Calculated("share_pct", s.ai, s.sessions) IN
  {Finding(<<"ai">>, 2, {n}, {n}, {s.sessions}, calc,
           {Says("observed", Nums({n, s.sessions})),
            Says("calculated", Nums({n, s.sessions, 100}) \union {Magnitude(calc.result)})}) : n \in {s.ai} \ {0}}
ShareFindings(k) == ShareFinding(Summary(k.data, Window(k)))
UnmeasuredFindings(k) ==
  IF Configured(k.data, {k.site}) \/ Summary(k.data, Window(k)).sessions = 0 THEN {}
  ELSE {Finding(<<"unmeasured">>, 1, {}, {0}, {}, None, {Says("observed", {}), Says("recommendation", {})})}
\* Of the first ten pages, three at most; only for those who pay
PageFindings(k) ==
  LET rows == First(LandingPages(k.data, Window(k)), 10)
      told == First(SelectSeq(rows, LAMBDA r : r.sessions >= MinSample /\ FailingSignals(k.data, r.key) # {}), 3) IN
  IF ~ k.pro THEN {}
  ELSE {Finding(<<"page", r.key>>, 1, {}, {r.sessions, 100}, {r.sessions}, None,
                {Says("observed", Nums({r.sessions})), Says("recommendation", {})}) : r \in Range(told)}
TrafficFindings(k) ==
  IF OnSite(k) = {} THEN {}
  ELSE TrendFindings(k) \union ShareFindings(k) \union UnmeasuredFindings(k) \union PageFindings(k)

UrgentFinding(open) ==
  LET of(S) == Cardinality({f \in open : f.severity \in S}) IN
  {Finding(<<"urgent">>, 0, {n}, {of({4}), of({3}), n, Cardinality(open)}, {}, None,
           {Says("observed", Nums({n, Cardinality(open)})), Says("recommendation", {})}) : n \in {of({3, 4})} \ {0}}
UrgentFindings(k) == IF Completed(k.crawls) = {} THEN {} ELSE UrgentFinding(OpenRows(k))

Built(k) == TechnicalFindings(k) \union UrgentFindings(k) \union VisibilityFindings(k) \union TrafficFindings(k)
Told(k) == {f \in Built(k) : ValidationErrors(f) = {}}

\* overview.page_traffic, of the page with the path p, whatever slash it ends in.  The figures
\* of GA4 are told even after it was disconnected.
PageTraffic(k, key, p) ==
  LET recent == [sites |-> {k.site}, from |-> k.now - Day * WindowDays, to |-> k.now + 1]
      since == DayOf(recent.from)
      own == Cardinality({i \in SessionsIn(k.data, recent) : PageKey(k.data.visits[i].page) = key})
      ga == SumOf(k.ga.landing,
                   {i \in InDays(k.ga.landing, since, DayOf(k.now)) : k.ga.landing[i].path = p}, "sessions") IN
  [own |-> IF OnSite(k) = {} THEN "not_configured" ELSE IF own > 0 THEN "available" ELSE "zero", sessions |-> own,
   ga |-> IF k.ga = None THEN "not_configured"
          ELSE IF k.ga.property = 0 \/ k.ga.linked # k.site THEN "not_configured"
          ELSE IF ~ k.pro THEN "unavailable" ELSE IF k.ga.landed = Unknown THEN "not_configured"
          ELSE IF k.now - k.ga.landed > 2 * Day THEN "stale" ELSE IF ga > 0 THEN "available" ELSE "zero"]

----------------------------------------------------------------------------
(* Properties                                                              *)

Offsets == {-2, 0, 3}
Additive == {"sessions", "views", "ai", "ai_conversions", "ai_revenue", "bookings", "leads"}
(***************************************************************************)
(* The tracker tells the same visits four times.  The summary is the sum   *)
(* of the channels, of the landing pages and, in any timezone, of the days *)
(* that were tracked; the AI's conversions and revenue are those of its    *)
(* channels; two halves of a range add up to it, visitors at most; neither *)
(* what a diagnostic visit says nor a conversion that is only claimed      *)
(* changes any of it; and while conversions are not measured no page is    *)
(* told that it converts badly (aggregation.py:53-384).                    *)
(***************************************************************************)
FiguresMatch(d, w, s, by, pages) ==
  LET bots == Assistants \intersect DOMAIN by
      middle == (w.from + w.to) \div 2
      early == Summary(d, [w EXCEPT !.to = middle])
      late == Summary(d, [w EXCEPT !.from = middle])
      tests == {i \in DOMAIN d.visits : Diagnostic(d.visits[i].page)}
      other == [d EXCEPT !.visits =
                  [i \in DOMAIN @ |-> IF i \in tests THEN [@[i] EXCEPT !.channel = "claude", !.visitor = 9, !.views = 7]
                                      ELSE @[i]]]
      known == [d EXCEPT !.sales = SelectSeq(@, LAMBDA x : x.verified)]
      sum(f) == MapThenSumSet(LAMBDA c : by[c][f], DOMAIN by)
      pageSum(f) == MapThenSumSet(LAMBDA n : pages[n][f], DOMAIN pages) IN
  /\ s.sessions = sum("sessions") /\ s.sessions = pageSum("sessions") /\ s.ai = pageSum("ai")
  /\ s.ai = MapThenSumSet(LAMBDA c : by[c].sessions, bots)
  /\ s.ai_conversions = MapThenSumSet(LAMBDA c : by[c].conversions, bots)
  /\ s.ai_revenue = MapThenSumSet(LAMBDA c : by[c].revenue, bots)
  /\ sum("conversions") = Cardinality(Confirmed(d, w))
  /\ \A offset \in Offsets :
       LET all == OverTime(d, w, offset)
           tracked == {day \in DOMAIN all : all[day].tracked} IN
       /\ s.sessions = MapThenSumSet(LAMBDA day : all[day].total, tracked)
       /\ \A day \in DOMAIN all \ tracked : all[day].channels = <<>>
  /\ s.ai_visitors <= s.visitors /\ s.share \in 0 .. 1000 \union {Unknown}
  /\ s.visitors <= Cardinality({i \in SessionsIn(d, w) : d.visits[i].visitor # 0})
  /\ \A f \in Additive : s[f] = early[f] + late[f] /\ s[f] = Summary(known, w)[f]
  /\ s.visitors <= early.visitors + late.visitors
  /\ Summary(other, w) = s /\ ChannelBreakdown(other, w) = by /\ LandingPages(other, w) = pages
  /\ \A n \in DOMAIN pages :
       /\ pages[n].pattern = "ai_converts_poorly" => s.configured /\ pages[n].ai > 0
       /\ (pages[n].conversions = Unknown) = ~ s.configured
       /\ \A m \in DOMAIN pages : m < n => PatternPriority[pages[m].pattern] <= PatternPriority[pages[n].pattern]
  /\ s.configured => pageSum("conversions") <= sum("conversions")
TrafficAgrees(d, w) == FiguresMatch(d, w, Summary(d, w), ChannelBreakdown(d, w), LandingPages(d, w))

(***************************************************************************)
(* What GA4 reported adds up: the classes, the days and the total; the     *)
(* conversions by class and by type, which are unknown rather than zero    *)
(* while none are measured; the split of each page stays below its         *)
(* sessions; Google's results are never AI, nor is a host that only has    *)
(* the name of an assistant in front of its own, while any host of the     *)
(* assistant is; and adjacent ranges add up (ai_intelligence.py:188-345,   *)
(* classification.py:56-119).                                              *)
(***************************************************************************)
GaAddsUp(x) ==
  LET classes == DOMAIN x.comparison
      sum(C, f) == MapThenSumSet(LAMBDA c : x.comparison[c][f], C) IN
  /\ x.total = sum(classes, "sessions")
  /\ x.total = MapThenSumSet(LAMBDA n : x.daily[n].ai + x.daily[n].organic + x.daily[n].other, DOMAIN x.daily)
  /\ x.ai.sessions = sum(classes \intersect AiClasses, "sessions") /\ x.ai.sessions + x.organic.sessions <= x.total
  /\ x.measured =>
       /\ x.conversions = sum(classes, "conversions")
       /\ x.conversions = MapThenSumSet(LAMBDA t : x.by_type[t], DOMAIN x.by_type)
       /\ x.ai.conversions = sum(classes \intersect AiClasses, "conversions")
  /\ ~ x.measured => \A c \in classes : {x.conversions, x.comparison[c].conversions, x.comparison[c].rate} = {Unknown}
  /\ \A p \in DOMAIN x.pages : x.pages[p].ai + x.pages[p].organic <= x.pages[p].sessions
GaAgrees(g, from, to) ==
  LET total(a, b) == Intelligence(g, a, b).total
      middle == (from + to) \div 2 IN
  /\ GaAddsUp(Intelligence(g, from, to))
  /\ \A i \in DOMAIN g.rows :
       LET host == g.rows[i].host
           class(h) == TrafficClass([g.rows[i] EXCEPT !.host = h]) IN
       /\ host = <<"google">> => class(host) \notin AiClasses
       /\ class(<<"example">> \o host) \notin AiClasses
       /\ class(host) \in AiClasses => class(Append(host, "app")) = class(host)
  /\ total(from, to) = total(from, middle) + total(middle + 1, to)

(***************************************************************************)
(* The events a business chose stand until it chooses others: a refused    *)
(* list changes nothing, an accepted one is kept whole and says one thing  *)
(* of an event; they decide what counts as a conversion for the property   *)
(* they were chosen for and for no other; and no event is suggested that   *)
(* is mapped (ai_intelligence.py:78-179).                                  *)
(***************************************************************************)
MappingsKept(g, items) ==
  LET after == ReplaceMappings(g, items)
      def == ConversionDefinition(after)
      catalog == EventCatalog(after, 0, 9) IN
  /\ after = g \/ (Cardinality(Mappings(after)) = Len(items) /\ after.mappings = Mappings(after))
  /\ after # g => (def.mode = "mapped") = (\E i \in DOMAIN items : items[i].role = "conversion")
  /\ \A m, n \in Mappings(after) : m.name = n.name => m = n
  /\ def.revenue \subseteq DOMAIN def.types
  /\ def.mode = "mapped" => DOMAIN def.types \subseteq DOMAIN catalog.events
  /\ \A n \in DOMAIN catalog.events : catalog.events[n].suggested => n \notin {m.name : m \in Mappings(after)}
  /\ after # g => ConversionDefinition([after EXCEPT !.property = @ + 1]).mode # "mapped"

(***************************************************************************)
(* The command center is honest.  A finding that was built is told unless  *)
(* a text it quotes claims a cause, and its trend and share are those of   *)
(* the figures; a period is compared with one that was tracked all the     *)
(* time, unless the first visit was a diagnostic one; what it says of GA4  *)
(* is what the GA4 overview says of the days the tracker tells of, zero    *)
(* only when nothing is missing, and is shown to nobody without a plan or  *)
(* a link to this website, by the page's own record neither; and it counts *)
(* as open no less than the overview of the crawl, and no more but for     *)
(* what is not a recommendation (command_center.py:192-620,                *)
(* overview.py:339-384).                                                   *)
(***************************************************************************)
GaHonest(k, ind, g) ==
  ind.ga_sessions # Unknown =>
    /\ ind.ga_sessions = g.total /\ ind.ga_ai = g.ai.sessions
    /\ ind.ga4 = "zero" => g.total = 0 /\ ~ g.partial /\ ~ k.ga.failed
    /\ ind.ga4 = "available" => g.total > 0 /\ ~ g.partial
Honest(k, ind, built, F) ==
  LET before == OverTime(k.data, Before(k), 0)
      first == {i \in OnSite(k) : k.data.visits[i].at = FirstSeen(k)}
      closed == ~ k.pro \/ k.ga = None IN
  /\ \A f \in built : f \in Told(k) \/ \E s \in f.says : s.quote /\ s.causal
  /\ \A f \in built : f.id = <<"sessions">> => f.calc.result = ind.change
  /\ \A f \in built : f.id = <<"ai">> => f.calc.result = Summary(k.data, Window(k)).share
  /\ \A f, g \in built : f.id = g.id => f = g
  /\ ind.change # Unknown => \/ \A day \in DOMAIN before : before[day].tracked
                             \/ \E i \in first : Diagnostic(k.data.visits[i].page)
  /\ k.from % Day = 0 /\ k.to % Day = 0 => GaDays(k).from .. GaDays(k).to = DOMAIN OverTime(k.data, Window(k), 0)
  /\ GaHonest(k, ind, Intelligence(k.ga, GaDays(k).from, GaDays(k).to))
  /\ ind.ga4 \in {"available", "zero", "partial", "stale"} => ind.ga_sessions # Unknown
  /\ closed => /\ ind.ga_sessions = Unknown
               /\ PageTraffic(k, 11, 1).ga \in {"not_configured", "unavailable"}
  /\ PageTraffic(k, 11, 1).ga \in {"available", "zero", "stale"} => k.ga.linked = k.site
  /\ (PageTraffic(k, 11, 1).own = "not_configured") = (ind.traffic = "not_configured")
  /\ Completed(k.crawls) # {} =>
       /\ Cardinality(OpenRows(k)) >= FindingCounts(F).open
       /\ OpenRows(k) \ OpenOnes(Actionable(F)) \subseteq {f \in F : IsPlaceholder(f) \/ f.confidence = "insufficient"}
CenterHonest(k) == Honest(k, Indicators(k), Built(k), FindingsOf(k.crawls[Max(Completed(k.crawls))]))
=============================================================================
