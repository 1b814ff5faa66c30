---------------------------- MODULE PageAnalysis ----------------------------
(***************************************************************************)
(* What a page is, what is wrong with it, what fixing it is worth and what *)
(* it is advised: services/url_intelligence/classification.py              *)
(* (classify_business_page), issues.py (page_issues), the scoring rules of *)
(* page_value.py and the analysis of page_intelligence.py.                 *)
(*                                                                         *)
(* The first part looks at a page as the type its path suggests, the types *)
(* its structured data and its title suggest, and measured values, of      *)
(* which Unknown means not measured.  Weights are in hundredths.           *)
(***************************************************************************)
EXTENDS Integers, FiniteSets, FiniteSetsExt
CONSTANTS
  LogTop,   \* the logarithm of the site's top value, and
  LogOf     \* of each value below it: log1p in some unit, monotone

ASSUME LogAssumption ==
  /\ LogTop \in Nat \ {0}
  /\ DOMAIN LogOf \subseteq Nat
  /\ \A v \in DOMAIN LogOf : LogOf[v] \in Nat /\ LogOf[v] <= LogTop
  /\ \A u, v \in DOMAIN LogOf : u <= v => LogOf[u] <= LogOf[v]

Unknown == -1

----------------------------------------------------------------------------
(* classify_business_page                                                  *)

BusinessType == {"product", "category", "service", "landing", "hotel", "booking", "blog",
                 "homepage", "utility", "legal", "account", "unknown"}
CommercialTypes == {"product", "category", "service", "landing", "hotel", "booking", "homepage"}
LowPriorityTypes == {"utility", "legal", "account"}

\* The order in which signals are looked at, which decides a tie
SchemaOrder == [product |-> 1, category |-> 2, service |-> 3, hotel |-> 4, booking |-> 5, blog |-> 6]
TextOrder == [product |-> 11, booking |-> 12, hotel |-> 13, service |-> 14, blog |-> 15,
              legal |-> 16, account |-> 17, category |-> 18]

If(test, weight) == IF test THEN weight ELSE 0

\* The path rules in their order: the first that matches decides.
PathOrder == <<"account", "legal", "utility", "booking", "hotel", "product", "category",
               "service", "landing", "blog">>
PathType(matches, engine) ==
  LET hits == {i \in DOMAIN PathOrder : PathOrder[i] \in matches} IN
  IF hits # {} THEN PathOrder[Min(hits)]
  ELSE IF engine = "legal_utility" THEN "utility" ELSE "none"

\* A page: path is the result of PathType or "root"
Families(p, t) ==
  {f \in {"path", "schema", "text", "commerce", "breadcrumb"} :
     \/ f = "path" /\ p.path = t
     \/ f = "schema" /\ t \in p.schema
     \/ f = "text" /\ t \in p.text
     \/ f = "commerce" /\ t = "product" /\ p.price
     \/ f = "breadcrumb" /\ p.crumbs /\ p.path = t
          /\ t \in {"product", "category", "service", "hotel"}}
Weight == [path |-> 45, schema |-> 45, text |-> 20, commerce |-> 30, breadcrumb |-> 10]
Votes(p, t) == SumFunctionOnSet(Weight, Families(p, t))
Voted(p) == {t \in BusinessType : Families(p, t) # {}}

Earliest(p, t) ==
  IF p.path = t THEN 0
  ELSE IF t \in p.schema THEN SchemaOrder[t] ELSE IF t \in p.text THEN TextOrder[t] ELSE 20

Best(p) ==
  IF p.path \in LowPriorityTypes THEN p.path
  ELSE CHOOSE t \in Voted(p) : \A u \in Voted(p) \ {t} :
         Votes(p, t) > Votes(p, u) \/ (Votes(p, t) = Votes(p, u) /\ Earliest(p, t) < Earliest(p, u))

Confidence(p, best) ==
  LET conflict == SumFunction([t \in Voted(p) \ {best} |-> Votes(p, t)]) IN
  Max({5, Min({98, Votes(p, best) - conflict \div 2})})

\* Wrong: signals for another type do not count against the best one.
ClassifyUnopposed(p) ==
  LET best == Best(p)
      confidence == Votes(p, best) IN
  [type |-> best, confidence |-> confidence,
   status |-> IF Cardinality(Families(p, best)) >= 2 /\ confidence >= 70 THEN "confirmed" ELSE "likely"]

Classify(p) ==
  IF p.path = "root" THEN [type |-> "homepage", confidence |-> 99, status |-> "confirmed"]
  ELSE IF Voted(p) = {}
  THEN [type |-> p.engine, confidence |-> If(p.engine # "unknown", 30), status |-> "uncertain"]
  ELSE LET best == Best(p)
           confidence == Confidence(p, best) IN
       [type |-> best, confidence |-> confidence,
        status |-> IF Cardinality(Families(p, best)) >= 2 /\ confidence >= 70 THEN "confirmed"
                   ELSE IF confidence >= 40 THEN "likely" ELSE "uncertain"]

----------------------------------------------------------------------------
(* page_issues, data_issues and their severities.                          *)

Severity == [http_5xx |-> 4, http_4xx |-> 3, noindex |-> 3, missing_title |-> 3, title_too_long |-> 1,
  missing_meta_description |-> 2, missing_h1 |-> 2, multiple_h1 |-> 1, thin_content |-> 2,
  no_structured_data |-> 2, missing_canonical |-> 1, images_missing_alt |-> 1,
  low_search_ctr |-> 2, traffic_without_conversions |-> 2]
DataIssue == {"low_search_ctr", "traffic_without_conversions"}

\* An error page has no other issue; short pages are not thin by design.
PageIssues(http, missing, noindex, type) ==
  IF http >= 500 THEN {"http_5xx"} ELSE IF http >= 400 THEN {"http_4xx"}
  ELSE {c \in missing : c = "thin_content" => type \notin {"legal_utility", "lead_generation", "booking"}}
         \union (IF noindex THEN {"noindex"} ELSE {})

\* Site averages are per cent; both rules need a minimum of data.
DataIssues(type, s, siteCtr) ==
  {d \in DataIssue :
     IF d = "low_search_ctr"
     THEN s.impressions >= 200 /\ siteCtr > 0 /\ 200 * Max({s.clicks, 0}) < siteCtr * s.impressions
     ELSE type \in CommercialTypes /\ s.conversions = 0 /\ s.sessions >= 100}

MaxSeverity(codes) == Max({Severity[c] : c \in codes} \union {0})

\* The most severe issue; one the crawl has checked wins a tie.
MainIssue(codes) ==
  CHOOSE c \in codes : \A d \in codes :
    10 * Severity[c] + If(c \notin DataIssue, 1) >= 10 * Severity[d] + If(d \notin DataIssue, 1)

----------------------------------------------------------------------------
(* prepare_inputs: which sources count.  f says what the site has.         *)

Ga4Available(f) == f.ga4 = "synced" /\ f.pro
GscAvailable(f) == f.gsc = "synced" /\ f.pro
FirstParty(f) == f.verified # "none" /\ f.pro /\ f.verified # "too_many"

\* One source of conversions, never both added together
ConversionSource(f) ==
  IF FirstParty(f) THEN "first_party" ELSE IF Ga4Available(f) /\ f.keyEvents THEN "ga4" ELSE "none"
\* Revenue needs one known currency.
RevenueAvailable(f) ==
  \/ ConversionSource(f) = "first_party" /\ f.verified = "one_currency"
  \/ ConversionSource(f) = "ga4" /\ f.currency

\* _score_chunk: what is known of a page.  raw has its rows of each source;
\* a page Search Console does not list has no impressions, unless the list
\* was truncated.
Signals(f, raw) ==
  LET conv == ConversionSource(f) IN
  [links |-> raw.links,
   ai |-> IF Ga4Available(f) THEN Max({raw.ai, 0}) ELSE Unknown,
   organic |-> IF Ga4Available(f) THEN Max({raw.organic, 0}) ELSE Unknown,
   sessions |-> IF Ga4Available(f) THEN Max({raw.sessions, 0}) ELSE Unknown,
   conversions |-> IF conv = "first_party" THEN Max({raw.verified, 0})
                   ELSE IF conv = "ga4" THEN Max({raw.keyEvents, 0}) ELSE Unknown,
   revenue |-> IF RevenueAvailable(f) THEN Max({raw.revenue, 0}) ELSE Unknown,
   clicks |-> IF ~ GscAvailable(f) THEN Unknown
              ELSE IF raw.clicks = Unknown /\ ~ f.truncated THEN 0 ELSE raw.clicks,
   impressions |-> IF ~ GscAvailable(f) THEN Unknown
              ELSE IF raw.clicks = Unknown THEN (IF f.truncated THEN Unknown ELSE 0) ELSE raw.impressions]

----------------------------------------------------------------------------
(* score_page and priority_for.                                            *)

\* Log-scaled share of the site's top value, in hundredths
Norm(v) == IF v <= 0 THEN 0 ELSE (100 * LogOf[v]) \div LogTop

Intent == [product |-> 100, booking |-> 100, hotel |-> 95, service |-> 90, landing |-> 85, category |-> 80,
  homepage |-> 80, blog |-> 40, unknown |-> 30, utility |-> 10, legal |-> 5, account |-> 5]
Factor == [confirmed |-> 100, likely |-> 85, uncertain |-> 60]
MaxPoints == [purpose |-> 25, conversions |-> 25, revenue |-> 10, ai |-> 10, organic |-> 10,
              search |-> 10, links |-> 10]
Component == DOMAIN MaxPoints

Measured(s) ==
  {c \in {"conversions", "revenue", "ai", "organic", "links"} : s[c] # Unknown}
    \union (IF s.clicks # Unknown THEN {"search"} ELSE {})

Share(cls, s, c) ==
  IF c = "purpose" THEN (Intent[cls.type] * Factor[cls.status]) \div 100
  ELSE IF c = "search" THEN (70 * Norm(s.clicks) + 30 * Norm(s.impressions)) \div 100
  ELSE Norm(s[c])

\* Wrong: what is not measured counts as nothing earned.
ScoreAll(cls, s) ==
  SumFunction([c \in Measured(s) \union {"purpose"} |-> MaxPoints[c] * Share(cls, s, c)]) \div 100

\* The points earned of the points that could be earned
Score(cls, s) ==
  LET avail == Measured(s) \union {"purpose"} IN
  SumFunction([c \in avail |-> MaxPoints[c] * Share(cls, s, c)]) \div SumFunctionOnSet(MaxPoints, avail)

PriorityRank == [high |-> 4, medium |-> 3, low |-> 2, none |-> 1, not_evaluated |-> 0]

\* Issues decide whether there is something to fix, the score how much it matters.
Priority(score, cls, sev, evaluated, s) ==
  LET outcome == s.conversions > 0 \/ s.revenue > 0 IN
  IF sev = 0 THEN IF evaluated THEN "none" ELSE "not_evaluated"
  ELSE IF cls.type \in LowPriorityTypes /\ ~ outcome THEN "low"
  ELSE IF (score >= 60 /\ sev >= 2) \/ (sev = 4 /\ score >= 40) THEN "high"
  ELSE IF (score >= 35 /\ sev >= 2) \/ score >= 60 THEN "medium" ELSE "low"

----------------------------------------------------------------------------
(* Properties, for a page p, facts f, rows raw.                            *)

(***************************************************************************)
(* A type is shown as confirmed only if no other type has as much support, *)
(* and a legal, account or utility path is never taken for a commercial    *)
(* page, whatever its words and markup say (classification.py:267-285).    *)
(***************************************************************************)
ClassifiedSoundly(p) ==
  LET c == Classify(p) IN
  /\ c.status = "confirmed" /\ p.path # "root" =>
       \A t \in Voted(p) \ {c.type} : Votes(p, t) < Votes(p, c.type)
  /\ p.path \in LowPriorityTypes => c.type \notin CommercialTypes

\* raw with one of its values raised to v
Raised(raw, k, v) == [raw EXCEPT ![k] = v]

(***************************************************************************)
(* Being worth more never counts against a page: a higher measured value   *)
(* of any one source raises neither score nor priority downwards, and a    *)
(* source that is not connected can neither earn points nor cost a page    *)
(* that is at the top of what is measured (page_value.py:90-200).          *)
(***************************************************************************)
WorthNeverCosts(cls, f, raw, sev) ==
  LET s == Signals(f, raw)
      rank(t) == PriorityRank[Priority(Score(cls, t), cls, sev, TRUE, t)] IN
  /\ \A k \in {"links", "ai", "organic", "verified", "keyEvents", "revenue", "clicks"} :
       \A v \in DOMAIN LogOf :
         raw[k] # Unknown /\ v > raw[k] /\ (k # "clicks" \/ v <= raw.impressions) =>
           LET t == Signals(f, Raised(raw, k, v)) IN
           Score(cls, s) <= Score(cls, t) /\ rank(s) <= rank(t)
  /\ (\A c \in Measured(s) \union {"purpose"} : Share(cls, s, c) = 100) => Score(cls, s) = 100

----------------------------------------------------------------------------
(* The analysis of one page, of which the crawl stored                     *)
(*   [type, cstatus   what it was classified as, and how surely,           *)
(*    engine          the older page type the crawl issues are judged by,  *)
(*    http, title, desc, words, subs, canonical, inbound, depth,           *)
(*    markup          the kinds of structured data: "relevant", "other",   *)
(*    broken          whether some of it cannot be parsed,                 *)
(*    offer           what its product data state: "none", "price", "full",*)
(*    name, age, asks its business name, its age in days, whether sections *)
(*                    answer questions,                                    *)
(*    copies          "title" or "content" shared with other pages].       *)
(* Lengths are numbers, 0 for none; Unknown is a value not recorded.       *)
CONSTANTS
  MinGroup,        \* MIN_GROUP
  MinQualifying    \* MIN_QUALIFYING

ASSUME PeersAssumption == MinGroup \in Nat /\ MinQualifying \in Nat

\* evidence.py: what the crawl finds missing on a page
MissingElements(p) ==
  {c \in {"missing_title", "title_too_long", "missing_meta_description", "thin_content",
          "no_structured_data", "missing_canonical"} :
     \/ c = "missing_title" /\ p.title = 0
     \/ c = "title_too_long" /\ p.title > 70
     \/ c = "missing_meta_description" /\ p.desc = 0
     \/ c = "thin_content" /\ p.words < 150
     \/ c = "no_structured_data" /\ p.markup = {}
     \/ c = "missing_canonical" /\ p.canonical = "none"}
CrawlCodes(p) == PageIssues(p.http, MissingElements(p), FALSE, p.engine)

MinWords == [product |-> 150, category |-> 100, service |-> 300, landing |-> 250, hotel |-> 250,
             booking |-> 150, blog |-> 600, homepage |-> 250]
\* The page types some structured data is expected of
ExpectsMarkup == {"product", "category", "service", "hotel", "booking", "blog", "homepage"}

\* Wrong: a page already reported as thin is told again that it is short.
ShortForTypeToo(p) == p.type \in DOMAIN MinWords /\ p.words > 0 /\ p.words < MinWords[p.type]
ShortForType(p) ==
  /\ p.type \in DOMAIN MinWords
  /\ "thin_content" \notin CrawlCodes(p)
  /\ p.words > 0 /\ p.words < MinWords[p.type]

ContentCodes(p) ==
  {c \in {"title_too_short", "meta_description_length", "no_subheadings", "content_short_for_type",
          "duplicate_title", "duplicate_content", "stale_content"} :
     \/ c = "title_too_short" /\ p.title \in 1..29
     \/ c = "meta_description_length" /\ p.desc > 0 /\ p.desc \notin 70..160
     \/ c = "no_subheadings" /\ p.words >= 300 /\ p.subs = 0
     \/ c = "content_short_for_type" /\ ShortForType(p)
     \/ c = "duplicate_title" /\ "title" \in p.copies
     \/ c = "duplicate_content" /\ "content" \in p.copies /\ p.canonical # "other"
     \/ c = "stale_content" /\ p.type = "blog" /\ p.age # Unknown /\ p.age > 365}

\* Links and depth are judged of an error page too.
TechnicalCodes(p) ==
  {c \in {"canonical_elsewhere", "orphan_page", "deep_page"} :
     \/ c = "canonical_elsewhere" /\ p.canonical = "other" /\ p.http < 400
     \/ c = "orphan_page" /\ p.inbound = 0 /\ p.type # "homepage"
     \/ c = "deep_page" /\ p.depth >= 4}

SchemaCodes(p) ==
  {c \in {"schema_malformed", "missing_relevant_schema", "product_no_price",
          "product_offer_incomplete", "entity_name_mismatch"} :
     \/ c = "schema_malformed" /\ p.broken
     \/ c = "missing_relevant_schema" /\ p.type \in ExpectsMarkup /\ p.markup = {"other"}
     \/ c = "product_no_price" /\ p.type = "product" /\ p.offer = "none"
     \/ c = "product_offer_incomplete" /\ p.type = "product" /\ p.offer = "price"
     \/ c = "entity_name_mismatch" /\ p.name = "differs"}

QuestionTypes == {"product", "service", "landing", "hotel", "booking", "blog"}
ReadinessCodes(p) ==
  IF p.asks = "no" /\ p.type \in QuestionTypes THEN {"no_question_sections"} ELSE {}

\* s are the measured values (Signals), siteCtr and median the
\* site's, in per cent; ai is the split of the AI visitors.
PerformanceCodes(p, s, siteCtr, median, ai) ==
  LET converts == s.conversions # Unknown /\ s.sessions >= 100 /\ p.type \in CommercialTypes IN
  {c \in {"low_search_ctr", "traffic_without_conversions", "conversion_rate_below_peers",
          "ai_visitors_not_converting"} :
     \/ /\ c = "low_search_ctr"
        /\ s.impressions >= 200 /\ siteCtr > 0
        /\ 200 * Max({s.clicks, 0}) < siteCtr * s.impressions
     \/ c = "traffic_without_conversions" /\ converts /\ s.conversions = 0
     \/ /\ c = "conversion_rate_below_peers"
        /\ converts /\ s.conversions > 0 /\ median # Unknown
        /\ 200 * s.conversions < median * s.sessions
     \/ /\ c = "ai_visitors_not_converting"
        /\ ai.sessions >= 30 /\ ai.conversions = 0 /\ ai.others > 0}

\* analyze_page: the codes that become recommendations
AdviceCodes(p, s, siteCtr, median, ai) ==
  CrawlCodes(p) \union TechnicalCodes(p) \union PerformanceCodes(p, s, siteCtr, median, ai)
    \union (IF p.http >= 400 THEN {} ELSE ContentCodes(p) \union SchemaCodes(p) \union ReadinessCodes(p))

\* 4 critical, 3 high, 2 medium, 1 low (REC and issues.CATALOG)
MediumCodes == {"title_too_short", "no_subheadings", "duplicate_title", "duplicate_content",
  "product_no_price", "missing_relevant_schema", "canonical_elsewhere", "orphan_page",
  "conversion_rate_below_peers"}
CodeSeverity(c) ==
  IF c \in DOMAIN Severity THEN Severity[c]
  ELSE IF c = "schema_malformed" THEN 3 ELSE IF c \in MediumCodes THEN 2 ELSE 1

\* The sections whose priority a valuable page raises
RaisedSection == {"http_5xx", "http_4xx", "noindex", "missing_canonical", "images_missing_alt",
  "canonical_elsewhere", "orphan_page", "deep_page", "no_structured_data", "schema_malformed",
  "missing_relevant_schema", "product_no_price", "product_offer_incomplete", "entity_name_mismatch",
  "low_search_ctr", "traffic_without_conversions", "conversion_rate_below_peers", "ai_visitors_not_converting"}

\* build_recommendations: the severity, moved by how much the page matters
AdvicePriority(c, p, score, s) ==
  LET sev == CodeSeverity(c)
      moved == IF score >= 60 /\ p.type \in CommercialTypes /\ sev \in {1, 2} /\ c \in RaisedSection
               THEN sev + 1
               ELSE IF score < 35 /\ sev > 1 THEN sev - 1 ELSE sev IN
  IF sev = 4 THEN 4
  ELSE IF p.type \in LowPriorityTypes /\ s.conversions <= 0 /\ s.revenue <= 0 THEN 1 ELSE moved

TypeDependent == {"content_short_for_type", "missing_relevant_schema", "product_no_price",
  "product_offer_incomplete", "stale_content", "no_question_sections", "no_structured_data"}

----------------------------------------------------------------------------
(* build_peer_groups: metric gives each qualifying page its rate; pages    *)
(* are numbers, which break ties.                                          *)

Below(metric, x, y) == metric[x] < metric[y] \/ (metric[x] = metric[y] /\ x < y)
RankIn(metric, x) == 1 + Cardinality({y \in DOMAIN metric : Below(metric, y, x)})
Third(metric) == Max({MinGroup, Cardinality(DOMAIN metric) \div 3})
Weak(metric) == {x \in DOMAIN metric : RankIn(metric, x) <= Third(metric)}
Strong(metric) == {x \in DOMAIN metric : RankIn(metric, x) > Cardinality(DOMAIN metric) - Third(metric)}
WeakCut(metric) == Max({metric[x] : x \in Weak(metric)})
StrongCut(metric) == Min({metric[x] : x \in Strong(metric)})
Comparable(metric) ==
  Cardinality(DOMAIN metric) >= MinQualifying /\ StrongCut(metric) > WeakCut(metric)

\* compare: where a rate stands among its peers
Position(metric, rate) ==
  IF rate >= StrongCut(metric) THEN "successful" ELSE IF rate <= WeakCut(metric) THEN "weak" ELSE "middle"

----------------------------------------------------------------------------
\* Advice of which a page can need at most one piece
Rivals == {{"missing_title", "title_too_short", "title_too_long"},
           {"missing_meta_description", "meta_description_length"},
           {"thin_content", "content_short_for_type"},
           {"no_structured_data", "missing_relevant_schema"},
           {"missing_canonical", "canonical_elsewhere"},
           {"traffic_without_conversions", "conversion_rate_below_peers"}}

(***************************************************************************)
(* The advice for a page never contradicts itself or the score beside it:  *)
(* two rival pieces of advice are never given together, though one comes   *)
(* from the crawl and one from the analysis; the data issues the analysis  *)
(* finds are the ones the score was given for, though both compute them;   *)
(* nothing is advised about the content of a page that could not be        *)
(* fetched; and a higher score never lowers the priority of a piece of     *)
(* advice (page_intelligence.py:393-713, page_value.py:154-163).           *)
(***************************************************************************)
AdviceConsistent(p, s, siteCtr, median, ai) ==
  LET codes == AdviceCodes(p, s, siteCtr, median, ai) IN
  /\ \A r \in Rivals : Cardinality(codes \intersect r) <= 1
  /\ codes \intersect DataIssue = DataIssues(p.type, s, siteCtr)
  /\ p.http >= 400 => codes \intersect (TypeDependent \union MissingElements(p)) = {}
  /\ \A c \in codes, low \in {20, 40, 70}, high \in {20, 40, 70} :
       low <= high => AdvicePriority(c, p, low, s) <= AdvicePriority(c, p, high, s)

(***************************************************************************)
(* Stronger and weaker pages are told apart only where they differ: the    *)
(* two groups share no page, hold as many pages, every stronger page has a *)
(* better rate than every weaker one, and each page of a group is shown in *)
(* that group (page_intelligence.py:259-345).                              *)
(***************************************************************************)
PeersSeparate(metric) ==
  Comparable(metric) =>
    /\ Strong(metric) \intersect Weak(metric) = {}
    /\ Cardinality(Strong(metric)) = Cardinality(Weak(metric))
    /\ \A x \in Strong(metric), y \in Weak(metric) : metric[x] > metric[y]
    /\ \A x \in DOMAIN metric :
         /\ x \in Strong(metric) => Position(metric, metric[x]) = "successful"
         /\ x \in Weak(metric) => Position(metric, metric[x]) = "weak"
=============================================================================
