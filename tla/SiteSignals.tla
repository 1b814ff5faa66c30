----------------------------- MODULE SiteSignals ----------------------------
(***************************************************************************)
(* The two scores of a page: the ten signals (scanner/signals/, put        *)
(* together by scanner/aggregate.py) and the AI readiness score            *)
(* (scanner/families.py and engine.py).  Both are functions of the facts   *)
(* of the fetched page, each its own reading of them:                      *)
(*   robots    [exists, lines, sitemap]  (lines as in SiteAccess)          *)
(*   xml       [found, valid, index, urls] of sitemap.xml                  *)
(*   title, h1, h2, jumps, paras, lists, text, html   counts and lengths   *)
(*   desc, canonical   "none", "blank" (a tag with nothing in it), "set"   *)
(*   tags      the sectioning elements used                                *)
(*   blocks    the JSON-LD blocks, [bad, types]                            *)
(*   date      the date in them: "none", "other" (no text), "vague" (no    *)
(*             date in it), "new", "old"; visible a date on the page       *)
(***************************************************************************)
EXTENDS SiteAccess

\* Sums the points of the rows that hold: <<condition, points>>
Earned(rows) == MapThenSumSet(LAMBDA i : IF rows[i][1] THEN rows[i][2] ELSE 0, DOMAIN rows)
Clamp(n) == Min({100, Max({0, n})})

Bots == << <<"GPTBot">>, <<"ClaudeBot", "Claude-User", "anthropic-ai">>, <<"PerplexityBot">>, <<"Google-Extended">> >>
BlockedBots(p) == {i \in DOMAIN Bots : RobotsVerdict(p.robots.lines, Bots[i]) = "blocked"}
Blanket(p) == RobotsVerdict(p.robots.lines, <<"*">>) = "blocked"

(***************************************************************************)
(* JSON-LD: the types in the blocks, whatever way they are nested          *)
(* (schema_extract.py); the entity types that stand for an organization.   *)
(***************************************************************************)
OrgNames == {"Organization", "Corporation", "LocalBusiness"}
EntityTypes == OrgNames \union
  {"NGO", "GovernmentOrganization", "EducationalOrganization", "MedicalOrganization", "NewsMediaOrganization",
   "OnlineBusiness", "MedicalBusiness", "MedicalClinic", "Physician", "Dentist", "Hospital", "Pharmacy", "Optician",
   "VeterinaryCare", "Dermatology", "MedicalTherapy", "ProfessionalService", "HealthAndBeautyBusiness", "Store", "Dentistry"}
Articles == {"Article", "BlogPosting", "NewsArticle", "TechArticle", "Report"}

Types(p) == UNION {p.blocks[i].types : i \in DOMAIN p.blocks}
Malformed(p) == {i \in DOMAIN p.blocks : p.blocks[i].bad}
JsonLdState(p) ==
  IF p.blocks = <<>> THEN "absent" ELSE IF Malformed(p) = DOMAIN p.blocks THEN "malformed" ELSE "present"
HasEntity(p) == Types(p) \intersect EntityTypes # {}
HasContent(p) == Types(p) \intersect (Articles \union {"FAQPage"}) # {}

(***************************************************************************)
(* The signals                                                             *)
(***************************************************************************)
RobotsSignal(p) ==
  IF ~ p.robots.exists THEN 60
  ELSE Clamp(100 - 18 * Cardinality(BlockedBots(p)) - IF Blanket(p) THEN 45 ELSE 0)

SitemapSignal(p) ==
  IF ~ p.xml.found THEN (IF p.robots.sitemap THEN 45 ELSE 30)
  ELSE 100 - Earned(<< <<~ p.xml.valid, 40>>, <<p.xml.urls = 0 /\ ~ p.xml.index, 30>>, <<~ p.robots.sitemap, 10>> >>)

TitleFits(p) == p.title \in 10 .. 65
MetadataSignal(p) ==
  Earned(<< <<TitleFits(p), 25>>, <<p.title > 0 /\ ~ TitleFits(p), 15>>, <<p.desc = "set", 20>>,
            <<p.canonical = "set", 15>>, <<~ p.noindex, 10>>, <<p.og, 15>>, <<p.twitter, 15>> >>)

SchemaSignal(p) ==
  CASE JsonLdState(p) = "absent" -> 20
    [] JsonLdState(p) = "malformed" -> 25
    [] OTHER -> Earned(<< <<TRUE, 30>>, <<HasEntity(p), 25>>, <<"WebSite" \in Types(p), 10>>, <<HasContent(p), 20>>,
                          <<"BreadcrumbList" \in Types(p), 10>>, <<Malformed(p) # {}, 0 - 10>> >>)

ContentSignal(p) ==
  Earned(<< <<p.h1 = 1, 25>>, <<p.h1 > 1, 10>>, <<p.h2 > 0, 20>>, <<p.jumps = 0, 15>>,
            <<p.tags # {}, 20>>, <<p.paras >= 3 \/ p.lists > 0, 20>> >>)

\* links: inside, outside, the different texts, and those without a text
Diverse(p) == 2 * p.links.texts >= Max({p.links.inside + p.links.outside, 1})
LinksSignal(p) ==
  Earned(<< <<p.links.inside >= 5, 40>>, <<p.links.inside \in 1 .. 4, 20>>, <<p.links.nav, 25>>, <<Diverse(p), 20>>,
            <<~ Diverse(p) /\ p.links.anchors > 0, 8>>, <<p.links.empty = 0, 15>> >>)

Half(part, whole) == 2 * part >= whole
PerformanceSignal(p) ==
  Earned(<< <<p.compressed, 25>>, <<p.cached, 25>> >>)
    + IF p.images.total = 0 THEN 50
      ELSE Earned(<< <<Half(p.images.lazy, p.images.total), 20>>, <<Half(p.images.sized, p.images.total), 15>>,
                     <<p.images.modern > 0, 15>> >>)

MostAlt(p) == 10 * p.images.alt >= 9 * p.images.total
Labelled(p) == 10 * p.fields.labelled >= 9 * p.fields.total
AccessibilitySignal(p) ==
  Earned(<< <<p.lang, 15>>, <<p.aria, 20>>, <<Labelled(p), 20>>, <<p.buttons = 0, 15>> >>)
    + IF MostAlt(p) THEN 30 ELSE (30 * p.images.alt) \div p.images.total

DateText(p) == p.date \in {"vague", "new", "old"}
FreshnessSignal(p) ==
  Earned(<< <<p.lastModified, 20>>, <<DateText(p), 35>>, <<p.visible, 25>>, <<p.date # "old", 20>> >>)

Asks(p) == "FAQPage" \in Types(p) \/ p.questions
Ratio(p, percent) == 100 * p.text >= percent * Max({p.html, 1})
ReadinessSignal(p) ==
  Earned(<< <<p.text >= 500, 25>>, <<p.text \in 150 .. 499, 12>>, <<Ratio(p, 10), 15>>,
            <<Ratio(p, 4) /\ ~ Ratio(p, 10), 7>>, <<p.h1 = 1, 15>>, <<Types(p) # {}, 20>>, <<Asks(p), 10>>,
            <<p.tags \intersect {"main", "article"} # {}, 10>>, <<p.llms, 5>> >>)

\* run_signals: every signal with its weight
SignalWeight == [robots |-> 10, sitemap |-> 7, metadata |-> 12, schema |-> 15, content |-> 12, links |-> 8,
           performance |-> 10, accessibility |-> 9, freshness |-> 7, ai_readiness |-> 10]
SignalScores(p) ==
  [robots |-> RobotsSignal(p), sitemap |-> SitemapSignal(p), metadata |-> MetadataSignal(p),
   schema |-> SchemaSignal(p), content |-> ContentSignal(p), links |-> LinksSignal(p),
   performance |-> PerformanceSignal(p), accessibility |-> AccessibilitySignal(p),
   freshness |-> FreshnessSignal(p), ai_readiness |-> ReadinessSignal(p)]

\* round: to the nearest, halves to the even one
Nearest(n, d) ==
  LET q == n \div d
      r == 2 * (n % d) IN
  IF r > d \/ (r = d /\ q % 2 = 1) THEN q + 1 ELSE q
Overall(signals) == Nearest(MapThenSumSet(LAMBDA i : signals[i] * SignalWeight[i], DOMAIN SignalWeight), 100)

\* The signals that report an issue
WithIssues(p) ==
  LET reports == [robots |-> ~ p.robots.exists \/ BlockedBots(p) # {} \/ Blanket(p),
                  sitemap |-> ~ p.xml.found \/ ~ p.xml.valid \/ (p.xml.urls = 0 /\ ~ p.xml.index),
                  metadata |-> ~ TitleFits(p) \/ {p.desc, p.canonical} # {"set"} \/ p.noindex \/ ~ p.og \/ ~ p.twitter,
                  schema |-> JsonLdState(p) # "present" \/ ~ HasEntity(p) \/ Malformed(p) # {},
                  content |-> p.h1 # 1 \/ 0 \in {p.h2, Cardinality(p.tags)} \/ p.jumps > 0 \/ (p.paras < 3 /\ p.lists = 0),
                  links |-> p.links.inside < 5 \/ ~ p.links.nav \/ p.links.empty > 0,
                  performance |-> ~ p.compressed \/ ~ p.cached \/ ~ Half(p.images.lazy, p.images.total),
                  accessibility |-> ~ p.lang \/ ~ MostAlt(p) \/ ~ Labelled(p),
                  freshness |-> ~ DateText(p) \/ ~ p.visible \/ p.date = "old",
                  ai_readiness |-> p.text < 500 \/ ~ Ratio(p, 4) \/ Types(p) = {}] IN
  {i \in DOMAIN reports : reports[i]}

----------------------------------------------------------------------------
(***************************************************************************)
(* The AI readiness score: 23 checks, each "pass", "warn" or "fail"        *)
(***************************************************************************)
PassOr(other, holds) == IF holds THEN "pass" ELSE other
Graded(full, half) == IF full THEN "pass" ELSE IF half THEN "warn" ELSE "fail"
Shell(p) == p.root /\ p.text < 300

BotCheck(p, i) == IF i \in BlockedBots(p) THEN "fail" ELSE PassOr("warn", p.robots.exists)
Checks(p) ==
  [gptbot_allowed |-> BotCheck(p, 1), claudebot_allowed |-> BotCheck(p, 2), perplexitybot_allowed |-> BotCheck(p, 3),
   google_extended_ok |-> BotCheck(p, 4), no_blanket_disallow |-> PassOr("fail", ~ Blanket(p)),
   has_real_text |-> Graded(p.text >= 500, p.text >= 150),
   content_in_raw_html |-> Graded(Ratio(p, 10), Ratio(p, 4)), not_js_shell |-> PassOr("fail", ~ Shell(p)),
   has_jsonld |-> PassOr("fail", p.blocks # <<>>), has_org_schema |-> PassOr("fail", Types(p) \intersect OrgNames # {}),
   has_type_schema |-> PassOr("warn", Types(p) \intersect {"Product", "Article", "BlogPosting", "FAQPage", "Service"} # {}),
   schema_parses |-> PassOr("fail", Malformed(p) = {}),
   has_title |-> Graded(TitleFits(p), p.title > 0), single_h1 |-> Graded(p.h1 = 1, p.h1 > 1),
   has_meta_description |-> PassOr("warn", p.desc # "none"), has_canonical |-> PassOr("warn", p.canonical # "none"),
   has_sitemap_ref |-> PassOr("warn", p.xml.found \/ p.robots.sitemap), has_llms_txt |-> PassOr("warn", p.llms),
   semantic_html |-> PassOr("warn", p.tags \intersect {"article", "main", "section"} # {}),
   has_faq_or_qa |-> PassOr("warn", p.questions \/ p.faqMarkup),
   scannable_structure |-> PassOr("warn", p.paras >= 3 \/ p.lists > 0),
   has_date_modified |-> PassOr("warn", p.date # "none"), has_visible_date |-> PassOr("warn", p.visible)]

\* Each check with its weight, in the order of their families
Rubric ==
  << <<"gptbot_allowed", 7>>, <<"claudebot_allowed", 7>>, <<"perplexitybot_allowed", 5>>,
     <<"google_extended_ok", 3>>, <<"no_blanket_disallow", 3>>, <<"has_real_text", 10>>,
     <<"content_in_raw_html", 7>>, <<"not_js_shell", 3>>, <<"has_jsonld", 6>>, <<"has_org_schema", 6>>,
     <<"has_type_schema", 5>>, <<"schema_parses", 3>>, <<"has_title", 3>>, <<"single_h1", 3>>,
     <<"has_meta_description", 3>>, <<"has_canonical", 2>>, <<"has_sitemap_ref", 2>>,
     <<"has_llms_txt", 2>>, <<"semantic_html", 4>>, <<"has_faq_or_qa", 4>>, <<"scannable_structure", 4>>,
     <<"has_date_modified", 4>>, <<"has_visible_date", 4>> >>

\* In halves of a point: a pass earns its weight, a warning half of it
Halves(status) == CASE status = "pass" -> 2 [] status = "warn" -> 1 [] status = "fail" -> 0
Readiness(checks) == Nearest(MapThenSumSet(LAMBDA i : Halves(checks[Rubric[i][1]]) * Rubric[i][2], DOMAIN Rubric), 2)

Lost(checks, i) == (2 - Halves(checks[Rubric[i][1]])) * Rubric[i][2]

\* top_issues: the first five of the checks not passed, failures first, then by weight
Place(checks, i) == 10000 * Halves(checks[Rubric[i][1]]) - 100 * Rubric[i][2] + i
TopIssues(checks) ==
  LET open == {i \in DOMAIN Rubric : checks[Rubric[i][1]] # "pass"} IN
  {i \in open : Cardinality({k \in open : Place(checks, k) < Place(checks, i)}) < 5}

(***************************************************************************)
(* The two scores are whole percentages, an issue always stands for points *)
(* that were lost, and the two readings of one page do not contradict each *)
(* other: what a signal gives credit for is no open check of the other     *)
(* score, and the organization one of them finds is an entity of the other.*)
(* No page gets more than 95 from the schema signal.                       *)
(***************************************************************************)
ScoresAgree(p) ==
  LET signals == SignalScores(p)
      checks == Checks(p)
      passed == {c \in DOMAIN checks : checks[c] = "pass"}
      top == TopIssues(checks) IN
  /\ \A i \in DOMAIN signals : signals[i] \in 0 .. 100
  /\ Overall(signals) \in 0 .. 100 /\ Readiness(checks) \in 0 .. 100
  /\ \A i \in WithIssues(p) : signals[i] < 100
  /\ signals.schema <= 95
  /\ \A i \in DOMAIN Rubric, t \in top : Rubric[i][1] \notin passed /\ i \notin top =>
       Lost(checks, i) <= Lost(checks, t) \/ (checks[Rubric[t][1]] = "fail" /\ checks[Rubric[i][1]] = "warn")
  /\ "has_org_schema" \in passed => HasEntity(p)
  /\ MetadataSignal(p) = 100 => {"has_title", "has_meta_description", "has_canonical"} \subseteq passed
  /\ ContentSignal(p) = 100 => {"single_h1", "scannable_structure"} \subseteq passed
  /\ SitemapSignal(p) > 30 => "has_sitemap_ref" \in passed \/ p.xml.found
  /\ FreshnessSignal(p) = 100 => {"has_date_modified", "has_visible_date"} \subseteq passed
  /\ RobotsSignal(p) = 100 <=> {"gptbot_allowed", "claudebot_allowed", "perplexitybot_allowed", "google_extended_ok",
                                "no_blanket_disallow"} \subseteq passed
  /\ ReadinessSignal(p) = 100 => {"has_real_text", "content_in_raw_html", "not_js_shell", "has_llms_txt"} \subseteq passed

(***************************************************************************)
(* What the advice asks for never costs a page points: better is p with    *)
(* one of its facts as a recommendation wants it.                          *)
(***************************************************************************)
AdvicePays(p, better) ==
  LET before == SignalScores(p)
      after == SignalScores(better) IN
  /\ \A i \in DOMAIN SignalWeight : after[i] >= before[i]
  /\ Overall(after) >= Overall(before)
  /\ Readiness(Checks(better)) >= Readiness(Checks(p))

\* Adding a block that can be read to one that cannot is such an advice; it can cost points.
ReadableBlockPays(p) ==
  SchemaSignal([p EXCEPT !.blocks = Append(@, [bad |-> FALSE, types |-> {"Product"}])]) >= SchemaSignal(p)
=============================================================================
