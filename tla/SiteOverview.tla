----------------------------- MODULE SiteOverview ----------------------------
(***************************************************************************)
(* What a reader is told of the crawls of a website: counts and progress,  *)
(* the recommendations with their order and the part of them that is free, *)
(* what applies to one page, and the comparison with an earlier crawl      *)
(* (services/url_intelligence/overview.py, prioritization.py,              *)
(* recommendations.py and api/routes_url_intelligence.py).                 *)
(*                                                                         *)
(* A crawl, with its rows as they are stored, is                           *)
(*   [phase, host, idle  minutes since its last progress,                  *)
(*    engine    the version of the page checks, 0 before there were any,   *)
(*    asked     whether the AI was asked at all,                           *)
(*    ai        what the AI found, [template, severity, confidence],       *)
(*    old       whether it holds the placeholder of the first version,     *)
(*    decided   the status the owner gave the findings of a code,          *)
(*    urls      its rows in the order of their addresses:                  *)
(*              [key, status, analyzed, template, type, at, codes,         *)
(*               evidence]].                                               *)
(* template is 0 for none, at orders the fetches; codes are those stored   *)
(* when the page was checked, evidence those its evidence shows now, both  *)
(* Never when there is none.                                               *)
(***************************************************************************)
EXTENDS PageAnalysis, SiteReport

CONSTANTS FreeFindings,   \* _FREE_FINDINGS_PREVIEW
          TopShown,       \* _OVERVIEW_PRIORITIES
          StallMinutes    \* STALL_MINUTES

ASSUME OverviewAssumption == {FreeFindings, TopShown, StallMinutes} \subseteq Nat

----------------------------------------------------------------------------
(* url_counts, _progress, _warnings and status_block                       *)

\* In the place of codes that were never determined
Never == {"never"}

UrlRows(c, S) == {i \in DOMAIN c.urls : c.urls[i].status \in S}
CrawledRows(c) == UrlRows(c, {"crawled"})
IssueCount(row) == IF row.codes = Never THEN Unknown ELSE Cardinality(row.codes)
IssueSeverity(row) == IF row.codes = Never THEN Unknown ELSE MaxSeverity(row.codes)

\* _VIEWS: the lists of rows a reader may ask for
Inventory(c) ==
  [all |-> DOMAIN c.urls, not_crawled |-> UrlRows(c, {"discovered", "eligible"}),
   not_analyzed |-> {i \in CrawledRows(c) : ~ c.urls[i].analyzed},
   failed |-> UrlRows(c, {"failed"}), skipped |-> UrlRows(c, {"skipped"}),
   has_issues |-> {i \in DOMAIN c.urls : IssueCount(c.urls[i]) > 0},
   high_priority |-> {i \in DOMAIN c.urls : IssueSeverity(c.urls[i]) >= 3}]

\* A share in tenths of a per cent; nothing has no share.
Percent(a, b) == IF b = 0 THEN Unknown ELSE Nearest(1000 * a, b)

UrlCounts(c) ==
  LET n(S) == Cardinality(UrlRows(c, S))
      inScope == Len(c.urls) - n({"skipped"})
      analyzed == Cardinality({i \in CrawledRows(c) : c.urls[i].analyzed}) IN
  [discovered |-> Len(c.urls), in_scope |-> inScope, skipped |-> n({"skipped"}),
   pending |-> n({"discovered"}) + n({"eligible"}), crawled |-> n({"crawled"}), failed |-> n({"failed"}),
   analyzed |-> analyzed,
   with_issues |-> Cardinality({i \in DOMAIN c.urls : IssueCount(c.urls[i]) > 0}),
   issues_evaluated |-> Cardinality({i \in DOMAIN c.urls : IssueCount(c.urls[i]) # Unknown}),
   crawl_coverage |-> Percent(n({"crawled"}), inScope), analysis_coverage |-> Percent(analyzed, n({"crawled"}))]

NoProgress == [done |-> 0, total |-> Unknown]
Progress(phase, counts) ==
  CASE phase = "discovering" -> [done |-> counts.discovered, total |-> Unknown]
    [] phase = "crawling" -> [done |-> counts.crawled + counts.failed, total |-> counts.in_scope]
    [] phase = "analyzing" -> [done |-> counts.analyzed, total |-> counts.crawled]
    [] OTHER -> NoProgress

CrawledTemplates(c) == {c.urls[i].template : i \in CrawledRows(c)} \ {0}
Warnings(c, counts) ==
  {w \in {"old_engine", "not_fetched", "no_ai", "some_ai"} :
     CASE w = "old_engine" -> c.engine = 0
       [] w = "not_fetched" -> counts.failed > 0
       [] w = "no_ai" -> CrawledTemplates(c) # {} /\ ~ c.asked
       [] w = "some_ai" -> c.asked /\ Cardinality(c.ai) < Cardinality(CrawledTemplates(c))}

ActivePhases == {"pending", "discovering", "crawling", "analyzing", "preparing"}
StatusBlock(c) ==
  LET counts == UrlCounts(c)
      warnings == IF c.phase = "completed" THEN Warnings(c, counts) ELSE {}
      active == c.phase \in ActivePhases IN
  [outcome |-> IF warnings # {} THEN "completed_with_warnings" ELSE c.phase, active |-> active,
   progress |-> IF active THEN Progress(c.phase, counts) ELSE NoProgress,
   stalled |-> active /\ c.idle > StallMinutes, warnings |-> warnings]

----------------------------------------------------------------------------
(* The findings of a crawl: one of the rules for each template and code    *)
(* with the pages that show it (build_deterministic_findings), those of    *)
(* the AI, and the placeholder of old.                                     *)

CodeOrder == <<"http_5xx", "http_4xx", "noindex", "missing_title", "title_too_long", "missing_meta_description",
               "missing_h1", "multiple_h1", "thin_content", "no_structured_data", "missing_canonical",
               "images_missing_alt", "ai", "placeholder">>
IdFor(code, template) == 20 * template + CHOOSE k \in DOMAIN CodeOrder : CodeOrder[k] = code
PotentialCodes == {"noindex", "thin_content", "images_missing_alt"}

StoredCodes(row) == IF row.codes = Never THEN {} ELSE row.codes
Members(c, t) == {i \in CrawledRows(c) : c.urls[i].template = t}
\* orchestrator.py: the page of a template that was fetched first
Representative(c, t) ==
  CHOOSE i \in Members(c, t) : \A j \in Members(c, t) :
    c.urls[i].at < c.urls[j].at \/ (c.urls[i].at = c.urls[j].at /\ i <= j)
Showing(c, code, t) == {i \in Members(c, t) : code \in StoredCodes(c.urls[i])}
StatusFor(c, code) == IF code \in DOMAIN c.decided THEN c.decided[code] ELSE "open"

RuleFinding(c, code, t) ==
  [id |-> IdFor(code, t), by |-> "rules", code |-> code, template |-> t, affected |-> Cardinality(Showing(c, code, t)),
   of |-> Cardinality(Members(c, t)), type |-> c.urls[Max(Showing(c, code, t))].type,
   severity |-> Severity[code], confidence |-> IF code \in PotentialCodes THEN "medium" ELSE "high",
   status |-> StatusFor(c, code)]
RuleFindings(c) ==
  UNION {{RuleFinding(c, code, c.urls[i].template) : code \in StoredCodes(c.urls[i])} : i \in CrawledRows(c)}
AiFindings(c) ==
  {[id |-> IdFor("ai", a.template), by |-> "ai", code |-> "ai", template |-> a.template,
    affected |-> Cardinality(Members(c, a.template)), of |-> Cardinality(Members(c, a.template)),
    type |-> c.urls[Representative(c, a.template)].type, severity |-> a.severity, confidence |-> a.confidence,
    status |-> StatusFor(c, "ai")] : a \in c.ai}
Placeholder ==
  [id |-> IdFor("placeholder", 0), by |-> "old", code |-> "placeholder", template |-> 0, affected |-> 1, of |-> 1,
   type |-> "other", severity |-> 1, confidence |-> "high", status |-> "open"]
FindingsOf(c) == RuleFindings(c) \union AiFindings(c) \union (IF c.old THEN {Placeholder} ELSE {})

IsPlaceholder(f) == f.by = "old"
FindingKind(f) ==
  IF f.confidence = "insufficient" THEN "insufficient"
  ELSE IF f.by = "rules" /\ f.code \notin PotentialCodes THEN "confirmed" ELSE "potential"
Actionable(F) == {f \in F : ~ IsPlaceholder(f) /\ f.confidence # "insufficient"}
OpenOnes(F) == {f \in F : f.status \in {"open", "in_progress"}}

\* priority_score, in thousandths: severity, confidence, the worth of the kind of page
\* (which never lowers a critical finding) and the number of pages, by its logarithm
EngineIntent == [homepage |-> 90, product |-> 100, pricing |-> 100, booking |-> 95, flight_hotel_inventory |-> 95,
  lead_generation |-> 90, product_category |-> 80, comparison |-> 75, service |-> 70, informational |-> 40,
  other |-> 30, legal_utility |-> 5]
ConfidenceWeight == [high |-> 100, medium |-> 70, low |-> 40, insufficient |-> 15]
Log2 == <<0, 1000, 1585, 2000, 2322, 2585, 2807, 3000, 3170, 3322, 3459, 3585, 3700, 3807, 3907, 4000>>
AffectedFactor(n) == IF n >= 16 THEN 2000 ELSE 1000 + Nearest(Log2[Max({1, n})], 4)
PriorityScore(f) ==
  Nearest(f.severity * ConfidenceWeight[f.confidence] * (IF f.severity = 4 THEN 100 ELSE EngineIntent[f.type])
            * AffectedFactor(f.affected), 10000)

\* The highest score first, ids between equals
RanksBefore(f, g) ==
  PriorityScore(f) > PriorityScore(g) \/ (PriorityScore(f) = PriorityScore(g) /\ f.id < g.id)
RankedFindings(F) ==
  First([k \in 1 .. Cardinality(F) |->
           CHOOSE f \in F : Cardinality({g \in F : RanksBefore(g, f)}) = k - 1], Cardinality(F))

FindingCounts(F) ==
  LET open == OpenOnes(Actionable(F)) IN
  [open |-> Cardinality(open), total |-> Cardinality(Actionable(F)),
   by_priority |-> [p \in 1 .. 4 |-> Cardinality({f \in open : f.severity = p})],
   confirmed |-> Cardinality({f \in open : FindingKind(f) = "confirmed"}),
   potential |-> Cardinality({f \in open : FindingKind(f) = "potential"}),
   insufficient |-> Cardinality({f \in F : f.confidence = "insufficient"})]
TopPriorities(F, limit) == First(RankedFindings(OpenOnes(Actionable(F))), limit)

\* list_findings: the kind asked for, "all" for none, and one page of it
OfKind(F, kind) ==
  CASE kind = "insufficient" -> {f \in F : f.confidence = "insufficient"}
    [] kind = "all" -> Actionable(F)
    [] OTHER -> {f \in Actionable(F) : FindingKind(f) = kind}
WithStatus(F, status) == IF status = "all" THEN F ELSE {f \in F : f.status = status}
Paged(ranked, pro, page, size) ==
  LET shown == IF pro THEN SubSeq(ranked, (page - 1) * size + 1, Min({page * size, Len(ranked)}))
               ELSE First(ranked, FreeFindings) IN
  [total |-> Len(ranked), shown |-> shown, locked |-> IF pro THEN 0 ELSE Len(ranked) - Len(shown)]
FindingsPage(F, kind, status, pro, page, size) ==
  Paged(RankedFindings(WithStatus(OfKind(F, kind), status)), pro, page, size)

----------------------------------------------------------------------------
(* One page: its issues, the findings that apply to it, its template       *)
(* (page_issue_details, applicable_findings, get_crawl_url, list_templates) *)

\* A row that was stored without codes is judged by its evidence, if it has any.
Evaluated(row) == row.codes # Never \/ row.evidence # Never
IssuesOf(row) == IF row.codes # Never THEN row.codes ELSE IF row.evidence # Never THEN row.evidence ELSE {}

\* Of what applies, a free account sees what the preview of the list holds.
ApplicableFindings(c, i, pro) ==
  LET row == c.urls[i]
      F == Actionable(FindingsOf(c))
      preview == First(RankedFindings(F), FreeFindings) IN
  {f \in F : /\ f.template = row.template
             /\ IF f.by = "rules" THEN f.code \in IssuesOf(row) ELSE row.template # 0
             /\ pro \/ (\E k \in DOMAIN preview : preview[k] = f)}

TemplateOf(c, i) ==
  LET t == c.urls[i].template IN
  [count |-> Cardinality(Members(c, t)), representative |-> Representative(c, t), is |-> Representative(c, t) = i]
\* The list groups by template and type, the largest group first.
TemplateGroups(c) ==
  {[template |-> x[1], type |-> x[2], count |-> Cardinality({i \in Members(c, x[1]) : c.urls[i].type = x[2]}),
    representative |-> Min({i \in Members(c, x[1]) : c.urls[i].type = x[2]})] :
     x \in {<<c.urls[i].template, c.urls[i].type>> : i \in {j \in CrawledRows(c) : c.urls[j].template # 0}}}

----------------------------------------------------------------------------
(* Two crawls compared (comparability, compare_findings, compare_jobs); a  *)
(* website is the sequence of its crawls, the oldest first.                *)

Completed(site) == {n \in DOMAIN site : site[n].phase = "completed"}
\* previous_comparable_job: 0 for none
PreviousComparable(site, n) ==
  Max({0} \union {m \in Completed(site) : m < n /\ site[n].engine # 0 /\ site[m].engine = site[n].engine})
Comparability(cur, base) ==
  IF cur.engine = 0 \/ cur.engine # base.engine THEN "incompatible_engine"
  ELSE IF cur.host # base.host THEN "different_site" ELSE "available"

KeyOf(f) == <<f.by, f.code, f.template>>
KeysOf(c) == {KeyOf(f) : f \in {g \in Actionable(FindingsOf(c)) : g.by # "old"}}
CompareFindings(cur, base) ==
  [new |-> KeysOf(cur) \ KeysOf(base), resolved |-> KeysOf(base) \ KeysOf(cur),
   recurring |-> KeysOf(cur) \intersect KeysOf(base)]

\* Pages are known by their keys, and an unknown count of issues counts as none.
CountFor(c, key) ==
  LET n == IssueCount(c.urls[CHOOSE i \in CrawledRows(c) : c.urls[i].key = key]) IN IF n = Unknown THEN 0 ELSE n
ComparePages(cur, base) ==
  LET keys(c) == {c.urls[i].key : i \in CrawledRows(c)}
      both == keys(cur) \intersect keys(base) IN
  [added |-> keys(cur) \ keys(base), removed |-> keys(base) \ keys(cur),
   more |-> {k \in both : CountFor(cur, k) > CountFor(base, k)},
   fewer |-> {k \in both : CountFor(cur, k) < CountFor(base, k)}]

\* compare_crawls: cur and base are asked for by number, 0 for the default.  It refuses a
\* baseline that is not another completed crawl.
Compare(site, asked, against) ==
  LET n == IF asked # 0 THEN asked ELSE Max({0} \union Completed(site))
      m == IF against # 0 THEN against ELSE PreviousComparable(site, n) IN
  IF n \notin Completed(site) THEN [says |-> "no_completed_analysis"]
  ELSE IF m # 0 /\ (m \notin Completed(site) \/ m = n) THEN [says |-> "refused"]
  ELSE IF m = 0 THEN [says |-> "no_baseline"]
  ELSE IF Comparability(site[n], site[m]) # "available" THEN [says |-> Comparability(site[n], site[m])]
  ELSE [says |-> "available", findings |-> CompareFindings(site[n], site[m]), pages |-> ComparePages(site[n], site[m])]

\* site_intelligence_overview: the state of the newest crawl, the results of the newest that
\* completed
Overview(site, pro) ==
  LET done == Max({0} \union Completed(site))
      F == FindingsOf(site[done])
      counts == FindingCounts(F) IN
  [can_start |-> site = <<>> \/ site[Len(site)].phase \notin ActivePhases,
   status |-> IF site = <<>> THEN [outcome |-> "none"] ELSE StatusBlock(site[Len(site)]),
   results |-> IF done = 0 THEN [of |-> 0]
               ELSE [of |-> done, findings |-> counts, counts |-> UrlCounts(site[done]),
                     top |-> TopPriorities(F, IF pro THEN TopShown ELSE Min({TopShown, FreeFindings})),
                     locked |-> IF pro THEN 0 ELSE Max({0, counts.open - FreeFindings}),
                     comparison |-> Compare(site, done, 0).says]]

----------------------------------------------------------------------------
(* The record of a page (optimization.py).  A page is                      *)
(*   [score, value, commercial   what it scored in the latest run,         *)
(*    scored    the crawl that run is about, 0 when the page is not in it, *)
(*    analyses  the newest first, [crawl, rules, type, recs], where recs   *)
(*              are recommendations, [code, priority, confidence],         *)
(*    facts     by crawl, [engine, http, title, schema, words, links, fp], *)
(*    rows      by code, the actions: [status, notFixed, at  the content   *)
(*              it was last found unfixed with, next  whether a check is   *)
(*              due, asked  whether a person asked for one]].              *)

CONSTANTS NextShown,       \* next_actions: limit
          NextPages,       \* NEXT_ACTION_PAGES
          SuppressAfter,   \* SUPPRESS_AFTER
          AlertsShown      \* MAX_NEW_ISSUE_ALERTS

ASSUME RecordsAssumption == {NextShown, NextPages, SuppressAfter, AlertsShown} \subseteq Nat

ToDoStatus == {"new", "attention", "partial", "not_fixed", "reopened"}
OpenStatus == ToDoStatus \union {"in_progress", "ready"}
BlockingCodes == {"http_5xx", "http_4xx", "noindex", "canonical_elsewhere"}
PatternCodes == {"low_search_ctr", "traffic_without_conversions", "conversion_rate_below_peers",
                 "ai_visitors_not_converting"}
ConfirmedKind(code) ==
  code \notin PotentialCodes \union PatternCodes \union
    {"content_short_for_type", "duplicate_content", "stale_content", "missing_relevant_schema",
     "entity_name_mismatch", "canonical_elsewhere", "orphan_page", "no_question_sections"}
VerificationMethod(code) ==
  IF code \in PatternCodes THEN "performance"
  ELSE IF code \in {"orphan_page", "deep_page"} THEN "site_crawl" ELSE "page_check"

CodesIn(recs) == {recs[k].code : k \in DOMAIN recs}
\* The latest analysis of an earlier crawl, if asked by the same rules; past the end for none
EarlierAnalysis(p, sameRules) ==
  Min({Len(p.analyses) + 1} \union
      {k \in 2 .. Len(p.analyses) : /\ p.analyses[k].crawl # p.analyses[1].crawl
                                    /\ sameRules => p.analyses[k].rules = p.analyses[1].rules})
\* _analysis_index: the newest codes, and those of the latest analysis of another crawl by the
\* same rules
AnalysisEntry(p) ==
  LET a == p.analyses[1]
      k == EarlierAnalysis(p, TRUE) IN
  IF p.analyses = <<>> THEN [codes |-> {}, prev |-> Never, crawl |-> 0, before |-> 0]
  ELSE [codes |-> CodesIn(a.recs), crawl |-> a.crawl,
        prev |-> IF k > Len(p.analyses) THEN Never ELSE CodesIn(p.analyses[k].recs),
        before |-> IF k > Len(p.analyses) THEN 0 ELSE p.analyses[k].crawl]
DerivedStatus(p, code) ==
  LET prev == AnalysisEntry(p).prev IN IF prev # Never /\ code \in prev THEN "attention" ELSE "new"
StatusOfCode(p, code) == IF code \in DOMAIN p.rows THEN p.rows[code].status ELSE DerivedStatus(p, code)

\* check_priority, in halves; a request counts more than any page
CheckPriority(p, priority, requested) ==
  (p.score + 10) * priority * (IF p.commercial THEN 3 ELSE 2) + (IF requested THEN 200000 ELSE 0)

\* _new_issue_alerts of one page, the most severe first come as the codes are listed
NewIssues(p) ==
  LET e == AnalysisEntry(p) IN
  IF p.value # "high" \/ e.crawl # p.scored \/ e.prev = Never THEN <<>>
  ELSE IF p.facts[e.before].engine # p.facts[p.scored].engine THEN <<>>
  ELSE SelectSeq([k \in DOMAIN p.analyses[1].recs |-> p.analyses[1].recs[k].code],
                 LAMBDA c : c \notin e.prev /\ ConfirmedKind(c) /\ CodeSeverity(c) >= 3)
NewIssueAlerts(p) == First(NewIssues(p), AlertsShown)

\* evidence_changes: small movements of the amount of text and of links are ignored
EvidenceChanges(a, b) ==
  {f \in {"http", "title", "schema"} : a[f] # b[f]}
    \union {f \in {"words"} : 5 * Max({a.words - b.words, b.words - a.words}) >= Max({250, a.words})}
    \union {f \in {"links"} :
              /\ a.links # Unknown /\ b.links # Unknown
              /\ \/ (a.links = 0) # (b.links = 0)
                 \/ 2 * Max({a.links - b.links, b.links - a.links}) >= Max({6, a.links})}

\* page_changes
PageChanges(p) ==
  LET cur == p.analyses[1]
      k == EarlierAnalysis(p, FALSE)
      prev == p.analyses[k]
      a == p.facts[prev.crawl]
      b == p.facts[cur.crawl]
      seen == EvidenceChanges(a, b) \union {f \in {"page_type"} : cur.type # prev.type}
      changes == seen \union {f \in {"content"} : a.fp # b.fp /\ seen = {}}
      new == (CodesIn(cur.recs) \ CodesIn(prev.recs)) \ PatternCodes
      resolved == (CodesIn(prev.recs) \ CodesIn(cur.recs)) \ PatternCodes
      as(what, n, r) == [says |-> what, changes |-> changes, new |-> n, resolved |-> r] IN
  IF p.analyses = <<>> THEN [says |-> "none", changes |-> {}, new |-> {}, resolved |-> {}]
  ELSE IF k > Len(p.analyses) THEN [says |-> "first_crawl", changes |-> {}, new |-> {}, resolved |-> {}]
  ELSE IF cur.rules # prev.rules \/ b.engine # a.engine THEN as("cannot_evaluate", {}, {})
  ELSE as(IF new # {} THEN "regression" ELSE IF resolved # {} THEN "improvement"
          ELSE IF changes # {} THEN "unrelated_change" ELSE "no_change", new, resolved)

\* _rank_page: what to do next.  An action found not fixed often enough, on content that has
\* not changed since, is held back; a blocking issue hides the others.
Recs(p) == IF p.analyses = <<>> THEN <<>> ELSE p.analyses[1].recs
ToDo(p) == {k \in DOMAIN Recs(p) : StatusOfCode(p, Recs(p)[k].code) \in ToDoStatus}
Fingerprint(p) == p.facts[p.scored].fp
HeldBack(p) ==
  {k \in ToDo(p) : LET code == Recs(p)[k].code IN
     code \in DOMAIN p.rows /\ p.rows[code].notFixed >= SuppressAfter /\ p.rows[code].at = Fingerprint(p)}
Blocking(p) == {k \in ToDo(p) : Recs(p)[k].code \in BlockingCodes}
Picks(p) == (IF Blocking(p) = {} THEN ToDo(p) ELSE Blocking(p)) \ HeldBack(p)
PickBoost(status) == IF status = "reopened" THEN 13 ELSE IF status = "partial" THEN 12 ELSE 10
PickWeight(p, k) ==
  LET r == Recs(p)[k] IN
  (p.score + 10) * r.priority * (CASE r.confidence = "high" -> 10 [] r.confidence = "medium" -> 8 [] OTHER -> 6)
    * PickBoost(StatusOfCode(p, r.code))
\* The heaviest; of equals the one listed first
NextAction(p) ==
  CHOOSE k \in Picks(p) : \A l \in Picks(p) :
    PickWeight(p, k) > PickWeight(p, l) \/ (PickWeight(p, k) = PickWeight(p, l) /\ k <= l)

\* _page_summary and page_record: open issues, recommended or tracked
OpenIssues(p) == {c \in CodesIn(Recs(p)) \union DOMAIN p.rows : StatusOfCode(p, c) \in OpenStatus}
Actions(p) == [k \in DOMAIN Recs(p) |-> [code |-> Recs(p)[k].code, status |-> StatusOfCode(p, Recs(p)[k].code)]]
EarlierActions(p) == {[code |-> c, status |-> p.rows[c].status] : c \in DOMAIN p.rows \ CodesIn(Recs(p))}
\* The first open one as they are listed, a tracked one when none is
MainCode(p) ==
  LET listed == {k \in DOMAIN Recs(p) : Recs(p)[k].code \in OpenIssues(p)} IN
  IF listed # {} THEN Recs(p)[Min(listed)].code ELSE CHOOSE c \in OpenIssues(p) : TRUE
\* _timeline: the issues some analysis detected
Detected(p) == UNION {CodesIn(p.analyses[k].recs) : k \in DOMAIN p.analyses}

\* _load: the pages of a website, a sequence by score, that count; overview and next_actions
LoadedPages(pages) ==
  SelectSeq(pages, LAMBDA p : p.scored # 0 /\ (p.value \in {"high", "medium"} \/ DOMAIN p.rows # {}))
Tracked(pages) == UNION {{<<n, c>> : c \in DOMAIN pages[n].rows} : n \in DOMAIN pages}
NextActions(pages) ==
  LET cands == First(SelectSeq(LoadedPages(pages), LAMBDA p : Recs(p) # <<>>), NextPages)
      picks == {x \in (DOMAIN cands) \X (1 .. 5) : x[2] \in Picks(cands[x[1]])}
      \* the heaviest first, then by page and code
      order == [x \in picks |-> 1000 * (1000000 - PickWeight(cands[x[1]], x[2])) + 10 * x[1] + x[2]] IN
  First(InOrder(picks, order), NextShown)
FixesOverview(pages) ==
  LET loaded == LoadedPages(pages) IN
  [open_issues |-> MapThenSumSet(LAMBDA n : Cardinality(OpenIssues(loaded[n])), DOMAIN loaded),
   working |-> Cardinality({x \in Tracked(pages) :
     pages[x[1]].rows[x[2]].status \in {"in_progress", "ready", "reopened", "not_fixed", "partial"}}),
   scheduled |-> Cardinality({x \in Tracked(pages) :
     pages[x[1]].rows[x[2]].next /\ pages[x[1]].rows[x[2]].status # "ignored"})]
\* url_list: with a status of their own, or "open"
UrlList(pages, status) ==
  SelectSeq(LoadedPages(pages), LAMBDA p :
    IF status = "open" THEN OpenIssues(p) # {}
    ELSE status \in {StatusOfCode(p, c) : c \in CodesIn(Recs(p)) \union DOMAIN p.rows})
\* cancel_scheduled_checks: the due and the requested ones
CancelScheduled(rows) == [c \in DOMAIN rows |-> [rows[c] EXCEPT !.next = FALSE, !.asked = FALSE]]

----------------------------------------------------------------------------
(* Properties, for a crawl c or a website                                  *)

(***************************************************************************)
(* Counters, progress, the lists of rows and the groups of templates count *)
(* the same rows: every row in scope is fetched, failed or pending, no     *)
(* progress exceeds its total, a list is as long as its counter says, and  *)
(* each template has one representative (overview.py:109-186,              *)
(* routes_url_intelligence.py:187-207, 285-325).                           *)
(***************************************************************************)
CountsAgree(c) ==
  LET n == UrlCounts(c)
      inv == Inventory(c)
      size(view) == Cardinality(inv[view])
      placed == {i \in CrawledRows(c) : c.urls[i].template # 0} IN
  /\ n.crawled + n.failed + n.pending = n.in_scope
  /\ size("not_crawled") = n.pending /\ size("failed") = n.failed /\ size("skipped") = n.skipped
  /\ size("not_analyzed") = n.crawled - n.analyzed /\ size("has_issues") = n.with_issues
  /\ inv.high_priority \subseteq inv.has_issues /\ inv.has_issues \subseteq CrawledRows(c)
  /\ \A phase \in ActivePhases : LET p == Progress(phase, n) IN p.total # Unknown => p.done <= p.total
  /\ {n.crawl_coverage, n.analysis_coverage} \subseteq 0 .. 1000 \union {Unknown}
  /\ MapThenSumSet(LAMBDA g : g.count, TemplateGroups(c)) = Cardinality(placed)
  /\ \A i \in placed : Cardinality({j \in placed : c.urls[j].template = c.urls[i].template /\ TemplateOf(c, j).is}) = 1

(***************************************************************************)
(* Page, list and overview tell of the same findings.  Every issue of a    *)
(* checked page is on one card, which counts the pages that show it; the   *)
(* counts split the list; its pages hold it once; a free account sees on   *)
(* no page what the list locks; what is at least as bad in every respect   *)
(* is not ranked below; and while nothing is closed the overview shows the *)
(* head of the list (overview.py:197-215, 313-336, prioritization.py,      *)
(* routes_url_intelligence.py:337-375).                                    *)
(***************************************************************************)
ListsAgree(c, F, counts, whole, free) ==
  LET list(kind, page, size) == FindingsPage(F, kind, "all", TRUE, page, size)
      total(kind) == list(kind, 1, 1).total IN
  /\ \A i \in CrawledRows(c) : c.urls[i].codes # Never =>
       \A code \in IssuesOf(c.urls[i]) :
         Cardinality({f \in ApplicableFindings(c, i, TRUE) : f.by = "rules" /\ f.code = code}) = 1
  /\ MapThenSumSet(LAMBDA f : f.affected, RuleFindings(c)) =
       MapThenSumSet(LAMBDA i : Cardinality(StoredCodes(c.urls[i])), CrawledRows(c))
  /\ counts.open = counts.confirmed + counts.potential
  /\ counts.open = MapThenSumSet(LAMBDA p : counts.by_priority[p], 1 .. 4)
  /\ counts.total = Len(whole) /\ counts.total = total("confirmed") + total("potential")
  /\ counts.insufficient = total("insufficient")
  /\ \A size \in 1 .. 2 : \A k \in DOMAIN whole :
       list("all", 1 + (k - 1) \div size, size).shown[1 + ((k - 1) % size)] = whole[k]
  /\ Len(free.shown) + free.locked = counts.total
  /\ \A i \in CrawledRows(c) : \A f \in ApplicableFindings(c, i, FALSE) : \E k \in DOMAIN free.shown : free.shown[k] = f
  /\ \A k, l \in DOMAIN whole :
       LET f == whole[k]
           g == whole[l] IN
       f.severity >= g.severity /\ ConfidenceWeight[f.confidence] >= ConfidenceWeight[g.confidence]
         /\ f.affected >= g.affected /\ EngineIntent[f.type] >= EngineIntent[g.type] =>
           k <= l \/ PriorityScore(f) = PriorityScore(g)
  /\ OpenOnes(F) = F => TopPriorities(F, TopShown) = First(whole, TopShown)
FindingsListed(c, F) ==
  ListsAgree(c, F, FindingCounts(F), FindingsPage(F, "all", "all", TRUE, 1, Cardinality(F)).shown,
             FindingsPage(F, "all", "all", FALSE, 1, 1))
FindingsAgree(c) == FindingsListed(c, FindingsOf(c))

(***************************************************************************)
(* Comparing is symmetric and adds up: what is new one way is resolved the *)
(* other, new and recurring are the findings there are, and what is new on *)
(* a page was not on that page before.  The default baseline is never      *)
(* refused, nor of another engine; and a crawl that runs or failed leaves  *)
(* the results of the last completed one in place (overview.py:225-286,    *)
(* recommendations.py:102-114, routes_url_intelligence.py:126-182).        *)
(***************************************************************************)
Mirrored(site, n, m, a, b) ==
  /\ a.says \in {"available", "incompatible_engine", "different_site"} => b.says = a.says
  /\ a.says = "available" =>
       /\ a.findings.new = b.findings.resolved /\ a.findings.recurring = b.findings.recurring
       /\ a.pages.added = b.pages.removed /\ a.pages.more = b.pages.fewer
       /\ Cardinality(a.findings.new) + Cardinality(a.findings.recurring) = FindingCounts(FindingsOf(site[n])).total
       /\ \A k \in a.findings.new : k[1] = "rules" =>
            \E i \in Showing(site[n], k[2], k[3]) :
              \A j \in CrawledRows(site[m]) : site[m].urls[j].key = site[n].urls[i].key =>
                k[2] \notin StoredCodes(site[m].urls[j]) \/ site[m].urls[j].template # k[3]
Summarized(site, o, free) ==
  /\ site # <<>> => o.can_start = ~ o.status.active
  /\ o.results.of = Max({0} \union Completed(site))
  /\ o.results.of # 0 =>
       /\ o.results.comparison # "refused" /\ o.results.comparison # "incompatible_engine"
       /\ Len(o.results.top) = Min({TopShown, o.results.findings.open})
       /\ FreeFindings <= TopShown => Len(free.top) + free.locked = free.findings.open
ComparisonsAgree(site) ==
  /\ \A n \in Completed(site) : Compare(site, n, 0).says \in {"available", "no_baseline", "different_site"}
  /\ \A n, m \in DOMAIN site : Mirrored(site, n, m, Compare(site, n, m), Compare(site, m, n))
  /\ Summarized(site, Overview(site, TRUE), Overview(site, FALSE).results)

(***************************************************************************)
(* The record of a page agrees with itself.  What the comparison calls new *)
(* has the status New, alerts are about such issues only, no change means  *)
(* the same content; the open issues are those among the actions listed;   *)
(* a blocking issue comes first, and a page with something to do is silent *)
(* only if it was checked with the content it has now; a check a person    *)
(* asked for comes before all others                                       *)
(* (optimization.py:92-115, 173-178, 544-705, 905-948).                    *)
(***************************************************************************)
RecordSound(p) ==
  LET ch == PageChanges(p)
      listed == Actions(p)
      open(S) == {a \in S : a.status \in OpenStatus} IN
  /\ ch.says \in {"regression", "improvement", "unrelated_change", "no_change"} =>
       ch.new = {c \in CodesIn(Recs(p)) \ PatternCodes : DerivedStatus(p, c) = "new"}
  /\ NewIssueAlerts(p) # <<>> =>
       ch.says = "regression" /\ {NewIssueAlerts(p)[k] : k \in DOMAIN NewIssueAlerts(p)} \subseteq ch.new
  /\ ch.says = "no_change" =>
       \A n \in {p.analyses[1].crawl, AnalysisEntry(p).before} : p.facts[n].fp = p.facts[p.analyses[1].crawl].fp
  /\ Cardinality(OpenIssues(p)) =
       Cardinality({k \in DOMAIN listed : listed[k].status \in OpenStatus}) + Cardinality(open(EarlierActions(p)))
  /\ OpenIssues(p) # {} => MainCode(p) \in OpenIssues(p)
  /\ \A c \in CodesIn(Recs(p)) : DerivedStatus(p, c) = "attention" =>
       \E k \in 2 .. Len(p.analyses) : c \in CodesIn(p.analyses[k].recs) /\ p.analyses[k].crawl # p.analyses[1].crawl
  /\ ToDo(p) # {} /\ Picks(p) = {} => \E c \in DOMAIN p.rows : p.rows[c].at = Fingerprint(p)
  /\ Blocking(p) \ HeldBack(p) # {} => NextAction(p) \in Blocking(p)
  /\ \A i, j \in 1 .. 4 : CheckPriority(p, i, TRUE) > CheckPriority([p EXCEPT !.score = 100], j, FALSE)

(***************************************************************************)
(* The overview of the fixes adds up the records of its pages: it counts   *)
(* the open issues of the pages listed as open, every tracked action still *)
(* open among them; what it advises first is what is heaviest on any page; *)
(* and when scheduled checks are cancelled none is left and no issue is    *)
(* closed (optimization.py:708-835, 951-967).                              *)
(***************************************************************************)
Fixable(pages) == First(SelectSeq(LoadedPages(pages), LAMBDA p : Recs(p) # <<>>), NextPages)
OverviewAgrees(pages, o, open, next, cands) ==
  LET calm == [n \in DOMAIN pages |-> [pages[n] EXCEPT !.rows = CancelScheduled(@)]] IN
  /\ o.open_issues = MapThenSumSet(LAMBDA n : Cardinality(OpenIssues(open[n])), DOMAIN open)
  /\ (\A n \in DOMAIN pages : pages[n].scored # 0) => o.working <= o.open_issues
  /\ \A n \in DOMAIN cands : Picks(cands[n]) # {} =>
       /\ next # <<>>
       /\ PickWeight(cands[n], NextAction(cands[n])) <= PickWeight(cands[next[1][1]], next[1][2])
       /\ (\E k \in DOMAIN next : next[k] = <<n, NextAction(cands[n])>>)
            \/ Len(next) = NextShown
  /\ FixesOverview(calm) = [o EXCEPT !.scheduled = 0]
FixesAgree(pages) ==
  OverviewAgrees(pages, FixesOverview(pages), UrlList(pages, "open"), NextActions(pages), Fixable(pages))
=============================================================================
