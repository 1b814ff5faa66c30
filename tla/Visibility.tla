----------------------------- MODULE Visibility -----------------------------
(***************************************************************************)
(* What the answers of one run say of the brand, the opportunities drawn   *)
(* from them and from the scan the run is linked to, how these are grouped *)
(* by root cause and which of them a free account sees: the pure part of   *)
(* services/answer_tracking/aggregation.py and visibility.py, with the     *)
(* scan's side from reports/phase4.py.                                     *)
(*                                                                         *)
(* A run is a sequence of analysed answers:                                *)
(*   [prompt, provider,                                                    *)
(*    search      web search was on,                                       *)
(*    citable     the provider reports citations at all,                   *)
(*    failed      the extraction failed,                                   *)
(*    mentioned   the brand is named,                                      *)
(*    cited       how many brand addresses are cited,                      *)
(*    entities    the solutions recommended, Brand among them or not].     *)
(* Names are already merged by _normalise_entity_key; names of entities    *)
(* are numbers, so that they have an order.  Rates are tenths of a per     *)
(* cent, rounded.                                                          *)
(***************************************************************************)
EXTENDS Integers, Sequences, FiniteSets, FiniteSetsExt
CONSTANTS
  Brand,            \* the key of the tracked brand
  MinAppearances,   \* answer_tracking_leaderboard_min_appearances
  VisibleMin,       \* VISIBLE_MIN
  MinPrompts        \* ANSWERABILITY_MIN_PROMPTS

ASSUME MetricsAssumption ==
  /\ MinAppearances \in Nat
  /\ VisibleMin \in 1..100
  /\ MinPrompts \in Nat

Successful(run) == {i \in DOMAIN run : ~ run[i].failed}
Mentions(run) == {i \in Successful(run) : run[i].mentioned}
PromptsOf(run) == {run[i].prompt : i \in Successful(run)}
ProvidersOf(run) == {run[i].provider : i \in Successful(run)}
Samples(run, p) == {i \in Successful(run) : run[i].prompt = p}

\* Wrong: a failed extraction that found the brand is still a hit.
HitsAny(run, p) == {i \in DOMAIN run : run[i].prompt = p /\ run[i].mentioned}
Hits(run, p) == {i \in Samples(run, p) : run[i].mentioned}

Rate(hit, total) == (2000 * hit + total) \div (2 * total)
RateOf(run, p) == Rate(Cardinality(Hits(run, p)), Cardinality(Samples(run, p)))

IsGap(run, p) == RateOf(run, p) = 0

\* Answers without web search say nothing of citations.
Searched(run) == {i \in Successful(run) : run[i].search}
CitationCount(run) == SumFunction([i \in Searched(run) |-> run[i].cited])

\* _citation_diagnosis looks at every answer, analysed or not.
Reporting(run) == {run[i].provider : i \in {j \in DOMAIN run : run[j].citable}}
Searching(run) == {run[i].provider : i \in {j \in DOMAIN run : run[j].search}}
Diagnosis(run) ==
  IF CitationCount(run) > 0 THEN "has_citations"
  ELSE IF run = <<>> THEN "no_data"
  ELSE IF Reporting(run) = {} THEN "no_provider_reports_citations"
  ELSE IF Reporting(run) \intersect Searching(run) = {} THEN "search_disabled"
  ELSE "searched_not_cited"

\* _leaderboard: an entity counts once per answer, the brand always.
Appearances(run, e) == {i \in Successful(run) : e \in run[i].entities}
Coverage(run, e) == {run[i].prompt : i \in Appearances(run, e)}
Entries(run) ==
  {e \in UNION {run[i].entities : i \in Successful(run)} :
     Cardinality(Appearances(run, e)) >= MinAppearances \/ e = Brand}
HeadToHead(run, e) == Cardinality({p \in Coverage(run, e) : Hits(run, p) = {}})
Outranks(run, d, e) ==
  LET m == Cardinality(Appearances(run, d))
      n == Cardinality(Appearances(run, e)) IN
  m > n \/ (m = n /\ d < e)
RankOf(run, e) == 1 + Cardinality({d \in Entries(run) : Outranks(run, d, e)})

\* build_answerability: a prompt with data is in one of three buckets.
Bucket(run, p) ==
  IF RateOf(run, p) = 0 THEN "not_visible"
  ELSE IF RateOf(run, p) >= 10 * VisibleMin THEN "visible" ELSE "partially_visible"
Verdict(run) ==
  LET all == Cardinality(PromptsOf(run))
      seen == Cardinality({p \in PromptsOf(run) : Bucket(run, p) # "not_visible"}) IN
  IF all < MinPrompts THEN "insufficient_data"
  ELSE IF seen = 0 THEN "not_visible"
  ELSE IF 100 * seen >= VisibleMin * all THEN "visible" ELSE "partially_visible"

(***************************************************************************)
(* The figures of one run, computed along four paths, tell one story: the  *)
(* answers of all prompts and those of all providers add up to the answers *)
(* analysed, and so do the mentions; a prompt is called not visible, and a *)
(* gap, only if no analysed answer names the brand: rounding loses none;   *)
(* the prompts named in a competitor's head-to-head leave the brand out    *)
(* and never exceed the gaps; ranks are a numbering without holes and the  *)
(* brand has one if it appears at all; a run that is not visible mentions  *)
(* it nowhere; citations are claimed to be missing only where none was     *)
(* counted (aggregation.py:146-376, visibility.py:149-211, 447-476).       *)
(***************************************************************************)
FiguresAgree(run) ==
  LET prompts == PromptsOf(run)
      board == Entries(run) IN
  /\ SumFunction([p \in prompts |-> Cardinality(Samples(run, p))]) = Cardinality(Successful(run))
  /\ SumFunction([p \in prompts |-> Cardinality(Hits(run, p))]) = Cardinality(Mentions(run))
  /\ \A p \in prompts : (Bucket(run, p) = "not_visible" <=> Hits(run, p) = {}) /\ (IsGap(run, p) <=> Hits(run, p) = {})
  /\ \A e \in board :
       /\ HeadToHead(run, e) <= Cardinality({p \in prompts : IsGap(run, p)})
       /\ \A i \in DOMAIN run :
            ~ run[i].failed /\ run[i].mentioned =>
              HeadToHead(run, e) <= Cardinality(Coverage(run, e) \ {run[i].prompt})
  /\ {RankOf(run, e) : e \in board} = 1..Cardinality(board)
  /\ \A i \in Successful(run) : Brand \in run[i].entities => Brand \in board
  /\ Verdict(run) = "not_visible" => \A i \in Successful(run) : ~ run[i].mentioned
  /\ Diagnosis(run) = "searched_not_cited" => \A i \in Successful(run) : run[i].search => run[i].cited = 0

----------------------------------------------------------------------------
(* A scan is what these rules read of it:                                  *)
(*   [lost       the points each signal lost,                              *)
(*    advice     the priority of each signal's recommendation, if any,     *)
(*    present    the schema types found,                                   *)
(*    relevant   the types that fit the page's content,                    *)
(*    links, nav its internal links, whether it has navigation,            *)
(*    checks     how many of the six entity checks pass,                   *)
(*    graph      the share of pages, per cent, each graph issue names,     *)
(*    clusters   the clusters of similar pages, <<type, confidence>>,      *)
(*    repeated   the share of pages that repeat a title, h1 or description,*)
(*    thin       the share of pages that are thin,                         *)
(*    questions  the questions found on the page, numbers].                *)
(* Impacts are whole per cent; NoImpact is the code's None.                *)
CONSTANT PreviewLimit    \* how many opportunities a free account sees

ASSUME PreviewAssumption == PreviewLimit \in Nat

NoImpact == -1
NoRec == "none"

PriorityFromImpact(impact) ==
  IF impact >= 75 THEN 0 ELSE IF impact >= 50 THEN 1 ELSE IF impact >= 25 THEN 2 ELSE 3
High == 1
Low == 3

\* Kinds in the order of the ids that begin with their names, and the
\* order of types _PRIMARY_TYPE_RANK gives them inside a group
IdOrder == [answer_gap |-> 1, citation_gap |-> 2, competitor_gap |-> 3, content_cluster |-> 4,
            content_duplicate |-> 5, content_thin |-> 6, crawl_graph |-> 7, entity_gap |-> 8,
            link_opportunity |-> 9, question_opportunity |-> 10, schema_gap |-> 11, score_loss |-> 12]
TypeRank == [score_loss |-> 0, schema_gap |-> 1, link_opportunity |-> 1, crawl_graph |-> 1,
             content_cluster |-> 1, content_duplicate |-> 1, content_thin |-> 1, entity_gap |-> 2,
             answer_gap |-> 9, citation_gap |-> 9, competitor_gap |-> 9, question_opportunity |-> 9]

Opp(kind, n, priority, impact, rec) ==
  [kind |-> kind, n |-> n, priority |-> priority, impact |-> impact, rec |-> rec]
\* The order of ids: by kind, then by what they name
IdBefore(o, p) ==
  IdOrder[o.kind] < IdOrder[p.kind] \/ (IdOrder[o.kind] = IdOrder[p.kind] /\ o.n < p.n)

\* The heaviest signal weighs 15 points.
ImpactScoreLoss(points) == Min({100, (100 * points) \div 15})

----------------------------------------------------------------------------
(* What the scan finds (phase4.py).                                        *)

SchemaType == <<"Organization", "WebSite", "Article", "FAQPage", "BreadcrumbList", "Product", "Service", "Review">>
GatedType == {"Article", "FAQPage", "Product", "Service", "Review"}
MissingTypes(scan) ==
  {n \in DOMAIN SchemaType :
     /\ SchemaType[n] \notin scan.present
     /\ SchemaType[n] \in GatedType => SchemaType[n] \in scan.relevant}

\* Issue 1 is potentially_isolated_page, 2 weak_internal_linking, 3 no_navigation.
LinkIssues(scan) ==
  {n \in 1..3 : \/ n = 1 /\ scan.links = 0
                \/ n = 2 /\ scan.links \in 1..4
                \/ n = 3 /\ ~ scan.nav}

EntityChecks == 6
Completeness(scan) == (100 * scan.checks) \div EntityChecks

----------------------------------------------------------------------------
(* The opportunity builders, one for each source.                          *)

SignalNo == [content |-> 1, links |-> 2, schema |-> 3]
ScoreLossOpps(scan) ==
  {LET impact == ImpactScoreLoss(scan.lost[s]) IN
   IF s \in DOMAIN scan.advice THEN Opp("score_loss", SignalNo[s], scan.advice[s], impact, s)
   ELSE Opp("score_loss", SignalNo[s], PriorityFromImpact(impact), impact, NoRec) :
     s \in {t \in DOMAIN scan.lost : scan.lost[t] > 0}}

AnswerGapOpps(run) ==
  {Opp("answer_gap", p, PriorityFromImpact(100), 100, NoRec) : p \in {q \in PromptsOf(run) : IsGap(run, q)}}

CompetitorOpps(run) ==
  LET impact(e) == Min({100, (100 * HeadToHead(run, e)) \div Cardinality(PromptsOf(run))}) IN
  {Opp("competitor_gap", e, PriorityFromImpact(impact(e)), impact(e), NoRec) :
     e \in {d \in Entries(run) \ {Brand} : HeadToHead(run, d) > 0}}

CitationOpps(run) ==
  IF Diagnosis(run) = "searched_not_cited" /\ Searched(run) # {}
  THEN {Opp("citation_gap", 0, PriorityFromImpact(100), 100, NoRec)} ELSE {}

\* Every missing type shares the impact of the one schema signal.
SchemaOpps(scan) ==
  LET impact == ImpactScoreLoss(scan.lost.schema)
      priority == IF 1 \in MissingTypes(scan) THEN High ELSE PriorityFromImpact(impact) IN
  {Opp("schema_gap", n, priority, impact, "schema") : n \in MissingTypes(scan)}

LinkOpps(scan) ==
  LET impact == ImpactScoreLoss(scan.lost.links) IN
  {Opp("link_opportunity", n, IF n = 1 THEN High ELSE PriorityFromImpact(impact), impact, "links") :
     n \in LinkIssues(scan)}

\* (completeness_pct or 100): no signal at all counts as all of them.
EntityOpps(scan) ==
  LET impact == 100 - (IF Completeness(scan) = 0 THEN 100 ELSE Completeness(scan)) IN
  IF scan.checks < EntityChecks /\ impact > 0
  THEN {Opp("entity_gap", 0, PriorityFromImpact(impact), impact, "schema")} ELSE {}

CrawlGraphOpps(scan) ==
  {Opp("crawl_graph", n, PriorityFromImpact(scan.graph[n]), scan.graph[n], "links") :
     n \in {m \in DOMAIN scan.graph : scan.graph[m] > 0}}

ClusterImpact == [near_duplicate |-> [high |-> 70, medium |-> 55],
                  potential_cannibalization |-> [high |-> 65, medium |-> 45],
                  content_overlap |-> [high |-> 35, medium |-> 25]]
ContentOpps(scan) ==
  LET impact(n) == ClusterImpact[scan.clusters[n][1]][scan.clusters[n][2]]
      repeats == [title |-> [no |-> 3, rec |-> "metadata"], h1 |-> [no |-> 1, rec |-> "content"],
                  description |-> [no |-> 2, rec |-> "metadata"]] IN
  {Opp("content_cluster", n, PriorityFromImpact(impact(n)), impact(n), "content") : n \in DOMAIN scan.clusters}
    \union {Opp("content_duplicate", repeats[e].no, PriorityFromImpact(scan.repeated[e]), scan.repeated[e],
                repeats[e].rec) : e \in DOMAIN scan.repeated}
    \union (IF scan.thin = 0 THEN {}
            ELSE {Opp("content_thin", 0, PriorityFromImpact(scan.thin), scan.thin, "content")})

\* A question that is already tracked is an answer gap or no gap at all.
QuestionOpps(run, scan) ==
  {Opp("question_opportunity", q, Low, NoImpact, NoRec) : q \in scan.questions \ PromptsOf(run)}

Opportunities(run, scan) ==
  ScoreLossOpps(scan) \union AnswerGapOpps(run) \union CompetitorOpps(run) \union CitationOpps(run)
    \union SchemaOpps(scan) \union LinkOpps(scan) \union EntityOpps(scan) \union CrawlGraphOpps(scan)
    \union ContentOpps(scan) \union QuestionOpps(run, scan)

----------------------------------------------------------------------------
(* Their order, their groups, and what a free account is shown.            *)

\* The order of the list: priority, impact, id
Listed(o, p) ==
  \/ o.priority < p.priority
  \/ o.priority = p.priority /\ o.impact > p.impact
  \/ o.priority = p.priority /\ o.impact = p.impact /\ IdBefore(o, p)

\* The order inside a group: impact, kind, id
Leads(o, p) ==
  \/ o.impact > p.impact
  \/ o.impact = p.impact /\ TypeRank[o.kind] < TypeRank[p.kind]
  \/ o.impact = p.impact /\ TypeRank[o.kind] = TypeRank[p.kind] /\ IdBefore(o, p)

\* _compute_opportunity_groups: two or more that share a recommendation
Group(items, rec) == {o \in items : o.rec = rec}
Grouped(items) == {rec \in {o.rec : o \in items} \ {NoRec} : Cardinality(Group(items, rec)) >= 2}
PrimaryOf(items, rec) ==
  CHOOSE o \in Group(items, rec) : \A p \in Group(items, rec) \ {o} : Leads(o, p)
IsPrimary(items, o) == o.rec \in Grouped(items) => o = PrimaryOf(items, o.rec)

\* Wrong: the first items of the list, whatever they restate.
ShownFirst(items) ==
  {o \in items : Cardinality({p \in items : Listed(p, o)}) < PreviewLimit}

\* _select_preview_items: primaries first, then the rest, each in list order
Shown(items) ==
  LET primary == {o \in items : IsPrimary(items, o)}
      ahead(p, o) == IF (p \in primary) = (o \in primary) THEN Listed(p, o) ELSE p \in primary IN
  {o \in items : Cardinality({p \in items : ahead(p, o)}) < PreviewLimit}

(***************************************************************************)
(* What a free account sees of the opportunities stands on its own: it is  *)
(* full if there are enough; a second item of a root cause is shown only   *)
(* when every root cause is; whatever is shown, the leading item of its    *)
(* root cause is shown too and still leads when the groups are computed    *)
(* again from the shown items alone; and no hidden root cause comes before *)
(* a shown one in the list (visibility.py:66-117, 306-370, 880-890).       *)
(***************************************************************************)
PreviewStands(run, scan) ==
  LET all == Opportunities(run, scan)
      shown == Shown(all)
      primary == {o \in all : IsPrimary(all, o)} IN
  /\ Cardinality(shown) = Min({PreviewLimit, Cardinality(all)})
  /\ (shown \subseteq primary) \/ (primary \subseteq shown)
  /\ \A o \in shown : o.rec \in Grouped(all) => PrimaryOf(all, o.rec) \in shown
  /\ \A rec \in Grouped(shown) : PrimaryOf(shown, rec) = PrimaryOf(all, rec)
  /\ \A o \in shown \intersect primary, p \in primary \ shown : Listed(o, p)

(***************************************************************************)
(* "ONE opportunity summarising missing entity signals"                    *)
(* (visibility.py:570): a page that fails an entity check has one.         *)
(***************************************************************************)
EntityReported(scan) == scan.checks < EntityChecks => EntityOpps(scan) # {}
=============================================================================
