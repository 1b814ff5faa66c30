------------------------------- MODULE MCRules ------------------------------
(* The pure rules: a state is a group of rules and one case of their inputs.  *)
EXTENDS CommandCenter, Simulator, ContentOverlap, CrawlGraph, Changes, TLC

VARIABLES group, case

MCLogOf == 0 :> 0 @@ 1 :> 30 @@ 100 :> 100

\* The values the cases below measure have a logarithm.
ASSUME CasesAssumption == {0, 1, 100} \subseteq DOMAIN LogOf

(***************************************************************************)
(* Pages: their type, their score, the advice on them, their peers.        *)
(***************************************************************************)
TypedPage == [path : {"product", "legal", "none", "root"}, engine : {"product", "unknown"},
              schema : SUBSET {"product", "category", "service"}, text : SUBSET {"product", "service", "legal"},
              price : BOOLEAN, crumbs : BOOLEAN]
Typed == [type : {"product", "legal"}, status : {"confirmed", "uncertain"}]
Sources == [pro : BOOLEAN, ga4 : {"synced", "none"}, gsc : {"synced", "none"}, keyEvents : BOOLEAN,
            currency : {TRUE}, verified : {"none", "one_currency", "mixed"}, truncated : {FALSE}]
Measures == [links : {0, 100}, ai : {0, 1}, organic : {0}, sessions : {100}, verified : {0, 1},
             keyEvents : {0, 100}, revenue : {0, 1}, clicks : {Unknown, 0, 1}, impressions : {100}]

AnalysedPage ==
  [type : {"product", "blog", "booking", "legal", "unknown"}, engine : {"product", "legal_utility"},
   http : {200, 404}, title : {0, 20, 80}, desc : {0, 50}, words : {100, 200}, subs : {0},
   canonical : {"none", "other"}, inbound : {0}, depth : {4},
   markup : {{}, {"other"}, {"relevant", "other"}}, broken : {FALSE}, offer : {"none", "price"},
   name : {"same"}, age : {400}, asks : {"no"}, copies : {{"title"}}]
Traffic == [links : {0}, ai : {0}, organic : {0}, sessions : {99, 100}, conversions : {Unknown, 0, 1},
            revenue : {Unknown}, clicks : {0, 4}, impressions : {Unknown, 200}]
Visited == CHOOSE s \in Traffic : s.sessions = 100 /\ s.conversions = 0 /\ s.clicks = 0 /\ s.impressions = 200
Plain(t) == [CHOOSE p \in AnalysedPage : p.type = "product" /\ p.http = 200 EXCEPT !.type = t]

PageCase ==
  \/ \E p \in TypedPage : case' = [of |-> "type", page |-> p]
  \/ \E c \in Typed, f \in Sources, m \in Measures, sev \in {1, 4} :
       case' = [of |-> "score", typed |-> c, sources |-> f, measures |-> m, severity |-> sev]
  \/ \E p \in AnalysedPage : case' = [of |-> "advice", page |-> p, traffic |-> Visited, ctr |-> 3]
  \/ \E t \in {"product", "blog", "legal"}, s \in Traffic, ctr \in {0, 3, 5} :
       case' = [of |-> "advice", page |-> Plain(t), traffic |-> s, ctr |-> ctr]
  \/ \E n \in 5 .. 7 : \E m \in [1 .. n -> 1 .. 3] : case' = [of |-> "peers", metric |-> m]

(***************************************************************************)
(* A page's type and score rest on its evidence, and so do its advice and   *)
(* its rank among its peers (PageAnalysis).                                 *)
(***************************************************************************)
PagesJudged ==
  /\ case.of = "type" => ClassifiedSoundly(case.page)
  /\ case.of = "score" => WorthNeverCosts(case.typed, case.sources, case.measures, case.severity)
  /\ case.of = "advice" =>
       AdviceConsistent(case.page, case.traffic, case.ctr, 4, [sessions |-> 30, conversions |-> 0, others |-> 1])
  /\ case.of = "peers" => PeersSeparate(case.metric)

(***************************************************************************)
(* Answers: the figures of a run and the opportunities shown for it.       *)
(***************************************************************************)
Answer == [prompt : {1, 2}, provider : {"a"}, search : BOOLEAN, citable : {TRUE}, failed : BOOLEAN,
           mentioned : BOOLEAN, cited : {0, 1}, entities : {{}, {0, 1}, {1, 2}}]
Uncited == {a \in Answer : a.cited = 0 /\ (a.failed => a.entities = {})}
Asked(p, mentioned, entities) ==
  [prompt |-> p, provider |-> "a", search |-> TRUE, citable |-> TRUE, failed |-> FALSE,
   mentioned |-> mentioned, cited |-> 0, entities |-> entities]
Scanned == [lost : [content : {0}, links : {0, 6}, schema : {0, 3, 12}],
            advice : {<<>>, [schema |-> 1, links |-> 0]},
            present : {{}, {"Organization", "WebSite", "BreadcrumbList"}}, relevant : {{}, {"FAQPage"}},
            links : {0, 9}, nav : {TRUE}, checks : {2, 6}, graph : {<<0, 0, 0>>, <<40, 80, 0>>},
            clusters : {<<>>, << <<"content_overlap", "high">>, <<"near_duplicate", "medium">> >>},
            repeated : {<<>>, [title |-> 50, h1 |-> 20]}, thin : {0, 30}, questions : {{}, {2, 3}}]

SmallRun == {<<>>} \union {<<a>> : a \in Answer} \union {<<a, b, d>> : a, b, d \in Uncited}

AnswerCase ==
  \/ \E run \in SmallRun :
       case' = [of |-> "run", run |-> run]
  \/ \E run \in {<<>>, <<Asked(1, FALSE, {1, 2}), Asked(2, TRUE, {0, 1})>>}, scan \in Scanned :
       case' = [of |-> "scan", run |-> run, scan |-> scan]

(***************************************************************************)
(* Questions put to the simulator, over up to two scans of a site          *)
(***************************************************************************)
SinglePage ==
  {p \in [url : {"a"}, title : {<<>>, <<"price", "tool">>, <<"how", "to">>}, description : {<<"how", "guide">>},
           h1 : {<<>>}, headings : {<< <<"how", "price">> >>},
           faq : {<<>>, << [q |-> <<"how", "tool">>, a |-> <<"guide">>] >>}, name : {<<>>, <<"acme">>},
           same : {<< <<"price">> >>}, chunks : {<< <<"how", "tool", "price">> >>}] : (p.faq = <<>>) = (p.name = <<>>)}
BulkPage(u, t, c) ==
  [url |-> u, title |-> t, description |-> <<>>, h1 |-> <<>>, headings |-> <<>>, faq |-> <<>>, name |-> <<>>,
   same |-> <<>>, chunks |-> c]
Footer == << <<"how", "this", "tool">>, <<"guide">> >>
SiteScan == [host : {"acme"}, done : {TRUE}, bulk : {FALSE}, pages : {<<p>> : p \in SinglePage}]
  \union [host : {"acme"}, done : BOOLEAN, bulk : {TRUE},
          pages : {<<BulkPage("a", t, Footer), BulkPage("b", <<"guide">>, Footer), BulkPage("c", t, Footer)>> :
                     t \in {<<>>, <<"price">>}}]
  \union {[host |-> "other", done |-> TRUE, bulk |-> TRUE, pages |-> <<BulkPage("b", <<"price">>, <<>>)>>]}
Question == {<<"price">>, <<"how", "price">>, <<"price", "tool">>, <<"how", "to", "pizza">>, <<"how", "to", "tool">>,
             <<"pizza", "price", "acme">>, <<"pizza", "dough", "oven", "cheese", "guide">>}
Request == [llm : {FALSE}, force : {FALSE}, provider : {"none"}, reply : {[ok |-> FALSE, cites |-> {}]}] \union
           [llm : {TRUE}, force : BOOLEAN, provider : {"local", "anthropic"},
            reply : [ok : {TRUE}, cites : {{}, {"a"}, {"a", "b"}, {"x"}}] \union {[ok |-> FALSE, cites |-> {}]}]
Set == {<<>>, <<[key |-> 1, active |-> TRUE]>>, <<[key |-> 1, active |-> FALSE], [key |-> 2, active |-> TRUE]>>}

SimulatorCase ==
  \/ \E scans \in {<<>>} \union {<<a>> : a \in SiteScan} \union {<<a, b>> : a, b \in SiteScan}, q \in Question, r \in Request :
       case' = [of |-> "question", scans |-> scans, question |-> q, request |-> r,
                brand |-> {IF r.force THEN <<"guide">> ELSE <<"acme">>}]
  \/ \E t \in Set, ids \in {<<>>, <<1>>, <<2, 1>>, <<2, 2>>}, n \in 0 .. 3, free \in BOOLEAN : \E x \in [1 .. n -> 0 .. 3] :
       case' = [of |-> "batch", tracked |-> t, ids |-> ids, texts |-> x, free |-> free]

\* The figures of a run agree with each other and with its answers, what a reader sees first
\* is what comes first, and a simulated answer rests on what the site says (Visibility and
\* Simulator).
AnswersJudged ==
  /\ case.of = "run" => FiguresAgree(case.run)
  /\ case.of = "scan" => PreviewStands(case.run, case.scan)
  /\ case.of = "question" => Grounded(case.scans, "acme", case.question, case.request, case.brand)
  /\ case.of = "batch" => BatchSound(case.tracked, case.ids, case.texts, case.free)

(***************************************************************************)
(* The ways in (SiteAccess)                                                *)
(***************************************************************************)
MCLower == [n \in {"GPTBot", "gptbot", "ClaudeBot", "*"} |->
              IF n = "GPTBot" THEN "gptbot" ELSE IF n = "ClaudeBot" THEN "claudebot" ELSE n]
Line == [field : {"agent"}, value : {"GPTBot", "gptbot", "ClaudeBot", "*"}]
        \union [field : {"disallow"}, value : Pattern] \union [field : {"allow"}, value : {"/", "path"}]
Cell == [empty : {FALSE}, url : {TRUE}, safe : BOOLEAN, key : {1, 2}]
        \union [empty : BOOLEAN, url : {FALSE}, safe : {FALSE}, key : {0}]
Url == {"u1", "u2", "u3"}
Response == [code : {200, 404, 500}, to : {"none"}] \union [code : {0}, to : Url]

AccessCase ==
  \/ \E n \in 1 .. 4 : \E f \in [1 .. n -> Line] : case' = [of |-> "robots", file |-> f]
  \/ \E f \in [1 .. 2 -> Line], c \in {200, 503, 403}, r \in [{"GPTBot", "ClaudeBot"} -> {200, 403, 500, 0}] :
       case' = [of |-> "access", file |-> f, control |-> c, response |-> r]
  \/ \E n \in 1 .. 2 : \E f \in [1 .. n -> [1 .. 2 -> Cell]] : case' = [of |-> "urls", rows |-> f]
  \/ \E f \in [1 .. 4 -> [1 .. 1 -> Cell]] : case' = [of |-> "urls", rows |-> f]
  \/ \E site \in [Url -> Response], c \in {"missing", "invalid", "u1", "u2"}, n \in SUBSET {"meta", "header"},
        crawlable \in BOOLEAN, map \in {{}, {"u1", "u3"}}, pages \in {{"u1", "u2"}, Url} :
       case' = [of |-> "index", pages |-> pages, site |-> site, crawlable |-> crawlable, sitemap |-> map,
                canon |-> [u \in Url |-> IF u = "u1" THEN c ELSE "missing"],
                noindex |-> [u \in Url |-> IF u = "u2" THEN {} ELSE n]]

(***************************************************************************)
(* Pages with one signal's facts in every way, the others all poor or rich *)
(***************************************************************************)
Agent(v) == [field |-> "agent", value |-> v]
Disallow(v) == [field |-> "disallow", value |-> v]
Block(t) == [bad |-> FALSE, types |-> t]
Bad == [bad |-> TRUE, types |-> {}]
Poor ==
  [robots |-> [exists |-> FALSE, lines |-> <<>>, sitemap |-> FALSE],
   xml |-> [found |-> FALSE, valid |-> FALSE, index |-> FALSE, urls |-> 0],
   title |-> 0, h1 |-> 0, h2 |-> 0, jumps |-> 1, paras |-> 0, lists |-> 0, text |-> 100, html |-> 10000,
   desc |-> "none", canonical |-> "none", noindex |-> TRUE, og |-> FALSE, twitter |-> FALSE, tags |-> {},
   blocks |-> <<>>, date |-> "none", visible |-> FALSE, lastModified |-> FALSE,
   links |-> [anchors |-> 1, inside |-> 0, outside |-> 1, texts |-> 0, empty |-> 1, nav |-> FALSE],
   compressed |-> FALSE, cached |-> FALSE, lang |-> FALSE, aria |-> FALSE, buttons |-> 1,
   images |-> [total |-> 10, lazy |-> 4, sized |-> 4, modern |-> 0, alt |-> 8],
   fields |-> [total |-> 2, labelled |-> 1], root |-> TRUE, questions |-> FALSE, faqMarkup |-> FALSE, llms |-> FALSE]
Rich ==
  [Poor EXCEPT !.robots = [exists |-> TRUE, lines |-> <<Agent("*"), Disallow("other")>>, sitemap |-> TRUE],
   !.xml = [found |-> TRUE, valid |-> TRUE, index |-> FALSE, urls |-> 1],
   !.title = 30, !.h1 = 1, !.h2 = 1, !.jumps = 0, !.paras = 3, !.text = 2000, !.desc = "set", !.canonical = "set",
   !.noindex = FALSE, !.og = TRUE, !.twitter = TRUE, !.tags = {"main", "nav"},
   !.blocks = <<Block({"Organization", "WebSite", "BreadcrumbList", "FAQPage"})>>, !.date = "new",
   !.visible = TRUE, !.lastModified = TRUE,
   !.links = [anchors |-> 6, inside |-> 6, outside |-> 0, texts |-> 5, empty |-> 0, nav |-> TRUE],
   !.compressed = TRUE, !.cached = TRUE, !.lang = TRUE, !.aria = TRUE, !.buttons = 0,
   !.images = [total |-> 10, lazy |-> 5, sized |-> 5, modern |-> 1, alt |-> 9],
   !.fields = [total |-> 0, labelled |-> 0], !.root = FALSE, !.questions = TRUE, !.llms = TRUE]

Files == {<<Agent(a), Disallow(v), Agent(b), Disallow(w)>> :
            a, b \in {"GPTBot", "Claude-User", "*"}, v, w \in {"", "/", "other"}}
Markup == {<<>>, <<Bad>>, <<Block({})>>} \union
  {<<a, b>> : a, b \in {Bad} \union {Block(t) : t \in {{"Organization"}, {"Dentist", "WebSite"}, {"Product"},
                                                       {"NewsArticle", "BreadcrumbList"}, {"FAQPage"}}}}
Readable(blocks) == {i \in DOMAIN blocks : ~ blocks[i].bad} # {}
Facts(base) ==
  UNION {
    {[base EXCEPT !.robots = r, !.xml = x] :
       r \in [exists : {TRUE}, lines : Files, sitemap : BOOLEAN],
       x \in {Poor.xml, Rich.xml, [Rich.xml EXCEPT !.valid = FALSE, !.urls = 0]}},
    {[base EXCEPT !.title = t, !.desc = d, !.canonical = c, !.noindex = n, !.og = n, !.twitter = ~ n] :
       t \in {0, 9, 10, 65, 66}, d, c \in {"none", "blank", "set"}, n \in BOOLEAN},
    {[base EXCEPT !.blocks = b, !.date = IF Readable(b) THEN d ELSE "none", !.visible = v, !.lastModified = ~ v] :
       b \in Markup, d \in {"none", "other", "vague", "new", "old"}, v \in BOOLEAN},
    {[base EXCEPT !.h1 = a, !.h2 = b, !.jumps = j, !.tags = t, !.paras = n, !.lists = l] :
       a \in 0 .. 2, b, j, l \in 0 .. 1, n \in {2, 3}, t \in {{}, {"nav"}, {"section"}, {"main", "nav"}}},
    {[base EXCEPT !.text = t, !.html = t + h, !.root = r, !.questions = q, !.faqMarkup = ~ q, !.llms = r] :
       t \in {0, 149, 150, 299, 499, 500}, h \in {0, 1500, 5000, 12500, 20000}, r, q \in BOOLEAN},
    {[base EXCEPT !.links = [anchors |-> i + o + a, inside |-> i, outside |-> o, nav |-> n,
                             texts |-> Min({t, i + o - e}), empty |-> e]] :
       i \in {1, 4, 5}, o, a \in 0 .. 1, t \in {0, 1, 2}, e \in 0 .. 1, n \in BOOLEAN},
    {[base EXCEPT !.images = [total |-> x[1], lazy |-> x[2], sized |-> x[1] - x[2], modern |-> x[2], alt |-> x[3]],
                  !.fields = [total |-> 2, labelled |-> f], !.lang = c, !.compressed = c, !.cached = c, !.buttons = f] :
       x \in {<<0, 0, 0>>} \union {10} \X {0, 4, 5, 10} \X {0, 8, 9}, f \in 0 .. 2, c \in BOOLEAN}}

\* What the recommendations of the signals ask for
Advised(p) ==
  {[p EXCEPT !.robots = Rich.robots], [p EXCEPT !.xml = Rich.xml], [p EXCEPT !.title = 30], [p EXCEPT !.desc = "set"],
   [p EXCEPT !.canonical = "set"], [p EXCEPT !.noindex = FALSE], [p EXCEPT !.og = TRUE, !.twitter = TRUE],
   [p EXCEPT !.blocks = [i \in DOMAIN @ |-> IF @[i].bad THEN Block({"Product"}) ELSE @[i]]],
   [p EXCEPT !.blocks = Append(@, Block({"Organization"}))], [p EXCEPT !.date = "new"], [p EXCEPT !.visible = TRUE],
   [p EXCEPT !.h1 = 1], [p EXCEPT !.h2 = 1], [p EXCEPT !.jumps = 0], [p EXCEPT !.tags = @ \union {"main", "article"}],
   [p EXCEPT !.lists = 1], [p EXCEPT !.links.inside = @ + 5, !.links.texts = @ + 5, !.links.anchors = @ + 5],
   [p EXCEPT !.links.nav = TRUE], [p EXCEPT !.links.texts = @ + p.links.empty, !.links.empty = 0],
   [p EXCEPT !.compressed = TRUE, !.cached = TRUE], [p EXCEPT !.images.lazy = p.images.total],
   [p EXCEPT !.images.alt = p.images.total], [p EXCEPT !.lang = TRUE], [p EXCEPT !.text = @ + 1000, !.html = @ + 1000],
   [p EXCEPT !.llms = TRUE]}

SignalCase == \E base \in {Poor, Rich} : \E p \in Facts(base) : case' = [of |-> "page", page |-> p]

(***************************************************************************)
(* Reports: two sections vary, the rest are all alike or mixed             *)
(***************************************************************************)
Ids == <<"robots", "sitemap", "metadata", "schema", "content", "links", "performance", "accessibility",
         "freshness", "ai_readiness">>
Mixed == <<60, 45, 100, 30, 75, 0, 20, 44, 80, 74>>
Sections(base, i, j, x, y, n) ==
  [k \in DOMAIN Ids |-> [id |-> Ids[k], score |-> IF k = i THEN x ELSE IF k = j THEN y ELSE base[k],
                         issues |-> IF k \in {i, j} THEN n ELSE 0]]
ReportCase ==
  \E base \in {[k \in DOMAIN Ids |-> v] : v \in {0, 75, 100}} \union {Mixed}, i \in DOMAIN Ids :
    \E j \in {i + 1, i + 3} \intersect DOMAIN Ids, x, y \in {0, 44, 75, 95}, n \in 0 .. 1, sel \in {{3}, 2 .. 6} :
      case' = [of |-> "report", scan |-> Sections(base, i, j, x, y, n), selected |-> sel]

(***************************************************************************)
(* Texts that overlap (ContentOverlap)                                     *)
(***************************************************************************)
Overlapping(p) == [ok : {TRUE}, words : {10}, text : {1 .. 4, 1 .. 5, 4 .. 9}, title : {{1}, {2}}, h1 : {{}},
                   canonical : {0, p, 1}]
Bare(ok, words) == [ok |-> ok, words |-> words, text |-> {words}, title |-> {}, h1 |-> {}, canonical |-> 0]
OverlapCase ==
  \/ \E a \in Overlapping(1), b \in Overlapping(2), c \in Overlapping(3), x \in {-1, 3} :
       case' = [of |-> "overlap",
                pages |-> <<a, b, c, [c EXCEPT !.canonical = x, !.h1 = {1}, !.ok = (b.canonical # 0)]>>]
  \/ \E n \in 4 .. 5 : \E w \in [1 .. n -> {1, 9, 40}], bad \in {0, 1} :
       case' = [of |-> "overlap", pages |-> [i \in 1 .. n |-> Bare(i # bad, w[i])]]
  \/ \E n \in 0 .. 3 : \E b \in [1 .. n -> UNION {[1 .. m -> {1, 2, 4, 7}] : m \in 1 .. 2}] :
       case' = [of |-> "chunks", blocks |-> b]

(***************************************************************************)
(* Link graphs of small bulk scans (CrawlGraph)                            *)
(***************************************************************************)
Row(key, error, links) == [key |-> key, error |-> error, links |-> links]
GraphCase ==
  \E failed \in 0 .. 4, third \in {"d", "b"}, seed \in {NoSeed, "a"},
     l1 \in {{}, {"b"}, {"d", "e"}}, l2 \in {{}, {"d"}, {"a"}, {"e", "d"}},
     l3 \in {{}, {"e"}, {"b", "x"}}, l4 \in {{}, {"a"}, {"b"}} :
    case' = [of |-> "graph",
             graph |-> [requested |-> seed,
                        rows |-> <<Row("a", failed = 1, l1), Row("b", failed = 2, l2),
                                   Row(third, failed = 3, l3), Row("e", failed = 4, l4)>>]]

(***************************************************************************)
(* Three scans of a monitor, and the snapshots there are (Changes)         *)
(***************************************************************************)
Crawlers(code, bot) == Access(<<>>, code, "GPTBot" :> bot @@ "ClaudeBot" :> 200, {"GPTBot"})
Seen(page) == [page |-> page, wording |-> 1, access |-> Crawlers(200, 200), broken |-> {}, rubric |-> "r1", version |-> 1]
Known == Seen(Rich)
Scans ==
  {Known, [Known EXCEPT !.wording = 2], [Known EXCEPT !.rubric = "r2"], [Known EXCEPT !.version = 2],
   [Known EXCEPT !.broken = {"schema", "robots", "sitemap"}], [Known EXCEPT !.access = Crawlers(200, 403)],
   [Known EXCEPT !.access = Crawlers(503, 200)], [Known EXCEPT !.access = NoAccess]}
    \union {Seen(p) : p \in {
       [Rich EXCEPT !.blocks = <<Bad>>], [Rich EXCEPT !.blocks = <<>>, !.date = "none"],
       [Rich EXCEPT !.blocks = <<Block({"Organization"}), Block({"Organization"})>>],
       [Rich EXCEPT !.xml = Poor.xml], [Rich EXCEPT !.xml = Poor.xml, !.robots.sitemap = FALSE],
       [Rich EXCEPT !.h1 = 0], [Rich EXCEPT !.h1 = 2, !.llms = FALSE], [Rich EXCEPT !.desc = "none", !.canonical = "blank"],
       [Rich EXCEPT !.desc = "blank", !.og = FALSE, !.twitter = FALSE, !.noindex = TRUE, !.title = 5],
       [Rich EXCEPT !.robots.lines = <<Agent("GPTBot"), Disallow("/")>>],
       [Rich EXCEPT !.robots.lines = <<Agent("*"), Disallow("/")>>],
       [Rich EXCEPT !.lang = FALSE, !.aria = FALSE, !.cached = FALSE, !.compressed = FALSE],
       [Rich EXCEPT !.text = 400, !.links = Poor.links], Poor, [Poor EXCEPT !.h1 = 1, !.text = 600]}}
ChangeCase ==
  \/ \E a, b, c \in Scans : case' = [of |-> "watch", scans |-> <<a, b, c>>]
  \/ \E n \in 0 .. 3, existing \in SUBSET {1, 2}, cutoff \in 1 .. 2 : \E m, d \in [1 .. n -> 0 .. 2] :
       case' = [of |-> "purge", rows |-> {[monitor |-> m[i], day |-> d[i], id |-> i] : i \in 1 .. n},
                existing |-> existing, cutoff |-> cutoff]

SiteCase == ChangeCase \/ ReportCase \/ OverlapCase \/ GraphCase

(***************************************************************************)
(* The rows of one crawl, and the crawls of one website (SiteOverview)     *)
(***************************************************************************)
UrlRow(k, s, an, t, codes, ev, at) ==
  [key |-> k, status |-> s, analyzed |-> an, template |-> t, type |-> IF t = 2 THEN "legal_utility" ELSE "product",
   at |-> at, codes |-> codes, evidence |-> ev]
WaitingRow(k, s) == UrlRow(k, s, FALSE, 0, Never, Never, 0)
CheckedRow(k, t, codes, at) == UrlRow(k, "crawled", t # 0, t, codes, codes, at)
CrawledSet(k, templates, found, at) == {CheckedRow(k, t, x, at) : t \in templates, x \in found}
UncheckedRow(k, t, ev) == UrlRow(k, "crawled", FALSE, t, Never, ev, k)
Crawl0 == [phase |-> "completed", host |-> 1, idle |-> 20, engine |-> 2, asked |-> TRUE, ai |-> {}, old |-> FALSE,
           decided |-> <<>>, urls |-> <<>>]
Title == {"missing_title"}
Ai(urls) == {{}} \union {{[template |-> t, severity |-> s, confidence |-> x]} :
              t \in {urls[i].template : i \in {j \in DOMAIN urls : urls[j].status = "crawled"}} \ {0},
              s \in {2, 4}, x \in {"low", "insufficient"}}
Early(e, old) ==
  [Crawl0 EXCEPT !.engine = e, !.old = old,
                 !.urls = <<UncheckedRow(1, 1, Never), UncheckedRow(2, 1, {"missing_h1"}), WaitingRow(3, "failed")>>]
Decisions == {<<>>, [missing_title |-> "fixed"], [missing_title |-> "in_progress", ai |-> "wont_fix"]}
CrawlCase ==
  \/ \E a \in CrawledSet(1, {0, 1}, {{}, Title, Title \union {"thin_content"}, {"http_5xx"}}, 4),
        b \in {WaitingRow(2, s) : s \in {"eligible", "failed", "skipped"}} \union CrawledSet(2, {1, 2}, {{}, Title}, 2),
        d \in CrawledSet(3, {0, 1}, {Title, {"noindex", "multiple_h1"}}, 3) :
       \E x \in Ai(<<a, b, d>>), s \in Decisions :
         case' = [of |-> "crawl", crawl |-> [Crawl0 EXCEPT !.urls = <<a, b, d>>, !.ai = x, !.decided = s]]
  \/ \E ph \in {"discovering", "crawling", "analyzing", "failed", "completed"}, c \in {Early(0, TRUE), Early(2, FALSE)} :
       case' = [of |-> "crawl", crawl |-> [c EXCEPT !.phase = ph]]
Done(h, e, urls, ai) == [Crawl0 EXCEPT !.host = h, !.engine = e, !.urls = urls, !.ai = ai]
Ended(S) ==
  {Done(h, e, <<CheckedRow(k, 1, x, 1), CheckedRow(3, t, Title, 2)>>, {}) :
     h \in {1, 2}, e \in {2, 3}, k \in {1, 2}, t \in {1, 2}, x \in S}
    \union {[Crawl0 EXCEPT !.engine = 0, !.old = TRUE,
                           !.urls = <<UncheckedRow(1, 1, Title), WaitingRow(2, "skipped")>>],
            [Crawl0 EXCEPT !.phase = "failed", !.urls = <<CheckedRow(1, 0, Title, 1), WaitingRow(2, "eligible")>>],
            Done(1, 2, <<CheckedRow(1, 1, Title, 1)>>, {[template |-> 1, severity |-> 4, confidence |-> "low"]})}
Running == [Crawl0 EXCEPT !.phase = "crawling", !.urls = <<CheckedRow(1, 0, {}, 1), WaitingRow(2, "eligible")>>]
OfOnePage == {Done(1, e, <<CheckedRow(1, 1, x, 1)>>, {}) : e \in {2, 3}, x \in {{}, Title}}
SiteCrawlsCase ==
  \/ case' = [of |-> "crawls", crawls |-> <<>>]
  \/ \E a \in Ended({{}, {"missing_title", "noindex"}}), b \in Ended({{}}) \union {Running} :
       case' = [of |-> "crawls", crawls |-> <<a, b>>]
  \/ \E a \in Ended({{}}), b, d \in OfOnePage \union {[Crawl0 EXCEPT !.phase = "failed"]} :
       case' = [of |-> "crawls", crawls |-> <<a, b, d>>]

(***************************************************************************)
(* The record of one page, and the fixes of a website (SiteOverview)       *)
(***************************************************************************)
Rec(c, p, x) == [code |-> c, priority |-> p, confidence |-> x]
RecLists == {<<>>, <<Rec("noindex", 4, "medium"), Rec("missing_title", 3, "high")>>,
             <<Rec("missing_title", 3, "high"), Rec("http_5xx", 4, "high")>>,
             <<Rec("thin_content", 2, "medium"), Rec("low_search_ctr", 2, "low")>>}
PageFact == [engine |-> 2, http |-> 200, title |-> 1, schema |-> 0, words |-> 400, links |-> 4, fp |-> 1]
PageFactsSeen == {PageFact, [PageFact EXCEPT !.title = 2, !.fp = 2], [PageFact EXCEPT !.words = 480, !.fp = 3],
              [PageFact EXCEPT !.words = 479, !.fp = 4], [PageFact EXCEPT !.links = Unknown],
              [PageFact EXCEPT !.links = 0], [PageFact EXCEPT !.engine = 3]}
FixRow(s, n, at, next) == [status |-> s, notFixed |-> n, at |-> at, next |-> next, asked |-> next]
RowSets == {<<>>, "noindex" :> FixRow("not_fixed", 2, 1, TRUE), "noindex" :> FixRow("fixed", 0, 0, FALSE),
            "missing_title" :> FixRow("not_fixed", 2, 2, TRUE) @@ "missing_h1" :> FixRow("in_progress", 0, 0, FALSE),
            "missing_title" :> FixRow("reopened", 3, 1, TRUE) @@ "missing_h1" :> FixRow("ignored", 0, 0, TRUE)}
Analysis(n, r, t, recs) == [crawl |-> n, rules |-> r, type |-> t, recs |-> recs]
Page0 == [score |-> 40, value |-> "high", commercial |-> TRUE, scored |-> 3, analyses |-> <<>>,
          facts |-> <<PageFact, PageFact, PageFact>>, rows |-> <<>>]
RecordCase ==
  \/ \E x, y \in RecLists, f \in PageFactsSeen, r \in RowSets, n \in {2, 3}, v \in {1, 2} :
       case' = [of |-> "record", record |-> [Page0 EXCEPT !.rows = r, !.facts[3] = f,
                  !.analyses = <<Analysis(3, 2, "product", x), Analysis(n, v, "product", y)>>]]
  \/ \E x, y, z \in RecLists, f \in {PageFact, [PageFact EXCEPT !.title = 2, !.fp = 2]},
        n \in {2, 3}, v, w \in {1, 2} :
       /\ w <= v
       /\ case' = [of |-> "record", record |-> [Page0 EXCEPT !.facts[2] = f,
                     !.analyses = <<Analysis(3, 2, "product", x), Analysis(n, v, "service", y),
                                    Analysis(1, w, "product", z)>>]]
  \/ \E x \in RecLists, r \in RowSets, n \in {2, 3} :
       case' = [of |-> "record", record |-> [Page0 EXCEPT !.rows = r, !.scored = n,
                  !.analyses = IF x = <<>> THEN <<>> ELSE <<Analysis(2, 2, "product", x)>>]]
FixesCase ==
  \E x, y \in RecLists, r, q \in RowSets, s \in {0, 3}, v \in {"high", "low"} :
    case' = [of |-> "fixes", pages |->
      <<[Page0 EXCEPT !.score = 90, !.rows = r, !.analyses = <<Analysis(3, 2, "product", x)>>],
        [Page0 EXCEPT !.rows = q, !.scored = s, !.value = v, !.commercial = FALSE,
                      !.analyses = IF y = <<>> THEN <<>> ELSE <<Analysis(3, 2, "product", y)>>],
        [Page0 EXCEPT !.score = 10, !.analyses = <<Analysis(3, 2, "product", <<Rec("http_5xx", 4, "high")>>)>>]>>]

OverviewCase == CrawlCase \/ SiteCrawlsCase \/ RecordCase \/ FixesCase

(***************************************************************************)
(* What the tracker recorded: days 10 and 11 are looked at (CommandCenter) *)
(***************************************************************************)
Path(path, tail) == [host |-> 1, www |-> tail = "query", path |-> path, tail |-> tail]
Visit(t, c, p, v) == [site |-> 1, at |-> t, seen |-> t + 1, channel |-> c, page |-> p, visitor |-> v, views |-> 2]
VisitPool ==
  {Visit(41, "direct", Path(1, "none"), 1), Visit(46, "chatgpt", Path(1, "query"), 1),
   Visit(43, "chatgpt", Path(2, "none"), 2), Visit(37, "claude", Path(1, "none"), 0),
   Visit(47, "direct", Path(1, "slash"), 0), Visit(42, "chatgpt", Path(1, "diagnostic"), 3),
   [Visit(44, "claude", Path(2, "none"), 1) EXCEPT !.site = 2], Visit(33, "direct", Path(2, "none"), 1)}
Sale(i, site, t, kind, v) == [visit |-> i, site |-> site, at |-> t, type |-> kind, cents |-> 500, verified |-> v]
SalesFor(visits) ==
  {<<>>, <<Sale(0, 1, 45, "lead", TRUE)>>}
    \union (IF visits = <<>> THEN {} ELSE
      {<<Sale(1, visits[1].site, visits[1].at + 1, k, v),
         Sale(Len(visits), visits[Len(visits)].site, 47, "purchase", TRUE)>> :
         k \in {"purchase", "booking"}, v \in BOOLEAN})
Audits == {<<>>, <<[key |-> 11, done |-> TRUE, fails |-> {"schema"}]>>,
           <<[key |-> 11, done |-> TRUE, fails |-> {}], [key |-> 12, done |-> TRUE, fails |-> {"schema"}],
             [key |-> 11, done |-> FALSE, fails |-> {"schema"}]>>}
VisitsCase ==
  \E n \in 0 .. 3 : \E v \in [1 .. n -> VisitPool] : \E s \in SalesFor(v), sites \in {{}, {1}},
     a \in {x \in Audits : n <= 2 \/ x = <<>>}, r \in {ParseRange(10, 11, 48), ParseRange(8, Unknown, 46)} :
    /\ r.ok
    /\ case' = [of |-> "visits", data |-> [visits |-> v, sales |-> s, audits |-> a],
                window |-> [sites |-> sites, from |-> r.from, to |-> r.to]]

(***************************************************************************)
(* What GA4 reported (CommandCenter)                                       *)
(***************************************************************************)
GaRow(d, h, g, m, n, rev) == [date |-> d, host |-> h, group |-> g, medium |-> m, sessions |-> n, revenue |-> rev]
GaRowPool ==
  {GaRow(10, <<"com", "chatgpt">>, "referral", "referral", 2, Unknown),
   GaRow(11, <<"com", "chatgpt", "evil">>, "referral", "referral", 1, 5),
   GaRow(11, <<"com", "notchatgpt">>, "referral", "referral", 3, 0),
   GaRow(10, <<"google">>, "organic_search", "organic", 4, Unknown),
   GaRow(11, <<"google">>, "unassigned", "organic", 1, 7),
   GaRow(9, <<>>, "direct", "none", 2, Unknown), GaRow(11, <<"mail">>, "email", "email", 2, Unknown),
   GaRow(11, <<"com", "you">>, "unassigned", "referral", 0, Unknown)}
Event(d, n, c, k) == [date |-> d, name |-> n, class |-> c, count |-> k]
Events == {<<>>, <<Event(10, "purchase", "chatgpt", 2), Event(11, "scroll", "direct", 3)>>,
           <<Event(11, "generate_lead", "organic_search", 1), Event(11, "purchase", "paid_search", 2),
             Event(9, "purchase", "direct", 1)>>}
Landing(d, p, c, n) == [date |-> d, path |-> p, class |-> c, sessions |-> n]
Landings == {<<>>, <<Landing(10, 1, "chatgpt", 1), Landing(11, 1, "direct", 2), Landing(11, 2, "unsplit", 4)>>}
Mapping(n, r, t, rev) == [name |-> n, role |-> r, type |-> t, revenue |-> rev]
MappingLists ==
  {<<>>, <<Mapping("purchase", "conversion", "purchase", TRUE)>>, <<Mapping("scroll", "funnel", "none", TRUE)>>,
   <<Mapping("scroll", "conversion", "custom", FALSE), Mapping("purchase", "funnel", "none", FALSE)>>,
   <<Mapping("scroll", "conversion", "custom", FALSE), Mapping("scroll", "funnel", "none", FALSE)>>,
   <<Mapping("scroll", "conversion", "none", FALSE)>>}
Connection ==
  [property |-> 1, linked |-> 1, revoked |-> FALSE, failed |-> FALSE, synced |-> 46, landed |-> 46, evented |-> 46,
   keys |-> {"purchase"}, currency |-> TRUE, rows |-> <<>>, landing |-> <<>>, events |-> <<>>, mappings |-> {}]
GaCase ==
  \/ \E n \in 0 .. 2 : \E r \in [1 .. n -> GaRowPool] : \E e \in Events, l \in Landings, k \in {Never, {"purchase"}},
        c, s \in BOOLEAN, i \in {x \in MappingLists : Len(x) <= 1} :
       case' = [of |-> "ga", days |-> 10, ga |-> ReplaceMappings(
                  [Connection EXCEPT !.rows = r, !.events = e, !.landing = l, !.keys = k, !.currency = c,
                                     !.evented = IF s THEN 46 ELSE Unknown], i)]
  \/ \E e \in Events, i, j \in MappingLists, k \in {Never, {}, {"purchase", "scroll"}}, p \in {0, 1} :
       case' = [of |-> "mappings", items |-> j,
                ga |-> [ReplaceMappings([Connection EXCEPT !.events = e, !.keys = k], i) EXCEPT !.property = p]]

(***************************************************************************)
(* The command center of website 1 on its twelfth day                      *)
(***************************************************************************)
Track(v) == [visits |-> v, sales |-> <<>>, audits |-> <<[key |-> 11, done |-> TRUE, fails |-> {"schema"}]>>]
Many(t, n) == [i \in 1 .. n |-> Visit(t + i, IF i = 1 THEN "chatgpt" ELSE "direct", Path(1, "none"), i)]
Tracks == {<<>>, Many(41, 3), Many(33, 4) \o Many(41, 2), Many(33, 2) \o Many(41, 3), Many(36, 2) \o Many(41, 3),
           Many(30, 3) \o Many(41, 1),
           <<Visit(31, "direct", Path(1, "diagnostic"), 1)>> \o Many(36, 2) \o Many(41, 3),
           <<Visit(20, "direct", Path(1, "none"), 1)>>}
Audited == [at |-> 46, causal |-> {},
            sections |-> <<[id |-> "schema", score |-> 30, issues |-> 1], [id |-> "content", score |-> 10, issues |-> 0],
                           [id |-> "robots", score |-> 90, issues |-> 1]>>]
Run == [at |-> 40, partial |-> FALSE, causal |-> {},
        answers |-> <<Asked(1, FALSE, {1}), Asked(2, TRUE, {0}), Asked(2, FALSE, {1})>>]
Crawls == {<<>>, <<[Crawl0 EXCEPT !.urls = <<CheckedRow(1, 1, {"missing_title", "http_5xx"}, 1)>>,
                                  !.ai = {[template |-> 1, severity |-> 3, confidence |-> "insufficient"]}],
                   [Crawl0 EXCEPT !.phase = "crawling"]>>,
           <<[Crawl0 EXCEPT !.engine = 0, !.old = TRUE]>>,
           <<[Crawl0 EXCEPT !.urls = <<CheckedRow(1, 1, {}, 1)>>,
                             !.ai = {[template |-> 1, severity |-> 4, confidence |-> "low"]}]>>,
           <<[Crawl0 EXCEPT !.urls = <<CheckedRow(1, 1, {"thin_content"}, 1)>>,
                             !.decided = [thin_content |-> "fixed"]]>>}
Desk == [site |-> 1, now |-> 48, pro |-> TRUE, from |-> 40, to |-> 48, data |-> Track(<<>>),
         scan |-> None, run |-> None, ga |-> None, crawls |-> <<>>]
Connections ==
  {None} \union {[Connection EXCEPT !.property = p, !.linked = l, !.revoked = r] :
                    p \in {0, 1}, l \in {0, 1, 2}, r \in BOOLEAN}
    \union {[Connection EXCEPT !.rows = <<GaRow(d, <<"com", "chatgpt">>, "referral", "referral", n, Unknown),
                                          GaRow(11, <<"google">>, "organic_search", "organic", n, Unknown)>>,
                               !.failed = f, !.synced = t, !.landing = <<Landing(11, 1, "direct", n)>>, !.revoked = r] :
              d \in {9, 10, 11}, n \in {0, 2}, f, r \in BOOLEAN, t \in {Unknown, 30, 46}}
DeskCase ==
  \/ \E v \in Tracks, s \in {None, Audited, [Audited EXCEPT !.causal = {1}, !.at = 4]},
        r \in {None, Run, [Run EXCEPT !.causal = {1}, !.partial = TRUE], [Run EXCEPT !.answers = <<>>],
               [Run EXCEPT !.at = 4]}, c \in Crawls, pro \in BOOLEAN, k \in BOOLEAN :
       case' = [of |-> "desk",
                desk |-> [Desk EXCEPT !.data = IF k THEN [Track(v) EXCEPT !.sales = <<Sale(0, 1, 3, "lead", TRUE)>>]
                                                    ELSE Track(v),
                                      !.scan = s, !.run = r, !.crawls = c, !.pro = pro]]
  \/ \E g \in Connections, v \in {<<>>, Many(41, 2)}, pro \in BOOLEAN, n \in {48, 50} :
       case' = [of |-> "desk", desk |-> [Desk EXCEPT !.data = Track(v), !.ga = g, !.pro = pro, !.now = n]]

TrafficCase == VisitsCase \/ GaCase \/ DeskCase

(***************************************************************************)
(* What a scan says of a site agrees with what was fetched and with        *)
(* itself: the readings of robots.txt, the findings on crawlers, the list  *)
(* of URLs and the indexability report (SiteAccess), the two scores        *)
(* (SiteSignals), the report on them (SiteReport), the clusters of texts   *)
(* and the chunks of one (ContentOverlap), the link graph (CrawlGraph),    *)
(* and what a monitor tells of its scans (Changes). What a website's pages *)
(* show agrees with its crawls: the counts, the findings, the comparison   *)
(* of two crawls, the record of a page and the fixes to work on            *)
(* (SiteOverview); the traffic reports, the mappings of events and the     *)
(* command center agree with what was recorded (CommandCenter).            *)
(***************************************************************************)
SitesJudged ==
  /\ case.of = "robots" => RobotsRead(case.file, "GPTBot")
  /\ case.of = "access" => AccessSound(case.file, case.control, case.response, {"GPTBot"})
  /\ case.of = "urls" => UrlsKept(case.rows)
  /\ case.of = "index" => IndexSound(case)
  /\ case.of = "page" => ScoresAgree(case.page) /\ \A p \in Advised(case.page) : AdvicePays(case.page, p)
  /\ case.of = "report" => LossesAddUp(case.scan, case.selected) /\ PlanHolds(case.scan)
  /\ case.of = "overlap" => OverlapSound(case.pages)
  /\ case.of = "chunks" => ChunksCover(case.blocks)
  /\ case.of = "watch" => ChangesSound(case.scans[1], case.scans[2], case.scans[3], {"GPTBot"})
  /\ case.of = "purge" => BaselinesKept(case.rows, case.existing, case.cutoff)
  /\ case.of = "graph" => VerdictsAgree(case.graph)
  /\ case.of = "crawl" => CountsAgree(case.crawl) /\ FindingsAgree(case.crawl)
  /\ case.of = "crawls" => ComparisonsAgree(case.crawls)
  /\ case.of = "record" => RecordSound(case.record)
  /\ case.of = "fixes" => FixesAgree(case.pages)
  /\ case.of = "visits" => TrafficAgrees(case.data, case.window)
  /\ case.of = "ga" => GaAgrees(case.ga, case.days, case.days + 1)
  /\ case.of = "mappings" => MappingsKept(case.ga, case.items)
  /\ case.of = "desk" => CenterHonest(case.desk)

Init ==
  /\ group \in {"pages", "answers", "questions", "access", "signals", "sites", "overview", "traffic"}
  /\ case = [of |-> "none"]
Next ==
  /\ case.of = "none" /\ UNCHANGED group
  /\ \/ group = "pages" /\ PageCase
     \/ group = "answers" /\ AnswerCase
     \/ group = "questions" /\ SimulatorCase
     \/ group = "access" /\ AccessCase
     \/ group = "signals" /\ SignalCase
     \/ group = "sites" /\ SiteCase
     \/ group = "overview" /\ OverviewCase
     \/ group = "traffic" /\ TrafficCase
Spec == Init /\ [][Next]_<<group, case>>
=============================================================================
