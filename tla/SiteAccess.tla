----------------------------- MODULE SiteAccess -----------------------------
(***************************************************************************)
(* What a scan says of the ways into a site: the readers of robots.txt     *)
(* (core/robots.py, services/crawler_access.py, scanner/families.py and    *)
(* scanner/signals/robots.py), the check of the AI crawlers, the list of   *)
(* URLs of a bulk scan (scanner/bulk.py) and the indexability report       *)
(* (reports/technical_seo.py).  All of it is a function of what was        *)
(* fetched.                                                                *)
(*                                                                         *)
(* A robots.txt is the sequence of its lines, [field, value]: an agent     *)
(* with its name as it was written, or a rule with its pattern.            *)
(***************************************************************************)
EXTENDS Integers, FiniteSets, Sequences, FiniteSetsExt, SequencesExt

CONSTANTS
  Lower,        \* the lower case of the names of agents
  MaxRedirects, \* fetch_max_redirects
  MaxUrls,      \* bulk_max_urls
  FreeIssues    \* gate_technical_seo: free_issue_limit

ASSUME SiteAccessAssumption == {MaxRedirects, MaxUrls, FreeIssues} \subseteq Nat

\* Patterns, as one path is matched with them: no value, "/", a match of the whole path
\* and a pattern that does not match it.
Pattern == {"", "/", "path", "other"}
Length(p) == CASE p = "" -> 0 [] p = "/" -> 1 [] OTHER -> 2
Matches(p) == p \in {"/", "path"}

(***************************************************************************)
(* _parse_groups: agents in a row share the rules that follow them, and a  *)
(* second group of an agent adds to its first.                             *)
(***************************************************************************)
NoGroups == [groups |-> <<>>, current |-> {}, started |-> FALSE]
Named(groups, name) == [n \in DOMAIN groups \union {name} |-> IF n \in DOMAIN groups THEN groups[n] ELSE <<>>]
Ruled(groups, names, line) ==
  [n \in DOMAIN groups |-> IF n \in names THEN Append(groups[n], line) ELSE groups[n]]

ReadLine(g, line) ==
  IF line.field = "agent"
    THEN LET name == Lower[line.value] IN
         [groups |-> Named(g.groups, name), started |-> FALSE,
          current |-> (IF g.started THEN {} ELSE g.current) \union {name}]
    ELSE [g EXCEPT !.groups = Ruled(@, g.current, line), !.started = (@ \/ g.current # {})]
ParseGroups(file) == FoldLeft(ReadLine, NoGroups, file).groups

\* Wrong: of two rules as long as each other the first one wins.
PathBlockedFirst(rules) ==
  LET hits == {i \in DOMAIN rules : Matches(rules[i].value)}
      longest == {i \in hits : \A j \in hits : Length(rules[i].value) >= Length(rules[j].value)} IN
  hits # {} /\ rules[Min(longest)].field = "disallow"

\* The longest match wins, and of two as long as each other the one that allows.
PathBlocked(rules) ==
  LET hits == {i \in DOMAIN rules : Matches(rules[i].value)}
      longest == {i \in hits : \A j \in hits : Length(rules[i].value) >= Length(rules[j].value)} IN
  hits # {} /\ \A i \in longest : rules[i].field = "disallow"

RulesOf(groups, name) ==
  IF name \in DOMAIN groups THEN groups[name] ELSE IF "*" \in DOMAIN groups THEN groups["*"] ELSE <<>>
RobotsDisallows(file, bot) == PathBlocked(RulesOf(ParseGroups(file), Lower[bot]))

(***************************************************************************)
(* The readers of the two scores: names as they are written, one name to a *)
(* group, and a site is blocked by the rule "Disallow: /" only.            *)
(***************************************************************************)
ScoreLine(g, line) ==
  CASE line.field = "agent" -> [g EXCEPT !.groups = Named(@, line.value), !.current = {line.value}]
    [] line.field = "disallow" -> [g EXCEPT !.groups = Ruled(@, g.current, line)]
    [] OTHER -> g
ScoreGroups(file) == FoldLeft(ScoreLine, NoGroups, file).groups

\* The first of the bot's names that has a group decides, then the group of all.
RobotsVerdict(file, names) ==
  LET groups == ScoreGroups(file)
      own == SelectSeq(names \o <<"*">>, LAMBDA n : n \in DOMAIN groups) IN
  IF own = <<>> THEN "undeclared"
  ELSE IF \E i \in DOMAIN groups[own[1]] : groups[own[1]][i].value = "/" THEN "blocked" ELSE "allowed"

(***************************************************************************)
(* check_crawler_access: responses of the control request and of each bot, *)
(* a status, or 0 for an error.                                           *)
(***************************************************************************)
BlockStatuses == {401, 403, 406, 429}
ControlOk(control) == control \in 200 .. 299

BotAccess(file, bot, response) ==
  CASE RobotsDisallows(file, bot) -> "blocked_by_robots"
    [] response = 0 -> "error"
    [] response \in BlockStatuses -> "blocked_by_server"
    [] OTHER -> "allowed"

BotSeverity(status, critical) ==
  IF status = "error" THEN "INFO" ELSE IF critical THEN "CRITICAL" ELSE "WARNING"

Access(file, control, response, critical) ==
  IF ~ ControlOk(control)
    THEN [unreachable |-> TRUE, status |-> [b \in DOMAIN response |-> "error"], critical |-> {}]
    ELSE LET status == [b \in DOMAIN response |-> BotAccess(file, b, response[b])] IN
         [unreachable |-> FALSE, status |-> status,
          critical |-> {b \in DOMAIN response : /\ status[b] # "allowed"
                                                /\ BotSeverity(status[b], b \in critical) = "CRITICAL"}]

\* The remediation: "add an explicit Allow / User-agent block" for the path
Remedy(bot) == <<[field |-> "agent", value |-> bot], [field |-> "allow", value |-> "path"]>>

\* A file every reader is meant for: names as their owners write them, each group with one
\* name, and whole sites only.
PlainFile(file) ==
  /\ \A i \in DOMAIN file : IF file[i].field = "agent" THEN Lower[file[i].value] # file[i].value \/ file[i].value = "*"
                            ELSE file[i].field = "disallow" /\ file[i].value \in {"", "/"}
  /\ \A i \in 1 .. Len(file) - 1 : {file[i].field, file[i + 1].field} # {"agent"}

(***************************************************************************)
(* The readers of one robots.txt agree on plain files, and what the report *)
(* advises helps: with the advised block at its end no file blocks the bot *)
(* any more (crawler_access.py:218-225).                                   *)
(***************************************************************************)
RobotsRead(file, bot) ==
  /\ PlainFile(file) => (RobotsDisallows(file, bot) <=> RobotsVerdict(file, <<bot>>) = "blocked")
  /\ ~ RobotsDisallows(file \o Remedy(bot), bot)

\* The readers agree on every file; they do not.
RobotsAgree(file, bot) == RobotsDisallows(file, bot) <=> RobotsVerdict(file, <<bot>>) = "blocked"

(***************************************************************************)
(* A critical finding names a crawler that is kept out while a browser is  *)
(* let in, for one of the two reasons the report can give, and no          *)
(* disagreement about one bot touches another's finding.                   *)
(***************************************************************************)
AccessSound(file, control, response, critical) ==
  LET a == Access(file, control, response, critical) IN
  /\ a.unreachable => a.critical = {}
  /\ ~ a.unreachable =>
       \A b \in DOMAIN response :
         b \in a.critical <=> b \in critical /\ (RobotsDisallows(file, b) \/ response[b] \in BlockStatuses)

----------------------------------------------------------------------------
(***************************************************************************)
(* build_url_list: of each raw URL whether it is one, whether it is safe,  *)
(* and its normalized key.                                                 *)
(***************************************************************************)
NoUrls == [accepted |-> <<>>, skipped |-> <<>>]
Reason(list, raw) ==
  CASE ~ raw.url -> "invalid"
    [] ~ raw.safe -> "ssrf_blocked"
    [] \E i \in DOMAIN list.accepted : list.accepted[i].key = raw.key -> "duplicate"
    [] Len(list.accepted) >= MaxUrls -> "over_limit"
    [] OTHER -> "none"
TakeUrl(list, raw) ==
  IF Reason(list, raw) = "none" THEN [list EXCEPT !.accepted = Append(@, raw)]
  ELSE [list EXCEPT !.skipped = Append(@, Reason(list, raw))]
BuildUrlList(raws) == FoldLeft(TakeUrl, NoUrls, raws)

\* _first_column: rows of cells; column A, or every cell that looks like a URL
FirstColumn(rows) ==
  LET cells == SelectSeq([i \in DOMAIN rows |-> rows[i][1]], LAMBDA c : ~ c.empty)
      column == IF cells # <<>> /\ ~ Head(cells).url THEN Tail(cells) ELSE cells
      all == FlattenSeq(rows) IN
  IF \E i \in DOMAIN column : column[i].url THEN column ELSE SelectSeq(all, LAMBDA c : c.url)

(***************************************************************************)
(* What is typed in later never changes what was accepted before, every    *)
(* row is accounted for, what was accepted is accepted again as a whole,   *)
(* and a sheet that holds a URL anywhere yields one.                       *)
(***************************************************************************)
UrlsKept(rows) ==
  LET raws == FirstColumn(rows)
      list == BuildUrlList(raws) IN
  /\ \A n \in 0 .. Len(raws) : IsPrefix(BuildUrlList(SubSeq(raws, 1, n)).accepted, list.accepted)
  /\ Len(list.accepted) + Len(list.skipped) = Len(raws) /\ Len(list.accepted) <= MaxUrls
  /\ BuildUrlList(list.accepted) = [accepted |-> list.accepted, skipped |-> <<>>]
  /\ (\E i \in DOMAIN rows, j \in DOMAIN rows[1] : rows[i][j].url) => \E i \in DOMAIN raws : raws[i].url

----------------------------------------------------------------------------
(***************************************************************************)
(* The pages of a bulk scan of a site: site[u] answers with a status, or   *)
(* redirects to another page.  canon[u] is "missing", "invalid" or a page, *)
(* noindex[u] the places that forbid to index, crawlable whether           *)
(* robots.txt lets crawlers in.                                            *)
(***************************************************************************)
NoCode == 0
CodeClass(code) == code \div 100
Redirecting(site, u) == site[u].to # "none"

Walk(site, u) ==
  LET hop[n \in 0 .. MaxRedirects + 1] ==
        IF n = 0 THEN <<u>>
        ELSE LET w == hop[n - 1] IN
             IF Redirecting(site, Last(w)) THEN Append(w, site[Last(w)].to) ELSE w IN
  hop[MaxRedirects + 1]

\* What the scan keeps of one URL: fetch, _page_failed and _bulk_page_entry
Entry(s, u) ==
  LET w == Walk(s.site, u)
      last == Last(w)
      lost == [url |-> u, code |-> NoCode, chain |-> <<>>, final |-> u, canon |-> "missing", noindex |-> {}] IN
  IF Redirecting(s.site, last) \/ Len(w) > MaxRedirects + 1 THEN lost
  ELSE IF s.site[last].code >= 400 THEN [lost EXCEPT !.code = s.site[last].code]
  ELSE [url |-> u, code |-> s.site[last].code, chain |-> Front(w), final |-> last,
        canon |-> s.canon[last], noindex |-> s.noindex[last]]

\* Wrong: a page that redirects is looked at before its directives are.
IndexabilityRedirectFirst(s, e) ==
  CASE ~ s.crawlable -> "blocked"
    [] CodeClass(e.code) \in {4, 5} -> "error"
    [] e.chain # <<>> -> "redirected"
    [] e.noindex # {} -> "not_indexable"
    [] CodeClass(e.code) = 2 -> "indexable"
    [] OTHER -> "unknown"

\* _indexability_status: the first of these that holds
Indexability(s, e) ==
  CASE ~ s.crawlable -> "blocked"
    [] CodeClass(e.code) \in {4, 5} -> "error"
    [] e.noindex # {} -> "not_indexable"
    [] e.chain # <<>> -> "redirected"
    [] CodeClass(e.code) = 2 -> "indexable"
    [] OTHER -> "unknown"

Other(e) == e.canon \notin {"missing", "invalid", e.url}
Target(s, e) == {Entry(s, u) : u \in s.pages \intersect {e.canon}}

\* _build_record: its issues
Holds(s, e, code) ==
  CASE code = "ERROR_5XX" -> CodeClass(e.code) = 5
    [] code = "ERROR_4XX" -> CodeClass(e.code) = 4
    [] code = "ROBOTS_BLOCKED" -> ~ s.crawlable
    [] code = "NOINDEX_META" -> "meta" \in e.noindex
    [] code = "NOINDEX_XROBOTS" -> "header" \in e.noindex
    [] code = "REDIRECT" -> e.chain # <<>>
    [] code = "REDIRECT_CHAIN" -> Len(e.chain) > 1
    [] code = "REDIRECT_LOOP" -> Cardinality(ToSet(e.chain) \union {e.final}) <= Len(e.chain)
    [] code = "REDIRECT_TO_ERROR" -> e.chain # <<>> /\ CodeClass(e.code) \in {4, 5}
    [] code = "CANONICAL_INVALID" -> e.canon = "invalid"
    [] code = "CANONICAL_EXTERNAL" -> Other(e)
    [] code = "CANONICAL_4XX" -> Other(e) /\ \E t \in Target(s, e) : CodeClass(t.code) = 4
    [] code = "CANONICAL_5XX" -> Other(e) /\ \E t \in Target(s, e) : CodeClass(t.code) = 5
    [] code = "CANONICAL_REDIRECT" -> Other(e) /\ \E t \in Target(s, e) : t.chain # <<>>
    [] code = "NOT_IN_SITEMAP" -> Indexability(s, e) = "indexable" /\ e.url \notin s.sitemap

\* _issue_summary: the issues that are summed up, worst first; their ranks
Summed == <<"ERROR_5XX", "CANONICAL_4XX", "CANONICAL_5XX", "REDIRECT_LOOP",
            "NOINDEX_META", "NOINDEX_XROBOTS", "ROBOTS_BLOCKED", "ERROR_4XX",
            "REDIRECT_CHAIN", "REDIRECT_TO_ERROR", "CANONICAL_INVALID", "CANONICAL_REDIRECT", "NOT_IN_SITEMAP">>
Rank(i) == IF i <= 4 THEN 0 ELSE IF i <= 8 THEN 1 ELSE IF i <= 12 THEN 2 ELSE 3

Affected(s, code) == {u \in s.pages : Holds(s, Entry(s, u), code)}
Uncrawled(s) == s.sitemap \ s.pages
Issues(s) ==
  SelectSeq([i \in DOMAIN Summed |-> [code |-> Summed[i], rank |-> Rank(i), urls |-> Affected(s, Summed[i])]],
            LAMBDA x : x.urls # {})
    \o IF Uncrawled(s) = {} THEN <<>> ELSE <<[code |-> "SITEMAP_URL_NOT_CRAWLED", rank |-> 3, urls |-> Uncrawled(s)]>>

\* gate_technical_seo: the issues a free reader sees, in their order
Preview(s) == SubSeq(Issues(s), 1, Min({FreeIssues, Len(Issues(s))}))

(***************************************************************************)
(* The report's two halves agree: a page that is not indexable for a       *)
(* reason the scan has seen is named by an issue, a page counted as        *)
(* indexable answers itself and nothing forbids it, and no issue a free    *)
(* reader does not see is worse than one that is seen.                     *)
(***************************************************************************)
IndexSound(s) ==
  /\ \A u \in s.pages :
       LET status == Indexability(s, Entry(s, u)) IN
       /\ status \in {"blocked", "error", "not_indexable"} =>
            \E i \in DOMAIN Issues(s) : Issues(s)[i].rank < 2 /\ u \in Issues(s)[i].urls
       /\ status = "indexable" =>
            s.crawlable /\ ~ Redirecting(s.site, u) /\ s.site[u].code = 200 /\ s.noindex[u] = {}
       /\ status = "redirected" => s.noindex[Last(Walk(s.site, u))] = {}
  /\ \A i \in DOMAIN Preview(s), j \in DOMAIN Issues(s) \ DOMAIN Preview(s) : Issues(s)[i].rank <= Issues(s)[j].rank

\* A page whose redirects never end is reported as a loop; it is not.
LoopReported(s) ==
  \A u \in s.pages : (\A n \in DOMAIN Walk(s.site, u) : Redirecting(s.site, Walk(s.site, u)[n])) =>
    u \in Affected(s, "REDIRECT_LOOP")
=============================================================================
