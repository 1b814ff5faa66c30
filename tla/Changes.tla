------------------------------- MODULE Changes ------------------------------
(***************************************************************************)
(* What a monitor tells of two scans of its page: the differences of their *)
(* scores (monitoring/changes.py), the alerts they raise                   *)
(* (monitoring/alerts.py), the differences of the two snapshots that shall *)
(* explain them (services/snapshot.py and snapshot_diff.py), and the       *)
(* snapshots that are kept to compare with.                                *)
(*                                                                         *)
(* A scan is [page, wording, access, broken, rubric, version]: the facts   *)
(* of the page (SiteSignals), which of two texts its description and       *)
(* canonical have, the check of the crawlers or NoAccess, the signals      *)
(* whose analysis raised, and the versions of rubric and snapshot format.  *)
(***************************************************************************)
EXTENDS SiteSignals

CONSTANTS
  DropWarning,   \* alert_score_drop_warning
  DropCritical,  \* alert_score_drop_critical
  CategoryDrop,  \* alert_category_regression
  CriticalScore, \* alert_critical_score
  MaxCritical    \* _MAX_CRITICAL_ISSUE

ASSUME ChangesAssumption ==
  /\ {DropWarning, DropCritical, CategoryDrop, CriticalScore, MaxCritical} \subseteq Nat \ {0}
  /\ 5 < DropWarning /\ DropWarning <= DropCritical

(***************************************************************************)
(* The stored result of a scan.  A signal whose analysis raised has no     *)
(* points and no evidence (aggregate.py:24-32).                            *)
(***************************************************************************)
Scored(scan, raw) == [i \in DOMAIN raw |-> IF i \in scan.broken THEN 0 ELSE raw[i]]
ResultWith(scan, p, score, robots) ==
  [score |-> score, overall |-> Overall(score), rubric |-> scan.rubric,
   markup |-> IF "schema" \in scan.broken THEN 0 ELSE Len(p.blocks),
   sitemap |-> p.xml.found /\ "sitemap" \notin scan.broken,
   blocked |-> IF robots THEN BlockedBots(p) ELSE {}, crawlable |-> ~ (robots /\ Blanket(p))]
Result(scan) ==
  ResultWith(scan, scan.page, Scored(scan, SignalScores(scan.page)),
             scan.page.robots.exists /\ "robots" \notin scan.broken)

StatusOf(score) == IF score >= 75 THEN "pass" ELSE IF score >= 45 THEN "warn" ELSE "fail"

(***************************************************************************)
(* detect_changes: a delta is a set with the difference, or empty when the *)
(* two were scored by different rubrics.                                   *)
(***************************************************************************)
RubricChanged(prev, curr) == prev.rubric # "" /\ curr.rubric # "" /\ prev.rubric # curr.rubric
Delta(prev, curr, i) == IF RubricChanged(prev, curr) THEN {} ELSE {curr.score[i] - prev.score[i]}
OverallDelta(prev, curr) == IF RubricChanged(prev, curr) THEN {} ELSE {curr.overall - prev.overall}
Regressions(prev, curr) == {i \in DOMAIN curr.score : \E d \in Delta(prev, curr, i) : d <= -5}
Improvements(prev, curr) == {i \in DOMAIN curr.score : \E d \in Delta(prev, curr, i) : d >= 5}

(***************************************************************************)
(* evaluate_alerts; prev is {} at the first scan, or the result before     *)
(***************************************************************************)
Alert(type, severity) == [type |-> type, severity |-> severity]

ChangeAlerts(prev, curr) ==
  LET Dropped(i, n) == \E d \in Delta(prev, curr, i) : d <= 0 - n
      OverallDropped(n) == \E d \in OverallDelta(prev, curr) : d <= 0 - n
      holds ==
        << <<OverallDropped(DropWarning), Alert("score_drop", IF OverallDropped(DropCritical) THEN "critical" ELSE "warning")>>,
           <<curr.blocked \ prev.blocked # {} \/ (prev.crawlable /\ ~ curr.crawlable), Alert("robots_blocked", "critical")>>,
           <<prev.sitemap /\ ~ curr.sitemap, Alert("sitemap_removed", "warning")>>,
           <<prev.markup > 0 /\ curr.markup = 0, Alert("schema_removed", "warning")>>,
           <<StatusOf(curr.score.metadata) = "fail" /\ StatusOf(prev.score.metadata) # "fail",
             Alert("metadata_problem", "warning")>>,
           <<Dropped("accessibility", CategoryDrop), Alert("accessibility_regression", "warning")>>,
           <<Dropped("performance", CategoryDrop), Alert("performance_degradation", "warning")>> >> IN
  {holds[k][2] : k \in {k \in DOMAIN holds : holds[k][1]}}

Alphabet == <<"accessibility", "ai_readiness", "content", "freshness", "links", "metadata", "performance",
              "robots", "schema", "sitemap">>
IsCritical(result, i) == result.score[i] <= CriticalScore

\* Wrong: the scan before is not looked at, so a critical signal is told of every time.
NewlyCriticalAlways(before, curr) == {i \in DOMAIN curr.score : IsCritical(curr, i)}

\* The signals that are critical and were not, before being the scans before (none or one)
NewlyCritical(before, curr) ==
  {i \in DOMAIN curr.score : IsCritical(curr, i) /\ \A prev \in before : ~ IsCritical(prev, i)}

\* The worst of them, and of signals as bad as each other the first by name
Worst(new, curr) ==
  LET Severity(i) == 100 * curr.score[i] + CHOOSE k \in DOMAIN Alphabet : Alphabet[k] = i IN
  {i \in new : Cardinality({k \in new : Severity(k) < Severity(i)}) < MaxCritical}
CriticalIssues(before, curr) == Worst(NewlyCritical(before, curr), curr)

Alerts(before, curr) ==
  UNION {ChangeAlerts(prev, curr) : prev \in before}
    \union {[type |-> "critical_issue", severity |-> "critical", signal |-> i] : i \in CriticalIssues(before, curr)}

----------------------------------------------------------------------------
(***************************************************************************)
(* build_snapshot and diff_snapshots: what is different, how, and how bad  *)
(***************************************************************************)
NoAccess == [bots |-> {}]
Mark(about, is, path, severity) == [about |-> about, is |-> is, path |-> path, severity |-> severity]

\* How many of a page's blocks have a type
CountOf(p, t) == Cardinality({i \in DOMAIN p.blocks : t \in p.blocks[i].types})
SchemaMarks(a, b) ==
  {Mark("schema", "removed", t, "CRITICAL") : t \in {t \in Types(a.page) : CountOf(a.page, t) > CountOf(b.page, t)}}
    \union {Mark("schema", "added", t, "INFO") : t \in {t \in Types(b.page) : CountOf(b.page, t) > CountOf(a.page, t)}}

\* A crawler's status in a scan, "none" when it was not checked
Unreachable(scan) == scan.access # NoAccess /\ scan.access.unreachable
BotStatus(scan, bot) ==
  IF scan.access = NoAccess \/ bot \notin DOMAIN scan.access.status THEN "none" ELSE scan.access.status[bot]
Checked(scan) == IF scan.access = NoAccess THEN {} ELSE DOMAIN scan.access.status
NewlyBlocked(a, b, bot) ==
  BotStatus(a, bot) = "allowed" /\ BotStatus(b, bot) \in {"blocked_by_robots", "blocked_by_server"}
CrawlerMarks(a, b, critical) ==
  (IF Unreachable(b) /\ ~ Unreachable(a) THEN {Mark("availability", "modified", "site", "CRITICAL")} ELSE {})
    \union {Mark("crawler_access", "modified", bot,
                 IF NewlyBlocked(a, b, bot) /\ bot \in critical THEN "CRITICAL" ELSE "INFO") :
              bot \in {bot \in Checked(a) \union Checked(b) : BotStatus(a, bot) # BotStatus(b, bot)}}

\* A text that is there or not, and which of two it is: the mark of its change, if any
TextMark(about, path, was, now, same, loss) ==
  CASE was /\ ~ now -> {Mark(about, "removed", path, loss)}
    [] ~ was /\ now -> {Mark(about, "added", path, "INFO")}
    [] was /\ now /\ ~ same -> {Mark(about, "modified", path, "INFO")}
    [] OTHER -> {}
MetaMarks(a, b) ==
  LET same == a.wording = b.wording IN
  TextMark("meta", "canonical", a.page.canonical = "set", b.page.canonical = "set", same, "CRITICAL")
    \union TextMark("meta", "description", a.page.desc = "set", b.page.desc = "set", same, "WARNING")
    \union (IF a.page.title = b.page.title THEN {} ELSE {Mark("meta", "modified", "title", "INFO")})

\* A sitemap is there for the snapshot when robots.txt names one.
HasSitemap(scan) == scan.page.xml.found \/ scan.page.robots.sitemap
SitemapMarks(a, b) ==
  IF HasSitemap(a) /\ ~ HasSitemap(b) THEN {Mark("sitemap", "removed", "sitemap.xml", "WARNING")} ELSE {}
HeadingMarks(a, b) ==
  CASE a.page.h1 = 1 /\ b.page.h1 = 0 -> {Mark("headings", "removed", "h1", "WARNING")}
    [] a.page.h1 = 1 /\ b.page.h1 > 1 -> {Mark("headings", "modified", "h1", "WARNING")}
    [] OTHER -> {}
TextLengthMarks(a, b) ==
  IF a.page.text = b.page.text THEN {} ELSE {Mark("content", "modified", "word_count", "INFO")}

\* Nothing when the format of the snapshots has changed in between (_safe_diff)
DiffSnapshots(a, b, critical) ==
  IF a.version # b.version THEN {}
  ELSE UNION {SchemaMarks(a, b), CrawlerMarks(a, b, critical), MetaMarks(a, b),
              TextMark("llms_txt", "llms.txt", a.page.llms, b.page.llms, TRUE, "WARNING"),
              SitemapMarks(a, b),
              HeadingMarks(a, b), TextLengthMarks(a, b)}

----------------------------------------------------------------------------
Explained(a, b, prev, curr, marks, types) ==
  /\ Alerts({prev}, prev) = {}
  /\ "score_drop" \in types => Regressions(prev, curr) # {}
  /\ Regressions(prev, curr) \intersect Improvements(prev, curr) = {}
  /\ a.version = b.version /\ b.broken = {} =>
       /\ "sitemap_removed" \in types /\ ~ b.page.robots.sitemap =>
            Mark("sitemap", "removed", "sitemap.xml", "WARNING") \in marks
       /\ "schema_removed" \in types => \A t \in Types(a.page) : Mark("schema", "removed", t, "CRITICAL") \in marks
ExplainedBy(a, b, prev, curr, critical) ==
  /\ DiffSnapshots(a, a, critical) = {}
  /\ Explained(a, b, prev, curr, DiffSnapshots(a, b, critical), {x.type : x \in Alerts({prev}, curr)})
ToldNow(first, a, b, told) ==
  /\ told \intersect (CriticalIssues({}, a) \union CriticalIssues({first}, a)) = {}
  /\ \A i \in DOMAIN b.score : IsCritical(b, i) /\ i \notin told =>
       \/ IsCritical(a, i)
       \/ Cardinality(told) = MaxCritical /\ \A k \in told : b.score[k] <= b.score[i]
ToldOnce(first, a, b) == ToldNow(first, a, b, CriticalIssues({a}, b))

Covered(marks, steps) ==
    \A x \in marks : x.about # "headings" =>
      \E y \in steps : /\ y.about = x.about /\ y.path = x.path
                       /\ x.is = "removed" => y.is = "removed" /\ y.severity = x.severity

NothingSkipped(a, b, c, critical) ==
  a.version = b.version /\ b.version = c.version =>
    Covered(DiffSnapshots(a, c, critical), DiffSnapshots(a, b, critical) \union DiffSnapshots(b, c, critical))

ChangesTold(a, b, c, critical, first, prev, curr) ==
  /\ ExplainedBy(a, b, first, prev, critical) /\ ExplainedBy(b, c, prev, curr, critical)
  /\ ToldOnce(first, prev, curr)
  /\ NothingSkipped(a, b, c, critical)

(***************************************************************************)
(* An unchanged page raises nothing; a drop of the whole score names a     *)
(* signal that fell; a signal that stays critical is told of once, and of  *)
(* several new ones the worst are; what an alert says is gone is marked as *)
(* removed in the differences of the snapshots, unless robots.txt still    *)
(* names the sitemap or an analysis raised; and of three scans, whatever   *)
(* is different between the first and the last was marked at one of the    *)
(* two steps (headings apart), a loss as a loss.                           *)
(***************************************************************************)
ChangesSound(a, b, c, critical) ==
  ChangesTold(a, b, c, critical, Result(a), Result(b), Result(c))

\* A critical crawler that is let in at the first scan and kept out at the last was marked as
\* critical at one of the steps; it is not when the site could not be reached in between.
BlockTold(a, b, c, critical) ==
  \A bot \in critical : NewlyBlocked(a, c, bot) => NewlyBlocked(a, b, bot) \/ NewlyBlocked(b, c, bot)

\* A change of the rubric alone raises no alert on a change of the site; a monitor's baseline
\* is a stored result, which has no rubric, so that every such alert can be raised.
StoredResult(scan) == [Result(scan) EXCEPT !.rubric = ""]
FormulaIsNoChange(a, b) ==
  a.rubric # b.rubric => {x.type : x \in ChangeAlerts(StoredResult(a), Result(b))}
                           \intersect {"score_drop", "accessibility_regression", "performance_degradation"} = {}

----------------------------------------------------------------------------
(***************************************************************************)
(* previous_snapshot and purge_old_snapshots: rows are [monitor, day, id], *)
(* monitor 0 for a scan without one; existing are the monitors that have   *)
(* not been deleted, active or paused.                                     *)
(***************************************************************************)
Newer(r, s) == r.day > s.day \/ (r.day = s.day /\ r.id > s.id)
PreviousSnapshot(rows, m) == {r \in rows : r.monitor = m /\ \A s \in rows : s.monitor = m => ~ Newer(s, r)}
PurgeOld(rows, existing, cutoff) ==
  LET keep == UNION {PreviousSnapshot(rows, m) : m \in existing} IN
  {r \in rows : r.day >= cutoff \/ r \in keep}

(***************************************************************************)
(* The purge takes no baseline from a monitor, however long it was paused, *)
(* deletes nothing recent, leaves one old row per monitor at most, and     *)
(* finds nothing more to delete when it runs again.                        *)
(***************************************************************************)
BaselinesKept(rows, existing, cutoff) ==
  LET left == PurgeOld(rows, existing, cutoff) IN
  /\ \A m \in existing : PreviousSnapshot(left, m) = PreviousSnapshot(rows, m)
  /\ {r \in rows : r.day >= cutoff} \subseteq left
  /\ \A r, s \in left : r # s /\ r.day < cutoff /\ s.day < cutoff => r.monitor # s.monitor
  /\ PurgeOld(left, existing, cutoff) = left
=============================================================================
