------------------------------ MODULE SiteReport ----------------------------
(***************************************************************************)
(* The report on the signals of a scan: its recommendations and scorecard  *)
(* (reports/engine.py), what each signal costs, what fixing it would give  *)
(* back, the plan of the next weeks, and the part of all this that is sent *)
(* to readers who have not paid (reports/insights.py).                     *)
(*                                                                         *)
(* A scan is the sequence of its sections, [id, score, issues], in the     *)
(* order of the signals; points are counted in hundredths.                 *)
(***************************************************************************)
EXTENDS SiteSignals

CONSTANTS PerWeek,   \* build_action_plan: per_week
          FreeSim,   \* gate_insights: free_sim
          FreePlan,  \* gate_insights: free_plan
          FreeRecs   \* gate_recommendations: free_limit

ASSUME SiteReportAssumption == {PerWeek, FreeSim, FreePlan, FreeRecs} \subseteq Nat

\* The members of S in the order of their keys, which are different numbers
InOrder(S, key) ==
  [i \in 1 .. Cardinality(S) |-> CHOOSE x \in S : Cardinality({y \in S : key[y] < key[x]}) = i - 1]
First(seq, n) == SubSeq(seq, 1, Min({n, Len(seq)}))

Category == [robots |-> "Crawlability", sitemap |-> "Indexability", metadata |-> "Metadata", schema |-> "Schema",
             content |-> "Content", links |-> "Internal Linking", performance |-> "Performance",
             accessibility |-> "Accessibility", freshness |-> "Content", ai_readiness |-> "AI Extractability"]
AuthorityCats == {"Schema", "Internal Linking", "Content", "Metadata", "Indexability"}
AiCats == {"AI Extractability", "Crawlability", "Performance", "Accessibility"}
Easy == {"robots", "sitemap", "metadata", "freshness"}
Difficulty(id) == IF id \in Easy THEN 0 ELSE IF id = "performance" THEN 2 ELSE 1
\* _fix_minutes of the templates' durations; of "0.5-3 days" it reads the 0
FixMinutes == [robots |-> 15, sitemap |-> 30, metadata |-> 20, schema |-> 60, content |-> 120, links |-> 60,
               performance |-> 0, accessibility |-> 120, freshness |-> 30, ai_readiness |-> 60]

Status(score) == IF score >= 75 THEN "pass" ELSE IF score >= 45 THEN "warn" ELSE "fail"
PointsLost(s) == SignalWeight[s.id] * (100 - s.score)
\* _priority: 0 for Critical to 3 for Low
Urgency(s) ==
  CASE PointsLost(s) >= 800 -> 0 [] PointsLost(s) \in 500 .. 799 -> 1 [] PointsLost(s) \in 250 .. 499 -> 2 [] OTHER -> 3
Total(scan, S) == MapThenSumSet(LAMBDA i : PointsLost(scan[i]), S)
Tenths(hundredths) == Nearest(hundredths, 10)

(***************************************************************************)
(* build_recommendations: the sections that are not healthy and clean      *)
(***************************************************************************)
Recommended(scan) == {i \in DOMAIN scan : Status(scan[i].score) # "pass" \/ scan[i].issues > 0}
Recommendations(scan) ==
  InOrder(Recommended(scan),
          [i \in DOMAIN scan |-> 1000000 * Urgency(scan[i]) + 100 * (2000 - PointsLost(scan[i])) + i])

\* build_scorecard
QuickWins(scan) ==
  First(SelectSeq(Recommendations(scan), LAMBDA i : scan[i].id \in Easy /\ PointsLost(scan[i]) >= 150), 6)
Strengths(scan) == {i \in DOMAIN scan : scan[i].score >= 75}
Weaknesses(scan) == {i \in DOMAIN scan : scan[i].score < 45}
IssueCounts(scan) == [p \in 0 .. 3 |-> Cardinality({i \in Recommended(scan) : Urgency(scan[i]) = p})]
CategoryScore(scan, category) ==
  LET S == {i \in DOMAIN scan : Category[scan[i].id] = category}
      weight == MapThenSumSet(LAMBDA i : SignalWeight[scan[i].id], S) IN
  Nearest(MapThenSumSet(LAMBDA i : scan[i].score * SignalWeight[scan[i].id], S), weight)

(***************************************************************************)
(* score_loss_breakdown, why_score_low and projected_recovery              *)
(***************************************************************************)
Breakdown(scan) ==
  InOrder(DOMAIN scan,
          [i \in DOMAIN scan |-> 100000 * (2000 - PointsLost(scan[i])) + 100 * (100 - SignalWeight[scan[i].id]) + i])
Losing(scan) == {i \in DOMAIN scan : PointsLost(scan[i]) > 0}
TopProblems(scan) == First(SelectSeq(Breakdown(scan), LAMBDA i : i \in Losing(scan)), 3)
StoredOverall(scan) == Nearest(MapThenSumSet(LAMBDA i : scan[i].score * SignalWeight[scan[i].id], DOMAIN scan), 100)

Projected(current, tenths) == Min({1000, 10 * current + tenths})
\* Recovery of the sections in S, in tenths of a point
Recovery(scan, S) ==
  LET points == Tenths(Total(scan, S \intersect Losing(scan))) IN
  [recoverable |-> points, projected |-> Projected(StoredOverall(scan), points)]

(***************************************************************************)
(* build_score_impact: the reader selects what to fix                      *)
(***************************************************************************)
Items(scan) ==
  InOrder(Recommended(scan), [i \in DOMAIN scan |-> 100 * (2000 - PointsLost(scan[i])) + i])
Impact(scan, selected) ==
  LET chosen == Tenths(Total(scan, selected \intersect Recommended(scan)))
      total == Tenths(Total(scan, Recommended(scan))) IN
  [selected |-> chosen, projected |-> Projected(StoredOverall(scan), chosen),
   remaining |-> Max({0, total - chosen}), total |-> total]

(***************************************************************************)
(* build_action_plan: weeks 1 to 4, and 5 for the backlog                  *)
(***************************************************************************)
\* Its order; of equal losses the easier, the shorter, then the first by name
PlanOrder(scan) ==
  LET names == <<"accessibility", "ai_readiness", "content", "freshness", "links", "metadata", "performance",
                 "robots", "schema", "sitemap">>
      place == [n \in ToSet(names) |-> CHOOSE k \in DOMAIN names : names[k] = n] IN
  InOrder(Recommended(scan),
    [i \in DOMAIN scan |-> 100000 * (2000 - PointsLost(scan[i])) + 20000 * Difficulty(scan[i].id)
                             + 100 * FixMinutes[scan[i].id] + place[scan[i].id]])

\* The weeks a recommendation may go to; it goes to the first that has room
Fits(scan, i, week) ==
  CASE week = 1 -> scan[i].id \in Easy
    [] week = 2 -> Urgency(scan[i]) <= 1
    [] week = 3 -> Category[scan[i].id] \in AuthorityCats
    [] week = 4 -> Category[scan[i].id] \in AiCats
    [] week = 5 -> TRUE
\* Wrong: what the first of its weeks has no room for goes to the backlog.
ScheduleOnce(scan, plan, i) ==
  LET week == Min({w \in 1 .. 5 : Fits(scan, i, w)}) IN
  [plan EXCEPT ![IF week < 5 /\ Len(plan[week]) = PerWeek THEN 5 ELSE week] = Append(@, i)]
Schedule(scan, plan, i) ==
  LET week == Min({w \in 1 .. 5 : Fits(scan, i, w) /\ (w = 5 \/ Len(plan[w]) < PerWeek)}) IN
  [plan EXCEPT ![week] = Append(@, i)]
ActionPlan(scan) ==
  FoldLeft(LAMBDA plan, i : Schedule(scan, plan, i), [w \in 1 .. 5 |-> <<>>], PlanOrder(scan))

\* gate_insights and gate_recommendations: what readers who have not paid are sent
Trimmed(seq, limit) == [shown |-> First(seq, limit), locked |-> Max({0, Len(seq) - limit})]
GatedPlan(scan) == Trimmed(FlattenSeq(ActionPlan(scan)), FreePlan)
GatedImpact(scan) == Trimmed(Items(scan), FreeSim)
GatedRecommendations(scan) == Trimmed(Recommendations(scan), FreeRecs)

----------------------------------------------------------------------------
(***************************************************************************)
(* The report is one account of the score: what the signals cost adds up   *)
(* to what the stored score lacks (to the half point it was rounded by),   *)
(* the worst problems, the recommendations and the items of the simulator  *)
(* rank by it alike, whatever is selected in the simulator and what is     *)
(* left add up, and the simulator never promises more than the fix of      *)
(* everything does.                                                        *)
(***************************************************************************)
LossesAddUp(scan, selected) ==
  LET lost == Total(scan, DOMAIN scan)
      impact == Impact(scan, selected)
      top == ToSet(TopProblems(scan)) IN
  /\ 100 * StoredOverall(scan) + lost \in 9950 .. 10050
  /\ Recovery(scan, DOMAIN scan).projected >= 995
  /\ Recovery(scan, top).projected <= Recovery(scan, DOMAIN scan).projected
  /\ \A r \in {Recommendations(scan), Items(scan), Breakdown(scan), PlanOrder(scan)} :
       \A k \in 1 .. Len(r) - 1 : PointsLost(scan[r[k]]) >= PointsLost(scan[r[k + 1]])
  /\ impact.selected + impact.remaining = impact.total
  /\ impact.total <= Recovery(scan, DOMAIN scan).recoverable
  /\ impact.projected <= Recovery(scan, DOMAIN scan).projected
  /\ \A i \in Losing(scan) \ Recommended(scan) : i \in Strengths(scan)
  /\ Weaknesses(scan) \subseteq Recommended(scan)
  /\ \A i \in DOMAIN scan : Category[scan[i].id] \notin {Category[scan[k].id] : k \in DOMAIN scan \ {i}} =>
       CategoryScore(scan, Category[scan[i].id]) = scan[i].score

(***************************************************************************)
(* The plan has each recommendation once; nothing waits longer than the    *)
(* weeks it may go to are full of what ranks before it; and a trimmed list *)
(* is the head of the whole one, with the rest counted.                    *)
(***************************************************************************)
PlanHolds(scan) ==
  LET plan == ActionPlan(scan)
      all == FlattenSeq(plan)
      order == PlanOrder(scan)
      At(i) == CHOOSE k \in DOMAIN order : order[k] = i IN
  /\ Len(all) = Cardinality(Recommended(scan)) /\ ToSet(all) = Recommended(scan)
  /\ \A w \in 1 .. 4 : Len(plan[w]) <= PerWeek
  /\ \A w \in 1 .. 5, v \in 1 .. 4 : \A k \in DOMAIN plan[w] :
       v < w /\ Fits(scan, plan[w][k], v) => /\ Len(plan[v]) = PerWeek
                                             /\ \A m \in DOMAIN plan[v] : At(plan[v][m]) < At(plan[w][k])
  /\ \A g \in {<<GatedPlan(scan), all>>, <<GatedImpact(scan), Items(scan)>>,
               <<GatedRecommendations(scan), Recommendations(scan)>>} :
       IsPrefix(g[1].shown, g[2]) /\ Len(g[1].shown) + g[1].locked = Len(g[2])
  /\ MapThenSumSet(LAMBDA p : IssueCounts(scan)[p], 0 .. 3) = Cardinality(Recommended(scan))
  /\ ToSet(QuickWins(scan)) \subseteq ToSet(all)
=============================================================================
