----------------------------- MODULE CrawlGraph -----------------------------
(***************************************************************************)
(* The link graph of a bulk scan: reports/crawl_graph.py, a pure function  *)
(* of the stored pages.                                                    *)
(*                                                                         *)
(* A scan is [rows, requested]: rows is the sequence of the stored pages,  *)
(* in the order their fetches ended, each with its normalized address, its *)
(* error flag and the set of the targets of its links; requested is the    *)
(* address the user put first, or NoSeed.  Anchor texts and how often a    *)
(* link is repeated are left out.                                          *)
(***************************************************************************)
EXTENDS Integers, FiniteSets, Sequences, FiniteSetsExt

CONSTANTS
  DeepThreshold,  \* DEEP_PAGE_THRESHOLD
  HighFloor,      \* _HIGH_OUTBOUND_FLOOR
  WeakMinimum     \* _MIN_PAGES_FOR_WEAK_INBOUND

NoSeed == "no_seed"

Nodes(scan) == {scan.rows[i].key : i \in DOMAIN scan.rows}

\* A page stored twice keeps its last row.
PageOf(scan, key) ==
  scan.rows[Max({i \in DOMAIN scan.rows : scan.rows[i].key = key})]

\* A page that failed has no outgoing evidence; a self-link is no edge.
LinksOf(scan, key) == IF PageOf(scan, key).error THEN {} ELSE PageOf(scan, key).links \ {key}

Edges(scan) ==
  {e \in Nodes(scan) \X Nodes(scan) : e[2] \in LinksOf(scan, e[1])}

Outbound(scan, key) == {e[2] : e \in {x \in Edges(scan) : x[1] = key}}
Inbound(scan, key) == {e[1] : e \in {x \in Edges(scan) : x[2] = key}}

\* Wrong: the search follows links against their direction.
LevelsBackwards(scan) ==
  LET level[n \in 0..Cardinality(Nodes(scan))] ==
        IF n = 0 THEN {scan.requested}
        ELSE level[n - 1] \union UNION {Inbound(scan, key) : key \in level[n - 1]} IN
  level

\* The breadth-first search: the pages at most n links from the seed
Levels(scan) ==
  LET level[n \in 0..Cardinality(Nodes(scan))] ==
        IF n = 0 THEN {scan.requested}
        ELSE level[n - 1] \union UNION {Outbound(scan, key) : key \in level[n - 1]} IN
  level

HasSeed(scan) == scan.requested \in Nodes(scan)

\* depth is -1 where the code has none; reachable and orphan are "unknown"
\* where the code says None.
PageRecord(scan, key) ==
  LET levels == Levels(scan)
      at == {n \in DOMAIN levels : key \in levels[n]}
      found == HasSeed(scan) /\ at # {}
      inbound == Cardinality(Inbound(scan, key)) IN
  [inbound |-> inbound,
   outbound |-> Cardinality(Outbound(scan, key)),
   reachable |-> IF ~ HasSeed(scan) THEN "unknown" ELSE IF found THEN "yes" ELSE "no",
   depth |-> IF found THEN Min(at) ELSE -1,
   orphan |-> IF key = scan.requested \/ PageOf(scan, key).error THEN "unknown"
              ELSE IF inbound = 0 THEN "yes" ELSE "no"]

Graph(scan) == [key \in Nodes(scan) |-> PageRecord(scan, key)]

\* Twice the average number of outgoing edges, rounded half to even like round
TwiceAverage(scan) ==
  LET n == Cardinality(Nodes(scan))
      q == (2 * Cardinality(Edges(scan))) \div n
      r == 2 * ((2 * Cardinality(Edges(scan))) % n) IN
  IF r < n \/ (r = n /\ q % 2 = 0) THEN q ELSE q + 1

\* _issue_summary: the pages each issue names
Issue(scan, code) ==
  LET graph == Graph(scan)
      total == Cardinality(Nodes(scan)) IN
  {key \in Nodes(scan) :
     LET p == graph[key] IN
     \/ code = "ORPHAN_PAGE" /\ p.orphan = "yes"
     \/ code = "DISCONNECTED_PAGE" /\ p.reachable = "no"
     \/ code = "DEEP_PAGE" /\ p.depth >= DeepThreshold
     \/ /\ code = "HIGH_OUTBOUND_PAGE"
        /\ total > 1
        /\ p.outbound >= Max({HighFloor, TwiceAverage(scan)})
     \/ /\ code = "WEAK_INBOUND_COVERAGE"
        /\ total >= WeakMinimum
        /\ p.orphan = "no" /\ p.reachable # "no" /\ p.inbound = 1}

----------------------------------------------------------------------------
\* The links of the stored pages, said without the search
LinkTo(scan, from, to) ==
  /\ ~ PageOf(scan, from).error
  /\ to \in PageOf(scan, from).links
Closed(scan, S) ==
  \A from \in S : \A to \in Nodes(scan) : LinkTo(scan, from, to) => to \in S

(***************************************************************************)
(* The three verdicts of the graph agree with what the pages link to, and  *)
(* with one another: a page is reachable iff every set of pages that holds *)
(* the seed and whatever its members link to holds it; its depth is one    *)
(* more than the least depth of a page that links to it; an orphan can     *)
(* never be reachable, and only pages that are not the seed and were       *)
(* fetched are orphans; no page is both deep and disconnected; a weakly    *)
(* linked page is neither an orphan nor cut off (crawl_graph.py:66-300).   *)
(***************************************************************************)
VerdictsAgree(scan) ==
  LET graph == Graph(scan) IN
  \A key \in Nodes(scan) :
    LET p == graph[key]
        from == {k \in Nodes(scan) \ {key} : LinkTo(scan, k, key)} IN
    /\ HasSeed(scan) =>
         (p.reachable = "yes" <=>
            \A S \in SUBSET Nodes(scan) : scan.requested \in S /\ Closed(scan, S) => key \in S)
    /\ p.depth > 0 =>
         /\ \E k \in from : graph[k].depth = p.depth - 1
         /\ \A k \in from : graph[k].depth # -1 => graph[k].depth >= p.depth - 1
    /\ p.depth = 0 <=> HasSeed(scan) /\ key = scan.requested
    /\ p.orphan = "yes" => p.reachable # "yes" /\ ~ PageOf(scan, key).error
    /\ ~ (key \in Issue(scan, "DEEP_PAGE") /\ key \in Issue(scan, "DISCONNECTED_PAGE"))
    /\ key \in Issue(scan, "WEAK_INBOUND_COVERAGE") =>
         Cardinality(from) = 1 /\ key \notin Issue(scan, "ORPHAN_PAGE") \union Issue(scan, "DISCONNECTED_PAGE")
=============================================================================
