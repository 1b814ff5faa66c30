------------------------------ MODULE Findings ------------------------------
(***************************************************************************)
(* The findings of a site's crawls and what its owners decide about them:  *)
(* services/url_intelligence/recommendations.py, the analysis of templates *)
(* in orchestrator.py and ai_analysis.py, verify_finding of verification.py*)
(* and the Action Center of api/routes_url_intelligence.py.                *)
(*                                                                         *)
(* One crawl after the other fetches the pages, groups them by template    *)
(* and finds an issue on some; a template may get an AI finding besides.   *)
(* Every commit of the two last phases is an action, and a chunk that dies *)
(* is done again.  How a crawl gets that far is the business of Crawl.     *)
(* What a page shows at a crawl, its template included, is arbitrary.      *)
(* Owners act on the newest completed crawl, the one they are shown.       *)
(***************************************************************************)
EXTENDS Naturals, FiniteSets

CONSTANTS
  FNPage, Template, \* the pages of the site and the templates they may have
  VerifySample,     \* _VERIFY_SAMPLE
  FNCrawls,         \* bound of the model: crawls
  FNOps,            \* bound of the model: what owners do
  FNFaults          \* bound of the model: chunks that die

ASSUME FindingsAssumption ==
  {VerifySample, FNCrawls} \subseteq Nat \ {0} /\ {FNOps, FNFaults} \subseteq Nat

VARIABLES
  fcrawl,   \* the newest crawl: its number, phase and engine_version
  site,     \* what it fetched of each page: its template, whether it has the issue
  analyzed, \* the templates whose pages are marked as analysed
  found,    \* its findings
  shown,    \* the newest completed crawl: its number, engine_version and findings
  fnw,      \* where its worker is between two commits, and with which template
  rules,    \* CRAWL_ENGINE_VERSION
  fnops, fnfaults,
  \* history:
  wish, seen, \* what was last decided about each issue: now, and when it was carried on
  since     \* the first of the crawls in a row that found it

fnVars == <<fcrawl, site, analyzed, found, shown, fnw, rules, fnops, fnfaults, wish, seen, since>>

\* issue_key: there is one kind of issue of each basis; and the rows that may have
\* the key, for an AI finding may be stored again
Basis == {"deterministic", "ai_representative"}
Key == Basis \X Template
RowId == {r \in Key \X (1 .. 1 + FNFaults) : r[1][1] = "deterministic" => r[2] = 1}
Decision == {"open", "in_progress", "fixed", "wont_fix"}
Verdict == {"none", "not_comparable", "verified", "partially_improved", "unchanged", "regressed"}

NoFinding == [status |-> "none", verified |-> "none", first |-> 0, pages |-> {}]
NoFindings == [r \in RowId |-> NoFinding]
Finding(pages) == [status |-> "open", verified |-> "none", first |-> fcrawl.no, pages |-> pages]
Rows(of, k) == {r \in RowId : r[1] = k /\ of[r] # NoFinding}
Keys(of) == {k \in Key : Rows(of, k) # {}}

NoPage == [template |-> "none", issue |-> "none"]
Crawled == {p \in FNPage : site[p] # NoPage}
Templates == {site[p].template : p \in Crawled}
PagesOf(t) == {p \in Crawled : site[p].template = t}
Affected(t) == {p \in PagesOf(t) : site[p].issue = "yes"}

AtRest == [pc |-> "idle", of |-> {}]

FNInit ==
  /\ fcrawl = [no |-> 0, phase |-> "none", engine |-> 1]
  /\ site = [p \in FNPage |-> NoPage]
  /\ analyzed = {} /\ found = NoFindings
  /\ shown = [no |-> 0, engine |-> 0, rows |-> NoFindings]
  /\ fnw = AtRest /\ rules = 1 /\ fnops = 0 /\ fnfaults = 0
  /\ wish = [k \in Key |-> "open"] /\ seen = [k \in Key |-> "none"] /\ since = [k \in Key |-> 0]

FNAt(phase, pc) == fcrawl.phase = phase /\ fnw.pc = pc
Unfinished == fcrawl.phase \in {"analyzing", "preparing"}
\* What the steps of a crawl and the steps of its owners leave alone
Unseen == UNCHANGED <<shown, rules, fnops, wish, since>>
Uncrawled == UNCHANGED <<fcrawl, site, analyzed, found, fnw, rules, fnfaults, seen, since>>

----------------------------------------------------------------------------
(* A crawl: its pages, and an AI finding for some of its templates.        *)

NextCrawl ==
  /\ ~ Unfinished /\ fcrawl.no < FNCrawls
  /\ fcrawl' = [no |-> fcrawl.no + 1, phase |-> "analyzing", engine |-> rules]
  /\ site' \in [FNPage -> {NoPage} \union [template : Template, issue : {"yes", "no"}]]
  /\ analyzed' = {} /\ found' = NoFindings /\ fnw' = AtRest
  /\ seen' = [k \in Key |-> "none"]
  /\ Unseen /\ UNCHANGED fnfaults

\* analyze_template stores a finding, from the cache or asked for, or none; from
\* the cache it must, if this crawl has stored it before.
StoreAi(t) ==
  LET k == <<"ai_representative", t>>
      n == Cardinality(Rows(found, k)) + 1 IN
  /\ FNAt("analyzing", "idle") /\ t \in Templates \ analyzed
  /\ \/ found' = [found EXCEPT ![<<k, n>>] = Finding(PagesOf(t))]
     \/ n = 1 /\ UNCHANGED found
  /\ fnw' = [pc |-> "mark", of |-> {t}]
  /\ UNCHANGED <<fcrawl, site, analyzed, fnfaults, seen>> /\ Unseen

MarkAnalyzed ==
  /\ FNAt("analyzing", "mark")
  /\ analyzed' = analyzed \union fnw.of /\ fnw' = AtRest
  /\ UNCHANGED <<fcrawl, site, found, fnfaults, seen>> /\ Unseen

EndAnalyzing ==
  /\ FNAt("analyzing", "idle") /\ Templates \subseteq analyzed
  /\ fcrawl' = [fcrawl EXCEPT !.phase = "preparing"]
  /\ UNCHANGED <<site, analyzed, found, fnw, fnfaults, seen>> /\ Unseen

----------------------------------------------------------------------------
(* Preparing: build_deterministic_findings and carry_forward_status.       *)

\* For every template one finding, of the pages that have the issue; those of
\* an earlier attempt are replaced.
Build ==
  /\ FNAt("preparing", "idle")
  /\ found' = [r \in RowId |->
       IF r[1][1] # "deterministic" THEN found[r]
       ELSE IF Affected(r[1][2]) # {} THEN Finding(Affected(r[1][2])) ELSE NoFinding]
  /\ fnw' = [AtRest EXCEPT !.pc = "carry"]
  /\ UNCHANGED <<fcrawl, site, analyzed, fnfaults, seen>> /\ Unseen

\* previous_comparable_job: the newest completed crawl, if it is of this engine
Comparable == shown.engine = fcrawl.engine
Recurring == IF Comparable THEN Keys(found) \intersect Keys(shown.rows) ELSE {}

\* Wrong: whatever was decided about the issue is taken over.
InheritedAll(f, p) == [f EXCEPT !.first = p.first, !.status = p.status]
\* A finding that is there again: what was decided holds on, but a fix that did
\* not take reopens it.
Inherited(f, p) ==
  [f EXCEPT !.first = p.first,
            !.status = IF p.status \in {"in_progress", "wont_fix"} THEN p.status
                       ELSE IF p.status = "fixed" THEN "open" ELSE @,
            !.verified = IF p.status = "fixed" THEN "unchanged" ELSE @]

\* Of two rows with one key, either is taken.  An AI finding is not made anew
\* for another attempt: the history does not know which decision it shows if
\* that has changed in between (CarriedTwice).
Carry == \E source \in [Recurring -> RowId] :
  /\ FNAt("preparing", "carry")
  /\ \A k \in Recurring : source[k] \in Rows(shown.rows, k)
  /\ found' = [r \in RowId |->
       IF found[r] # NoFinding /\ r[1] \in Recurring
       THEN Inherited(found[r], shown.rows[source[r[1]]]) ELSE found[r]]
  /\ seen' = [k \in Key |->
       IF k[1] = "deterministic" \/ seen[k] \in {"none", wish[k]} THEN wish[k] ELSE "any"]
  /\ fnw' = [AtRest EXCEPT !.pc = "advance"]
  /\ UNCHANGED <<fcrawl, site, analyzed, fnfaults>> /\ Unseen

\* The crawl completes and is the one that is shown.  The history of an issue
\* that was not there before starts anew; what owners claimed to have fixed and
\* is there again is open.
Complete ==
  /\ FNAt("preparing", "advance")
  /\ fcrawl' = [fcrawl EXCEPT !.phase = "completed"] /\ fnw' = AtRest
  /\ shown' = [no |-> fcrawl.no, engine |-> fcrawl.engine, rows |-> found]
  /\ since' = [k \in Key |-> IF k \notin Keys(found) THEN 0
                             ELSE IF k \in Recurring THEN since[k] ELSE fcrawl.no]
  /\ wish' = [k \in Key |-> IF k \in Recurring /\ seen[k] # "fixed" THEN seen[k] ELSE "open"]
  /\ UNCHANGED <<site, analyzed, found, rules, fnops, fnfaults, seen>>

----------------------------------------------------------------------------
(* The owners.  What is shown is read when decisions are carried on, so it  *)
(* makes no difference whether they act before a crawl or while it analyses.*)

ByOwner == fcrawl.phase # "analyzing" /\ fnops < FNOps /\ fnops' = fnops + 1

\* update_finding_status and bulk_update_finding_status; of an issue that is
\* listed twice, the history does not know which was meant.
Decide(r, decision) ==
  /\ ByOwner /\ shown.rows[r] # NoFinding
  /\ shown' = [shown EXCEPT !.rows[r].status = decision]
  /\ wish' = [wish EXCEPT ![r[1]] = IF Cardinality(Rows(shown.rows, r[1])) = 1 THEN decision ELSE "any"]
  /\ Uncrawled

\* verify_finding: of some pages, which still have the issue; a page may not answer.
VerdictOf(results) ==
  LET answers == {results[p] : p \in DOMAIN results} \ {"none"} IN
  IF answers = {} THEN "not_comparable"
  ELSE IF answers = {"gone"} THEN "verified"
  ELSE IF answers = {"present"} THEN "unchanged" ELSE "partially_improved"

Recheck(pages) ==
  {VerdictOf(results) : results \in [pages -> {"none", "gone", "present"}]}

Verify(r) ==
  LET f == shown.rows[r] IN
  /\ ByOwner /\ f # NoFinding
  /\ \E verdict \in Verdict \ {"none"} :
       /\ r[1][1] = "deterministic" =>
            \E pages \in SUBSET f.pages :
              /\ Cardinality(pages) <= VerifySample
              /\ Cardinality(pages) < VerifySample => pages = f.pages
              /\ verdict \in Recheck(pages)
       /\ shown' = [shown EXCEPT !.rows[r].verified = verdict]
  /\ UNCHANGED wish /\ Uncrawled

\* A crawl that ends otherwise is not shown: its pages and findings are left out.
EndUnseen(phase) ==
  /\ Unfinished
  /\ fcrawl' = [fcrawl EXCEPT !.phase = phase] /\ fnw' = AtRest
  /\ site' = [p \in FNPage |-> NoPage] /\ analyzed' = {} /\ found' = NoFindings
  /\ seen' = [k \in Key |-> "none"]
  /\ Unseen

\* cancel_crawl_job; a chunk that is under way completes nothing any more.
CancelCrawl == EndUnseen("cancelled") /\ UNCHANGED fnfaults

----------------------------------------------------------------------------
(* Faults, and a new version of the checks.                                *)

FNFault == fnfaults < FNFaults /\ fnfaults' = fnfaults + 1

\* A chunk dies between two commits, and is done again ...
ChunkDies ==
  /\ Unfinished /\ fnw # AtRest /\ FNFault
  /\ fnw' = AtRest
  /\ UNCHANGED <<fcrawl, site, analyzed, found, seen>> /\ Unseen

\* ... or that was its last attempt.
CrawlFails == FNFault /\ EndUnseen("failed")

\* A crawl keeps the version it was created with.
UpgradeEngine ==
  /\ ~ Unfinished /\ rules = 1 /\ rules' = 2
  /\ UNCHANGED <<fcrawl, site, analyzed, found, shown, fnw, fnops, fnfaults, wish, seen, since>>

FNNext ==
  \/ NextCrawl \/ MarkAnalyzed \/ EndAnalyzing \/ Build \/ Carry \/ Complete
  \/ \E t \in Template : StoreAi(t)
  \/ \E r \in RowId : Verify(r) \/ \E d \in Decision : Decide(r, d)
  \/ CancelCrawl \/ ChunkDies \/ CrawlFails \/ UpgradeEngine

FNSpec == FNInit /\ [][FNNext]_fnVars

----------------------------------------------------------------------------

FNTypeOK ==
  /\ fcrawl.no \in 0 .. FNCrawls /\ fcrawl.engine \in {1, 2} /\ shown.engine \in 0 .. 2
  /\ \A of \in {found, shown.rows} : \A r \in RowId :
       of[r] = NoFinding \/ (of[r].status \in Decision /\ of[r].verified \in Verdict)
  /\ wish \in [Key -> Decision \union {"any"}] /\ since \in [Key -> 0 .. FNCrawls]

(***************************************************************************)
(* Decisions are carried forward (recommendations.py:10-15): as long as an *)
(* issue is found in every completed crawl, what its owner decided stands, *)
(* through crawls that fail, are cancelled or done again; but a fix that   *)
(* the next crawl refutes is open again, "never silently left fixed".      *)
(* Not so for a decision made between carrying and completion              *)
(* (NoDecisionLost) or changed between two attempts (CarriedTwice), nor    *)
(* for an issue that is listed twice (ListedOnce).                         *)
(***************************************************************************)
DecisionsKept ==
  \A r \in RowId : (shown.rows[r] # NoFinding /\ wish[r[1]] # "any") => shown.rows[r].status = wish[r[1]]

(***************************************************************************)
(* "Recurring issues keep their real age" (recommendations.py:15): the     *)
(* first of the completed crawls in a row, of one engine, that found it.   *)
(***************************************************************************)
AgeKept ==
  \A r \in RowId : shown.rows[r] # NoFinding => shown.rows[r].first = since[r[1]]

(***************************************************************************)
(* A completed crawl lists exactly the pages that have the issue, under    *)
(* their templates, however often it was done again; and what a template   *)
(* is told by the AI is listed once, and once more for every fault.        *)
(***************************************************************************)
FindingsExact ==
  /\ fcrawl.phase = "completed" =>
       \A t \in Template : LET r == <<<<"deterministic", t>>, 1>> IN
         IF Affected(t) = {} THEN shown.rows[r] = NoFinding ELSE shown.rows[r].pages = Affected(t)
  /\ \A k \in Key : Cardinality(Rows(found, k)) <= 1 + fnfaults

FindingsSound == DecisionsKept /\ AgeKept /\ FindingsExact

(***************************************************************************)
(* "Persist at most one UrlFinding" for a template (ai_analysis.py:145-146).*)
(***************************************************************************)
ListedOnce == \A k \in Key : Cardinality(Rows(found, k)) <= 1

(***************************************************************************)
(* "User decisions are carried forward" (recommendations.py:10): also one  *)
(* that is made while the next crawl completes.                            *)
(***************************************************************************)
NoDecisionLost == [][(shown' # shown /\ shown'.no # shown.no) => \A k \in Recurring : wish[k] = seen[k]]_fnVars

(***************************************************************************)
(* "Idempotent: re-running the chunk replaces this crawl's deterministic   *)
(* findings" (recommendations.py:17): another attempt shows what is        *)
(* decided by then, of AI findings too.                                    *)
(***************************************************************************)
CarriedTwice ==
  [][(fnw.pc = "carry" /\ fnw'.pc = "advance") =>
       \A k \in Recurring : Cardinality(Rows(shown.rows, k)) = 1 =>
         \A r \in Rows(found', k), p \in Rows(shown.rows, k) :
           found'[r].status = Inherited(Finding({}), shown.rows[p]).status]_fnVars

(***************************************************************************)
(* An issue counts as resolved (overview.py, compare_findings) when every  *)
(* page that had it was fetched and has it no more.                        *)
(***************************************************************************)
ResolvedIsGone ==
  [][(shown'.no # shown.no /\ Comparable) =>
       \A k \in Keys(shown.rows) \ Keys(found) : k[1] = "deterministic" =>
         \A r \in Rows(shown.rows, k) : \A p \in shown.rows[r].pages :
           p \in Crawled /\ site[p].issue = "no"]_fnVars
=============================================================================
