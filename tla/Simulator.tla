------------------------------ MODULE Simulator ------------------------------
(***************************************************************************)
(* The answer simulator: whether the scanned contents of a site can answer *)
(* a question, with which evidence, and what of it is shown:               *)
(* services/answer_simulator/ and api/routes_answer_simulator.py.  The     *)
(* runs it creates are in AnswerTracking.                                  *)
(*                                                                         *)
(* A text is a sequence of words, <<>> when there is none.  A scan is      *)
(*   [host, done   its host, whether it completed,                         *)
(*    bulk         whether it is a bulk scan,                              *)
(*    pages        its pages (one, for a single scan):                     *)
(*                   [url, title, description, h1, headings, faq, name,    *)
(*                    same, chunks]],                                      *)
(* a list of scans is the newest first.  A unit of evidence is             *)
(*   [id, url, field, tier, text], ordered by id.                          *)
(* Scores are thousandths, percentages tenths of a per cent.  A phrase is  *)
(* found word by word, not letter by letter.                               *)
(***************************************************************************)
EXTENDS Integers, Sequences, FiniteSets, FiniteSetsExt, SequencesExt

CONSTANTS
  StopWords,     \* STOPWORDS and the words of less than three letters
  TopK,          \* answer_simulator_max_evidence_units
  FactsCap,      \* _PAYLOAD_CHAR_CAP, in words
  FreeBatch      \* answer_simulator_batch_limit of the free plan

\* TOP_SCORE_HIGH, TOP_SCORE_MEDIUM, OFF_TOPIC_THRESHOLD, MIN_QUESTION_COVERAGE
TopHigh == 8000
TopMedium == 3000
OffTopic == 200
MinCoverage == 250
PreviewCount == 2
MaxDuplicates == 2

----------------------------------------------------------------------------
(* The index: the newest version of every page, cut into units             *)

\* Wrong: whatever its state, the newest scan counts.
AnyScan(scans, host) == SelectSeq(scans, LAMBDA s : s.host = host)

UsableScans(scans, host) == SelectSeq(scans, LAMBDA s : s.host = host /\ s.done)

\* A page of a bulk scan carries neither questions nor an entity.
DocOf(scan, page) ==
  IF scan.bulk THEN [tier |-> "reduced", page |-> [page EXCEPT !.headings = <<>>, !.faq = <<>>, !.name = <<>>, !.same = <<>>]]
  ELSE [tier |-> "full", page |-> IF page.name = <<>> THEN [page EXCEPT !.same = <<>>] ELSE page]

\* The elements at some places, in their order
Picked(seq, places) ==
  [k \in 1 .. Cardinality(places) |-> seq[CHOOSE i \in places : Cardinality({j \in places : j < i}) = k - 1]]

FirstOfUrl(docs) == Picked(docs, {i \in DOMAIN docs : \A j \in 1 .. i - 1 : docs[j].page.url # docs[i].page.url})
DocsOf(scans) == FlattenSeq([i \in DOMAIN scans |-> [j \in DOMAIN scans[i].pages |-> DocOf(scans[i], scans[i].pages[j])]])

\* resolve_evidence_sources
EvidenceSources(scans, host) == FirstOfUrl(DocsOf(UsableScans(scans, host)))

\* The fields in the alphabetical order of their names, with FIELD_BOOST in tenths
Alphabetical == <<"body_chunk", "entity_name", "entity_sameas", "faq_answer", "faq_question", "h1",
                  "heading_question", "meta_description", "title">>
Boost == [title |-> 30, h1 |-> 25, entity_name |-> 25, faq_question |-> 22, heading_question |-> 20,
          body_chunk |-> 16, meta_description |-> 15, faq_answer |-> 13, entity_sameas |-> 10]

\* build_knowledge_index; the ids of scans are random, here they rise in the order of the documents.
UnitsOf(d, doc) ==
  LET p == doc.page
      texts == <<p.chunks, <<p.name>>, p.same, [i \in DOMAIN p.faq |-> p.faq[i].a], [i \in DOMAIN p.faq |-> p.faq[i].q],
                 <<p.h1>>, p.headings, <<p.description>>, <<p.title>> >>
      units == [f \in DOMAIN Alphabetical |->
                  [i \in DOMAIN texts[f] |-> [id |-> 100 * d + 10 * f + i, url |-> p.url, field |-> Alphabetical[f],
                                              tier |-> doc.tier, text |-> texts[f][i]]]]
  IN SelectSeq(FlattenSeq(units), LAMBDA u : u.text # <<>>)
Index(docs) == FlattenSeq([d \in DOMAIN docs |-> UnitsOf(d, docs[d])])

----------------------------------------------------------------------------
(* Retrieval (retrieval.py)                                                *)

\* Thousandths of ln(p / q), p >= q > 0, by the series of the inverse hyperbolic tangent
Ln(p, q) ==
  LET z == (1000 * (p - q)) \div (p + q)
      square == (z * z) \div 1000
      power[k \in 0 .. 8] == IF k = 0 THEN z ELSE (power[k - 1] * square) \div 1000
  IN 2 * MapThenSumSet(LAMBDA k : power[k] \div (2 * k + 1), 0 .. 8)

DocFreq(units, w) == Cardinality({i \in DOMAIN units : w \in ToSet(units[i].text)})
\* build_corpus_stats, with the idf of the words that will be asked for
Stats(units, words) ==
  [n |-> Len(units), total |-> FoldSeq(LAMBDA u, sum : Len(u.text) + sum, 0, units),
   idf |-> [w \in words |-> Ln(2 * Len(units) + 2, 2 * DocFreq(units, w) + 1)]]

Within(a, b) == \E i \in 0 .. Len(b) - Len(a) : \A k \in DOMAIN a : b[i + k] = a[k]
Greater(a, b) == IF a >= b THEN a ELSE b

\* score_unit: BM25 with k1 = 1.5 and b = 0.75, boosted by field and by phrase
ScoreUnit(question, unit, stats) ==
  LET matched == ToSet(question) \intersect ToSet(unit.text)
      length == 375 + (1125 * Len(unit.text) * stats.n) \div Greater(stats.total, stats.n)
      tf(w) == Cardinality({i \in DOMAIN unit.text : unit.text[i] = w})
      raw == MapThenSumSet(LAMBDA w : (stats.idf[w] * tf(w) * 2500) \div (1000 * tf(w) + length), matched)
      boosted == (raw * Boost[unit.field]) \div 10
  IN IF Within(question, unit.text) \/ Within(unit.text, question) THEN (3 * boosted) \div 2 ELSE boosted

Ahead(a, b) ==
  LET key(s) == <<- s.score, IF s.unit.tier = "full" THEN 0 ELSE 1, - Boost[s.unit.field], s.unit.id>>
      d == CHOOSE i \in 1 .. 4 : key(a)[i] # key(b)[i] /\ \A j \in 1 .. i - 1 : key(a)[j] = key(b)[j]
  IN a # b /\ key(a)[d] < key(b)[d]

BestFirst(found) ==
  LET place == [s \in found |-> 1 + Cardinality({t \in found : Ahead(t, s)})]
  IN [k \in 1 .. Cardinality(found) |-> CHOOSE s \in found : place[s] = k]
Ranked(question, units, stats) ==
  BestFirst({s \in {[unit |-> units[i], score |-> ScoreUnit(question, units[i], stats)] : i \in DOMAIN units} : s.score > 0})

\* _dedup_key: passages of three words and more
SamePassage(a, b) ==
  a.unit.field = "body_chunk" /\ b.unit.field = "body_chunk" /\ a.unit.text = b.unit.text /\ Len(a.unit.text) >= 3
Repeats(ranked, i) == Cardinality({j \in 1 .. i - 1 : SamePassage(ranked[j], ranked[i])})

\* Wrong: a passage that is repeated counts every time.
UncappedPlaces(ranked) == DOMAIN ranked

CappedPlaces(ranked) == {i \in DOMAIN ranked : Repeats(ranked, i) < MaxDuplicates}
Foremost(seq, n) == SubSeq(seq, 1, Min({n, Len(seq)}))
BestOf(ranked) == Foremost(Picked(ranked, CappedPlaces(ranked)), TopK)

Retrieve(question, units, stats) == BestOf(Ranked(question, units, stats))

----------------------------------------------------------------------------
(* Whether the question is about the site, and how well it can be answered *)
(* (topic_alignment.py, scoring.py)                                        *)

TopicWords(question) == SelectSeq(question, LAMBDA w : w \notin StopWords)
FoundWords(question, units) ==
  {w \in ToSet(TopicWords(question)) : \E i \in DOMAIN units : w \in ToSet(units[i].text)}
Urls(scored) == {s.unit.url : s \in ToSet(scored)}
Fields(scored) == {s.unit.field : s \in ToSet(scored)}
TopScore(scored) == IF scored = <<>> THEN 0 ELSE scored[1].score
Cap(limit, n) == Min({limit, n})

\* Wrong: what was retrieved counts though no word of the topic was found.
RetrievalAlways(found, scored) ==
  20 * Cap(1000, TopScore(scored) \div 8) + 10 * Cap(1000, 500 * Cardinality(Urls(scored)))
    + 10 * Cap(1000, (1000 * Cardinality(Fields(scored))) \div 3)

Retrieval(found, scored) ==
  IF found = {} THEN 0
  ELSE 20 * Cap(1000, TopScore(scored) \div 8) + 10 * Cap(1000, 500 * Cardinality(Urls(scored)))
         + 10 * Cap(1000, (1000 * Cardinality(Fields(scored))) \div 3)

TopicOf(once, words, found, units, stats, scored) ==
  LET weight(ws) == MapThenSumSet(LAMBDA w : stats.idf[w], ws)
      weighted == (1000 * weight(found)) \div Greater(1, weight(words))
      plain == (1000 * Cardinality(found)) \div Cardinality(words)
      phrase == IF Len(once) >= 2 /\ \E i \in DOMAIN units : Within(once, units[i].text) THEN 10000 ELSE 0
  IN IF words = {} THEN [words |-> 0, score |-> 0, coverage |-> 0]
     ELSE [words |-> Cardinality(words), coverage |-> plain,
           score |-> (Cap(100000, 45 * weighted + 15 * plain + Retrieval(found, scored) + phrase) + 50) \div 100]

\* compute_topic_alignment: idf-weighted and plain share of the words found, retrieval, phrase
Topic(question, units, stats, scored) ==
  TopicOf(FoldLeft(LAMBDA seen, w : IF w \in ToSet(seen) THEN seen ELSE Append(seen, w), <<>>, TopicWords(question)),
          ToSet(TopicWords(question)), FoundWords(question, units), units, stats, scored)

OffTopicFor(topic, scored) ==
  \/ topic.words = 0 \/ topic.score < OffTopic
  \/ topic.coverage < MinCoverage /\ TopScore(scored) < TopMedium

\* _substring_brand_match: the name of the site itself is part of what is searched.
BrandFound(scored, brand, root) ==
  scored # <<>> /\ \E b \in brand : b = <<root>> \/ \E s \in ToSet(scored) : Within(b, s.unit.text)

\* compute_answerability
Answerability(topic, scored, brand, root) ==
  LET urls == Cardinality(Urls(scored))
      tier == IF \E s \in ToSet(scored) : s.unit.tier = "full" THEN 115 ELSE 100
      pages == IF urls >= 2 THEN 110 ELSE 100
      top == (TopScore(scored) * tier * pages) \div 10000
  IN IF OffTopicFor(topic, scored) \/ scored = <<>>
     THEN [level |-> "insufficient", coverage |-> 0, brand |-> FALSE, urls |-> 0]
     ELSE [level |-> IF top >= TopHigh /\ Len(scored) >= 2 THEN "high" ELSE IF top >= TopMedium THEN "medium" ELSE "low",
           coverage |-> Cap(1000, 170 * Len(scored) + 110 * Cardinality(Fields(scored)) + 165 * urls),
           brand |-> BrandFound(scored, brand, root), urls |-> urls]

----------------------------------------------------------------------------
(* The answer (batch.py, prompting.py, service.py).  A request is          *)
(*   [llm, force, provider  whether the step of a language model is asked  *)
(*                          for, even without evidence, and who takes it,  *)
(*    reply                 [ok, cites]: is it well formed, the URLs named;*)
(*                          not ok when the call fails].                   *)

\* build_facts_payload: the least relevant is dropped first.
FactsPayload(question, scored) ==
  LET size(n) == Len(question) + MapThenSumSet(LAMBDA i : Len(scored[i].unit.text) + 1, 1 .. n)
  IN SubSeq(scored, 1, Max({n \in 0 .. Len(scored) : n = 0 \/ size(n) <= FactsCap}))

\* Wrong: the URLs of a reply are not looked up.
ValidShape(reply, facts) == reply.ok
\* validate_against_facts
Valid(reply, facts) == reply.ok /\ reply.cites \subseteq Urls(facts)

Composed(question, ask, scored, topic, answer) ==
  LET enough == answer.level # "insufficient"
      called == ask.llm /\ ask.provider # "none" /\ (ask.force \/ enough)
      used == called /\ Valid(ask.reply, FactsPayload(question, scored))
      shown == IF enough \/ used THEN scored ELSE <<>>
  IN [answer |-> answer, topic |-> topic, shown |-> shown, cited |-> Urls(shown), llm |-> used,
      told |-> IF used \/ ~ enough THEN <<>> ELSE Foremost(shown, 5),
      named |-> IF used THEN ask.reply.cites ELSE Urls(Foremost(shown, 5)),
      brand |-> answer.brand, missing |-> ~ enough /\ ~ used,
      billed |-> IF used /\ ask.provider = "anthropic" THEN 1 ELSE 0]
Judged(question, ask, scored, topic, brand, root) ==
  Composed(question, ask, scored, topic, Answerability(topic, scored, brand, root))
WithEvidence(question, units, stats, ask, brand, root, scored) ==
  Judged(question, ask, scored, Topic(question, units, stats, scored), brand, root)

\* _simulate_one
Simulated(question, units, stats, ask, brand, root) ==
  WithEvidence(question, units, stats, ask, brand, root, Retrieve(question, units, stats))

\* estimate_simulation, in calls that cost
Estimate(count, ask) == IF ask.llm /\ ask.provider = "anthropic" THEN count ELSE 0

\* format_simulation_result and gate_simulation_result
Relevance(shown) == Cap(1000, TopScore(shown) \div 8)
Gated(sim, full) ==
  LET n == IF full THEN Len(sim.shown) ELSE Min({PreviewCount, Len(sim.shown)}) IN
  [sim |-> sim, evidence |-> SubSeq(sim.shown, 1, n), locked |-> Len(sim.shown) - n,
   relevance |-> Relevance(sim.shown), supported |-> Cardinality(Urls(sim.shown))]

----------------------------------------------------------------------------
(* Which questions are asked (simulator_run).  The prompts of a set are a  *)
(* sequence of [key, active], a question asked by id its place in it, a    *)
(* question typed or from the bank its key, 0 when blank.                  *)

\* Wrong: a prompt is made for every text.
AlwaysCreate(chosen, key) ==
  [tracked |-> Append(chosen.tracked, [key |-> key, active |-> TRUE]),
   asked |-> Append(chosen.asked, Len(chosen.tracked) + 1)]

Choosing(chosen, p) == [chosen EXCEPT !.asked = IF p \in ToSet(@) THEN @ ELSE Append(@, p)]

\* _find_or_create_prompt
FindOrCreate(chosen, key) ==
  LET same == {p \in DOMAIN chosen.tracked : chosen.tracked[p].active /\ chosen.tracked[p].key = key} IN
  IF same # {} THEN Choosing(chosen, Min(same))
  ELSE Choosing([chosen EXCEPT !.tracked = Append(@, [key |-> key, active |-> TRUE])], Len(chosen.tracked) + 1)

Batch(tracked, ids, texts, free) ==
  LET byId == FoldLeft(Choosing, [tracked |-> tracked, asked |-> <<>>], ids)
      all == FoldLeft(FindOrCreate, byId, SelectSeq(texts, LAMBDA k : k # 0))
      n == IF free THEN Min({FreeBatch, Len(all.asked)}) ELSE Len(all.asked)
  IN IF ~ ToSet(ids) \subseteq DOMAIN tracked THEN [refused |-> 404, tracked |-> tracked, asked |-> <<>>, locked |-> 0]
     ELSE IF all.asked = <<>> THEN [refused |-> 422, tracked |-> tracked, asked |-> <<>>, locked |-> 0]
     ELSE [refused |-> 0, tracked |-> all.tracked, asked |-> SubSeq(all.asked, 1, n), locked |-> Len(all.asked) - n]

----------------------------------------------------------------------------

GroundedIn(scans, host, question, ask, docs, units, sim) ==
  LET has(i, url) == scans[i].host = host /\ scans[i].done /\ \E p \in ToSet(scans[i].pages) : p.url = url
      shown == sim.shown
  IN /\ \A d \in DOMAIN docs :
          /\ \A e \in DOMAIN docs : d # e => docs[d].page.url # docs[e].page.url
          /\ \E i \in DOMAIN scans :
               /\ has(i, docs[d].page.url) /\ \A j \in 1 .. i - 1 : ~ has(j, docs[d].page.url)
               /\ \E p \in ToSet(scans[i].pages) :
                    p.url = docs[d].page.url /\ p.title = docs[d].page.title /\ p.chunks = docs[d].page.chunks
     /\ FoundWords(question, units) = {} => sim.answer.level = "insufficient"
     /\ sim.answer.level = "insufficient" /\ ~ sim.llm
          => shown = <<>> /\ sim.cited = {} /\ sim.named = {} /\ sim.told = <<>> /\ ~ sim.brand
     /\ sim.named \subseteq sim.cited
     /\ \A i \in DOMAIN shown : Cardinality({j \in DOMAIN shown : SamePassage(shown[i], shown[j])}) <= MaxDuplicates
     /\ ~ ask.force => sim.billed <= Estimate(1, ask)
IndexedFor(scans, host, question, ask, brand, docs, units) ==
  GroundedIn(scans, host, question, ask, docs, units,
             Simulated(question, units, Stats(units, ToSet(question)), ask, brand, host))
DocumentedBy(scans, host, question, ask, brand, docs) == IndexedFor(scans, host, question, ask, brand, docs, Index(docs))

(***************************************************************************)
(* What an answer rests on.  The index has every page once, in the version *)
(* of the newest scan that completed.  A question none of whose own words  *)
(* the site uses is never called answerable, whatever generic words it     *)
(* shares with it; without a validated reply such an answer shows, cites   *)
(* and names nothing.  An answer names no URL it does not cite, no passage *)
(* takes more than two places, and nothing better was left out.  What is   *)
(* billed was estimated (knowledge_index.py:135, scoring.py:63,            *)
(* topic_alignment.py:139, batch.py:170, retrieval.py:45,                  *)
(* prompting.py:66).                                                       *)
(***************************************************************************)
Grounded(scans, host, question, ask, brand) ==
  DocumentedBy(scans, host, question, ask, brand, EvidenceSources(scans, host))

(***************************************************************************)
(* A batch asks no question twice and no more than the plan allows, counts *)
(* what it left out, and makes no second prompt for a question the set has *)
(* (routes_answer_simulator.py:85-141).                                    *)
(***************************************************************************)
BatchSound(tracked, ids, texts, free) ==
  LET b == Batch(tracked, ids, texts, free)
      keys(t) == {k \in 1 .. 9 : Cardinality({p \in DOMAIN t : t[p].active /\ t[p].key = k}) > 1}
      wanted == {k \in ToSet(texts) : k # 0}
  IN /\ IsInjective(b.asked) /\ (free => Len(b.asked) <= FreeBatch)
     /\ keys(b.tracked) = keys(tracked)
     /\ b.refused = 0 =>
          /\ \A k \in wanted : \E p \in DOMAIN b.tracked : b.tracked[p].active /\ b.tracked[p].key = k
          /\ Len(b.asked) + b.locked <= Cardinality(ToSet(ids)) + Cardinality(wanted)
          /\ b.locked = 0 => ToSet(ids) \subseteq ToSet(b.asked)

(* What the code's comments say and the rules do not keep.                 *)

(***************************************************************************)
(* Free callers see the first two items of the evidence and a count of the *)
(* rest (batch.py:151-155): the text of the answer quotes no other.        *)
(***************************************************************************)
LockedStaysLocked(sim, full) == ToSet(Gated(sim, full).sim.told) \subseteq ToSet(Gated(sim, full).evidence)

(***************************************************************************)
(* HIGH takes two distinct relevant units (scoring.py:26): two that do not *)
(* say the same.                                                           *)
(***************************************************************************)
DistinctSupport(sim) ==
  sim.answer.level = "high" => Cardinality({s.unit.text : s \in ToSet(sim.shown)}) >= 2

(***************************************************************************)
(* A question that was cut off by the plan is not tracked, either          *)
(* (routes_answer_simulator.py:136-141).                                   *)
(***************************************************************************)
LockedNotTracked(tracked, ids, texts, free) ==
  LET b == Batch(tracked, ids, texts, free) IN
  b.refused = 0 => \A p \in DOMAIN b.tracked : p > Len(tracked) => p \in ToSet(b.asked)
=============================================================================
