---------------------------- MODULE ContentOverlap --------------------------
(***************************************************************************)
(* Texts that repeat each other: how the pages of a bulk scan are compared *)
(* and grouped (reports/content_intelligence.py), and how the text of one  *)
(* page is cut into the chunks that answers are searched in                *)
(* (scanner/signals/content.py).                                           *)
(*                                                                         *)
(* The pages of a scan are a sequence, each [ok, words, text, title, h1,   *)
(* desc, canonical]: text, title and h1 are sets of words (of trigrams),   *)
(* desc is "" or a text, canonical 0 for none, or the number of a page, or *)
(* -1 for a page that is not in the scan.                                  *)
(***************************************************************************)
EXTENDS Integers, FiniteSets, Sequences, FiniteSetsExt, SequencesExt

CONSTANTS
  MinCompared,     \* MIN_WORDS_FOR_COMPARISON
  MinEligible,  \* MIN_ELIGIBLE_FOR_THIN_CONTENT
  FreeClusters, \* gate_content_intelligence: free_cluster_limit
  ChunkTarget,  \* _CHUNK_TARGET_WORDS
  ChunkLimit,   \* _CHUNK_HARD_LIMIT_WORDS
  ChunkOverlap, \* _CHUNK_OVERLAP_WORDS
  MaxWords,     \* MAX_BODY_WORDS_PER_PAGE
  MaxChunks     \* MAX_BODY_CHUNKS_PER_PAGE

ASSUME ContentOverlapAssumption ==
  /\ {MinCompared, MinEligible, FreeClusters, MaxWords, MaxChunks} \subseteq Nat
  /\ ChunkOverlap \in Nat /\ ChunkOverlap < ChunkTarget /\ ChunkTarget <= ChunkLimit

Eligible(pages) == {p \in DOMAIN pages : pages[p].ok /\ pages[p].words >= MinCompared}

\* _jaccard(a, b) >= percent / 100
Alike(a, b, percent) ==
  a # {} /\ b # {} /\ 100 * Cardinality(a \intersect b) >= percent * Cardinality(a \union b)

TitlesAlike(pages, p, q) == Alike(pages[p].title, pages[q].title, 50)
HeadsAlike(pages, p, q) == Alike(pages[p].h1, pages[q].h1, 50)
SelfCanonical(pages, p) == pages[p].canonical = p

\* _pair_type: "none" when the two are not linked
PairType(pages, p, q) ==
  LET overlap == Alike(pages[p].text, pages[q].text, 15)
      signs == {x \in 1 .. 4 : CASE x = 1 -> overlap
                                 [] x = 2 -> TitlesAlike(pages, p, q)
                                 [] x = 3 -> HeadsAlike(pages, p, q)
                                 [] x = 4 -> SelfCanonical(pages, p) /\ SelfCanonical(pages, q)} IN
  CASE Alike(pages[p].text, pages[q].text, 60) -> "near_duplicate"
    [] Cardinality(signs) >= 2 -> "potential_cannibalization"
    [] signs = {1} -> "content_overlap"
    [] OTHER -> "none"

OverlapRank == [near_duplicate |-> 0, potential_cannibalization |-> 1, content_overlap |-> 2]

(***************************************************************************)
(* _UnionFind: find halves the path it walks                               *)
(***************************************************************************)
FindRoot(parent, k) ==
  LET walk[n \in 0 .. Cardinality(DOMAIN parent)] ==
        IF n = 0 THEN [parent |-> parent, at |-> k]
        ELSE LET w == walk[n - 1]
                 halved == [w.parent EXCEPT ![w.at] = w.parent[@]] IN
             [parent |-> halved, at |-> halved[w.at]] IN
  walk[Cardinality(DOMAIN parent)]

\* Wrong: the root is not looked for, so a page joined twice leaves its group.
UniteDirectly(parent, pair) == [parent EXCEPT ![pair[1]] = parent[pair[2]]]

Unite(parent, pair) ==
  LET a == FindRoot(parent, pair[1])
      b == FindRoot(a.parent, pair[2]) IN
  IF a.at = b.at THEN b.parent ELSE [b.parent EXCEPT ![a.at] = b.at]

\* The linked pairs in the order of the two loops
Pairs(pages) ==
  LET n == Len(pages)
      S == Eligible(pages)
      all == [k \in 1 .. n * n |-> <<1 + ((k - 1) \div n), 1 + ((k - 1) % n)>>] IN
  SelectSeq(all, LAMBDA x : x[1] < x[2] /\ {x[1], x[2]} \subseteq S /\ PairType(pages, x[1], x[2]) # "none")

Groups(pages) ==
  LET parent == FoldLeft(LAMBDA f, pair : Unite(f, pair), [p \in Eligible(pages) |-> p], Pairs(pages))
      root == [p \in Eligible(pages) |-> FindRoot(parent, p).at] IN
  {g \in {{p \in DOMAIN root : root[p] = r} : r \in DOMAIN root} : Cardinality(g) > 1}

(***************************************************************************)
(* _canonical_situation and _recommended_action of a cluster               *)
(***************************************************************************)
Situation(pages, g) ==
  LET targets == {pages[p].canonical : p \in g} \ {0} IN
  CASE \E p \in g : pages[p].canonical \in g \ {p} -> "consolidated"
    [] \A p \in g : SelfCanonical(pages, p) -> "self_canonical_both"
    [] Cardinality(targets) > 1 -> "inconsistent"
    [] OTHER -> "mixed"

Inside(g) == {x \in g \X g : x[1] < x[2]}
ClusterType(pages, g) ==
  LET types == {PairType(pages, x[1], x[2]) : x \in Inside(g)} \ {"none"} IN
  CHOOSE t \in types : \A u \in types : OverlapRank[t] <= OverlapRank[u]
Action(pages, g) ==
  LET similar == \E x \in Inside(g) : PairType(pages, x[1], x[2]) # "none" /\ TitlesAlike(pages, x[1], x[2]) IN
  CASE Situation(pages, g) = "inconsistent" -> "REVIEW_CANONICAL"
    [] Situation(pages, g) = "consolidated" -> "KEEP_SEPARATE"
    [] ClusterType(pages, g) = "near_duplicate" -> IF similar THEN "CONSOLIDATE" ELSE "DIFFERENTIATE"
    [] ClusterType(pages, g) = "potential_cannibalization" -> "DIFFERENTIATE"
    [] OTHER -> "KEEP_SEPARATE"

\* clusters.sort: by type, then the larger, then by name
Clusters(pages) ==
  LET S == Groups(pages)
      Key(g) == 10000 * OverlapRank[ClusterType(pages, g)] - 100 * Cardinality(g) + Min(g) IN
  [i \in 1 .. Cardinality(S) |-> CHOOSE g \in S : Cardinality({h \in S : Key(h) < Key(g)}) = i - 1]
FirstOf(clusters) == SubSeq(clusters, 1, Min({FreeClusters, Len(clusters)}))
FreeView(pages) == FirstOf(Clusters(pages))

\* _duplicate_elements of one field, and _thin_pages
Repeated(pages, field, nothing) ==
  LET S == {p \in Eligible(pages) : pages[p][field] # nothing} IN
  {g \in {{q \in S : pages[q][field] = pages[p][field]} : p \in S} : Cardinality(g) > 1}
ThinPages(pages) ==
  LET S == Eligible(pages)
      Place(p) == Cardinality({q \in S : pages[q].words < pages[p].words \/ (pages[q].words = pages[p].words /\ q <= p)})
      At(i) == pages[CHOOSE p \in S : Place(p) = i].words
      n == Cardinality(S)
      twice == IF n % 2 = 1 THEN 2 * At(n \div 2 + 1) ELSE At(n \div 2) + At(n \div 2 + 1) IN
  IF n < MinEligible THEN {} ELSE {p \in S : 8 * pages[p].words < twice}

(***************************************************************************)
(* The clusters are what the links between eligible pages hold together,   *)
(* in whatever order the pairs are joined; two pages with nearly one text  *)
(* are in one cluster that says so and stands before every lesser one; a   *)
(* page that was not read is in none; pages with one title are clustered   *)
(* when they are their own canonical; less than half of the pages are      *)
(* thin; and a review of canonicals is asked for where two of them differ. *)
(***************************************************************************)
Connected(pages, p, q) ==
  \E n \in 1 .. Cardinality(Eligible(pages)) : \E path \in [1 .. n -> Eligible(pages)] :
    /\ path[1] = p /\ path[n] = q
    /\ \A i \in 1 .. n - 1 : PairType(pages, path[i], path[i + 1]) # "none"

Clustered(pages, S, groups, clusters) ==
  LET Together(p, q) == \E g \in groups : {p, q} \subseteq g IN
  /\ \A p, q \in S : p # q => (Together(p, q) <=> Connected(pages, p, q))
  /\ \A g \in groups : g \subseteq S /\ \A h \in groups : g = h \/ g \intersect h = {}
  /\ \A p, q \in S : p # q /\ Alike(pages[p].text, pages[q].text, 60) =>
       \E i \in DOMAIN clusters : /\ {p, q} \subseteq clusters[i]
                                  /\ \A k \in 1 .. i : ClusterType(pages, clusters[k]) = "near_duplicate"
  /\ \A g \in Repeated(pages, "title", {}), p, q \in S :
       p # q /\ {p, q} \subseteq g /\ SelfCanonical(pages, p) /\ SelfCanonical(pages, q) => Together(p, q)
  /\ 2 * Cardinality(ThinPages(pages)) < Max({1, Cardinality(S)})
  /\ \A g \in groups : Action(pages, g) = "REVIEW_CANONICAL" =>
       \E p, q \in g : pages[p].canonical # pages[q].canonical /\ ~ (SelfCanonical(pages, p) /\ SelfCanonical(pages, q))
  /\ IsPrefix(FreeView(pages), clusters)
OverlapSound(pages) == Clustered(pages, Eligible(pages), Groups(pages), Clusters(pages))

\* Where "no further action" is asked for near duplicates, each of them but one points to
\* another of the cluster; this is not so.
Consolidated(pages) ==
  \A g \in Groups(pages) : ClusterType(pages, g) = "near_duplicate" /\ Action(pages, g) = "KEEP_SEPARATE" =>
    Cardinality({p \in g : pages[p].canonical \in g \ {p}}) >= Cardinality(g) - 1

----------------------------------------------------------------------------
(***************************************************************************)
(* The chunks of a page: its blocks are the sequences of the lengths of    *)
(* their sentences.  Words are numbered, and a chunk is the words from     *)
(* start to end, of which fresh were not in the chunk before.              *)
(***************************************************************************)
Words(block) == FoldLeft(+, 0, block)
Sliced(n) == [i \in 1 .. (n + ChunkLimit - 1) \div ChunkLimit |-> Min({ChunkLimit, n - (i - 1) * ChunkLimit})]

\* build_body_evidence: the words up to the cap, what is beyond it is cut off
Cut(block, left) ==
  FoldLeft(LAMBDA kept, n : IF Words(kept) = left THEN kept ELSE Append(kept, Min({n, left - Words(kept)})), <<>>, block)
Capped(blocks) ==
  FoldLeft(LAMBDA kept, b : LET left == MaxWords - Words(FlattenSeq(kept)) IN
                            IF left = 0 THEN kept ELSE Append(kept, Cut(b, left)),
           <<>>, blocks)
\* _normalize_chunk_units
Units(blocks) ==
  FlattenSeq([i \in DOMAIN blocks |->
                IF Words(blocks[i]) <= ChunkTarget THEN <<Words(blocks[i])>>
                ELSE FlattenSeq([k \in DOMAIN blocks[i] |-> IF blocks[i][k] <= ChunkLimit THEN <<blocks[i][k]>>
                                                            ELSE Sliced(blocks[i][k])])])

\* chunk_blocks: c.size words are in the chunk that is being filled, from word c.start on
Filled(c) == [start |-> c.start, end |-> c.start + c.size]
TakeUnit(c, n) ==
  IF c.size > 0 /\ c.size + n > ChunkTarget
    THEN LET tail == Min({ChunkOverlap, c.size}) IN
         [chunks |-> Append(c.chunks, Filled(c)), start |-> c.start + c.size - tail, size |-> tail + n]
    ELSE [c EXCEPT !.size = @ + n]
ChunkBlocks(blocks) ==
  LET c == FoldLeft(TakeUnit, [chunks |-> <<>>, start |-> 0, size |-> 0], Units(blocks)) IN
  IF c.size = 0 THEN c.chunks ELSE Append(c.chunks, Filled(c))

BodyEvidence(blocks) ==
  LET total == Words(FlattenSeq(blocks))
      chunks == ChunkBlocks(IF total > MaxWords THEN Capped(blocks) ELSE blocks) IN
  [truncated |-> total > MaxWords \/ Len(chunks) > MaxChunks,
   chunks |-> SubSeq(chunks, 1, Min({MaxChunks, Len(chunks)}))]

(***************************************************************************)
(* A page that is not marked as truncated is searched in whole, one that   *)
(* is has lost words; the chunks follow each other with the overlap asked  *)
(* for, each brings words of its own, and none is longer than one sentence *)
(* at its limit and the overlap before it.                                 *)
(***************************************************************************)
Covers(body, blocks) ==
  LET chunks == body.chunks
      total == Words(FlattenSeq(blocks))
      last == IF chunks = <<>> THEN 0 ELSE Last(chunks).end IN
  /\ body.truncated <=> last < total
  /\ \A i \in DOMAIN chunks :
       LET before == IF i = 1 THEN [start |-> 0, end |-> 0] ELSE chunks[i - 1] IN
       /\ chunks[i].end > before.end
       /\ chunks[i].start = Max({before.start, before.end - ChunkOverlap})
       /\ chunks[i].end - chunks[i].start <= ChunkLimit + ChunkOverlap
  /\ Len(chunks) <= MaxChunks /\ last <= MaxWords
ChunksCover(blocks) == Covers(BodyEvidence(blocks), blocks)
=============================================================================
