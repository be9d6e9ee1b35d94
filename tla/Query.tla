------------------------------- MODULE Query -------------------------------
(* From text to ranked pages: the terms of util/search.js, the entries that *)
(* local/index.js computes from a page, and the ranking of local/query.js.  *)
(* A line of text is a sequence of words, a term a sequence of one to       *)
(* NGRAM_LEN of them, and a score a fraction.  The pages of a term come in  *)
(* the order in which they entered its index.                               *)
EXTENDS Lists

CONSTANTS Stopwords, NGRAM_LEN, MAX_SEARCH_RESULTS,
          Content,   \* the title and the lines of each page
          Idf        \* the inverse document frequency of a number of pages

\* The logarithm that Idf stands for is zero for NUM_DOCUMENTS pages and
\* negative for more.
QueryAssumption ==
  /\ NGRAM_LEN \in Nat /\ MAX_SEARCH_RESULTS \in Nat
  /\ \A p \in DOMAIN Content : Content[p].title \in Seq(STRING) /\ Content[p].lines \in Seq(Seq(STRING))
  /\ \A n \in 1..Cardinality(DOMAIN Content) : n \in DOMAIN Idf /\ Idf[n] \in Int
ASSUME QueryAssumption

\* calcTerms: the runs of adjacent words, the stopwords between them left out.
Keywords(line) == Only(line, ToSet(line) \ Stopwords)
NGrams(words, n) == [s \in 1..(Len(words) - n + 1) |-> SubSeq(words, s, s + n - 1)]
calcTerms(line) == FlattenSeq([n \in 1..NGRAM_LEN |-> NGrams(Keywords(line), n)])

----------------------------------------------------------------------------
(* extractTerms: what a page is worth under a term *)

Lines(p) == <<Content[p].title>> \o Content[p].lines
\* The terms of a length in each of the lines.
Grams(p, n) == [l \in DOMAIN Lines(p) |-> NGrams(Keywords(Lines(p)[l]), n)]
Terms(p) == UNION {ToSet(Grams(p, n)[l]) : n \in 1..NGRAM_LEN, l \in DOMAIN Lines(p)}
docLen(p, n) == Total([l \in DOMAIN Lines(p) |-> Len(Grams(p, n)[l])])

\* A term in the title weighs more than one in a line, and in a line of one
\* or two words less.
Weight(p, l) == IF l = 1 THEN 5 ELSE IF Len(Keywords(Lines(p)[l])) > 2 THEN 3 ELSE 1
Occurrences(grams, t) == Cardinality({s \in DOMAIN grams : grams[s] = t})
\* The factor of the document length in per cent: of docLen[0] nothing is
\* ever counted, so it is that of the title.
Factor(p) ==
  LET f == 2 * Len(Content[p].title) IN IF f < 20 THEN 20 ELSE IF f > 100 THEN 100 ELSE f

score(p, t) ==
  [num |-> Factor(p) * Total([l \in DOMAIN Lines(p) |-> Weight(p, l) * Occurrences(Grams(p, Len(t))[l], t)]),
   den |-> 100 * docLen(p, Len(t))]
Less(a, b) == a.num * b.den < b.num * a.den

----------------------------------------------------------------------------
(* processResults and the order of dihQuery *)

\* Faulty variant: a page is recognized by its URL.
SeenUrl(acc, p) == \E i \in DOMAIN acc : acc[i].url = p
\* A page is passed over when one with its title was seen, also under an
\* earlier term; so each page has the score of the first term it came with.
SeenTitle(acc, p) == \E i \in DOMAIN acc : Content[acc[i].url].title = Content[p].title
AddPage(acc, p, term, idf) ==
  IF SeenTitle(acc, p) THEN acc
  ELSE Append(acc, [url |-> p, score |-> [score(p, term) EXCEPT !.num = @ * idf]])

\* The results are [term, pages] in the order of their arrival.
AddResult(acc, r) ==
  LET added[i \in 0..Len(r.pages)] ==
        IF i = 0 THEN acc ELSE AddPage(added[i - 1], r.pages[i], r.term, Idf[Len(r.pages)])
  IN added[Len(r.pages)]
processResults(results) ==
  LET after[n \in 0..Len(results)] == IF n = 0 THEN <<>> ELSE AddResult(after[n - 1], results[n])
  IN after[Len(results)]

\* Array.sort is stable: the rank of a page is the number of those before it.
Before(pages, i, j) ==
  Less(pages[j].score, pages[i].score) \/ (~Less(pages[i].score, pages[j].score) /\ i < j)
Rank(pages, i) == 1 + Cardinality({j \in DOMAIN pages : Before(pages, j, i)})
Sorted(pages) == [k \in DOMAIN pages |-> pages[CHOOSE i \in DOMAIN pages : Rank(pages, i) = k]]
Ranking(results) ==
  LET sorted == Sorted(processResults(results))
  IN SubSeq(sorted, 1, IF Len(sorted) < MAX_SEARCH_RESULTS THEN Len(sorted) ELSE MAX_SEARCH_RESULTS)
=============================================================================
