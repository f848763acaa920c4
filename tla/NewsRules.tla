----------------------------- MODULE NewsRules ------------------------------
(***************************************************************************)
(* What the headlines say about a stock (qualitative/headline_rules.py,    *)
(* news_check.py) and what the checklist shows of it                       *)
(* (recommendation/prerequisites.py).  A headline is a sequence of words   *)
(* after _norm, clause separators among them; the alias of a company is    *)
(* one word.  A phrase is a head and, after a gap of up to four words, a   *)
(* tail, which is empty in a phrase without "*".                           *)
(***************************************************************************)
EXTENDS Values, Sequences, SequencesExt, FiniteSets, FiniteSetsExt

CONSTANTS
    Lexicon,        \* [subject, company, look_alikes, roundup, speculation, negations, upward, downward]
    StopWords, ClauseWord,
    SubjectWindow, NegationWindow, RoundupMin,
    MergeOverlap,   \* percent of the shorter headline
    MaxShown,       \* max_items_shown
    NewsNow, Lookback,
    Published,      \* what may be published
    OppositeWord,       \* word |-> word of the other direction
    MaxHeadlines    \* bound

VARIABLE headlines  \* the items of the feed in its order, each as it is classified

------------------------------------------------------------------------------
(* Phrases in a headline *)

Stands(words, text, i) ==
    /\ i \in 1..(Len(text) - Len(words) + 1)
    /\ \A k \in DOMAIN words : text[i + k - 1] = words[k]

\* Where a match that begins at i may end.
Ends(phrase, text, i) ==
    LET head == i + Len(phrase.head) - 1
    IN  IF ~Stands(phrase.head, text, i) THEN {}
        ELSE IF phrase.tail = <<>> THEN {head}
        ELSE {e \in (head + 1)..Len(text) :
                 LET at == e - Len(phrase.tail) + 1
                 IN  at - head - 1 \in 0..4 /\ Stands(phrase.tail, text, at)}

\* Its matches from the left, each as long as possible, none inside another.
Found(phrase, text) ==
    FoldLeft(LAMBDA found, i :
                 LET ends == Ends(phrase, text, i)
                     free == IF found = <<>> THEN 1 ELSE found[Len(found)].end + 1
                 IN  IF ends = {} \/ i < free THEN found
                     ELSE Append(found, [at |-> i, end |-> Max(ends)]),
             <<>>, [i \in DOMAIN text |-> i])

Says(phrases, text) == \E p \in phrases : Found(p, text) # <<>>
Clause(text, i) == Cardinality({j \in 1..(i - 1) : text[j] = ClauseWord})
Distance(a, b) == IF a < b THEN b - a ELSE a - b

\* Where the stock itself is named: not inside the name of a look-alike.
Own(text) ==
    LET hidden == UNION {UNION {m.at .. m.end : m \in ToSet(Found(p, text))} : p \in Lexicon.look_alikes}
    IN  {i \in DOMAIN text \ hidden :
            text[i] \in DOMAIN Lexicon.company /\ Lexicon.company[text[i]] = Lexicon.subject}

Companies(text) == {Lexicon.company[w] : w \in ToSet(text) \cap DOMAIN Lexicon.company}

------------------------------------------------------------------------------
(* One headline *)

\* Every match of a phrase, upward ones first, phrase by phrase.
Hits(text) ==
    LET directed(phrases, direction) ==
            [p \in DOMAIN phrases |-> [phrase |-> phrases[p], direction |-> direction]]
        hits(rule) == [k \in DOMAIN Found(rule.phrase, text) |->
                          Found(rule.phrase, text)[k] @@ [direction |-> rule.direction,
                                                          gapped |-> rule.phrase.tail # <<>>]]
    IN  FoldLeft(LAMBDA all, rule : all \o hits(rule), <<>>,
                 directed(Lexicon.upward, "UP") \o directed(Lexicon.downward, "DOWN"))

\* A match with its distance to the nearest name of the stock in the same clause,
\* None if the stock is not named there.
Measured(hit, own, text) ==
    LET same == {o \in own : Clause(text, o) = Clause(text, hit.at)}
    IN  hit @@ [dist |-> IF same = {} THEN None ELSE Min({Distance(hit.at, o) : o \in same})]

\* The nearest match decides; in the same place the longest, then an exact one.
Below(s, t) == \E i \in DOMAIN s : s[i] < t[i] /\ \A j \in 1..(i - 1) : s[j] = t[j]
Key(hit) == <<hit.dist, hit.at, -hit.end, IF hit.gapped THEN 1 ELSE 0,
              IF hit.direction = "UP" THEN 1 ELSE 0>>
Deciding(hits) == CHOOSE h \in hits : \A g \in hits : ~Below(Key(g), Key(h))

\* A negation is looked for in the words before `at`, which is that of the last
\* match of the loop, whichever match decides (headline_rules.py:132, 145).
Negations(text) == UNION {{m.at : m \in ToSet(Found(p, text))} : p \in Lexicon.negations}
Negated(hits, text) ==
    \E n \in Negations(text) : hits[Len(hits)].at - n \in 1..NegationWindow

DirectionOf(hits, own, text) ==
    LET measured == {Measured(h, own, text) : h \in ToSet(hits)}
        near == {h \in measured : IF h.dist = None THEN FALSE ELSE h.dist <= SubjectWindow}
    IN  IF near = {} THEN "NEUTRAL"
        ELSE IF Negated(hits, text) THEN "NEUTRAL" ELSE Deciding(near).direction

\* page: the source or the title is that of a price page.
KindOf(item, own) ==
    IF item.page THEN "skipped"
    ELSE IF own = {} THEN "irrelevant"
    ELSE IF Cardinality(Companies(item.title)) >= RoundupMin \/ Says(Lexicon.roundup, item.title)
         THEN "roundup"
    ELSE IF item.question \/ Says(Lexicon.speculation, item.title) THEN "speculation"
    ELSE "catalyst"

ClassifyHeadline(item) ==
    LET own == Own(item.title)
    IN  item @@ [kind |-> KindOf(item, own),
                 direction |-> DirectionOf(Hits(item.title), own, item.title)]

------------------------------------------------------------------------------
(* The stories of a stock *)

Tokens(text) == ToSet(text) \ StopWords

SameStory(a, b) ==
    /\ a # {} /\ b # {}
    /\ 100 * Cardinality(a \cap b) >= MergeOverlap * Min({Cardinality(a), Cardinality(b)})

Recent(item) == NewsNow - Lookback <= item.at /\ item.at <= NewsNow

\* The items by time, the newest first, as the feed has them at the same time.
NewestFirst(items) ==
    LET order == SetToSortSeq(DOMAIN items,
                     LAMBDA i, j : Below(<<-items[i].at, i>>, <<-items[j].at, j>>))
    IN  [k \in DOMAIN order |-> items[order[k]]]

\* One more report: of a story that is told already, or a story of its own.
Reported(stories, item) ==
    LET tokens == Tokens(item.title)
        told == {i \in DOMAIN stories : stories[i].direction = item.direction
                                        /\ SameStory(stories[i].tokens, tokens)}
    IN  IF item.kind # "catalyst" THEN stories
        ELSE IF told # {} THEN [stories EXCEPT ![Min(told)].outlets = @ \cup {item.source}]
        ELSE Append(stories, [direction |-> item.direction, tokens |-> tokens, at |-> item.at,
                              outlets |-> {item.source}])

Stories(items) == FoldLeft(Reported, <<>>, NewestFirst(SelectSeq(items, Recent)))

Weight(stories, direction) ==
    FoldLeft(LAMBDA sum, s : sum + (IF s.direction = direction THEN Cardinality(s.outlets) ELSE 0),
             0, stories)

DirectionOrder == [DOWN |-> 0, UP |-> 1, NEUTRAL |-> 2]

\* What is shown: bad news first, the oldest first, cut to MaxShown.
Shown(stories) ==
    LET key(i) == <<DirectionOrder[stories[i].direction], stories[i].at, i>>
        order == SetToSortSeq(DOMAIN stories, LAMBDA i, j : Below(key(i), key(j)))
    IN  [k \in 1..Min({MaxShown, Len(stories)}) |-> stories[order[k]]]

AggregateNews(items) ==
    LET stories == Stories(items)
        up == Weight(stories, "UP")
        down == Weight(stories, "DOWN")
    IN  [verdict |-> IF up > down THEN "POSITIVE" ELSE IF down > up THEN "NEGATIVE"
                     ELSE IF up > 0 THEN "MIXED"
                     ELSE IF stories # <<>> THEN "NEUTRAL" ELSE "NO_RELEVANT_INFORMATION",
         items |-> Shown(stories), up |-> up, down |-> down]

\* The line of the checklist.
NewsCheck(news) ==
    LET shows(direction) == \E i \in DOMAIN news.items : news.items[i].direction = direction
    IN  CASE news.verdict = "POSITIVE" /\ shows("UP") -> "PASS"
          [] news.verdict = "NEGATIVE" /\ shows("DOWN") -> "FAIL"
          [] news.verdict = "MIXED" -> "WARN"
          [] OTHER -> "NA"

------------------------------------------------------------------------------
(* The feed has one more headline *)

NewsInit == headlines = <<>>
NewsNext ==
    /\ Len(headlines) < MaxHeadlines
    /\ \E item \in Published : headlines' = Append(headlines, ClassifyHeadline(item))

------------------------------------------------------------------------------

Reports(items) == {h \in ToSet(items) : Recent(h) /\ h.kind = "catalyst"}
Tell(a, b) == a.direction = b.direction /\ SameStory(Tokens(a.title), Tokens(b.title))
Counts(items) == [AggregateNews(items) EXCEPT !.items = <<>>]

\* Outlets are counted, not copies (news_check.py:46-52): the stories of a direction
\* are apart from each other, every report is counted in one of them which it overlaps,
\* for its own outlet, every outlet has reported, and a copy that comes later adds
\* nothing.
StoriesTellReports ==
    \A stories \in {Stories(headlines)} :
        /\ \A i, j \in DOMAIN stories : i # j /\ stories[i].direction = stories[j].direction
               => ~SameStory(stories[i].tokens, stories[j].tokens)
        /\ \A h \in Reports(headlines) :
               Cardinality({i \in DOMAIN stories : /\ stories[i].direction = h.direction
                                                  /\ SameStory(stories[i].tokens, Tokens(h.title))
                                                  /\ h.source \in stories[i].outlets}) > 0
        /\ \A i \in DOMAIN stories : stories[i].outlets \subseteq
               {h.source : h \in {g \in Reports(headlines) :
                                     /\ g.direction = stories[i].direction
                                     /\ SameStory(stories[i].tokens, Tokens(g.title))}}
        /\ \A h \in ToSet(headlines) : Counts(Append(headlines, h)) = Counts(headlines)

\* Nor does the order of the feed decide, or a copy anywhere in it, as long as reports
\* that tell the story of a third tell each other's.
OrderIsNoMatter ==
    LET chained == \E a, b, c \in Reports(headlines) : Tell(a, b) /\ Tell(b, c) /\ ~Tell(a, c)
        places == DOMAIN headlines
        orders == {p \in [places -> places] : Range(p) = places}
        feeds == {[k \in places |-> headlines[p[k]]] : p \in orders}
                 \cup {<<h>> \o headlines : h \in ToSet(headlines)}
    IN  ~chained => \A items \in feeds : Counts(items) = Counts(headlines)

\* Without that condition it fails: a report is compared with the first report of a
\* story only, so that two ends of a chain are one story when its middle comes first,
\* and two when an end does (news_check.py:46-47).
RepeatsCountOnce ==
    \A h \in ToSet(headlines) : Counts(<<h>> \o headlines) = Counts(headlines)

\* Good and bad news weigh the same: every word of a direction replaced by its
\* opposite gives the opposite verdict.  Left out are headlines with a negation and
\* words of both directions: which of them it is held against depends on the order
\* of the phrase lists (headline_rules.py:129-145).
NewsIsFair ==
    LET turned(item) == [title |-> [i \in DOMAIN item.title |->
                             IF item.title[i] \in DOMAIN OppositeWord THEN OppositeWord[item.title[i]]
                             ELSE item.title[i]],
                         source |-> item.source, at |-> item.at, page |-> item.page,
                         question |-> item.question]
        opposite == [POSITIVE |-> "NEGATIVE", NEGATIVE |-> "POSITIVE", MIXED |-> "MIXED",
                     NEUTRAL |-> "NEUTRAL", NO_RELEVANT_INFORMATION |-> "NO_RELEVANT_INFORMATION"]
        plain == SelectSeq(headlines, LAMBDA h :
                     \/ Negations(h.title) = {}
                     \/ Cardinality({hit.direction : hit \in ToSet(Hits(h.title))}) <= 1)
        mirror == [i \in DOMAIN plain |-> ClassifyHeadline(turned(plain[i]))]
        verdicts == [k \in {"real", "mirror"} |->
                        AggregateNews(IF k = "real" THEN plain ELSE mirror).verdict]
    IN  verdicts["mirror"] = opposite[verdicts["real"]]

\* Bad news is never hidden by the cut of the list, and no PASS stands without
\* more outlets up than down (news_check.py:70-71, prerequisites.py:74-82).
BadNewsIsShown ==
    \A news \in {AggregateNews(headlines)} :
        /\ news.verdict = "NEGATIVE" <=> NewsCheck(news) = "FAIL"
        /\ NewsCheck(news) = "PASS" => news.up > news.down
        /\ news.up + news.down <= Len(SelectSeq(headlines, Recent))

\* The phrase nearest to the stock decides, and a negation just before it neutralises
\* it (headline_rules.py:5-7, 128-148), wherever in the headline and in the lists the
\* other phrases stand; for headlines in which a negation stands before both of the
\* deciding match and the loop's last, or before neither.
NegationIsHeld ==
    \A item \in ToSet(headlines) :
        LET text == item.title
            own == Own(text)
            hits == Hits(text)
            near == {h \in {Measured(g, own, text) : g \in ToSet(hits)} :
                        IF h.dist = None THEN FALSE ELSE h.dist <= SubjectWindow}
            denied(hit) == \E k \in 1..NegationWindow : hit.at - k \in Negations(text)
            best == CHOOSE h \in near : \A g \in near : ~Below(Key(g), Key(h))
        IN  IF near = {} THEN item.direction = "NEUTRAL"
            ELSE denied(best) = denied(hits[Len(hits)]) =>
                    item.direction = IF denied(best) THEN "NEUTRAL" ELSE best.direction

NewsIsHonest ==
    /\ StoriesTellReports /\ OrderIsNoMatter
    /\ NewsIsFair /\ BadNewsIsShown /\ NegationIsHeld
=============================================================================
