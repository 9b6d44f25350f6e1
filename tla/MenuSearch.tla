----------------------------- MODULE MenuSearch -----------------------------
(***************************************************************************)
(* How the menus a language model may talk about are found: the keyword    *)
(* search of app/domain/menu.py, and its three uses with the embedding     *)
(* search: the menu context of a turn (app/llm/menu_context.py), the       *)
(* candidates of inquire_menu_info, and those of a refused add_menu        *)
(* (app/dispatcher.py).                                                    *)
(*                                                                         *)
(* A text is a sequence of letters without the blanks at its ends, which   *)
(* strip() removes.  The embedding search is any ranking of the indexed    *)
(* menus, or an exception (module MenuIndex says which index it uses); of  *)
(* a similarity only matters which thresholds it reaches.  The text that   *)
(* is made of the candidates is left out.                                  *)
(***************************************************************************)
EXTENDS Lists, FiniteSets, SequencesExt

CONSTANTS
    Letter,         \* what texts are made of
    Menus,          \* the menu file: [kr, category], in its order
    Categories,     \* its categories: [id, keywords], in order
    Aliases,        \* slang_aliases: [slang, targets], in order
    Family,         \* _FAMILY_NAMES
    Indexed,        \* the menus of the index, which may be of an older file
    Texts,          \* what customers and the model write
    MaxContext,     \* max_candidates of the menu context
    MaxInquiry,     \* k of an inquiry
    MaxUnsure,      \* how many irrelevant hits an inquiry shows
    MaxFamily,      \* max_k for a family name
    MaxSimilar,     \* max_k of find_similar_menus
    PerCategory     \* examples of a category in the breakdown

VARIABLES
    use,        \* who searches
    text,       \* user_text, question or menu
    found,      \* the candidates so far
    stage       \* what is done next

searchVars == <<use, text, found, stage>>

Text == Seq(Letter)

Name == {Menus[i].kr : i \in DOMAIN Menus}

ASSUME MenuSearchAssumption ==
    /\ Menus \in Seq([kr : Text, category : STRING]) /\ Menus # <<>>
    /\ Categories \in Seq([id : STRING, keywords : SUBSET Text])
    /\ Aliases \in Seq([slang : Text, targets : Seq(Text)])
    /\ Texts \subseteq Text
    /\ Indexed \subseteq Text /\ IsFiniteSet(Indexed)
    /\ MaxContext \in Nat \ {0} /\ MaxInquiry \in Nat /\ MaxUnsure \in Nat \ {0}
    /\ MaxFamily \in Nat /\ MaxSimilar \in Nat \ {0} /\ PerCategory \in Nat \ {0}
    \* Names and categories are the keys of a dict; a menu is of one of them.
    /\ \A i, j \in DOMAIN Menus : Menus[i].kr = Menus[j].kr => i = j
    /\ \A i, j \in DOMAIN Categories : Categories[i].id = Categories[j].id => i = j
    /\ \A i \in DOMAIN Menus : \E j \in DOMAIN Categories : Categories[j].id = Menus[i].category
    \* No alias or keyword is empty: nothing is found in an empty text.
    /\ \A i \in DOMAIN Aliases : Aliases[i].slang # <<>>
    /\ \A i \in DOMAIN Categories : <<>> \notin Categories[i].keywords
    \* Names are neither so short nor so long that scores of two kinds meet.
    /\ \A m, n \in Name : Len(n) < 10 * Len(m) /\ 10 * Len(m) < 1000

\* "p in t"
Occurs(p, t) == p \in SubSeqs(t)

Names(ms) == [i \in DOMAIN ms |-> ms[i].kr]

\* s[:k]
Cut(s, k) == SubSeq(s, 1, IF Len(s) < k THEN Len(s) ELSE k)

-----------------------------------------------------------------------------
(* keyword_menu_search *)

\* Fault: the longest common subsequence, whose letters need not be adjacent.
CommonSubsequence(a, b) ==
    LET dp[ij \in (0 .. Len(a)) \X (0 .. Len(b))] ==
          LET i == ij[1]
              j == ij[2]
          IN  IF i = 0 \/ j = 0 THEN 0
              ELSE IF a[i] = b[j] THEN dp[<<i - 1, j - 1>>] + 1
              ELSE Max({dp[<<i - 1, j>>], dp[<<i, j - 1>>]})
    IN  dp[<<Len(a), Len(b)>>]

\* dp[i, j] is the length of the longest common end of a up to i and b up to j.
LongestCommon(a, b) ==
    LET dp[ij \in (0 .. Len(a)) \X (0 .. Len(b))] ==
          LET i == ij[1]
              j == ij[2]
          IN  IF i = 0 \/ j = 0 THEN 0
              ELSE IF a[i] = b[j] THEN dp[<<i - 1, j - 1>>] + 1
              ELSE 0
    IN  Max({dp[ij] : ij \in DOMAIN dp})

Scored(d, kr) == \E i \in DOMAIN d : d[i].kr = kr

\* scored[kr] = max(scored.get(kr, 0), score); a dict keeps the order in which
\* its keys came.
Put(d, kr, score) ==
    IF Scored(d, kr)
    THEN [i \in DOMAIN d |-> IF d[i].kr = kr
                             THEN [d[i] EXCEPT !.score = Max({@, score})]
                             ELSE d[i]]
    ELSE Append(d, [kr |-> kr, score |-> score])

\* scored after each of the entries in turn.
PutAll(d, entries) ==
    LET upto[n \in 0 .. Len(entries)] ==
          IF n = 0 THEN d ELSE Put(upto[n - 1], entries[n].kr, entries[n].score)
    IN  upto[Len(entries)]

NameScore(kr, t) == IF Occurs(kr, t) THEN 10 * Len(kr) ELSE LongestCommon(kr, t)

ByName(t) ==
    PutAll(<<>>, ElementsAt([i \in DOMAIN Menus |->
                                [kr |-> Menus[i].kr, score |-> NameScore(Menus[i].kr, t)]],
                            {i \in DOMAIN Menus : NameScore(Menus[i].kr, t) >= 2}))

\* The menus meant by the aliases that occur in the text, as far as they exist.
Targets(t) ==
    LET used == ElementsAt(Aliases, {i \in DOMAIN Aliases : Occurs(Aliases[i].slang, t)})
        meant == FlattenSeq([i \in DOMAIN used |-> used[i].targets])
    IN  ElementsAt(meant, {i \in DOMAIN meant : meant[i] \in Name})

BySlang(d, t) ==
    PutAll(d, [i \in DOMAIN Targets(t) |-> [kr |-> Targets(t)[i], score |-> 1000]])

matched_categories(t) ==
    {c \in {Categories[i].id : i \in DOMAIN Categories} :
        \E i \in DOMAIN Categories : /\ Categories[i].id = c
                                     /\ \E kw \in Categories[i].keywords : Occurs(kw, t)}

ByCategory(d, t) ==
    PutAll(d, ElementsAt([i \in DOMAIN Menus |-> [kr |-> Menus[i].kr, score |-> 1]],
                         {i \in DOMAIN Menus : /\ Menus[i].category \in matched_categories(t)
                                               /\ ~Scored(d, Menus[i].kr)}))

\* sorted() is stable: equal scores stay in the order of the dict.
Before(d, i, j) ==
    \/ d[i].score > d[j].score
    \/ d[i].score = d[j].score /\ i < j

Place(d, i) == Cardinality({j \in DOMAIN d : Before(d, j, i)}) + 1

Ranked(d) == [k \in DOMAIN d |-> d[CHOOSE i \in DOMAIN d : Place(d, i) = k].kr]

keyword_menu_search(t, k) == Cut(Ranked(ByCategory(BySlang(ByName(t), t), t)), k)

find_similar_menus(t) ==
    LET hit == {i \in DOMAIN Menus : Occurs(t, Menus[i].kr) \/ Occurs(Menus[i].kr, t)}
    IN  Cut(ElementsAt(Names(Menus), hit), MaxSimilar)

-----------------------------------------------------------------------------
(* The embedding search: the k best of the index, best first.  A score of   *)
(* 2 reaches the context's threshold (0.35), of 1 that of an inquiry (0.3). *)

Hits(k) ==
    LET n == IF Cardinality(Indexed) < k THEN Cardinality(Indexed) ELSE k
    IN  {h \in [1 .. n -> [kr : Indexed, score : 0 .. 2]] :
           \A i, j \in 1 .. n : i < j => h[i].kr # h[j].kr /\ h[i].score >= h[j].score}

-----------------------------------------------------------------------------
Init == use = "none" /\ text = <<>> /\ found = <<>> /\ stage = "shown"

Ask(who, t, first) ==
    /\ stage = "shown"
    /\ use' = who /\ text' = t /\ found' = <<>> /\ stage' = first

Then(candidates, next) ==
    /\ found' = candidates
    /\ stage' = next
    /\ UNCHANGED <<use, text>>

\* The embedding search raises, as without its library; both uses go on.
RagRaises ==
    /\ stage = "rag"
    /\ Then(found, IF use = "context" THEN "last" ELSE "keywords")

(* _build_candidates_section *)

ContextKeywords ==
    /\ use = "context" /\ stage = "keywords"
    /\ Then(keyword_menu_search(text, MaxContext), "rag")

\* Fault: a hit is added although the keywords found it already.
AddedTwice(candidates, hits) ==
    candidates \o ElementsAt(Names(hits), {i \in DOMAIN hits : hits[i].score >= 2})

\* The hits that are near enough and not among the candidates yet.
Added(candidates, hits) ==
    candidates \o ElementsAt(Names(hits), {i \in DOMAIN hits :
                                 hits[i].score >= 2 /\ ~Contains(candidates, hits[i].kr)})

ContextRag ==
    /\ use = "context" /\ stage = "rag"
    /\ \E hits \in Hits(MaxContext) : Then(Added(found, hits), "last")

InCategory(c) ==
    ElementsAt(Names(Menus), {i \in DOMAIN Menus : Menus[i].category = c})

\* The first k of each category, the categories in the order cs.
Examples(cs, k) == FlattenSeq([i \in DOMAIN cs |-> Cut(InCategory(cs[i]), k)])

\* by_cat: the categories in the order in which the menus name them.
CategoriesOfMenus ==
    ElementsAt([i \in DOMAIN Menus |-> Menus[i].category],
               {i \in DOMAIN Menus : \A j \in DOMAIN Menus :
                                        Menus[j].category = Menus[i].category => i <= j})

\* Two samples of a category, then the cut, so that of many categories only
\* the first ones are shown.
ContextShown ==
    /\ use = "context" /\ stage = "last"
    /\ Then(Cut(IF found = <<>> THEN Examples(CategoriesOfMenus, 2) ELSE found, MaxContext),
            "shown")

(* _inquire_menu_info *)

InquiryRag ==
    /\ use = "inquiry" /\ stage = "rag"
    /\ \E hits \in Hits(MaxInquiry) :
         LET relevant == ElementsAt(Names(hits), {i \in DOMAIN hits : hits[i].score >= 1})
         IN  IF hits = <<>> THEN Then(<<>>, "keywords")
             ELSE Then(IF relevant = <<>> THEN Cut(Names(hits), MaxUnsure) ELSE relevant, "shown")

InquiryKeywords ==
    /\ use = "inquiry" /\ stage = "keywords"
    /\ Then(keyword_menu_search(text, MaxInquiry), "last")

\* Fault: the last rung of the ladder is missing.
InquiryShownBare ==
    /\ use = "inquiry" /\ stage = "last"
    /\ Then(found, "shown")

\* _category_breakdown_lines when nothing was found.
InquiryShown ==
    /\ use = "inquiry" /\ stage = "last"
    /\ Then(IF found = <<>>
            THEN Examples([i \in DOMAIN Categories |-> Categories[i].id], PerCategory)
            ELSE found, "shown")

(* _add_menu of a name that is not on the menu *)

Resolves(t) ==
    \E i \in DOMAIN Aliases : /\ Aliases[i].slang = t
                              /\ Len(Aliases[i].targets) = 1
                              /\ Aliases[i].targets[1] \in Name

\* The empty text stands for a missing name, of which nothing is suggested,
\* and for one of blanks, which every menu contains.
OrderRefused(t) ==
    /\ stage = "shown"
    /\ t \notin Name /\ ~Resolves(t)
    /\ use' = IF t \in Family THEN "family" ELSE "similar"
    /\ text' = t
    /\ stage' = "shown"
    /\ IF t \in Family THEN found' = keyword_menu_search(t, MaxFamily)
       ELSE found' \in {find_similar_menus(t)} \cup (IF t = <<>> THEN {<<>>} ELSE {})

Next ==
    \/ \E t \in Texts :
         Ask("context", t, "keywords") \/ Ask("inquiry", t, "rag") \/ OrderRefused(t)
    \/ RagRaises
    \/ ContextKeywords \/ ContextRag \/ ContextShown
    \/ InquiryRag \/ InquiryKeywords \/ InquiryShown

Spec == Init /\ [][Next]_searchVars

-----------------------------------------------------------------------------
(* Properties *)

Limit == [context |-> MaxContext, inquiry |-> MaxInquiry, family |-> MaxFamily,
          similar |-> MaxSimilar]

\* What is shown are menus of the menu file or of the index, none twice, in the
\* context never more than its limit: keyword hits, embedding hits, samples and
\* their cut together repeat none and add none, also when the index is older
\* than the menu file.
TypeOK ==
    /\ use \in {"none"} \cup DOMAIN Limit
    /\ text \in Texts \cup {<<>>}
    /\ stage \in {"keywords", "rag", "last", "shown"}
    /\ found \in Seq(Name \cup Indexed) /\ IsInjective(found)
    /\ (stage = "shown" /\ use \in {"context", "family", "similar"})
         => Len(found) <= Limit[use]

\* The model is never left without true menus to go by, in a turn or an inquiry,
\* whatever was written, and also when the embedding search raises or knows
\* nothing near: the reason the comments give for the ladder of searches.
Grounded ==
    (stage = "shown" /\ use \in {"context", "inquiry"}) => found # <<>>

\* The reference for the scores: how a text points to a menu, and how well.
LongestShared(a, b) == Max({Len(w) : w \in SubSeqs(a) \cap SubSeqs(b)})

CategoryOf(kr) == Menus[CHOOSE i \in DOMAIN Menus : Menus[i].kr = kr].category

Meant(kr, t) ==
    \E i \in DOMAIN Aliases : /\ Occurs(Aliases[i].slang, t)
                              /\ Contains(Aliases[i].targets, kr)

Level(kr, t) ==
    CASE kr \notin Name -> 0
      [] kr \in Name /\ Meant(kr, t) -> 4
      [] kr \in Name /\ ~Meant(kr, t) /\ Occurs(kr, t) -> 3
      [] kr \in Name /\ ~Meant(kr, t) /\ ~Occurs(kr, t) /\ LongestShared(kr, t) >= 2 -> 2
      [] OTHER -> IF CategoryOf(kr) \in matched_categories(t) THEN 1 ELSE 0

Share(kr, t) == IF Level(kr, t) \in {2, 3} THEN LongestShared(kr, t) ELSE 0

Stronger(kr, other, t) ==
    \/ Level(kr, t) > Level(other, t)
    \/ Level(kr, t) = Level(other, t) /\ Share(kr, t) > Share(other, t)

\* The searches that start from keywords show the menus the text points to
\* most: those its slang means, then those it names, the longer name first,
\* then those it shares the longest part with, then those of a category it
\* mentions; a menu is left out only for others that are at least as strong.
\* Neither the embedding hits nor the cut push one aside.
StrongestShown ==
    \/ stage = "shown" /\ use \in {"context", "family"}
    \/ stage = "last" /\ use = "inquiry"
    =>
      /\ \A i, j \in DOMAIN found : i < j => ~Stronger(found[j], found[i], text)
      /\ \A kr \in Name :
           (Level(kr, text) > 0 /\ ~Contains(found, kr)) =>
             /\ Len(found) = Limit[use]
             /\ \A i \in DOMAIN found : ~Stronger(kr, found[i], text)
=============================================================================
