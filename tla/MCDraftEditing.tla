--------------------------- MODULE MCDraftEditing ---------------------------
(* What the form can hold in the small instances of DraftEditing: nothing, or  *)
(* one of two texts.                                                           *)
EXTENDS DraftEditing

CONSTANTS none, a, b

\* Users who type two texts, who edit what is saved in other tabs, who attach a file
\* to such a draft, and who leave an editor and open another at once.  Only the first
\* two open drafts from the list.
Slow(texts, others) ==
  [texts |-> texts, files |-> {}, urls |-> Urls, others |-> others,
   hurries |-> FALSE, refused |-> TRUE]

Attaches(texts, files, others) ==
  [texts |-> texts, files |-> files, urls |-> {Compose, "away"}, others |-> others,
   hurries |-> FALSE, refused |-> FALSE]

Hurried(texts) == [Attaches(texts, {}, {}) EXCEPT !.hurries = TRUE]

MCUsers ==
  {Slow({none, a, b}, {}), Slow({none, a}, {a}), Attaches({a}, Files, {none}), Hurried({a})}

OneUser ==
  {[texts |-> Texts, files |-> Files, urls |-> Urls, others |-> Texts,
    hurries |-> TRUE, refused |-> FALSE]}
=============================================================================
