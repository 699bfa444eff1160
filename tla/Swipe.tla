-------------------------------- MODULE Swipe --------------------------------
(***************************************************************************)
(* A swipe over the hand in the browser (app.js): the cards it touches are *)
(* selected, and when it ends keepSwipeChain (cards.js) drops some of them *)
(* again.  "Play" then sends the selected cards without naming a pattern.  *)
(***************************************************************************)
EXTENDS CardRules

CONSTANTS
    RankSets,   \* sets of ranks: a swipe stays within one of them
    MaxCards    \* bound: cards one swipe touches; a hand has 20 at most

ASSUME RankSetsAssumption == RankSets \subseteq SUBSET Rank
ASSUME MaxCardsAssumption == MaxCards \in 1..20

VARIABLES
    ranks,      \* the ranks of the swipe
    touched,    \* dragTouched: the cards of the running swipe
    selected    \* selected: of the cards of the swipe, those that stay selected

vars == <<ranks, touched, selected>>

None == [r \in Rank |-> 0]

isLegalPlay(cnt) == all_hits(cnt) # {}

keepNPerRank(cnt, n) == [r \in Rank |-> IF cnt[r] < n THEN cnt[r] ELSE n]

\* The ranks from the lowest to the highest all have n cards or more.
Spans(cnt, lo, hi, n) == \A r \in lo..hi : cnt[r] >= n

\* Four ranks in a row are taken for a straight.
SoloOk_Span4(cnt, lo, hi) == hi - lo + 1 >= 4 /\ Spans(cnt, lo, hi, 1)
SoloOk(cnt, lo, hi) == hi - lo + 1 >= 5 /\ Spans(cnt, lo, hi, 1)
PairOk(cnt, lo, hi) == hi - lo + 1 >= 3 /\ Spans(cnt, lo, hi, 2)

keepSwipeChain(cnt) ==
    LET lo == Min(Present(cnt))
        hi == Max(Present(cnt))
    IN  IF cnt = None \/ isLegalPlay(cnt) \/ hi > RANK_A THEN cnt
        ELSE IF PairOk(cnt, lo, hi) THEN keepNPerRank(cnt, 2)
        ELSE IF SoloOk(cnt, lo, hi) THEN keepNPerRank(cnt, 1)
        ELSE cnt

Init ==
    /\ ranks \in RankSets
    /\ touched = None
    /\ selected = None

\* paintSel during a swipe that selects.
Touch(r) ==
    /\ selected = None
    /\ touched[r] < IF r \in NumberRank THEN 4 ELSE 1
    /\ Size(touched) < MaxCards
    /\ touched' = [touched EXCEPT ![r] = @ + 1]
    /\ UNCHANGED <<ranks, selected>>

\* dragEnd and trimSwipeChain.
SwipeEnd ==
    /\ selected = None /\ touched # None
    /\ selected' = keepSwipeChain(touched)
    /\ touched' = None
    /\ UNCHANGED ranks

Next == SwipeEnd \/ \E r \in ranks : Touch(r)

Spec == Init /\ [][Next]_vars

-----------------------------------------------------------------------------
(* Properties *)

\* The matchers, which the server and the browser share line by line, find in
\* any cards exactly the plays the rules see in them, with their keys.
MatchersFollowRules == all_hits(touched) = RuleHits(touched)

\* Cards never make two different plays.  The browser relies on it: it sends no
\* pattern, and on_play refuses cards with two readings (unique_hit).
OneReading == Cardinality(all_hits(touched)) <= 1

\* A swipe that drops cards leaves a legal play, with every rank it touched.
SwipeLeavesPlay ==
    [][SwipeEnd => \/ selected' = touched
                   \/ isLegalPlay(selected') /\ Present(selected') = Present(touched)]_vars

=============================================================================
