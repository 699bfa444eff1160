------------------------------ MODULE CardRules ------------------------------
(***************************************************************************)
(* The plays of the game as its players describe them, to compare the      *)
(* matchers of cards.cpp with: a body of one rank, or of several in a row  *)
(* that ends with an ace at the latest, and the wings it carries.          *)
(***************************************************************************)
EXTENDS Cards

\* A body of lengths ranks, width cards each, and for each of them `each` wings
\* of `wing` cards.
Form(width, lengths, wing, each) ==
    [width |-> width, lengths |-> lengths, wing |-> wing, each |-> each]

Forms ==
    [solo |-> Form(1, {1}, 0, 0), pair |-> Form(2, {1}, 0, 0),
     trio |-> Form(3, {1}, 0, 0), bomb |-> Form(4, {1}, 0, 0),
     straight |-> Form(1, 5..12, 0, 0), pair_straight |-> Form(2, 3..12, 0, 0),
     plane |-> Form(3, 2..12, 0, 0),
     trio_solo |-> Form(3, {1}, 1, 1), trio_pair |-> Form(3, {1}, 2, 1),
     plane_solo |-> Form(3, 2..12, 1, 1), plane_pair |-> Form(3, 2..12, 2, 1),
     four_solo |-> Form(4, {1}, 1, 2), four_pair |-> Form(4, {1}, 2, 2)]

\* The other cards are the wings: so many of them, no jokers, and pairs if
\* they have to be pairs.
WingsFit(cnt, form, body) ==
    LET rest == Rank \ body
    IN  /\ SumFunctionOnSet(cnt, rest) = form.wing * form.each * Cardinality(body)
        /\ form.wing # 0 => ~contains_joker(cnt)
        /\ form.wing = 2 => \A r \in rest : cnt[r] \in {0, 2}

\* The wings of a plane are no bomb, and no trio that would lengthen it.
PlaneWingsFit(cnt, lo, hi) ==
    /\ \A r \in Rank : cnt[r] < 4
    /\ \A r \in {lo - 1, hi + 1} \cap (RANK_3..RANK_A) : cnt[r] < 3

IsForm(cnt, form, lo, hi) ==
    /\ hi - lo + 1 \in form.lengths
    /\ hi > lo => lo..hi \subseteq RANK_3..RANK_A
    /\ \A r \in lo..hi : cnt[r] = form.width
    /\ WingsFit(cnt, form, lo..hi)
    /\ hi > lo /\ form.wing # 0 => PlaneWingsFit(cnt, lo, hi)

IsRocket(cnt) == Present(cnt) = {RANK_X, RANK_D}

RuleHits(cnt) ==
    {hit \in [pattern : Pattern, key : Present(cnt)] :
        IF hit.pattern = "rocket"
        THEN IsRocket(cnt) /\ hit.key = RANK_D
        ELSE \E lo \in RANK_3..hit.key : IsForm(cnt, Forms[hit.pattern], lo, hit.key)}

=============================================================================
