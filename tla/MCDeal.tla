------------------------------- MODULE MCDeal -------------------------------
EXTENDS Deal

\* Two threes, two twos, both jokers, and a four for the bottom.
Small == {0, 1, 48, 49, 52, 53}
Bottom == 4

Halves(S) == {<<a, b>> \in S \X S : a < b}

\* Every way to deal the six cards to three hands of two.
Deals ==
    {<<x[1], x[2], y[1], y[2], z[1], z[2], Bottom>> :
        <<x, y, z>> \in {t \in Halves(Small) \X Halves(Small) \X Halves(Small) :
            {t[1][1], t[1][2], t[2][1], t[2][2], t[3][1], t[3][2]} = Small}}

Five == <<<<0, 48, 1, 52, 49, 53, Bottom>>, <<0, 1, 48, 49, 52, 53, Bottom>>,
          <<52, 53, 0, 48, 1, 49, Bottom>>, <<4, 0, 1, 48, 49, 52, 53>>,
          <<4, 1, 0, 48, 49, 52, 53>>>>

\* No reply, every deal, and close, chained and far scores.
AnyDeal == {NoReply} \X {[Five EXCEPT ![1] = d] : d \in Deals} \X [Seat -> {0, 2, 4, 7}]

\* Every short reply, one pick, one order of scores.
ShortReplies == UNION {[1..n -> {0, 2, 5, 6, Space, PickWord}] : n \in 0..5}
AnyReply == ShortReplies \X {Five} \X {[s \in Seat |-> 3 * s]}

DealsAndReplies == AnyDeal \cup AnyReply

=============================================================================
