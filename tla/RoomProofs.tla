----------------------------- MODULE RoomProofs -----------------------------
(***************************************************************************)
(* Proofs about Room, for every match length, retry budget, set of         *)
(* outcomes and bound, and whether or not threads may fail to start.       *)
(***************************************************************************)
EXTENDS Room, TLAPS

-----------------------------------------------------------------------------
(* Type correctness.  The flags are stated apart: they are Boolean values. *)

LEMMA InitType == Init => TypeOK
<1> SUFFICES ASSUME Init PROVE TypeOK
  OBVIOUS
<1>1. SeatsOK
  BY RetryMaxAssumption DEF Init, SeatsOK, Zero, Seat
<1>2. MatchOK
  BY DEF Init, MatchOK, Zero
<1>3. DealOK
  BY DEF Init, DealOK
<1>4. FlagsOK
  BY DEF Init, FlagsOK
<1> QED BY <1>1, <1>2, <1>3, <1>4 DEF TypeOK

LEMMA NextSeatsOK == SeatsOK /\ [Next]_vars => SeatsOK'
<1> SUFFICES ASSUME SeatsOK, [Next]_vars PROVE SeatsOK'
  OBVIOUS
<1> USE RetryMaxAssumption DEF SeatsOK
<1>1. ASSUME NEW s \in Seat, VacateAndAbort(s),
             timer' \in [Seat -> {"none", "waiting", "expired"}]
      PROVE  SeatsOK'
  BY <1>1 DEF VacateAndAbort, AbortGame
<1>2. ASSUME NEW s \in Seat, SeatStep(s) PROVE SeatsOK'
  <2> USE DEF seatVars, retryVars
  <2>1. CASE EnterRoom(s)
    BY <2>1 DEF EnterRoom, Attach
  <2>2. CASE LeaveRoom(s)
    BY <2>2, <1>1 DEF LeaveRoom
  <2>3. CASE Disconnect(s)
    BY <2>3 DEF Disconnect
  <2>4. CASE Reconnect(s)
    BY <2>4 DEF Reconnect, Attach
  <2>5. CASE TimerExpires(s)
    BY <2>5 DEF TimerExpires
  <2>6. CASE RetryTooLate(s)
    BY <2>6 DEF RetryTooLate
  <2>7. CASE RetryAgain(s)
    BY <2>7 DEF RetryAgain, WindowsLeft
  <2>8. CASE RetryFailed(s)
    BY <2>8, <1>1 DEF RetryFailed
  <2>9. CASE CloseBoard(s) \/ Unready(s) \/ ReadyAndWait(s)
    BY <2>9 DEF CloseBoard, Unready, ReadyAndWait, SetReady
  <2>10. CASE StartWithPack(s) \/ StartWaiting(s) \/ StartAsync(s)
    BY <2>10 DEF StartWithPack, StartWaiting, StartAsync, OpenSmallGame, SetReady
  <2>11. CASE CallLandlord(s) \/ CallRedeal(s)
    BY <2>11 DEF CallLandlord, CallRedeal
  <2>12. CASE \E score \in Outcomes : SmallOver(s, score)
    BY <2>12 DEF SmallOver
  <2> QED
    BY <1>2, <2>1, <2>2, <2>3, <2>4, <2>5, <2>6, <2>7, <2>8, <2>9, <2>10, <2>11, <2>12
       DEF SeatStep, OnRetry
<1>3. CASE WorkerStep \/ UNCHANGED vars
  BY <1>3 DEF WorkerStep, DealWorkerStep, PrefetchWorkerStep, OnDealReady, DropStaleDeal,
     OnPrefetchAwaited, OnPrefetchKept, DropStalePrefetch, vars, seatVars, retryVars
<1> QED BY <1>2, <1>3 DEF Next

LEMMA NextMatchOK == MatchOK /\ [Next]_vars => MatchOK'
<1> SUFFICES ASSUME MatchOK, [Next]_vars PROVE MatchOK'
  OBVIOUS
<1> USE DEF MatchOK, matchVars
<1>0. Zero \in [Seat -> Int]
  BY DEF Zero
<1>1. ASSUME NEW s \in Seat, SeatStep(s) PROVE MatchOK'
  <2>1. CASE EnterRoom(s) \/ Disconnect(s) \/ Reconnect(s) \/ TimerExpires(s)
    BY <2>1 DEF EnterRoom, Disconnect, Reconnect, TimerExpires
  <2>2. CASE LeaveRoom(s) \/ RetryFailed(s)
    <3>1. VacateAndAbort(s)
      BY <2>2 DEF LeaveRoom, RetryFailed
    <3> QED BY <1>0, <3>1 DEF VacateAndAbort, AbortGame, ClearScores
  <2>3. CASE RetryTooLate(s) \/ RetryAgain(s)
    BY <2>3 DEF RetryTooLate, RetryAgain
  <2>4. CASE CloseBoard(s) \/ Unready(s) \/ ReadyAndWait(s)
    BY <2>4 DEF CloseBoard, Unready, ReadyAndWait, SetReady
  <2>5. CASE StartWithPack(s) \/ StartWaiting(s) \/ StartAsync(s)
    <3>1. OpenSmallGame(s)
      BY <2>5 DEF StartWithPack, StartWaiting, StartAsync
    <3> QED BY <1>0, <3>1 DEF OpenSmallGame, SetReady
  <2>6. CASE CallLandlord(s) \/ CallRedeal(s)
    BY <2>6 DEF CallLandlord, CallRedeal
  <2>7. CASE \E score \in Outcomes : SmallOver(s, score)
    BY <2>7, OutcomesAssumption DEF SmallOver
  <2> QED
    BY <1>1, <2>1, <2>2, <2>3, <2>4, <2>5, <2>6, <2>7 DEF SeatStep, OnRetry
<1>2. CASE WorkerStep \/ UNCHANGED vars
  BY <1>2 DEF WorkerStep, DealWorkerStep, PrefetchWorkerStep, OnDealReady, DropStaleDeal,
     OnPrefetchAwaited, OnPrefetchKept, DropStalePrefetch, vars
<1> QED BY <1>1, <1>2 DEF Next

\* A dealt pack, with the prefetch it may start, keeps the types of the deal.
LEMMA FinishDealOK ==
    ASSUME DealOK, NEW done \in Nat, NEW running, NEW pack \in Nat,
           NEW workers \in SUBSET PrefetchWorker,
           FinishDeal(done, running, pack, workers)
    PROVE  /\ game' = "call" /\ next_pack' = pack /\ deal_seq' = deal_seq
           /\ prefetch_seq' \in Nat /\ prefetch_workers' \subseteq PrefetchWorker
<1>1. CASE MoreGamesAfter(done) /\ ~running /\ pack = 0
  <2>1. PICK ok \in Started :
          prefetch_workers' =
            IF ok THEN workers \cup {[seq |-> prefetch_seq + 1, for_game |-> done + 1]}
                  ELSE workers
    BY <1>1 DEF FinishDeal, StartPrefetch
  <2>2. [seq |-> prefetch_seq + 1, for_game |-> done + 1] \in PrefetchWorker
    BY DEF DealOK, PrefetchWorker
  <2> QED BY <1>1, <2>1, <2>2 DEF DealOK, FinishDeal, StartPrefetch
<1>2. CASE ~(MoreGamesAfter(done) /\ ~running /\ pack = 0)
  BY <1>2 DEF DealOK, FinishDeal, StartPrefetch
<1> QED BY <1>1, <1>2

\* So does a deal thread.
LEMMA BeginAsyncDealOK ==
    ASSUME DealOK, NEW isRedeal \in BOOLEAN, BeginAsyncDeal(isRedeal)
    PROVE  /\ deal_seq' \in Nat /\ deal_workers' \subseteq DealWorker
           /\ game' = game /\ prefetch_workers' = prefetch_workers
<1>1. PICK ok \in Started :
        deal_workers' =
          IF ok THEN deal_workers \cup {[seq |-> deal_seq + 1, redeal |-> isRedeal]}
                ELSE deal_workers
  BY DEF BeginAsyncDeal
<1>2. deal_seq + 1 \in Nat
  BY DEF DealOK
<1>3. [seq |-> deal_seq + 1, redeal |-> isRedeal] \in DealWorker
  BY <1>2, Zenon DEF DealWorker
<1> QED BY <1>1, <1>3 DEF DealOK, BeginAsyncDeal

LEMMA NextDealOK == MatchOK /\ DealOK /\ [Next]_vars => DealOK'
<1> SUFFICES ASSUME MatchOK, DealOK, [Next]_vars PROVE DealOK'
  OBVIOUS
<1> USE DEF dealVars, workerVars
<1>1. ASSUME NEW s \in Seat, SeatStep(s) PROVE DealOK'
  <2>1. CASE EnterRoom(s) \/ Disconnect(s) \/ Reconnect(s) \/ TimerExpires(s)
    BY <2>1 DEF DealOK, EnterRoom, Disconnect, Reconnect, TimerExpires
  <2>2. CASE LeaveRoom(s) \/ RetryFailed(s)
    <3>1. VacateAndAbort(s)
      BY <2>2 DEF LeaveRoom, RetryFailed
    <3> QED BY <3>1 DEF DealOK, VacateAndAbort, AbortGame, DropPrefetch
  <2>3. CASE RetryTooLate(s) \/ RetryAgain(s)
    BY <2>3 DEF DealOK, RetryTooLate, RetryAgain
  <2>4. CASE CloseBoard(s) \/ Unready(s) \/ ReadyAndWait(s)
    BY <2>4 DEF DealOK, CloseBoard, Unready, ReadyAndWait
  <2>5. CASE StartWithPack(s)
    <3>1. FinishDeal(match_done + 1, prefetching, 0, prefetch_workers)
          /\ deal_workers' = deal_workers
      BY <2>5 DEF StartWithPack
    <3>2. match_done + 1 \in Nat /\ prefetch_workers \in SUBSET PrefetchWorker
      BY DEF MatchOK, DealOK
    <3> QED BY <3>1, <3>2, FinishDealOK DEF DealOK
  <2>6. CASE StartWaiting(s)
    BY <2>6 DEF DealOK, StartWaiting
  <2>7. CASE StartAsync(s)
    <3>1. BeginAsyncDeal(FALSE)
      BY <2>7 DEF StartAsync
    <3>2. prefetch_seq' \in Nat /\ next_pack' \in Nat
      BY <2>7 DEF StartAsync, DropPrefetch, DealOK
    <3> QED BY <3>1, <3>2, BeginAsyncDealOK DEF DealOK
  <2>8. CASE CallLandlord(s)
    BY <2>8 DEF DealOK, CallLandlord
  <2>9. CASE CallRedeal(s)
    <3>1. BeginAsyncDeal(TRUE)
      BY <2>9 DEF CallRedeal
    <3> QED BY <2>9, <3>1, BeginAsyncDealOK DEF DealOK, CallRedeal
  <2>10. CASE \E score \in Outcomes : SmallOver(s, score)
    BY <2>10 DEF DealOK, SmallOver
  <2> QED
    BY <1>1, <2>1, <2>2, <2>3, <2>4, <2>5, <2>6, <2>7, <2>8, <2>9, <2>10
       DEF SeatStep, OnRetry
<1>2. ASSUME NEW w \in deal_workers, OnDealReady(w) PROVE DealOK'
  <2>1. FinishDeal(match_done, prefetching, next_pack, prefetch_workers)
        /\ deal_workers' = deal_workers \ {w}
    BY <1>2 DEF OnDealReady
  <2>2. match_done \in Nat /\ next_pack \in Nat
        /\ prefetch_workers \in SUBSET PrefetchWorker
    BY DEF MatchOK, DealOK
  <2> QED BY <2>1, <2>2, FinishDealOK DEF DealOK
<1>3. ASSUME NEW w \in prefetch_workers, OnPrefetchAwaited(w) PROVE DealOK'
  <2>1. FinishDeal(match_done, FALSE, next_pack, prefetch_workers \ {w})
        /\ deal_workers' = deal_workers
    BY <1>3 DEF OnPrefetchAwaited
  <2>2. match_done \in Nat /\ next_pack \in Nat
        /\ prefetch_workers \ {w} \in SUBSET PrefetchWorker
    BY DEF MatchOK, DealOK
  <2> QED BY <2>1, <2>2, FinishDealOK DEF DealOK
<1>4. ASSUME NEW w \in prefetch_workers, OnPrefetchKept(w) PROVE DealOK'
  BY <1>4 DEF DealOK, OnPrefetchKept, PrefetchWorker
<1>5. ASSUME NEW w \in prefetch_workers, DropStalePrefetch(w) PROVE DealOK'
  BY <1>5 DEF DealOK, DropStalePrefetch
<1>6. ASSUME NEW w \in deal_workers, DropStaleDeal(w) PROVE DealOK'
  BY <1>6 DEF DealOK, DropStaleDeal
<1>7. CASE UNCHANGED vars
  BY <1>7 DEF DealOK, vars
<1> QED
  BY <1>1, <1>2, <1>3, <1>4, <1>5, <1>6, <1>7
     DEF Next, WorkerStep, DealWorkerStep, PrefetchWorkerStep

\* A flag is only ever given a Boolean value.
LEMMA NextFlagsOK == FlagsOK /\ [Next]_vars => FlagsOK'
<1> SUFFICES ASSUME FlagsOK, [Next]_vars PROVE FlagsOK'
  OBVIOUS
<1> USE DEF FlagsOK, matchVars, dealVars
<1>1. ASSUME NEW done, NEW running \in BOOLEAN, NEW pack, NEW workers,
             FinishDeal(done, running, pack, workers), set_over' \in BOOLEAN
      PROVE  FlagsOK'
  <2>1. prefetching' \in BOOLEAN
    BY <1>1, Zenon DEF FinishDeal, StartPrefetch, Started
  <2> QED BY <1>1, <2>1, Zenon DEF FinishDeal
<1>2. ASSUME NEW isRedeal, BeginAsyncDeal(isRedeal)
      PROVE  dealing' \in BOOLEAN /\ waiting_prefetch' \in BOOLEAN
  BY <1>2, Zenon DEF BeginAsyncDeal, Started
<1>3. ASSUME NEW s \in Seat, SeatStep(s) PROVE FlagsOK'
  <2>1. CASE EnterRoom(s) \/ Disconnect(s) \/ Reconnect(s) \/ TimerExpires(s)
    BY <2>1, Zenon DEF EnterRoom, Disconnect, Reconnect, TimerExpires
  <2>2. CASE LeaveRoom(s) \/ RetryFailed(s)
    <3>1. VacateAndAbort(s)
      BY <2>2 DEF LeaveRoom, RetryFailed
    <3> QED BY <3>1, Zenon DEF VacateAndAbort, AbortGame, DropPrefetch
  <2>3. CASE RetryTooLate(s) \/ RetryAgain(s)
    BY <2>3, Zenon DEF RetryTooLate, RetryAgain
  <2>4. CASE CloseBoard(s) \/ Unready(s) \/ ReadyAndWait(s)
    BY <2>4, Zenon DEF CloseBoard, Unready, ReadyAndWait
  <2>5. CASE StartWithPack(s)
    BY <1>1, <2>5, Zenon DEF StartWithPack, OpenSmallGame
  <2>6. CASE StartWaiting(s)
    BY <2>6, Zenon DEF StartWaiting, OpenSmallGame
  <2>7. CASE StartAsync(s)
    <3>1. prefetching' \in BOOLEAN
      BY <2>7, Zenon DEF StartAsync, DropPrefetch
    <3> QED BY <1>2, <2>7, <3>1, Zenon DEF StartAsync, OpenSmallGame
  <2>8. CASE CallLandlord(s)
    BY <2>8, Zenon DEF CallLandlord
  <2>9. CASE CallRedeal(s)
    BY <1>2, <2>9, Zenon DEF CallRedeal
  <2>10. CASE \E score \in Outcomes : SmallOver(s, score)
    BY <2>10, Zenon DEF SmallOver
  <2> QED
    BY <1>3, <2>1, <2>2, <2>3, <2>4, <2>5, <2>6, <2>7, <2>8, <2>9, <2>10
       DEF SeatStep, OnRetry
<1>4. ASSUME NEW w \in deal_workers, OnDealReady(w) PROVE FlagsOK'
  BY <1>1, <1>4, Zenon DEF OnDealReady
<1>5. ASSUME NEW w \in prefetch_workers, OnPrefetchAwaited(w) PROVE FlagsOK'
  BY <1>1, <1>5, Zenon DEF OnPrefetchAwaited
<1>6. ASSUME NEW w \in prefetch_workers, OnPrefetchKept(w) PROVE FlagsOK'
  BY <1>6, Zenon DEF OnPrefetchKept
<1>7. ASSUME NEW w, DropStalePrefetch(w) \/ DropStaleDeal(w) PROVE FlagsOK'
  BY <1>7, Zenon DEF DropStalePrefetch, DropStaleDeal
<1>8. CASE UNCHANGED vars
  BY <1>8, Zenon DEF vars
<1> QED
  BY <1>3, <1>4, <1>5, <1>6, <1>7, <1>8
     DEF Next, WorkerStep, DealWorkerStep, PrefetchWorkerStep

LEMMA NextType == TypeOK /\ [Next]_vars => TypeOK'
BY NextSeatsOK, NextMatchOK, NextDealOK, NextFlagsOK DEF TypeOK

\* Every field of a room keeps its type, whatever the constants.
THEOREM TypeCorrect == Spec => []TypeOK
BY InitType, NextType, PTL DEF Spec

-----------------------------------------------------------------------------
(* Seats and their retry timers *)

LEMMA InitRetry == Init => RetryHasTimer
BY DEF Init, RetryHasTimer

LEMMA NextRetry == SeatsOK /\ RetryHasTimer /\ [Next]_vars => RetryHasTimer'
<1> SUFFICES ASSUME SeatsOK, RetryHasTimer, [Next]_vars PROVE RetryHasTimer'
  OBVIOUS
<1> USE DEF SeatsOK, RetryHasTimer
<1>1. ASSUME NEW s \in Seat, SeatStep(s) PROVE RetryHasTimer'
  <2> USE DEF seatVars, retryVars
  <2>1. CASE EnterRoom(s)
    BY <2>1 DEF EnterRoom, Attach, IsFreeSeat
  <2>2. CASE LeaveRoom(s)
    BY <2>2 DEF LeaveRoom, VacateAndAbort
  <2>3. CASE Disconnect(s)
    BY <2>3 DEF Disconnect
  <2>4. CASE Reconnect(s)
    BY <2>4 DEF Reconnect, Attach
  <2>5. CASE TimerExpires(s)
    BY <2>5 DEF TimerExpires
  <2>6. CASE RetryTooLate(s)
    BY <2>6 DEF RetryTooLate, BackOrGone
  <2>7. CASE RetryAgain(s)
    BY <2>7 DEF RetryAgain, BackOrGone
  <2>8. CASE RetryFailed(s)
    BY <2>8 DEF RetryFailed, BackOrGone, VacateAndAbort
  <2>9. CASE CloseBoard(s) \/ Unready(s) \/ ReadyAndWait(s)
    BY <2>9 DEF CloseBoard, Unready, ReadyAndWait, SetReady
  <2>10. CASE StartWithPack(s) \/ StartWaiting(s) \/ StartAsync(s)
    BY <2>10 DEF StartWithPack, StartWaiting, StartAsync, OpenSmallGame, SetReady
  <2>11. CASE CallLandlord(s) \/ CallRedeal(s)
    BY <2>11 DEF CallLandlord, CallRedeal
  <2>12. CASE \E score \in Outcomes : SmallOver(s, score)
    BY <2>12 DEF SmallOver
  <2> QED
    BY <1>1, <2>1, <2>2, <2>3, <2>4, <2>5, <2>6, <2>7, <2>8, <2>9, <2>10, <2>11, <2>12
       DEF SeatStep, OnRetry
<1>2. CASE WorkerStep \/ UNCHANGED vars
  BY <1>2 DEF WorkerStep, DealWorkerStep, PrefetchWorkerStep, OnDealReady, DropStaleDeal,
     OnPrefetchAwaited, OnPrefetchKept, DropStalePrefetch, vars, seatVars, retryVars
<1> QED BY <1>1, <1>2 DEF Next

\* A seat has a pending retry timer exactly while its player is away.
THEOREM RetryTimerAlwaysPending == Spec => []RetryHasTimer
<1>1. Init => SeatsOK /\ RetryHasTimer
  BY InitType, InitRetry DEF TypeOK
<1>2. SeatsOK /\ RetryHasTimer /\ [Next]_vars => (SeatsOK /\ RetryHasTimer)'
  BY NextSeatsOK, NextRetry
<1> QED BY <1>1, <1>2, PTL DEF Spec

-----------------------------------------------------------------------------
(* Deals, prefetches and the threads behind them *)

DealSide == DealingHasWorker /\ DealThreadsAwaited
PrefetchSide == PrefetchForNextGame /\ PrefetchThreadsAwaited
MatchSide == MatchSeatsTaken /\ BoardStandsAlone /\ NothingFromOldMatch

\* The conjuncts need one another: a result is accepted by its number alone, so
\* what it may do follows from what its number says about the flags, the flags
\* from the course of the match, and the match from its seats.
DealInv == DealSide /\ PrefetchSide /\ MatchSide

LEMMA InitDeal == Init => DealInv
BY DEF Init, DealInv, DealSide, DealingHasWorker, DealThreadsAwaited, PrefetchSide,
   PrefetchForNextGame, PrefetchThreadsAwaited, MatchSide, MatchSeatsTaken,
   BoardStandsAlone, NothingFromOldMatch, BetweenGames

LEMMA TotalIsInt == MatchOK => match_total \in Int
BY MatchTotalsAssumption DEF MatchOK

\* Once the cards are dealt, what is prefetched is for the small game after
\* this one, provided it was so for what FinishDeal was handed.
LEMMA FinishDealPrefetch ==
    ASSUME MatchOK, DealOK, MatchOK', NEW done \in Nat, NEW running \in BOOLEAN,
           NEW pack \in Nat, NEW workers \in SUBSET prefetch_workers,
           FinishDeal(done, running, pack, workers),
           match_done' = done, match_total' = match_total,
           running => /\ \E w \in workers : w.seq = prefetch_seq /\ w.for_game = done + 1
                      /\ done + 1 <= match_total,
           pack # 0 => pack = done + 1 /\ pack <= match_total /\ ~running,
           \A w \in workers : /\ w.seq <= prefetch_seq
                              /\ w.seq = prefetch_seq => running /\ w.for_game = done + 1
    PROVE  PrefetchSide'
<1> USE TotalIsInt DEF PrefetchSide, PrefetchForNextGame, PrefetchThreadsAwaited,
        LivePrefetchWorker, PrefetchedGame
<1>0. /\ next_pack' = pack /\ ~dealing' /\ ~waiting_prefetch'
      /\ \A w \in workers : w.seq \in Nat /\ w.for_game \in Nat
  BY DEF FinishDeal, DealOK, PrefetchWorker
<1>1. CASE MoreGamesAfter(done) /\ ~running /\ pack = 0
  <2>0. prefetch_seq \in Nat /\ prefetch_seq' = prefetch_seq + 1
        /\ \A w \in workers : w.seq # prefetch_seq'
    BY <1>0, <1>1 DEF FinishDeal, StartPrefetch, DealOK
  <2>1. PICK ok \in Started :
          /\ prefetching' = ok
          /\ prefetch_workers' =
               IF ok THEN workers \cup {[seq |-> prefetch_seq + 1, for_game |-> done + 1]}
                     ELSE workers
    BY <1>1 DEF FinishDeal, StartPrefetch
  <2>2. CASE ok
    <3> DEFINE new == [seq |-> prefetch_seq + 1, for_game |-> done + 1]
    <3>1. prefetching' /\ prefetch_workers' = workers \cup {new}
      BY <2>1, <2>2
    <3>2. new.seq = prefetch_seq' /\ new.for_game = done + 1
      BY <2>0
    <3>3. done + 1 <= match_total
      BY <1>1 DEF MoreGamesAfter
    <3> HIDE DEF new
    <3> QED BY <1>0, <1>1, <2>0, <3>1, <3>2, <3>3
  <2>3. CASE ~ok
    <3>1. ~prefetching' /\ prefetch_workers' = workers
      BY <2>1, <2>3
    <3> QED BY <1>0, <1>1, <2>0, <3>1
  <2> QED BY <2>2, <2>3
<1>2. CASE ~(MoreGamesAfter(done) /\ ~running /\ pack = 0)
  <2>1. prefetching' = running /\ prefetch_workers' = workers /\ prefetch_seq' = prefetch_seq
    BY <1>2 DEF FinishDeal, StartPrefetch
  <2> QED BY <1>0, <2>1
<1> QED BY <1>1, <1>2

\* A deal thread that starts is the only one whose number is current.
LEMMA BeginAsyncDealSide ==
    ASSUME DealOK, NEW isRedeal \in BOOLEAN, BeginAsyncDeal(isRedeal), DealThreadsAwaited,
           isRedeal <=> game # "none"
    PROVE  DealSide'
<1> USE DEF DealSide, DealingHasWorker, DealThreadsAwaited, LiveDealWorker
<1>0. /\ ~waiting_prefetch' /\ game' = game
      /\ deal_seq \in Nat /\ deal_seq' = deal_seq + 1
      /\ \A w \in deal_workers : w.seq <= deal_seq' /\ w.seq # deal_seq'
  BY DEF BeginAsyncDeal, DealOK, DealWorker
<1>1. PICK ok \in Started :
        /\ dealing' = ok
        /\ deal_workers' =
             IF ok THEN deal_workers \cup {[seq |-> deal_seq + 1, redeal |-> isRedeal]}
                   ELSE deal_workers
  BY DEF BeginAsyncDeal
<1>2. CASE ok
  <2> DEFINE new == [seq |-> deal_seq + 1, redeal |-> isRedeal]
  <2>1. dealing' /\ deal_workers' = deal_workers \cup {new}
    BY <1>1, <1>2
  <2>2. new.seq = deal_seq' /\ (new.redeal <=> game' # "none")
    BY <1>0
  <2> HIDE DEF new
  <2> QED BY <1>0, <2>1, <2>2
<1>3. CASE ~ok
  <2>1. ~dealing' /\ deal_workers' = deal_workers
    BY <1>1, <1>3
  <2> QED BY <1>0, <2>1
<1> QED BY <1>2, <1>3

\* A vacated seat: either there was no match, and nothing of one is left behind,
\* or the match is aborted and its threads are outnumbered.
LEMMA VacateDeal ==
    ASSUME TypeOK, RetryHasTimer, DealInv, NEW s \in Seat, VacateAndAbort(s)
    PROVE  DealInv'
<1> USE DEF DealInv, VacateAndAbort, TypeOK, matchVars, dealVars, workerVars
<1>1. CASE MatchInProgress
  <2>1. /\ ~dealing' /\ ~waiting_prefetch' /\ ~prefetching' /\ ~set_over'
        /\ game' = "none" /\ next_pack' = 0 /\ match_done' = 0 /\ finished' = 0
        /\ board_closed' = {} /\ set_score' = Zero /\ last_score' = Zero
    BY <1>1 DEF AbortGame, ClearScores, DropPrefetch
  <2>2. \A w \in deal_workers' : w.seq <= deal_seq' /\ w.seq # deal_seq'
    BY <1>1 DEF AbortGame, DealSide, DealThreadsAwaited, DealOK, DealWorker
  <2>3. \A w \in prefetch_workers' : w.seq <= prefetch_seq' /\ w.seq # prefetch_seq'
    BY <1>1 DEF AbortGame, DropPrefetch, PrefetchSide, PrefetchThreadsAwaited, DealOK,
       PrefetchWorker
  <2>4. DealSide'
    BY <2>1, <2>2 DEF DealSide, DealingHasWorker, DealThreadsAwaited
  <2>5. PrefetchSide'
    BY <2>1, <2>3 DEF PrefetchSide, PrefetchForNextGame, PrefetchThreadsAwaited
  <2>6. MatchSide'
    BY <2>1 DEF MatchSide, MatchSeatsTaken, BoardStandsAlone, NothingFromOldMatch,
       BetweenGames
  <2> QED BY <2>4, <2>5, <2>6
<1>2. CASE ~MatchInProgress
  <2>1. UNCHANGED <<match_total, matchVars, dealVars, workerVars>>
    BY <1>2
  <2>2. match_done = 0 /\ game = "none" /\ ~dealing /\ ~set_over
    BY <1>2 DEF MatchInProgress, MatchOK
  <2>3. DealSide'
    BY <2>1 DEF DealSide, DealingHasWorker, DealThreadsAwaited, LiveDealWorker
  <2>4. PrefetchSide'
    BY <2>1 DEF PrefetchSide, PrefetchForNextGame, PrefetchThreadsAwaited,
       LivePrefetchWorker, PrefetchedGame
  <2>5. board_closed' = {}
    BY <1>2, <2>2 DEF MatchSide, BoardStandsAlone
  <2>6. MatchSide'
    BY <2>1, <2>2, <2>5
       DEF MatchSide, MatchSeatsTaken, BoardStandsAlone, NothingFromOldMatch, BetweenGames
  <2> QED BY <2>3, <2>4, <2>6
<1> QED BY <1>1, <1>2

\* The bookkeeping of a start, and the seats it found.
LEMMA OpenSmallGameSide ==
    ASSUME TypeOK, DealInv, NEW s \in Seat, OpenSmallGame(s)
    PROVE  /\ occupied' = Seat /\ ready' = Seat /\ board_closed' = {}
           /\ game = "none" /\ ~dealing /\ ~waiting_prefetch
           /\ match_done' \in Nat \ {0} /\ match_total' = match_total /\ ~set_over'
           /\ ~set_over => match_done' = match_done + 1
           /\ last_score' = Zero
           /\ finished' = 0 => set_score' = Zero
           /\ set_over => ~prefetching /\ next_pack = 0
<1> USE DEF TypeOK, OpenSmallGame, SetReady, BetweenGames
<1>1. occupied' = Seat /\ ready' = Seat /\ match_total' = match_total
  BY DEF EveryoneReady
<1>2. board_closed' = {}
  BY DEF DealInv, MatchSide, BoardStandsAlone
<1>3. game = "none" /\ ~dealing
  OBVIOUS
<1>4. ~waiting_prefetch
  BY <1>3 DEF DealInv, PrefetchSide, PrefetchForNextGame
<1>5. match_done' \in Nat \ {0} /\ (~set_over => match_done' = match_done + 1)
  BY DEF MatchOK
<1>6. ~set_over' /\ last_score' = Zero
  OBVIOUS
<1>7. finished' = 0 => set_score' = Zero
  BY DEF DealInv, MatchSide, NothingFromOldMatch
<1>8. set_over => ~prefetching /\ next_pack = 0
  BY DEF DealInv, MatchSide, BoardStandsAlone
<1> QED BY <1>1, <1>2, <1>3, <1>4, <1>5, <1>6, <1>7, <1>8

\* A step that touches neither the deal nor the match disturbs only the seats.
LEMMA SeatsOnlyDeal ==
    ASSUME DealInv, UNCHANGED <<match_total, matchVars, dealVars, workerVars>>,
           match_done > 0 => occupied' = Seat,
           ~BetweenGames => ready' = Seat,
           ~set_over => board_closed' = {}
    PROVE  DealInv'
<1> USE DEF DealInv, matchVars, dealVars, workerVars
<1>1. DealSide'
  BY DEF DealSide, DealingHasWorker, DealThreadsAwaited, LiveDealWorker
<1>2. PrefetchSide'
  BY DEF PrefetchSide, PrefetchForNextGame, PrefetchThreadsAwaited, LivePrefetchWorker,
     PrefetchedGame
<1>3. MatchSide'
  BY DEF MatchSide, MatchSeatsTaken, BoardStandsAlone, NothingFromOldMatch, BetweenGames
<1> QED BY <1>1, <1>2, <1>3

LEMMA SeatStepDeal ==
    ASSUME TypeOK, TypeOK', RetryHasTimer, DealInv, NEW s \in Seat, SeatStep(s)
    PROVE  DealInv'
<1>0. /\ match_done > 0 => occupied = Seat
      /\ ~BetweenGames => ready = Seat /\ match_done > 0
      /\ ~set_over => board_closed = {}
      /\ match_done \in Nat /\ match_total \in Int
  <2>1. match_done \in Nat /\ match_total \in Int
    BY TotalIsInt DEF TypeOK, MatchOK
  <2> QED
    BY <2>1 DEF DealInv, MatchSide, MatchSeatsTaken, BoardStandsAlone, NothingFromOldMatch
<1>a. DealSide /\ PrefetchSide /\ MatchSide
  BY DEF DealInv
<1>1. CASE EnterRoom(s)
  <2>1. s \notin occupied
    BY <1>1 DEF EnterRoom, IsFreeSeat
  <2>2. match_done = 0 /\ BetweenGames
    BY <1>0, <2>1
  <2> QED BY <1>0, <1>1, <2>2, SeatsOnlyDeal DEF EnterRoom
<1>2. CASE LeaveRoom(s) \/ RetryFailed(s)
  <2>1. VacateAndAbort(s)
    BY <1>2 DEF LeaveRoom, RetryFailed
  <2> QED BY <2>1, VacateDeal
<1>3. CASE Disconnect(s) \/ Reconnect(s) \/ TimerExpires(s)
  BY <1>0, <1>3, SeatsOnlyDeal DEF Disconnect, Reconnect, TimerExpires, seatVars
<1>4. CASE RetryTooLate(s) \/ RetryAgain(s)
  BY <1>0, <1>4, SeatsOnlyDeal DEF RetryTooLate, RetryAgain, seatVars
<1>5. CASE CloseBoard(s)
  BY <1>0, <1>5, SeatsOnlyDeal DEF CloseBoard
<1>6. CASE Unready(s) \/ ReadyAndWait(s)
  BY <1>0, <1>6, SeatsOnlyDeal DEF Unready, ReadyAndWait, SetReady
<1>7. CASE StartWithPack(s)
  <2>1. OpenSmallGame(s) /\ ~set_over /\ next_pack # 0 /\ deal_workers' = deal_workers
        /\ FinishDeal(match_done + 1, prefetching, 0, prefetch_workers)
    BY <1>7 DEF StartWithPack
  <2>2. /\ occupied' = Seat /\ ready' = Seat /\ board_closed' = {}
        /\ ~dealing /\ match_done' = match_done + 1 /\ match_done' \in Nat \ {0}
        /\ match_total' = match_total /\ ~set_over'
        /\ last_score' = Zero /\ (finished' = 0 => set_score' = Zero)
    BY <2>1, OpenSmallGameSide
  <2>3. /\ game' = "call" /\ ~dealing' /\ deal_seq' = deal_seq
    BY <2>1 DEF FinishDeal
  <2>b. deal_workers' = deal_workers
    BY <2>1
  <2>4. ~prefetching /\ ~waiting_prefetch
    BY <1>a, <2>1, <2>2 DEF PrefetchSide, PrefetchForNextGame
  <2>5. DealSide'
    BY <1>a, <2>b, <2>2, <2>3 DEF DealSide, DealThreadsAwaited, DealingHasWorker
  <2>6. PrefetchSide'
    <3>1. match_done + 1 \in Nat /\ 0 \in Nat
          /\ prefetch_workers \in SUBSET prefetch_workers
      BY <1>0
    <3>b. prefetching \in BOOLEAN
      BY DEF TypeOK, FlagsOK
    <3>2. \A w \in prefetch_workers : w.seq <= prefetch_seq /\ w.seq # prefetch_seq
      BY <1>a, <2>4 DEF PrefetchSide, PrefetchThreadsAwaited
    <3>3. MatchOK /\ DealOK /\ MatchOK'
      BY DEF TypeOK
    <3> QED BY <2>1, <2>2, <2>4, <3>1, <3>b, <3>2, <3>3, FinishDealPrefetch
  <2>7. MatchSide'
    BY <2>2, <2>3 DEF MatchSide, MatchSeatsTaken, BoardStandsAlone, NothingFromOldMatch
  <2> QED BY <2>5, <2>6, <2>7 DEF DealInv
<1>8. CASE StartWaiting(s)
  <2>1. OpenSmallGame(s) /\ ~set_over /\ next_pack = 0 /\ prefetching
        /\ UNCHANGED <<game, deal_seq, prefetching, prefetch_seq, next_pack, workerVars>>
        /\ dealing' /\ waiting_prefetch'
    BY <1>8 DEF StartWaiting
  <2>2. /\ occupied' = Seat /\ ready' = Seat /\ board_closed' = {}
        /\ game = "none" /\ ~dealing /\ ~waiting_prefetch
        /\ match_done' = match_done + 1 /\ match_done' \in Nat \ {0}
        /\ match_total' = match_total /\ ~set_over'
        /\ last_score' = Zero /\ (finished' = 0 => set_score' = Zero)
    BY <2>1, OpenSmallGameSide
  <2>3. DealSide'
    BY <1>a, <2>1, <2>2
       DEF DealSide, DealThreadsAwaited, DealingHasWorker, workerVars
  <2>4. PrefetchSide'
    BY <1>a, <2>1, <2>2
       DEF PrefetchSide, PrefetchForNextGame, PrefetchThreadsAwaited, PrefetchedGame,
           LivePrefetchWorker, workerVars
  <2>5. MatchSide'
    BY <2>2 DEF MatchSide, MatchSeatsTaken, BoardStandsAlone, NothingFromOldMatch
  <2> QED BY <2>3, <2>4, <2>5 DEF DealInv
<1>9. CASE StartAsync(s)
  <2>1. OpenSmallGame(s) /\ BeginAsyncDeal(FALSE)
    BY <1>9 DEF StartAsync
  <2>2. /\ occupied' = Seat /\ ready' = Seat /\ board_closed' = {}
        /\ game = "none" /\ ~dealing /\ ~waiting_prefetch
        /\ match_done' \in Nat \ {0} /\ match_total' = match_total /\ ~set_over'
        /\ last_score' = Zero /\ (finished' = 0 => set_score' = Zero)
        /\ set_over => ~prefetching /\ next_pack = 0
    BY <2>1, OpenSmallGameSide
  <2>3. DealSide'
    <3>1. DealOK /\ FALSE \in BOOLEAN /\ (FALSE <=> game # "none")
      BY <2>2 DEF TypeOK
    <3> QED BY <1>a, <2>1, <3>1, BeginAsyncDealSide DEF DealSide
  <2>4. ~prefetching /\ next_pack = 0
    BY <1>9, <2>2 DEF StartAsync
  <2>5. ~prefetching' /\ next_pack' = 0 /\ prefetch_seq' >= prefetch_seq
    BY <1>9, <2>4 DEF StartAsync, DropPrefetch, TypeOK, DealOK
  <2>6. \A w \in prefetch_workers : w.seq < prefetch_seq /\ w.seq \in Nat
    BY <1>a, <2>4 DEF PrefetchSide, PrefetchThreadsAwaited, TypeOK, DealOK, PrefetchWorker
  <2>7. ~waiting_prefetch' /\ prefetch_workers' = prefetch_workers
    BY <2>1 DEF BeginAsyncDeal
  <2>8. PrefetchSide'
    BY <2>5, <2>6, <2>7
       DEF PrefetchSide, PrefetchForNextGame, PrefetchThreadsAwaited, TypeOK, DealOK
  <2>9. MatchSide'
    BY <2>2 DEF MatchSide, MatchSeatsTaken, BoardStandsAlone, NothingFromOldMatch
  <2> QED BY <2>3, <2>8, <2>9 DEF DealInv
<1>10. CASE CallLandlord(s)
  <2>1. /\ game = "call" /\ ~dealing /\ game' = "play" /\ ~dealing'
        /\ UNCHANGED <<seatVars, match_total, matchVars, deal_seq, waiting_prefetch,
                       prefetching, prefetch_seq, next_pack, workerVars>>
    BY <1>10 DEF CallLandlord, InGame
  <2> USE DEF seatVars, matchVars, workerVars
  <2>2. DealSide'
    BY <1>a, <2>1 DEF DealSide, DealThreadsAwaited, DealingHasWorker
  <2>3. PrefetchSide'
    BY <1>a, <2>1 DEF PrefetchSide, PrefetchForNextGame, PrefetchThreadsAwaited,
       LivePrefetchWorker, PrefetchedGame
  <2>4. MatchSide'
    BY <1>a, <2>1 DEF MatchSide, MatchSeatsTaken, BoardStandsAlone, NothingFromOldMatch,
       BetweenGames
  <2> QED BY <2>2, <2>3, <2>4 DEF DealInv
<1>11. CASE CallRedeal(s)
  <2>1. /\ game = "call" /\ ~dealing /\ BeginAsyncDeal(TRUE)
        /\ UNCHANGED <<seatVars, match_total, matchVars, prefetching, prefetch_seq,
                       next_pack>>
    BY <1>11 DEF CallRedeal, InGame
  <2> USE DEF seatVars, matchVars
  <2>2. DealSide'
    <3>1. DealOK /\ TRUE \in BOOLEAN /\ (TRUE <=> game # "none")
      BY <2>1 DEF TypeOK
    <3> QED BY <1>a, <2>1, <3>1, BeginAsyncDealSide DEF DealSide
  <2>3. ~waiting_prefetch /\ ~waiting_prefetch' /\ prefetch_workers' = prefetch_workers
        /\ game' = game
    BY <1>a, <2>1 DEF PrefetchSide, PrefetchForNextGame, BeginAsyncDeal
  <2>4. PrefetchSide'
    BY <1>a, <2>1, <2>3 DEF PrefetchSide, PrefetchForNextGame, PrefetchThreadsAwaited,
       LivePrefetchWorker, PrefetchedGame
  <2>5. MatchSide'
    BY <1>a, <2>1, <2>3 DEF MatchSide, MatchSeatsTaken, BoardStandsAlone,
       NothingFromOldMatch, BetweenGames
  <2> QED BY <2>2, <2>4, <2>5 DEF DealInv
<1>12. CASE \E score \in Outcomes : SmallOver(s, score)
  <2>1. /\ game = "play" /\ ~dealing /\ game' = "none" /\ ~dealing'
        /\ board_closed' = {} /\ finished' = finished + 1 /\ occupied' = occupied
        /\ set_over' => set_over \/ match_done >= match_total
        /\ UNCHANGED <<match_total, match_done, deal_seq, waiting_prefetch, prefetching,
                       prefetch_seq, next_pack, workerVars>>
    BY <1>12 DEF SmallOver, InGame, WasLastGame
  <2> USE DEF workerVars
  <2>2. ~set_over /\ match_done > 0
    BY <1>0, <1>a, <2>1 DEF MatchSide, BoardStandsAlone, BetweenGames
  <2>3. DealSide'
    BY <1>a, <2>1 DEF DealSide, DealThreadsAwaited, DealingHasWorker
  <2>4. PrefetchSide'
    BY <1>a, <2>1 DEF PrefetchSide, PrefetchForNextGame, PrefetchThreadsAwaited,
       LivePrefetchWorker, PrefetchedGame
  <2>5. MatchSide'
    <3>1. ~waiting_prefetch
      BY <1>a, <2>1 DEF PrefetchSide, PrefetchForNextGame
    <3>2. set_over' => match_done >= match_total /\ ~prefetching /\ next_pack = 0
      BY <1>0, <1>a, <2>1, <2>2, <3>1
         DEF PrefetchSide, PrefetchForNextGame, PrefetchedGame
    <3>3. finished' # 0
      BY <2>1 DEF TypeOK, MatchOK
    <3> QED BY <1>0, <2>1, <2>2, <3>2, <3>3
            DEF MatchSide, MatchSeatsTaken, BoardStandsAlone, NothingFromOldMatch,
                BetweenGames
  <2> QED BY <2>3, <2>4, <2>5 DEF DealInv
<1> QED
  BY <1>1, <1>2, <1>3, <1>4, <1>5, <1>6, <1>7, <1>8, <1>9, <1>10, <1>11, <1>12
     DEF SeatStep, OnRetry

LEMMA WorkerStepDeal ==
    ASSUME TypeOK, TypeOK', DealInv, WorkerStep
    PROVE  DealInv'
<1>a. DealSide /\ PrefetchSide /\ MatchSide
  BY DEF DealInv
<1>0. /\ match_done \in Nat /\ match_total \in Int
      /\ MatchOK /\ MatchOK' /\ DealOK /\ DealOK' /\ prefetching \in BOOLEAN
  BY TotalIsInt DEF TypeOK, MatchOK, FlagsOK
<1>b. dealing => match_done > 0 /\ occupied = Seat /\ ready = Seat /\ ~set_over
  BY <1>0, <1>a DEF MatchSide, MatchSeatsTaken, NothingFromOldMatch, BoardStandsAlone,
     BetweenGames
<1>c. prefetching => ~Dissolved
  BY <1>0, <1>a DEF MatchSide, MatchSeatsTaken, NothingFromOldMatch, Dissolved, Seat
<1>d. ASSUME game' = "call", ~dealing', dealing,
             UNCHANGED <<seatVars, match_total, matchVars>>
      PROVE  MatchSide'
  BY <1>a, <1>b, <1>0, <1>d DEF MatchSide, MatchSeatsTaken, NothingFromOldMatch,
     BoardStandsAlone, BetweenGames, seatVars, matchVars
<1>1. ASSUME NEW w \in deal_workers, OnDealReady(w) PROVE DealInv'
  <2>1. /\ deal_seq = w.seq /\ dealing
        /\ deal_workers' = deal_workers \ {w}
        /\ FinishDeal(match_done, prefetching, next_pack, prefetch_workers)
        /\ UNCHANGED <<seatVars, match_total, matchVars>>
    BY <1>1 DEF OnDealReady
  <2>2. game' = "call" /\ ~dealing' /\ deal_seq' = deal_seq
    BY <2>1 DEF FinishDeal
  <2>3. ~waiting_prefetch
    BY <1>a, <2>1 DEF DealSide, DealThreadsAwaited
  <2>4. DealSide'
    <3>1. \A v \in deal_workers' : v.seq # deal_seq
      <4> SUFFICES ASSUME NEW v \in deal_workers, v # w, v.seq = deal_seq PROVE FALSE
        BY <2>1
      <4>1. v \in DealWorker /\ w \in DealWorker
        BY <1>0 DEF DealOK
      <4>2. (v.redeal <=> game # "none") /\ (w.redeal <=> game # "none")
        <5>1. v \in deal_workers /\ w \in deal_workers /\ w.seq = deal_seq
          BY <2>1
        <5> QED BY <1>a, <5>1 DEF DealSide, DealThreadsAwaited
      <4>3. v.redeal \in BOOLEAN /\ w.redeal \in BOOLEAN
        BY <4>1, Zenon DEF DealWorker
      <4>4. v.redeal = w.redeal
        <5>1. ASSUME NEW x \in BOOLEAN, NEW y \in BOOLEAN, x <=> y PROVE x = y
          BY <5>1
        <5>2. v.redeal <=> w.redeal
          BY <4>2
        <5> QED BY <4>3, <5>1, <5>2
      <4>5. v = w
        BY <2>1, <4>1, <4>4 DEF DealWorker
      <4> QED BY <4>5
    <3>2. \A v \in deal_workers' : v.seq <= deal_seq
      BY <1>a, <2>1 DEF DealSide, DealThreadsAwaited
    <3> QED BY <2>2, <3>1, <3>2 DEF DealSide, DealingHasWorker, DealThreadsAwaited
  <2>5. PrefetchSide'
    <3>1. prefetching => /\ \E v \in prefetch_workers :
                               v.seq = prefetch_seq /\ v.for_game = match_done + 1
                         /\ match_done + 1 <= match_total
      BY <1>a, <2>3 DEF PrefetchSide, PrefetchForNextGame, LivePrefetchWorker,
         PrefetchedGame
    <3>2. next_pack # 0 => next_pack = match_done + 1 /\ next_pack <= match_total
                           /\ ~prefetching
      BY <1>a DEF PrefetchSide, PrefetchForNextGame
    <3>3. \A v \in prefetch_workers :
            /\ v.seq <= prefetch_seq
            /\ v.seq = prefetch_seq => prefetching /\ v.for_game = match_done + 1
      BY <1>a, <2>3 DEF PrefetchSide, PrefetchThreadsAwaited, PrefetchedGame
    <3>4. match_done' = match_done /\ match_total' = match_total /\ next_pack \in Nat
          /\ prefetch_workers \in SUBSET prefetch_workers
      BY <1>0, <2>1 DEF matchVars, DealOK
    <3> QED BY <1>0, <2>1, <3>1, <3>2, <3>3, <3>4, FinishDealPrefetch
  <2> QED BY <1>d, <2>1, <2>2, <2>4, <2>5 DEF DealInv
<1>2. ASSUME NEW w \in prefetch_workers, OnPrefetchAwaited(w) PROVE DealInv'
  <2>1. /\ prefetch_seq = w.seq /\ dealing /\ waiting_prefetch
        /\ FinishDeal(match_done, FALSE, next_pack, prefetch_workers \ {w})
        /\ UNCHANGED <<seatVars, match_total, matchVars, deal_workers>>
    BY <1>2 DEF OnPrefetchAwaited, CurrentPrefetch, AwaitsPrefetch
  <2>2. game' = "call" /\ ~dealing' /\ deal_seq' = deal_seq
    BY <2>1 DEF FinishDeal
  <2>3. prefetching /\ next_pack = 0
    BY <1>a, <2>1 DEF DealSide, DealingHasWorker, PrefetchSide, PrefetchForNextGame
  <2>4. DealSide'
    BY <1>a, <2>1, <2>2 DEF DealSide, DealingHasWorker, DealThreadsAwaited
  <2>5. PrefetchSide'
    <3>1. \A v \in prefetch_workers \ {w} : v.seq <= prefetch_seq /\ v.seq # prefetch_seq
      BY <1>0, <1>a, <2>1 DEF PrefetchSide, PrefetchThreadsAwaited, DealOK, PrefetchWorker
    <3>2. match_done' = match_done /\ match_total' = match_total /\ next_pack \in Nat
          /\ prefetch_workers \ {w} \in SUBSET prefetch_workers
      BY <1>0, <2>1 DEF matchVars, DealOK
    <3> QED BY <1>0, <2>1, <2>3, <3>1, <3>2, FinishDealPrefetch
  <2> QED BY <1>d, <2>1, <2>2, <2>4, <2>5 DEF DealInv
<1>3. ASSUME NEW w \in prefetch_workers, OnPrefetchKept(w) PROVE DealInv'
  <2>1. /\ prefetch_seq = w.seq /\ ~(dealing /\ waiting_prefetch)
        /\ ~prefetching' /\ next_pack' = w.for_game
        /\ prefetch_workers' = prefetch_workers \ {w}
        /\ UNCHANGED <<seatVars, match_total, matchVars, game, dealing, deal_seq,
                       waiting_prefetch, prefetch_seq, deal_workers>>
    BY <1>3 DEF OnPrefetchKept, CurrentPrefetch, AwaitsPrefetch
  <2> USE DEF seatVars, matchVars
  <2>2. ~waiting_prefetch
    BY <1>a, <2>1 DEF PrefetchSide, PrefetchForNextGame
  <2>3. prefetching /\ w.for_game = match_done + 1 /\ match_done + 1 <= match_total
    BY <1>a, <2>1, <2>2 DEF PrefetchSide, PrefetchForNextGame, PrefetchThreadsAwaited,
       PrefetchedGame
  <2>4. DealSide'
    BY <1>a, <2>1, <2>2 DEF DealSide, DealingHasWorker, DealThreadsAwaited, LiveDealWorker
  <2>5. PrefetchSide'
    <3>1. \A v \in prefetch_workers \ {w} : v.seq <= prefetch_seq /\ v.seq # prefetch_seq
      BY <1>0, <1>a, <2>1 DEF PrefetchSide, PrefetchThreadsAwaited, DealOK, PrefetchWorker
    <3> QED BY <2>1, <2>2, <2>3, <3>1
            DEF PrefetchSide, PrefetchForNextGame, PrefetchThreadsAwaited
  <2>6. MatchSide'
    BY <1>a, <1>0, <2>1, <2>3 DEF MatchSide, MatchSeatsTaken, NothingFromOldMatch,
       BoardStandsAlone, BetweenGames
  <2> QED BY <2>4, <2>5, <2>6 DEF DealInv
<1>4. ASSUME NEW w \in deal_workers, DropStaleDeal(w) PROVE DealInv'
  <2>1. /\ deal_seq # w.seq \/ ~dealing
        /\ deal_workers' = deal_workers \ {w}
        /\ UNCHANGED <<seatVars, match_total, matchVars, dealVars, prefetch_workers>>
    BY <1>4, <1>b DEF DropStaleDeal, Dissolved, Seat
  <2> USE DEF seatVars, matchVars, dealVars
  <2>2. DealSide'
    BY <1>a, <2>1 DEF DealSide, DealingHasWorker, DealThreadsAwaited, LiveDealWorker
  <2>3. PrefetchSide'
    BY <1>a, <2>1 DEF PrefetchSide, PrefetchForNextGame, PrefetchThreadsAwaited,
       LivePrefetchWorker, PrefetchedGame
  <2>4. MatchSide'
    BY <1>a, <2>1 DEF MatchSide, MatchSeatsTaken, NothingFromOldMatch, BoardStandsAlone,
       BetweenGames
  <2> QED BY <2>2, <2>3, <2>4 DEF DealInv
<1>5. ASSUME NEW w \in prefetch_workers, DropStalePrefetch(w) PROVE DealInv'
  <2>1. /\ prefetch_seq # w.seq \/ ~prefetching
        /\ prefetch_workers' = prefetch_workers \ {w}
        /\ UNCHANGED <<seatVars, match_total, matchVars, dealVars, deal_workers>>
    BY <1>5, <1>c DEF DropStalePrefetch, CurrentPrefetch
  <2> USE DEF seatVars, matchVars, dealVars
  <2>2. DealSide'
    BY <1>a, <2>1 DEF DealSide, DealingHasWorker, DealThreadsAwaited, LiveDealWorker
  <2>3. PrefetchSide'
    BY <1>a, <2>1 DEF PrefetchSide, PrefetchForNextGame, PrefetchThreadsAwaited,
       LivePrefetchWorker, PrefetchedGame
  <2>4. MatchSide'
    BY <1>a, <2>1 DEF MatchSide, MatchSeatsTaken, NothingFromOldMatch, BoardStandsAlone,
       BetweenGames
  <2> QED BY <2>2, <2>3, <2>4 DEF DealInv
<1> QED
  BY <1>1, <1>2, <1>3, <1>4, <1>5 DEF WorkerStep, DealWorkerStep, PrefetchWorkerStep

-----------------------------------------------------------------------------
(* The theorems *)

IInv == TypeOK /\ RetryHasTimer /\ DealInv

LEMMA InitIInv == Init => IInv
BY InitType, InitRetry, InitDeal DEF IInv

LEMMA NextIInv == IInv /\ [Next]_vars => IInv'
<1> SUFFICES ASSUME IInv, [Next]_vars PROVE IInv'
  OBVIOUS
<1>1. TypeOK' /\ RetryHasTimer'
  BY NextType, NextRetry DEF IInv, TypeOK
<1>2. DealInv'
  <2>1. CASE \E s \in Seat : SeatStep(s)
    BY <1>1, <2>1, SeatStepDeal DEF IInv
  <2>2. CASE WorkerStep
    BY <1>1, <2>2, WorkerStepDeal DEF IInv
  <2>3. CASE UNCHANGED vars
    <3>1. UNCHANGED <<occupied, ready, board_closed, match_total, matchVars, dealVars,
                      workerVars>>
      BY <2>3 DEF vars, seatVars
    <3>2. /\ match_done > 0 => occupied = Seat
          /\ ~BetweenGames => ready = Seat
          /\ ~set_over => board_closed = {}
      BY DEF IInv, DealInv, MatchSide, MatchSeatsTaken, BoardStandsAlone
    <3> QED BY <3>1, <3>2, SeatsOnlyDeal DEF IInv
  <2> QED BY <2>1, <2>2, <2>3 DEF Next
<1> QED BY <1>1, <1>2 DEF IInv

LEMMA Invariance == Spec => []IInv
BY InitIInv, NextIInv, PTL DEF Spec

\* A deal in progress always has the thread it waits for.
THEOREM DealsHaveWorkers == Spec => []DealingHasWorker
<1>1. IInv => DealingHasWorker
  BY DEF IInv, DealInv, DealSide
<1> QED BY <1>1, Invariance, PTL

\* Whatever is prefetched is for the next small game of this match.
THEOREM PrefetchIsForNextGame == Spec => []PrefetchForNextGame
<1>1. IInv => PrefetchForNextGame
  BY DEF IInv, DealInv, PrefetchSide
<1> QED BY <1>1, Invariance, PTL

\* A current sequence number means a result the room waits for.
THEOREM StaleThreadsAreOutnumbered == Spec => []OnlyAwaitedThreadsAreCurrent
<1>1. IInv => OnlyAwaitedThreadsAreCurrent
  BY DEF IInv, DealInv, DealSide, PrefetchSide, OnlyAwaitedThreadsAreCurrent
<1> QED BY <1>1, Invariance, PTL

\* The seats of a match stay taken to the end of its scoreboard (vacating one
\* runs abort_game), nothing goes on behind the scoreboard until try_start takes
\* it down, and no score, counter or pack of an old match is left for the next.
THEOREM MatchKeepsItsShape == Spec => []MatchInShape
<1>1. IInv => MatchInShape
  BY DEF IInv, DealInv, MatchSide, MatchInShape
<1> QED BY <1>1, Invariance, PTL

\* A retry handler that runs for a player who is back takes the first return
\* of on_retry, and leaves the seat.
THEOREM ReturnedPlayersStay == Spec => NoEvictionAfterReturn
<1>1. ASSUME IInv, NEW s \in online, OnRetry(s) PROVE s \in occupied'
  <2>1. BackOrGone(s) /\ s \in occupied
    BY <1>1 DEF IInv, RetryHasTimer, BackOrGone
  <2>2. RetryTooLate(s)
    BY <1>1, <2>1 DEF OnRetry, RetryAgain, RetryFailed
  <2>3. QED BY <2>1, <2>2 DEF RetryTooLate, seatVars
<1>2. IInv => [\A s \in online : OnRetry(s) => s \in occupied']_vars
  BY <1>1
<1> QED BY <1>2, Invariance, PTL DEF NoEvictionAfterReturn

\* What a step does to a small game that goes on: finish_deal with a redeal or
\* a late prefetch, and call_redeal, leave the count and the kept pack alone.
LEMMA GameGoesOn ==
    ASSUME IInv, [Next]_vars, game # "none", game' # "none"
    PROVE  /\ match_done' = match_done
           /\ next_pack # 0 => next_pack' = next_pack
<1>1. ~BetweenGames
  BY DEF BetweenGames
<1>2. ASSUME NEW s \in Seat, SeatStep(s)
      PROVE  match_done' = match_done /\ next_pack' = next_pack
  <2>1. CASE VacateAndAbort(s)
    <3>1. MatchInProgress BY DEF MatchInProgress
    <3>2. game' = "none" BY <2>1, <3>1 DEF VacateAndAbort, AbortGame
    <3>3. QED BY <3>2
  <2>2. CASE \E score \in Outcomes : SmallOver(s, score)
    BY <2>2 DEF SmallOver
  <2>3. CASE EnterRoom(s) \/ Disconnect(s) \/ Reconnect(s) \/ TimerExpires(s)
             \/ RetryTooLate(s) \/ RetryAgain(s) \/ CloseBoard(s) \/ Unready(s)
             \/ ReadyAndWait(s)
    BY <2>3 DEF EnterRoom, Disconnect, Reconnect, TimerExpires, RetryTooLate, RetryAgain,
                CloseBoard, Unready, ReadyAndWait, matchVars, dealVars
  <2>4. CASE CallLandlord(s) \/ CallRedeal(s)
    BY <2>4 DEF CallLandlord, CallRedeal, matchVars
  <2>5. ~(StartWithPack(s) \/ StartWaiting(s) \/ StartAsync(s))
    BY <1>1 DEF StartWithPack, StartWaiting, StartAsync, OpenSmallGame, SetReady
  <2>6. QED
    BY <1>2, <2>1, <2>2, <2>3, <2>4, <2>5 DEF SeatStep, LeaveRoom, OnRetry, RetryFailed
<1>3. ASSUME NEW w \in deal_workers, DealWorkerStep(w)
      PROVE  match_done' = match_done /\ next_pack' = next_pack
  BY <1>3 DEF DealWorkerStep, OnDealReady, DropStaleDeal, FinishDeal, matchVars, dealVars
<1>4. ASSUME NEW w \in prefetch_workers, PrefetchWorkerStep(w)
      PROVE  match_done' = match_done /\ (next_pack # 0 => next_pack' = next_pack)
  <2>1. CASE OnPrefetchKept(w)
    <3>1. prefetching
      BY <2>1 DEF OnPrefetchKept, CurrentPrefetch, IInv, DealInv, PrefetchSide,
                  PrefetchThreadsAwaited
    <3>2. next_pack = 0
      BY <3>1 DEF IInv, DealInv, PrefetchSide, PrefetchForNextGame
    <3>3. QED BY <2>1, <3>2 DEF OnPrefetchKept, matchVars
  <2>2. CASE OnPrefetchAwaited(w) \/ DropStalePrefetch(w)
    BY <2>2 DEF OnPrefetchAwaited, DropStalePrefetch, FinishDeal, matchVars, dealVars
  <2>3. QED BY <1>4, <2>1, <2>2 DEF PrefetchWorkerStep
<1>5. CASE UNCHANGED vars
  BY <1>5 DEF vars, matchVars, dealVars
<1> QED BY <1>2, <1>3, <1>4, <1>5 DEF Next, WorkerStep

\* A redeal (call, take_call_redeal, finish_deal) is the same small game again.
THEOREM RedealsKeepTheMatch == Spec => RedealKeepsMatch
<1>1. IInv /\ [Next]_vars
      => [game # "none" /\ game' # "none"
          => /\ match_done' = match_done
             /\ next_pack # 0 => next_pack' = next_pack]_vars
  BY GameGoesOn
<1> QED BY <1>1, Invariance, PTL DEF Spec, RedealKeepsMatch

-----------------------------------------------------------------------------
(* The count of small games, and that the room implements Match.  Both need *)
(* every thread to start: a deal whose thread fails stays counted in        *)
(* match_done (BoardAfterAgreedGames is violated then).                     *)

\* A match never has more small games than agreed on.  Without this the last
\* small game could be missed by the comparison in on_small_over.
CountInv == MatchAccounting /\ finished <= match_total

LEMMA TotalPositive == MatchOK => match_total \in Int /\ match_total >= 1
BY MatchTotalsAssumption DEF MatchOK

LEMMA ThreadsStart == ~ThreadMayFail => \A ok \in Started : ok
BY DEF Started

LEMMA InitCount == Init => CountInv
BY MatchTotalsAssumption DEF Init, CountInv, MatchAccounting, BetweenGames

\* A started small game is dealt or being dealt, and counted once.
LEMMA StartedGame ==
    ASSUME ~ThreadMayFail, IInv, CountInv, NEW s \in Seat,
           StartWithPack(s) \/ StartWaiting(s) \/ StartAsync(s)
    PROVE  /\ BetweenGames /\ ~BetweenGames'
           /\ occupied' = occupied /\ occupied = Seat /\ match_total' = match_total
           /\ ~set_over' /\ finished' = (IF set_over THEN 0 ELSE finished)
           /\ set_score' = (IF set_over THEN Zero ELSE set_score)
           /\ match_done' = finished' + 1
<1> USE DEF OpenSmallGame, SetReady, EveryoneReady
<1>1. OpenSmallGame(s)
    BY DEF StartWithPack, StartWaiting, StartAsync
<1>2. BetweenGames /\ match_done = finished /\ finished \in Nat
    BY <1>1 DEF CountInv, MatchAccounting, IInv, TypeOK, MatchOK
<1>3. ~BetweenGames'
    <2>1. CASE StartWithPack(s)
        BY <2>1 DEF StartWithPack, FinishDeal, BetweenGames
    <2>2. CASE StartWaiting(s)
        BY <2>2 DEF StartWaiting, BetweenGames
    <2>3. CASE StartAsync(s)
        BY <2>3, ThreadsStart DEF StartAsync, BeginAsyncDeal, BetweenGames
    <2>4. QED BY <2>1, <2>2, <2>3
<1>4. QED BY <1>1, <1>2, <1>3

LEMMA StartCount ==
    ASSUME ~ThreadMayFail, IInv, CountInv, NEW s \in Seat,
           StartWithPack(s) \/ StartWaiting(s) \/ StartAsync(s)
    PROVE  CountInv'
BY StartedGame, TotalPositive DEF CountInv, MatchAccounting, IInv, TypeOK, MatchOK

\* The last small game ends with the scoreboard, an earlier one without.
LEMMA SmallOverCount ==
    ASSUME IInv, CountInv, NEW s \in Seat, NEW score \in Outcomes, SmallOver(s, score)
    PROVE  CountInv'
<1>1. /\ ~BetweenGames /\ BetweenGames' /\ ~set_over
      /\ finished' = finished + 1 /\ match_done' = match_done /\ match_total' = match_total
    BY DEF SmallOver, InGame, BetweenGames, IInv, DealInv, MatchSide, BoardStandsAlone
<1>2. /\ match_done = finished + 1 /\ finished # match_total
      /\ finished <= match_total /\ finished \in Nat /\ match_total \in Int
    BY <1>1, TotalPositive DEF CountInv, MatchAccounting, IInv, TypeOK, MatchOK
<1>3. CASE WasLastGame
    <2>1. set_over'
        BY <1>3, Zenon DEF SmallOver
    <2>2. match_done >= match_total
        BY <1>3 DEF WasLastGame
    <2>3. match_done = match_total
        BY <1>2, <2>2, <1>1
    <2>4. QED BY <1>1, <1>2, <2>1, <2>3 DEF CountInv, MatchAccounting
<1>4. CASE ~WasLastGame
    <2>1. ~set_over'
        BY <1>1, <1>4, Zenon DEF SmallOver
    <2>2. ~(match_done >= match_total)
        BY <1>4 DEF WasLastGame
    <2>3. QED BY <1>1, <1>2, <2>1, <2>2 DEF CountInv, MatchAccounting
<1>5. QED BY <1>3, <1>4

LEMMA VacateCount ==
    ASSUME IInv, CountInv, NEW s \in Seat, VacateAndAbort(s)
    PROVE  CountInv'
<1>1. CASE MatchInProgress
    BY <1>1, TotalPositive
       DEF VacateAndAbort, AbortGame, CountInv, MatchAccounting, BetweenGames, IInv, TypeOK
<1>2. CASE ~MatchInProgress
    BY <1>2 DEF VacateAndAbort, CountInv, MatchAccounting, BetweenGames, matchVars, dealVars
<1>3. QED BY <1>1, <1>2

\* What every other step leaves as it is.
MatchView == <<match_total, match_done, set_over, set_score, finished, BetweenGames>>

LEMMA SeatsOnlyView ==
    UNCHANGED <<match_total, matchVars, dealVars>> => UNCHANGED MatchView
BY DEF matchVars, dealVars, MatchView, BetweenGames

LEMMA OtherSeatStepView ==
    ASSUME ~ThreadMayFail, NEW s \in Seat, SeatStep(s),
           ~VacateAndAbort(s), ~(StartWithPack(s) \/ StartWaiting(s) \/ StartAsync(s)),
           ~\E score \in Outcomes : SmallOver(s, score)
    PROVE  UNCHANGED MatchView
<1>1. CASE EnterRoom(s) \/ Disconnect(s) \/ Reconnect(s) \/ TimerExpires(s)
           \/ RetryTooLate(s) \/ RetryAgain(s) \/ Unready(s) \/ ReadyAndWait(s) \/ CloseBoard(s)
    <2>1. UNCHANGED <<match_total, matchVars, dealVars>>
        BY <1>1 DEF EnterRoom, Disconnect, Reconnect, TimerExpires, RetryTooLate, RetryAgain,
                    Unready, ReadyAndWait, SetReady, CloseBoard
    <2>2. QED BY <2>1, SeatsOnlyView
<1>2. CASE CallLandlord(s)
    BY <1>2 DEF CallLandlord, InGame, MatchView, matchVars, BetweenGames
<1>3. CASE CallRedeal(s)
    BY <1>3 DEF CallRedeal, InGame, BeginAsyncDeal, MatchView, matchVars, BetweenGames
<1>4. QED BY <1>1, <1>2, <1>3 DEF SeatStep, LeaveRoom, OnRetry, RetryFailed

LEMMA WorkerStepView ==
    ASSUME IInv, WorkerStep
    PROVE  UNCHANGED <<MatchView, occupied>>
<1>1. ASSUME NEW w \in deal_workers, DealWorkerStep(w)
      PROVE  UNCHANGED <<MatchView, occupied>>
    BY <1>1 DEF DealWorkerStep, OnDealReady, DropStaleDeal, FinishDeal, MatchView,
                matchVars, dealVars, seatVars, BetweenGames
<1>2. ASSUME NEW w \in prefetch_workers, PrefetchWorkerStep(w)
      PROVE  UNCHANGED <<MatchView, occupied>>
    <2>1. CASE OnPrefetchAwaited(w)
        BY <2>1 DEF OnPrefetchAwaited, AwaitsPrefetch, FinishDeal, MatchView, matchVars,
                    seatVars, BetweenGames
    <2>2. CASE OnPrefetchKept(w)
        BY <2>2 DEF OnPrefetchKept, MatchView, matchVars, seatVars, BetweenGames
    <2>3. CASE DropStalePrefetch(w)
        BY <2>3, SeatsOnlyView DEF DropStalePrefetch, seatVars
    <2>4. QED BY <1>2, <2>1, <2>2, <2>3 DEF PrefetchWorkerStep
<1>3. QED BY <1>1, <1>2 DEF WorkerStep

LEMMA ViewCount == CountInv /\ UNCHANGED MatchView => CountInv'
BY DEF CountInv, MatchAccounting, MatchView, BetweenGames

LEMMA NextCount == ~ThreadMayFail /\ IInv /\ CountInv /\ [Next]_vars => CountInv'
<1> SUFFICES ASSUME ~ThreadMayFail, IInv, CountInv, [Next]_vars PROVE CountInv'
    OBVIOUS
<1>1. ASSUME NEW s \in Seat, SeatStep(s) PROVE CountInv'
    <2>1. CASE VacateAndAbort(s) BY <2>1, VacateCount
    <2>2. CASE StartWithPack(s) \/ StartWaiting(s) \/ StartAsync(s) BY <2>2, StartCount
    <2>3. CASE \E score \in Outcomes : SmallOver(s, score) BY <2>3, SmallOverCount
    <2>4. QED BY <1>1, <2>1, <2>2, <2>3, OtherSeatStepView, ViewCount
<1>2. CASE WorkerStep BY <1>2, WorkerStepView, ViewCount
<1>3. CASE UNCHANGED vars BY <1>3, SeatsOnlyView, ViewCount DEF vars
<1>4. QED BY <1>1, <1>2, <1>3 DEF Next

LEMMA CountInvariance == ASSUME ~ThreadMayFail PROVE Spec => []CountInv
<1>1. IInv /\ CountInv /\ [Next]_vars => CountInv'
    BY NextCount
<1>2. QED BY <1>1, InitCount, Invariance, PTL DEF Spec

\* When threads start, match_done is the number of small games played plus the
\* one under way, and the scoreboard follows after just the agreed number of
\* them (try_start, on_small_over, abort_game).
THEOREM GamesAreCounted == ~ThreadMayFail /\ Spec => []MatchAccounting
<1>1. SUFFICES ASSUME ~ThreadMayFail PROVE Spec => []MatchAccounting
    OBVIOUS
<1>2. CountInv => MatchAccounting
    BY DEF CountInv
<1>3. Spec => []CountInv
    BY <1>1, CountInvariance
<1>4. QED BY <1>2, <1>3, PTL

-----------------------------------------------------------------------------
(* The room implements the match *)

LEMMA InitMatch == Init => MatchOfRoom!Init
BY DEF Init, MatchOfRoom!Init, MatchOfRoom!NoScore, MatchOfRoom!Player, BetweenGames, Zero, Seat

\* A vacated seat is Quit: the match is void, or none was in progress and
\* nothing of one is left to void.
LEMMA VacateIsQuit ==
    ASSUME IInv, NEW s \in Seat, s \in occupied, VacateAndAbort(s)
    PROVE  MatchOfRoom!Quit(s)
<1> USE DEF MatchOfRoom!Quit, MatchOfRoom!NoScore, MatchOfRoom!Player, Zero, Seat
<1>1. CASE MatchInProgress
    BY <1>1 DEF VacateAndAbort, AbortGame, ClearScores, BetweenGames
<1>2. CASE ~MatchInProgress
    <2>1. match_done = 0 /\ ~set_over /\ BetweenGames
        BY <1>2 DEF MatchInProgress, BetweenGames, IInv, TypeOK, MatchOK
    <2>2. finished = 0 /\ set_score = Zero
        BY <2>1 DEF IInv, DealInv, MatchSide, NothingFromOldMatch
    <2>3. /\ match_total' = match_total /\ finished' = 0 /\ set_score' = Zero
          /\ ~set_over' /\ BetweenGames' /\ occupied' = occupied \ {s}
        BY <1>2, <2>1, <2>2 DEF VacateAndAbort, matchVars, dealVars, BetweenGames
    <2>4. QED BY <2>3
<1>3. QED BY <1>1, <1>2

\* A free seat is found before a match only.
LEMMA EnterIsJoin ==
    ASSUME IInv, NEW s \in Seat, EnterRoom(s)
    PROVE  MatchOfRoom!Join(s)
<1>1. occupied # {} /\ s \notin occupied /\ occupied' = occupied \cup {s}
    BY DEF EnterRoom, Dissolved, IsFreeSeat
<1>2. match_done = 0
    BY <1>1 DEF IInv, DealInv, MatchSide, MatchSeatsTaken, TypeOK, MatchOK
<1>3. BetweenGames /\ finished = 0 /\ ~set_over
    BY <1>2, TotalPositive
       DEF IInv, TypeOK, DealInv, MatchSide, NothingFromOldMatch, BoardStandsAlone
<1>4. UNCHANGED <<match_total, matchVars, dealVars>>
    BY DEF EnterRoom
<1>5. QED BY <1>1, <1>3, <1>4 DEF MatchOfRoom!Join, matchVars, dealVars, BetweenGames

LEMMA StartIsStartGame ==
    ASSUME ~ThreadMayFail, IInv, CountInv, NEW s \in Seat,
           StartWithPack(s) \/ StartWaiting(s) \/ StartAsync(s)
    PROVE  MatchOfRoom!StartGame
BY StartedGame
   DEF MatchOfRoom!StartGame, MatchOfRoom!NoScore, MatchOfRoom!Player, Zero, Seat

LEMMA SmallOverIsEndGame ==
    ASSUME IInv, CountInv, NEW s \in Seat, NEW score \in Outcomes, SmallOver(s, score)
    PROVE  MatchOfRoom!EndGame(score)
<1>1. CountInv'
    BY SmallOverCount
<1>2. ~BetweenGames /\ BetweenGames' /\ ~set_over
    BY DEF SmallOver, InGame, BetweenGames, IInv, DealInv, MatchSide, BoardStandsAlone
<1>3. /\ finished' = finished + 1 /\ match_total' = match_total /\ occupied' = occupied
      /\ set_score' = [t \in Seat |-> set_score[t] + score[t]]
    BY DEF SmallOver
<1>4. set_over' <=> finished + 1 = match_total
    BY <1>1, <1>3 DEF CountInv, MatchAccounting
<1>5. QED BY <1>2, <1>3, <1>4 DEF MatchOfRoom!EndGame, MatchOfRoom!Player, Seat

LEMMA ViewStutters ==
    UNCHANGED <<MatchView, occupied>> => UNCHANGED MatchOfRoom!vars
BY DEF MatchView, BetweenGames, MatchOfRoom!vars

LEMMA NextMatch ==
    ASSUME ~ThreadMayFail, IInv, CountInv, [Next]_vars
    PROVE  MatchOfRoom!Next \/ UNCHANGED MatchOfRoom!vars
<1>1. ASSUME NEW s \in Seat, SeatStep(s)
      PROVE  MatchOfRoom!Next \/ UNCHANGED MatchOfRoom!vars
    <2> USE DEF MatchOfRoom!Player, Seat
    <2>1. CASE LeaveRoom(s) \/ RetryFailed(s)
        <3>1. s \in occupied /\ VacateAndAbort(s)
            BY <2>1 DEF LeaveRoom, RetryFailed, BackOrGone, IInv, RetryHasTimer
        <3>2. QED BY <3>1, VacateIsQuit DEF MatchOfRoom!Next
    <2>2. CASE EnterRoom(s)
        BY <2>2, EnterIsJoin DEF MatchOfRoom!Next
    <2>3. CASE StartWithPack(s) \/ StartWaiting(s) \/ StartAsync(s)
        BY <2>3, StartIsStartGame DEF MatchOfRoom!Next
    <2>4. CASE \E score \in Outcomes : SmallOver(s, score)
        BY <2>4, SmallOverIsEndGame DEF MatchOfRoom!Next
    <2>5. ASSUME Disconnect(s) \/ Reconnect(s) \/ TimerExpires(s) \/ RetryTooLate(s)
                 \/ RetryAgain(s) \/ Unready(s) \/ ReadyAndWait(s) \/ CloseBoard(s)
          PROVE  UNCHANGED MatchOfRoom!vars
        BY <2>5, SeatsOnlyView, ViewStutters
           DEF Disconnect, Reconnect, TimerExpires, RetryTooLate, RetryAgain, Unready,
               ReadyAndWait, SetReady, CloseBoard, seatVars
    <2>6. CASE CallLandlord(s)
        BY <2>6, ViewStutters
           DEF CallLandlord, InGame, MatchView, matchVars, seatVars, BetweenGames
    <2>7. CASE CallRedeal(s)
        BY <2>7, ViewStutters
           DEF CallRedeal, InGame, BeginAsyncDeal, MatchView, matchVars, seatVars, BetweenGames
    <2>8. QED BY <1>1, <2>1, <2>2, <2>3, <2>4, <2>5, <2>6, <2>7 DEF SeatStep, OnRetry
<1>2. CASE WorkerStep
    BY <1>2, WorkerStepView, ViewStutters
<1>3. CASE UNCHANGED vars
    BY <1>3, SeatsOnlyView, ViewStutters DEF vars, seatVars
<1>4. QED BY <1>1, <1>2, <1>3 DEF Next

\* When threads start, every handler, timer and late result of a room is a step
\* of the match it promises its players, or none: joined before the first
\* small game, void once somebody is gone, over after the agreed number.
THEOREM RoomKeepsMatch == ~ThreadMayFail /\ Spec => ImplementsMatch
<1>1. SUFFICES ASSUME ~ThreadMayFail PROVE Spec => ImplementsMatch
    OBVIOUS
<1>2. IInv /\ CountInv /\ [Next]_vars => [MatchOfRoom!Next]_(MatchOfRoom!vars)
    BY <1>1, NextMatch
<1>3. Spec => []CountInv
    BY <1>1, CountInvariance
<1>4. QED BY <1>2, <1>3, InitMatch, Invariance, PTL DEF Spec, ImplementsMatch, MatchOfRoom!Spec

=============================================================================
