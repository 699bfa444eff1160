-------------------------------- MODULE Room --------------------------------
(***************************************************************************)
(* One room of the server (struct Room and struct Seat of table.h), from   *)
(* the moment its creator sits down until the last seat is vacated.  The   *)
(* handlers of table.cpp run one at a time on the network thread, so each  *)
(* is one action here.  What runs beside them is modelled beside them: the *)
(* threads that pick a pack of cards and post their result back, and the   *)
(* asio timers of the reconnect window.                                    *)
(*                                                                         *)
(* The small game inside the room (class Game) is seen as the room sees    *)
(* it: absent, in its call phase, where it may ask for a redeal, or past   *)
(* it, where it ends with one score per seat.                              *)
(*                                                                         *)
(* A definition named after another with a suffix (MatchInProgress_NoGaps) *)
(* is that one with a plausible bug in it.  Nothing uses it: putting it in *)
(* the place of the right one must break a property (PROJECT.json).        *)
(***************************************************************************)
EXTENDS Integers, FiniteSets

CONSTANTS
    MatchTotals,    \* the numbers of small games a creator may ask for
    RetryMax,       \* cfg_.retry_max: reconnect windows of an offline seat
    Outcomes,       \* the score vectors a small game may end with
    ThreadMayFail,  \* whether the std::thread constructor may throw
    MaxSeq          \* bound: no small game starts and no redeal is asked for
                    \* once deal_seq or prefetch_seq has reached it

Seat == 0..2
Zero == [s \in Seat |-> 0]

ASSUME MatchTotalsAssumption == MatchTotals \subseteq 1..99
ASSUME RetryMaxAssumption == RetryMax \in Nat
ASSUME OutcomesAssumption == Outcomes \subseteq [Seat -> Int]
ASSUME ThreadMayFailAssumption == ThreadMayFail \in BOOLEAN
ASSUME MaxSeqAssumption == MaxSeq \in Nat

VARIABLES
    occupied, online, ready, board_closed,  \* struct Seat: the seats whose
    retry_timer,                            \*   field is set
    retry_left,                             \* struct Seat
    timer,              \* per seat: the asio timer behind retry_timer
    match_total, match_done, set_over,              \* struct Room
    set_score, last_score,                          \* struct Room
    game,               \* Room::game: "none", "call" or "play"
    dealing, deal_seq, waiting_prefetch,            \* struct Room
    prefetching, prefetch_seq,                      \* struct Room
    next_pack,          \* Room::next_pack: 0 when empty; otherwise the number of
                        \* the small game it was picked for (history)
    deal_workers,       \* running begin_async_deal threads
    prefetch_workers,   \* running start_prefetch threads
    finished            \* history: small games played to their end

seatVars  == <<occupied, online, ready, board_closed>>
retryVars == <<retry_left, retry_timer, timer>>
matchVars == <<match_done, set_over, set_score, last_score, finished>>
dealVars  == <<game, dealing, deal_seq, waiting_prefetch, prefetching,
               prefetch_seq, next_pack>>
workerVars == <<deal_workers, prefetch_workers>>
vars == <<seatVars, retryVars, match_total, matchVars, dealVars, workerVars>>

-----------------------------------------------------------------------------
(* Helpers of the handlers *)

MatchInProgress_NoGaps == game # "none" \/ dealing \/ set_over

MatchInProgress == game # "none" \/ dealing \/ match_done > 0 \/ set_over

\* maybe_dissolve: a room without players is erased, and find_room no longer
\* returns it.
Dissolved == occupied = {}

IsFreeSeat(s) == s \notin occupied /\ \A t \in Seat : t < s => t \in occupied

DropPrefetch_SameSeq ==
    prefetching' = FALSE /\ next_pack' = 0 /\ UNCHANGED prefetch_seq

DropPrefetch ==
    /\ prefetch_seq' = prefetch_seq + 1
    /\ prefetching' = FALSE
    /\ next_pack' = 0

\* Whether the thread starts: std::thread may throw, and the handler catches that.
Started == {ok \in BOOLEAN : ok \/ ThreadMayFail}

MoreGamesAfter_OneMore(done) == done <= match_total
MoreGamesAfter(done) == done < match_total

\* start_prefetch, with the values its caller has just given match_done,
\* prefetching, next_pack and the running threads.  Its catch clause looks at
\* dealing /\ waiting_prefetch, which its only caller has just cleared.
StartPrefetch(done, running, pack, workers) ==
    IF MoreGamesAfter(done) /\ ~running /\ pack = 0
    THEN /\ prefetch_seq' = prefetch_seq + 1
         /\ \E ok \in Started :
              /\ prefetching' = ok
              /\ prefetch_workers' =
                   IF ok THEN workers \cup {[seq |-> prefetch_seq + 1, for_game |-> done + 1]}
                         ELSE workers
    ELSE /\ prefetching' = running
         /\ prefetch_workers' = workers
         /\ UNCHANGED prefetch_seq

FinishDeal(done, running, pack, workers) ==
    /\ game' = "call"
    /\ dealing' = FALSE
    /\ waiting_prefetch' = FALSE
    /\ next_pack' = pack
    /\ StartPrefetch(done, running, pack, workers)
    /\ UNCHANGED deal_seq

BeginAsyncDeal(isRedeal) ==
    /\ waiting_prefetch' = FALSE
    /\ deal_seq' = deal_seq + 1
    /\ \E ok \in Started :
         /\ dealing' = ok
         /\ deal_workers' =
              IF ok THEN deal_workers \cup {[seq |-> deal_seq + 1, redeal |-> isRedeal]}
                    ELSE deal_workers
    /\ UNCHANGED <<game, prefetch_workers>>

ClearScores_Kept == last_score' = Zero /\ UNCHANGED set_score
ClearScores == set_score' = Zero /\ last_score' = Zero

AbortGame ==
    /\ dealing' = FALSE
    /\ deal_seq' = deal_seq + 1
    /\ waiting_prefetch' = FALSE
    /\ DropPrefetch
    /\ game' = "none"
    /\ match_done' = 0
    /\ ClearScores
    /\ set_over' = FALSE
    /\ ready' = {}
    /\ board_closed' = {}
    /\ finished' = 0

\* leave_room and the end of on_retry: the seat is emptied, and a match that
\* was in progress is aborted for everybody.
VacateAndAbort(s) ==
    /\ occupied' = occupied \ {s}
    /\ online' = online \ {s}
    /\ retry_left' = [retry_left EXCEPT ![s] = 0]
    /\ retry_timer' = retry_timer \ {s}
    /\ IF MatchInProgress
       THEN AbortGame
       ELSE /\ ready' = ready \ {s}
            /\ board_closed' = board_closed \ {s}
            /\ UNCHANGED <<matchVars, dealVars>>
    /\ UNCHANGED <<match_total, workerVars>>

-----------------------------------------------------------------------------
(* Sitting down, leaving, losing and regaining the connection *)

\* create_room: the creator sits on the first free seat of a new room.
Init ==
    /\ occupied = {0}
    /\ online = {0}
    /\ ready = {}
    /\ board_closed = {}
    /\ retry_left = Zero
    /\ retry_timer = {}
    /\ timer = [s \in Seat |-> "none"]
    /\ match_total \in MatchTotals
    /\ match_done = 0
    /\ set_over = FALSE
    /\ set_score = Zero
    /\ last_score = Zero
    /\ game = "none"
    /\ dealing = FALSE
    /\ deal_seq = 0
    /\ waiting_prefetch = FALSE
    /\ prefetching = FALSE
    /\ prefetch_seq = 0
    /\ next_pack = 0
    /\ deal_workers = {}
    /\ prefetch_workers = {}
    /\ finished = 0

\* attach.  The cancel reaches a waiting timer only: the handler of an expired
\* one is already queued and will run.
Attach(s) ==
    /\ online' = online \cup {s}
    /\ retry_left' = [retry_left EXCEPT ![s] = 0]
    /\ retry_timer' = retry_timer \ {s}
    /\ timer' = IF s \in retry_timer /\ timer[s] = "waiting"
                THEN [timer EXCEPT ![s] = "none"] ELSE timer

\* enter_room and sit_down.
EnterRoom(s) ==
    /\ ~Dissolved
    /\ IsFreeSeat(s)
    /\ occupied' = occupied \cup {s}
    /\ Attach(s)
    /\ ready' = ready \ {s}
    /\ board_closed' = IF set_over THEN board_closed \cup {s} ELSE board_closed
    /\ UNCHANGED <<match_total, matchVars, dealVars, workerVars>>

\* "leave", "leave_room" and "logout": the request comes over the connection
\* of the seat.
LeaveRoom(s) ==
    /\ s \in online
    /\ VacateAndAbort(s)
    /\ UNCHANGED timer

\* begin_retry, from on_close or from a heartbeat timeout.  The io_context
\* runs its handlers in the order they were queued, so a retry handler queued
\* before the seat came back runs before the new connection is lost.
Disconnect(s) ==
    /\ s \in online
    /\ timer[s] # "expired"
    /\ online' = online \ {s}
    /\ retry_left' = [retry_left EXCEPT ![s] = RetryMax]
    /\ retry_timer' = retry_timer \cup {s}
    /\ timer' = [timer EXCEPT ![s] = "waiting"]
    /\ UNCHANGED <<occupied, ready, board_closed, match_total, matchVars, dealVars,
                   workerVars>>

\* The login branch that finds the account's offline seat.
Reconnect(s) ==
    /\ s \in occupied
    /\ s \notin online
    /\ Attach(s)
    /\ UNCHANGED <<occupied, ready, board_closed, match_total, matchVars, dealVars,
                   workerVars>>

TimerExpires(s) ==
    /\ timer[s] = "waiting"
    /\ timer' = [timer EXCEPT ![s] = "expired"]
    /\ UNCHANGED <<seatVars, retry_left, retry_timer, match_total, matchVars, dealVars,
                   workerVars>>

BackOrGone_OnlyGone(s) == s \notin occupied
BackOrGone(s) == s \notin occupied \/ s \in online

WindowsLeft_Always(s) == TRUE
WindowsLeft(s) == retry_left[s] - 1 > 0

\* on_retry, first return: the seat came back, or was given up, before the
\* handler ran.
RetryTooLate(s) ==
    /\ timer[s] = "expired"
    /\ BackOrGone(s)
    /\ retry_timer' = retry_timer \ {s}
    /\ timer' = [timer EXCEPT ![s] = "none"]
    /\ UNCHANGED <<seatVars, retry_left, match_total, matchVars, dealVars, workerVars>>

\* The next window is granted, but its timer is not started.
RetryAgain_Unarmed(s) ==
    /\ timer[s] = "expired"
    /\ ~BackOrGone(s)
    /\ WindowsLeft(s)
    /\ retry_left' = [retry_left EXCEPT ![s] = @ - 1]
    /\ retry_timer' = retry_timer \cup {s}
    /\ timer' = [timer EXCEPT ![s] = "none"]
    /\ UNCHANGED <<seatVars, match_total, matchVars, dealVars, workerVars>>

\* The next window is granted, but not counted.
RetryAgain_Uncounted(s) ==
    /\ timer[s] = "expired"
    /\ ~BackOrGone(s)
    /\ WindowsLeft(s)
    /\ retry_timer' = retry_timer \cup {s}
    /\ timer' = [timer EXCEPT ![s] = "waiting"]
    /\ UNCHANGED <<seatVars, retry_left, match_total, matchVars, dealVars, workerVars>>

\* on_retry, second return: another window.
RetryAgain(s) ==
    /\ timer[s] = "expired"
    /\ ~BackOrGone(s)
    /\ WindowsLeft(s)
    /\ retry_left' = [retry_left EXCEPT ![s] = @ - 1]
    /\ retry_timer' = retry_timer \cup {s}
    /\ timer' = [timer EXCEPT ![s] = "waiting"]
    /\ UNCHANGED <<seatVars, match_total, matchVars, dealVars, workerVars>>

\* on_retry, to its end: the seat is given up.
RetryFailed(s) ==
    /\ timer[s] = "expired"
    /\ ~BackOrGone(s)
    /\ ~WindowsLeft(s)
    /\ timer' = [timer EXCEPT ![s] = "none"]
    /\ VacateAndAbort(s)

OnRetry(s) == RetryTooLate(s) \/ RetryAgain(s) \/ RetryFailed(s)

-----------------------------------------------------------------------------
(* Between two small games *)

CloseBoard(s) ==
    /\ s \in online
    /\ set_over
    /\ s \notin board_closed
    /\ board_closed' = board_closed \cup {s}
    /\ UNCHANGED <<occupied, online, ready, retryVars, match_total, matchVars, dealVars,
                   workerVars>>

BetweenGames == game = "none" /\ ~dealing

Unready(s) ==
    /\ s \in online
    /\ BetweenGames
    /\ ready' = ready \ {s}
    /\ UNCHANGED <<occupied, online, board_closed, retryVars, match_total, matchVars,
                   dealVars, workerVars>>

\* What the "ready" handler does before try_start.
SetReady(s) ==
    /\ s \in online
    /\ BetweenGames
    /\ set_over => s \in board_closed
    /\ ready' = ready \cup {s}
    /\ UNCHANGED <<occupied, online, retryVars, match_total>>

\* The loop at the head of try_start lets the start pass.
EveryoneReady(rd) ==
    /\ occupied = Seat /\ online = Seat /\ rd = Seat
    /\ set_over => board_closed = Seat

SeqBound == deal_seq < MaxSeq /\ prefetch_seq < MaxSeq

ReadyAndWait(s) ==
    /\ SetReady(s)
    /\ ~EveryoneReady(ready')
    /\ UNCHANGED <<board_closed, matchVars, dealVars, workerVars>>

\* The bookkeeping of try_start once the loop has passed.
OpenSmallGame(s) ==
    /\ SetReady(s)
    /\ EveryoneReady(ready')
    /\ SeqBound
    /\ match_done' = IF set_over THEN 1 ELSE match_done + 1
    /\ set_score' = IF set_over THEN Zero ELSE set_score
    /\ last_score' = Zero
    /\ set_over' = FALSE
    /\ board_closed' = IF set_over THEN {} ELSE board_closed
    /\ finished' = IF set_over THEN 0 ELSE finished

\* try_start finds a prefetched pack.
StartWithPack(s) ==
    /\ OpenSmallGame(s)
    /\ ~set_over /\ next_pack # 0
    /\ FinishDeal(match_done + 1, prefetching, 0, prefetch_workers)
    /\ UNCHANGED deal_workers

\* try_start finds a prefetch still running, and waits for it.
StartWaiting(s) ==
    /\ OpenSmallGame(s)
    /\ ~set_over /\ next_pack = 0 /\ prefetching
    /\ dealing' = TRUE
    /\ waiting_prefetch' = TRUE
    /\ UNCHANGED <<game, deal_seq, prefetching, prefetch_seq, next_pack, workerVars>>

\* try_start has nothing prepared, or has dropped it with the old set.
StartAsync(s) ==
    /\ OpenSmallGame(s)
    /\ set_over \/ (next_pack = 0 /\ ~prefetching)
    /\ IF set_over THEN DropPrefetch
                   ELSE UNCHANGED <<prefetch_seq, prefetching, next_pack>>
    /\ BeginAsyncDeal(FALSE)

-----------------------------------------------------------------------------
(* Threads that pick a pack, and the small game *)

\* As if a redeal were dealt from the pack kept for the next small game.
OnDealReady_FromNextPack(w) ==
    /\ w \in deal_workers
    /\ ~Dissolved /\ deal_seq = w.seq /\ dealing
    /\ w.redeal => game # "none"
    /\ deal_workers' = deal_workers \ {w}
    /\ FinishDeal(match_done, prefetching, 0, prefetch_workers)
    /\ UNCHANGED <<seatVars, retryVars, match_total, matchVars>>

\* on_deal_ready.  finish_deal would drop the pack of a redeal whose game is
\* gone; DealingHasWorker shows that such a result is never current.
OnDealReady(w) ==
    /\ w \in deal_workers
    /\ ~Dissolved /\ deal_seq = w.seq /\ dealing
    /\ w.redeal => game # "none"
    /\ deal_workers' = deal_workers \ {w}
    /\ FinishDeal(match_done, prefetching, next_pack, prefetch_workers)
    /\ UNCHANGED <<seatVars, retryVars, match_total, matchVars>>

DropStaleDeal(w) ==
    /\ w \in deal_workers
    /\ Dissolved \/ deal_seq # w.seq \/ ~dealing
    /\ deal_workers' = deal_workers \ {w}
    /\ UNCHANGED <<seatVars, retryVars, match_total, matchVars, dealVars, prefetch_workers>>

AwaitsPrefetch_Never == FALSE
AwaitsPrefetch == dealing /\ waiting_prefetch

CurrentPrefetch_AnySeq(w) == ~Dissolved
CurrentPrefetch(w) == ~Dissolved /\ prefetch_seq = w.seq

\* on_prefetch_ready while a started small game waits for it.
OnPrefetchAwaited(w) ==
    /\ w \in prefetch_workers
    /\ CurrentPrefetch(w)
    /\ AwaitsPrefetch
    /\ FinishDeal(match_done, FALSE, next_pack, prefetch_workers \ {w})
    /\ UNCHANGED <<seatVars, retryVars, match_total, matchVars, deal_workers>>

\* on_prefetch_ready ahead of time: the pack is kept.
OnPrefetchKept(w) ==
    /\ w \in prefetch_workers
    /\ CurrentPrefetch(w)
    /\ ~AwaitsPrefetch
    /\ prefetching' = FALSE
    /\ next_pack' = w.for_game
    /\ prefetch_workers' = prefetch_workers \ {w}
    /\ UNCHANGED <<seatVars, retryVars, match_total, matchVars, game, dealing, deal_seq,
                   waiting_prefetch, prefetch_seq, deal_workers>>

DropStalePrefetch(w) ==
    /\ w \in prefetch_workers
    /\ ~CurrentPrefetch(w)
    /\ prefetch_workers' = prefetch_workers \ {w}
    /\ UNCHANGED <<seatVars, retryVars, match_total, matchVars, dealVars, deal_workers>>

\* A game message is looked at only outside a deal.
InGame(phase) == game = phase /\ ~dealing

\* "call" that settles who called (the game moves on to Rob or Double).
CallLandlord(s) ==
    /\ s \in online
    /\ InGame("call")
    /\ game' = "play"
    /\ UNCHANGED <<seatVars, retryVars, match_total, matchVars, dealing, deal_seq,
                   waiting_prefetch, prefetching, prefetch_seq, next_pack, workerVars>>

\* "call" by which the third seat passes: take_call_redeal.
CallRedeal(s) ==
    /\ s \in online
    /\ InGame("call")
    /\ SeqBound
    /\ BeginAsyncDeal(TRUE)
    /\ UNCHANGED <<seatVars, retryVars, match_total, matchVars, prefetching, prefetch_seq,
                   next_pack>>

WasLastGame_OneMore == match_done > match_total
WasLastGame == match_done >= match_total

\* "play" of a seat's last cards, followed by on_small_over.
SmallOver(s, score) ==
    /\ s \in online
    /\ InGame("play")
    /\ last_score' = score
    /\ set_score' = [t \in Seat |-> set_score[t] + score[t]]
    /\ ready' = {}
    /\ board_closed' = {}
    /\ set_over' = IF WasLastGame THEN TRUE ELSE set_over
    /\ game' = "none"
    /\ finished' = finished + 1
    /\ UNCHANGED <<occupied, online, retryVars, match_total, match_done, dealing, deal_seq,
                   waiting_prefetch, prefetching, prefetch_seq, next_pack, workerVars>>

-----------------------------------------------------------------------------
SeatStep(s) ==
    \/ EnterRoom(s) \/ LeaveRoom(s) \/ Disconnect(s) \/ Reconnect(s)
    \/ TimerExpires(s) \/ OnRetry(s)
    \/ CloseBoard(s) \/ Unready(s)
    \/ ReadyAndWait(s) \/ StartWithPack(s) \/ StartWaiting(s) \/ StartAsync(s)
    \/ CallLandlord(s) \/ CallRedeal(s)
    \/ \E score \in Outcomes : SmallOver(s, score)

DealWorkerStep(w) == OnDealReady(w) \/ DropStaleDeal(w)

PrefetchWorkerStep(w) ==
    OnPrefetchAwaited(w) \/ OnPrefetchKept(w) \/ DropStalePrefetch(w)

WorkerStep ==
    \/ \E w \in deal_workers : DealWorkerStep(w)
    \/ \E w \in prefetch_workers : PrefetchWorkerStep(w)

Next == (\E s \in Seat : SeatStep(s)) \/ WorkerStep

Spec == Init /\ [][Next]_vars

\* DealEval::pick returns, a timer expires, and a queued handler runs.  Nothing
\* is assumed of players.  Pick shows when pick does not return: only if curl
\* children come to wait for each other's pipes, which is outside this module.
\* Each worker step ends one thread and a run starts few, so fairness to all
\* of them together leaves none behind.
Fairness ==
    /\ WF_vars(WorkerStep)
    /\ \A s \in Seat : WF_vars(TimerExpires(s)) /\ WF_vars(OnRetry(s))

FairSpec == Spec /\ Fairness

-----------------------------------------------------------------------------
(* Properties *)

DealWorker == [seq : Nat, redeal : BOOLEAN]
PrefetchWorker == [seq : Nat, for_game : Nat]

SeatsOK ==
    /\ occupied \subseteq Seat /\ online \subseteq Seat
    /\ ready \subseteq Seat /\ board_closed \subseteq Seat
    /\ retry_left \in [Seat -> 0..RetryMax] /\ retry_timer \subseteq Seat
    /\ timer \in [Seat -> {"none", "waiting", "expired"}]

MatchOK ==
    /\ match_total \in MatchTotals /\ match_done \in Nat /\ finished \in Nat
    /\ set_score \in [Seat -> Int] /\ last_score \in [Seat -> Int]

DealOK ==
    /\ game \in {"none", "call", "play"}
    /\ deal_seq \in Nat /\ prefetch_seq \in Nat /\ next_pack \in Nat
    /\ deal_workers \subseteq DealWorker
    /\ prefetch_workers \subseteq PrefetchWorker

FlagsOK ==
    /\ set_over \in BOOLEAN /\ dealing \in BOOLEAN
    /\ waiting_prefetch \in BOOLEAN /\ prefetching \in BOOLEAN

\* The fields of struct Seat, struct Room and the running threads have their
\* types; retry_left stays a number of windows of the configuration.
TypeOK == SeatsOK /\ MatchOK /\ DealOK /\ FlagsOK

LiveDealWorker(w) == w \in deal_workers /\ w.seq = deal_seq
LivePrefetchWorker(w) == w \in prefetch_workers /\ w.seq = prefetch_seq

\* A room that shows "dealing" always has a thread still running whose result
\* the sequence numbers will accept, of the kind the flags wait for, and a
\* redeal result finds its game: no abort, restart, redeal, prefetch or failed
\* thread leaves the three players in front of a deal that never comes.
DealingHasWorker ==
    dealing => IF waiting_prefetch
               THEN prefetching /\ game = "none"
               ELSE \E w \in deal_workers :
                       LiveDealWorker(w) /\ (w.redeal <=> game # "none")

\* The small game a running prefetch is for.
PrefetchedGame == IF waiting_prefetch THEN match_done ELSE match_done + 1

\* A prefetch that is marked as running really runs, a kept pack excludes a
\* running prefetch, and either was picked for the very small game that will be
\* dealt from it: the next of this match, never one of an aborted match or of
\* a finished set, and never the one a redeal repeats.
PrefetchForNextGame ==
    /\ prefetching => /\ \E w \in prefetch_workers :
                            LivePrefetchWorker(w) /\ w.for_game = PrefetchedGame
                      /\ PrefetchedGame <= match_total
    /\ next_pack # 0 => /\ next_pack = match_done + 1
                        /\ next_pack <= match_total
                        /\ ~prefetching
    /\ waiting_prefetch => dealing

DealThreadsAwaited ==
    \A w \in deal_workers :
        /\ w.seq <= deal_seq
        /\ w.seq = deal_seq => /\ dealing /\ ~waiting_prefetch
                               /\ w.redeal <=> game # "none"

PrefetchThreadsAwaited ==
    \A w \in prefetch_workers :
        /\ w.seq <= prefetch_seq
        /\ w.seq = prefetch_seq => prefetching /\ w.for_game = PrefetchedGame

\* A sequence number never lets a forgotten thread through: the result of any
\* thread whose number is current is one the room is waiting for, so no abort,
\* restart or failed thread lets a second result into a deal.
OnlyAwaitedThreadsAreCurrent == DealThreadsAwaited /\ PrefetchThreadsAwaited

\* Nobody is missing from a match: the seats of a room stay taken from the
\* first deal to the end of the scoreboard (vacating one aborts the match), and
\* while a small game is dealt or played all three are still marked ready.
MatchSeatsTaken ==
    /\ match_done > 0 => occupied = Seat
    /\ ~BetweenGames => ready = Seat

\* A seat waits for its player exactly while its retry timer is set, and that
\* timer is then pending or its handler queued: a dropped player's seat is
\* never left taken with nothing to free it.
RetryHasTimer ==
    /\ online \subseteq occupied
    /\ retry_timer = occupied \ online
    /\ \A s \in retry_timer : timer[s] # "none"

\* The scoreboard of a set stands alone: no game, no deal and nothing
\* prefetched behind it, and a seat has it closed only while it stands.
BoardStandsAlone ==
    /\ set_over => /\ BetweenGames
                   /\ match_done >= match_total
                   /\ ~prefetching /\ next_pack = 0
    /\ ~set_over => board_closed = {}

\* Scores and packs belong to the match on the table: before its first small
\* game has ended nobody has a score, and before its first small game is dealt
\* nothing is prefetched, whatever was played, aborted or left before.
NothingFromOldMatch ==
    /\ finished = 0 => set_score = Zero /\ last_score = Zero
    /\ match_done = 0 => /\ finished = 0
                         /\ BetweenGames
                         /\ ~prefetching /\ next_pack = 0

\* What the flags and counters of a room say together is a match: seats, scores,
\* prefetches and scoreboard belong to the one on the table, through aborts,
\* redeals and new sets.
MatchInShape == MatchSeatsTaken /\ BoardStandsAlone /\ NothingFromOldMatch

\* A retry handler never takes the seat of a player who is back, however late
\* the cancelled timer's handler runs.
NoEvictionAfterReturn ==
    [][\A s \in online : OnRetry(s) => s \in occupied']_vars

\* A redeal is the same small game again: the count of small games stands, and
\* the pack prefetched for the next one is not spent on it.
RedealKeepsMatch ==
    [][game # "none" /\ game' # "none"
       => /\ match_done' = match_done
          /\ next_pack # 0 => next_pack' = next_pack]_vars

\* When threads start, match_done counts the small games of the match that were
\* played, with the one being dealt or played, and the scoreboard appears after
\* exactly the number of small games agreed on.
MatchAccounting ==
    /\ match_done = IF BetweenGames THEN finished ELSE finished + 1
    /\ set_over <=> finished = match_total

\* Every deal comes to an end: the cards arrive or the match is aborted.
DealCompletes == dealing ~> ~dealing

\* A player who dropped comes back or the seat is freed.
DroppedSeatResolves ==
    \A s \in Seat : (s \in occupied \ online) ~> (s \notin occupied \ online)

\* table.h:187 and the README: three players online and ready start a small game.
TrioOnlineAndReadyStarts == ~(EveryoneReady(ready) /\ BetweenGames)

\* The README: the scoreboard of the set follows the agreed number of small games.
BoardAfterAgreedGames == set_over => finished = match_total

\* The room seen as a match: its players are the taken seats, a small game
\* lasts from the start of its deal to its end.
MatchOfRoom == INSTANCE Match WITH
    Totals <- MatchTotals,
    Results <- Outcomes,
    total <- match_total,
    present <- occupied,
    stage <- IF set_over THEN "board" ELSE IF BetweenGames THEN "lobby" ELSE "game",
    played <- finished,
    score <- set_score

\* When threads start, the room implements the match it promises.
ImplementsMatch == MatchOfRoom!Spec

=============================================================================
