# A TLA+ verification project for AI-Doudizhu

AI-Doudizhu is a three-player card game (斗地主) played in the browser. A C++
server (`src/server/src`) keeps the rooms, seats and games, picks every pack of
cards with the help of a language model, and talks to the browsers over
WebSockets. This directory holds TLA+ modules of the server's own logic, TLC
configurations that check them on small instances, and TLAPS proofs of what
matters most.

## 1. The system and its parts

| Component | State | Operations | Talks to |
|---|---|---|---|
| **Table** (`table.cpp`): rooms, sessions | `rooms_` (seats, match counters, scores, deal flags, sequence numbers, the small game), `sessions_` (connection -> account, room) | one handler per message (`login`, `logout`, `create_room`, `enter_room`, `leave`, `ready`, `unready`, `close_board`, `call`, `rob`, `double`, `play`, `pass`), `on_close`, `heartbeat`, `on_retry`, `on_deal_ready`, `on_prefetch_ready` | Game (calls), worker threads (spawn, posted results), timers (defer, cancel), network (send, close) |
| **Game** (`game.cpp`): one small game | phase, actor, caller, landlord, multiplier, hands, last play, pass and play counts | `start_deal`, `on_call`, `on_rob`, `on_double`, `on_play`, `on_pass`, `take_call_redeal` | Cards (pure), Table (calls it) |
| **Cards** (`cards.cpp`): patterns | none | fourteen matchers, `unique_hit`, `hit_as`, `beats`, `remove_cards`, `random_int` | |
| **DealAssign** (`deal_assign.cpp`) | none | `apply`: hands to seats by score | |
| **DealEval** (`deal_eval.cpp`) | prompt | `pick`: five shuffles, one chosen by the model, the first one as fallback | runs on worker threads; DeepSeek client |
| **DeepSeek client** (`deepseek_client.cpp`) | none of its own; pipes and child processes | `chat`, `http_post` (retries), `http_post_once` (pipe, fork, exec curl, write, read, wait) | curl; several threads at once |
| **Network** (`net/http_ws_server.cpp`) | connections, timers | `send`, `close`, `defer`, `cancel`, `post`, `run` | one network thread runs every handler |
| **Browser client** (`web/src/app.js`, `cards.js`) | socket, reconnect budget, view; a copy of the card rules | login, reconnect every 10 s, buttons | server |
| **MySQL** (`mysql_handle.cpp`) | external | `login` | |

How they interact, and what is hard:

* Every handler of `Table` runs on the network thread, one after the other, so
  a handler is atomic. Interleaving comes from what runs beside it: the
  *detached threads* that pick a pack and post the result back, the *timers*
  whose handler may already be queued when they are cancelled, the *clients*
  that drop, come back, leave or send messages in any order.
* A result posted back is recognised by a sequence number only (`deal_seq`,
  `prefetch_seq`), and the room it belongs to may have aborted, restarted,
  redealt or dissolved meanwhile. This is the heart of the server and of this
  project: `Room.tla`.
* Several rooms pick at once: their threads fork children that inherit each
  other's pipes.
* Reconnecting keeps seat and cards; giving a seat up voids the whole match.
* The server knows a player twice, by the session of a connection and by the
  connection of a seat, and nothing but its handlers keeps the two in step while
  connections die, return and close late. The browser learns of a loss at
  another time than the server, and tries again on a clock of its own.

What makes each component correct:

* *Room*: a deal always ends; a late result never enters another deal; a
  prefetched pack is dealt for the small game it was prefetched for, and a
  redeal never uses it; the match is void as soon as a player is gone and
  nothing of it survives; the agreed number of small games is played; a dropped
  seat is regained or freed, never taken from a player who is back.
* *Game*: exactly one landlord, chosen by the order of calling and robbing; no
  card is lost or played twice; a play beats the last one; scores are zero-sum.
* *Cards*: a set of cards has the patterns the rules give it and no others;
  `beats` is a strict order on plays of a kind; server and browser agree.
* *DealAssign*: all hands are dealt, weaker ones to clearly leading seats.
* *Client of the model*: a pick always returns.
* *Lobby*: an account is online once and sits in one seat, to which it returns;
  sessions and seats say the same; a connection that died is noticed; a room
  exists while somebody sits in it.
* *Browser client*: never without a way back to the server while tries are left;
  what the page shows is what the server holds; a loss ends in a session, the
  login form or the last try.

The hazards this leaves for tests to miss are listed, each at its line, under
`hazards` in `PROJECT.json`, with the properties that cover them.

## 2. Modules

| Module | Models | Kind |
|---|---|---|
| `Room` | `table.cpp`, `table.h`: one room with its seats, match, deals, worker threads and timers | state machine |
| `Match` | what a room promises its players | abstract specification of `Room` |
| `Lobby` | `table.cpp`, `table.h`, `http_ws_server.cpp`: connections, sessions, accounts, the set of rooms | state machine |
| `Presence` | what the lobby promises the owner of an account | abstract specification of `Lobby` |
| `Client` | `app.js`: connect, its handlers, login, reload and views; extends `Lobby`, its server | state machine, composed with `Lobby` |
| `Game` | `game.cpp`: one small game | state machine |
| `SmallGame` | what a small game promises its room | abstract specification of `Game` |
| `Cards` | `cards.cpp` (and its copy `cards.js`): matchers, `all_hits`, `beats` | operators |
| `CardRules` | the same plays, said as rules | reference definition for `Cards` |
| `Swipe` | `cards.js`, `app.js`: `keepSwipeChain` and the swipe that calls it | state machine |
| `Pick` | `deepseek_client.cpp`, `deal_eval.cpp`: concurrent picks, their pipes and curl children | state machine |
| `Deal` | `deal_eval.cpp`, `deal_assign.cpp`, `random_int` of `cards.cpp`, `finish_deal`: from decks to the hands of seats | state machine |
| `MCRoom`, `MCLobby`, `MCClient`, `MCGame`, `MCSwipe`, `MCPick`, `MCDeal` | values of the constants for TLC | |
| `RoomProofs`, `LobbyProofs`, `ClientProofs`, `GameProofs`, `SettleProofs`, `SwipeProofs`, `DealProofs`, `PickProofs` | theorems and their proofs | |

A definition whose name is another's with a suffix (`MatchInProgress_NoGaps`)
is that definition with a plausible bug in it. No specification uses it; put in
the place of the right one it breaks a property, which shows that the property
depends on that code. `mutants` in `PROJECT.json` lists the pairs.

### Room

A handler runs to its end on the one network thread, so each is one action,
with every call it makes: `ready` with `try_start` is `ReadyAndWait`,
`StartWithPack`, `StartWaiting` or `StartAsync`, by the way `try_start` goes;
`on_retry` is `RetryTooLate`, `RetryAgain` or `RetryFailed`. Fields of
`struct Seat` that are flags are the sets of seats that have them set.

Three things happen beside the handlers. A *worker thread* is an element of
`deal_workers` or `prefetch_workers` with the sequence number it was started
with; its posted result is `OnDealReady`, `OnPrefetchAwaited`, `OnPrefetchKept`,
or is dropped. Threads of an earlier deal, match or set stay in these sets and
answer in any order. If `ThreadMayFail`, the constructor of `std::thread` may
throw and the catch clause runs. A *timer* is waiting, then expired with its
handler queued; cancelling reaches a waiting one only, as in asio. *Players*
come, leave, drop and return whenever they like.

The small game is `"none"`, `"call"` or `"play"` here: all the room looks at is
whether there is one, whether the call is undecided (redeal) and its scores at
the end. `Game` models the inside, and proves it keeps `SmallGame`.

`finished` and the numbers in `next_pack` and `for_game` are history: the code
does not know for which small game a pack was picked, the properties do.

### Lobby

`Lobby` is the same `table.cpp` seen from the other side: many rooms, and of each
only who holds which seat over which connection. `session_account` and
`session_room` are `sessions_`; `rooms`, `seat_account` and `seat_conn` are
`rooms_`. Each message is one action with every call it makes; `login` is
`LoginHall`, `LoginReconnect` or `LoginSeatOnline`, by the branch it takes, and a
message that is refused without a change is no step. The reconnect windows
(`begin_retry`, `on_retry`) are counted in `Room`; here a held seat may be given
up at any time.

A connection is open, *lost* (the browser is gone, the server does not know it)
or *closing* (the server has closed it, `on_close` is still to come). The
heartbeat may find any session silent: while the network thread waits for the
database, the pongs of everybody wait too. Connection numbers are used again in the model although the
server never does; `NothingOnClosed` shows that nothing is left that could
tell the difference. `LoginSent` says which logins the shipped page sends: none
over a connection that is logged in, unless the form is submitted twice
(`LoginTwice`). Then the same account is assumed: the page reads the form anew on
each submission (`app.js:108`) and the server takes any account over a connection
that is logged in (`table.cpp:849`), but the form is hidden as soon as an answer is
there, and a player who types another name in between is not modelled.

`Presence` is what an owner of an account sees: signed out, in the hall, or in
one seat, which is lost only by leaving or by staying away and to which a return
leads.

### Client

`Client` extends `Lobby`: its variables are those of one browser tab and of the
sockets between, and the server's side of each message is the action of `Lobby`,
together with the answer it sends. `Take` removes a message from a
connection and answers it in the same step, as a handler does. A socket of the
browser and the server's end of it close at different times (`SocketClosed`,
`ServerNotices`), in either order. `fetching` counts the calls
of `connect` that wait for `config.json`, `timers` those of `setTimeout`; the code
remembers only the last timer, which is why both are counted.

Only messages that change who is logged in or seated are in the queues. Pings
are not: a browser answers them over its latest socket, so the sessions that
fall silent for good are those of lost connections and of other sockets
(`Silent`). As in `Lobby`, the heartbeat may take any other session for silent too;
that counts as a fault and is not assumed to happen.

`doLogin` calls `connect` whenever the latest socket is not open (`app.js:113`),
whatever is under way (`LoginConnects`). `Ways` counts the fetches, timers and sockets
that are; a `patient` player submits the form without an open socket only when
there are none, another one at any time. Which of the two plays is chosen at the
start, because some properties are about the first one only. `Turn` is the
browser's: it opens its sockets to one server one at a time. `refused` is history:
the connections whose last login was refused, about which the page knows
nothing but a message that fades.

### Deal

`Choose` is `DealEval::pick` from five shuffled decks to the pack that is
returned, `Assign` and `PlaceTier` are `DealAssign::apply`, `FinishDeal` the rest of
`finish_deal` with the draw of the first caller. Decks, scores and the model's
reply are inputs; a reply is a sequence of what `parse_pick` tells apart. Every
random draw is a choice among the words that `random_int` accepts. Its
fallback without `/dev/urandom` draws from the same range with the
library's generator, which is left out.

### Game, Cards, Swipe

`Game` has one action per branch of `on_call`, `on_rob`, `on_double`,
`on_play` and `on_pass`, each with the calls that follow it (`reveal`,
`begin_play`, `settle`). Hands are sets: the code's hands hold different cards,
and the order they are sorted in decides nothing on the server. `Play` takes
any cards a seat could hold with any pattern they have. `answers` is history: the
code keeps who answered to rob (`rob_done`) and whether anybody robbed, the
property needs who robbed, and in which order.

`Cards` sees a set of cards as its counts per rank, as the matchers do
(`RankCount`); each matcher is an operator that gives the set of its hits.
`CardRules` says the same plays again, as bodies and wings, without looking at
how a matcher searches. `Swipe` adds what the browser drops from a swipe.

### Pick

A thread goes through `pipe`, `fork`, `close`, `write_all`, `read_all` and
`waitpid`; other threads do so in between. What decides whether a read ends is
who has a write end open, so the state is the write ends the server has
(`open`) and those each child has inherited (`held`). curl is outside the
repository; its arguments are not: `--data-binary @-` makes it read its input
to the end before it connects, and `-m` limits only what comes after.

## 3. Runs

| Run | Distinct states | Shows |
|---|---|---|
| `room_safety` | 666,776 | flags, sequence numbers, seats, scores and timers of a room agree in every interleaving |
| `room_promise` | 165,256 | the room counts small games rightly and implements `Match`; every deal ends, every dropped seat is regained or freed |
| `room_trio` | violation | finding 1 |
| `room_thread_fails` | violation | finding 2 |
| `game` | 1,180,271 | auction, turns, cards, winner, spring, scores; the game implements `SmallGame` |
| `swipe` | 75,952 | the matchers are the rules; no cards have two readings; a swipe keeps a legal play |
| `pick` | 11,967 | retries stay within their number; a pick returns unless children wait in a ring, and a ring is for ever |
| `pick_returns` | violation | finding 3 |
| `lobby` | 8,361 | accounts, sessions, seats and rooms agree whatever connections do; the heartbeat watches every seat; the lobby implements `Presence`; lost players are noticed |
| `client` | 267,322 | sockets, fetches and timers beside each other never leave the page without a way back, and the restoring view ends; for a player who waits, the page shows what the server holds unless its login was refused, and a loss resolves |
| `client_late` | violation | finding 4 |
| `deal` | 182,259 | the pack the model named is dealt, or one of the five; all hands dealt, close scores share a tier, clear leaders get weaker hands, even shuffles |

Bounds, and why they are enough:

* `Room.MaxSeq` stops small games and redeals when a sequence number reaches
  it (1 to 3). Three is enough for two stale threads beside a current one: an
  abort, a restart and a redeal, or a prefetch dropped and started again.
  A room compares sequence numbers for equality only.
* `MatchTotals` {1, 2}: a match without prefetch, and one where a prefetch is
  made and is for the last small game. A third small game would repeat the
  second one's start; `GamesAreCounted` and `RoomKeepsMatch` are for every length.
* `RetryMax` 2 gives a window that is followed by another one and one that is
  not; the two runs that are not about it take 1.
* `Outcomes`: one score vector each way, with different numbers. Scores are
  only added and cleared.
* `Game.Packs`: eight cards stand for the 54, with a bomb in one hand, half a
  rocket in another whose other half is in the bottom, a pair to split and
  a landlord who may be any seat. `MaxDeals` 2: one redeal, after which
  everything starts anew. `BaseScore` 3, so that it cannot be taken for a
  factor of two.
* `Swipe.RankSets`: the ranks from the ten to the two with one joker, where
  chains end, and those from the three to the seven with both jokers, where
  chains begin;
  up to 16 cards, enough for a plane of three with its wings and for the
  longest plane a window can hold. That the matchers do the same on all ranks, and
  with any number of cards, is proved.
* `Pick.Threads`: two make the smallest ring; that longer rings are for ever too
  is proved for any number. `kHttpRetryMax` 2: an attempt after a failed one, and
  one that is the last.
* `Lobby`: three connections are one more than a player can be logged in over, so
  that an old connection may still be dying while its player is back and another
  one speaks; two rooms, to change between; two accounts. A handler looks at one
  account and at most one seat of it, so a third account would only make a room
  full, which refuses a fourth without a step. The theorems are for any number.
* `Client`: one tab, one account, and two connections: the dying one and the new
  one, or the two of a player who does not wait. For the patient player `MaxFaults`
  5 is enough to use up the three tries and to lose a
  connection again after that; `MaxInFlight` 2 lets a request be sent behind an
  unanswered one. The other has three faults, to submit the form once or more while
  the page connects and lose sockets in either order, and one message under
  way, since messages do not start connections; `RetriesGoOn` is for any number. `LoginTwice` is TRUE here: the form is submitted a second time
  before the first answer is there.
* `Deal`: hands of two from six cards of four ranks, among them both jokers, in
  every way they can be dealt; scores with gaps of 0, 2, 3 and more, so close,
  chained and clear ones. Words up to 7: the ranges 2 and 3 divide eight words
  with and without a rest, as they do 2^32. Five tokens of reply hold a
  number before, in and after `PICK n`.

Deadlock is not checked where the system may really stop: a dissolved room (and
a room at `MaxSeq`), a swipe that has ended, picks that are done or hang, a
dealt pack, and a lobby or a page when its player does nothing more.
A settled `Game` repeats its state until the room drops it, so `game` does check
for deadlock: no auction or trick leaves a seat with nothing to do.

Fairness. `Room!FairSpec` lets a waiting timer expire and a queued handler run,
as asio does, and lets worker threads post their results. Nothing is assumed of
players: no liveness property needs one to move. That a thread posts is what
`Pick` is about: it does unless children wait in a ring (finding 3), so
`DealCompletes` holds but for that. `Pick!FairSpec` lets every thread and
every child run, the least an operating system does. `Lobby!FairSpec` lets the
heartbeat, which `defer`s itself again each time, find a session whose
connection is lost, lets a closing handshake end or time out (websocketpp gives
it five seconds) and lets reconnect windows run out. `Client!FairClientSpec` lets sockets
open or fail, messages arrive while their connection is there, both ends notice
a dead one, the heartbeat find a silent session, and the timer fire. Neither assumes a player who logs in or clicks.
Safety runs assume none.

## 4. Findings

1. *Three players online and ready, and nothing starts* (`room_trio`). A player
   readies, drops, the others ready, the player comes back: the login branch
   does not call `try_start` (`table.cpp:856`), although `table.h:187` says
   that three players online and ready start a small game. Pressing ready
   again starts it.
2. *A match one small game short* (`room_thread_fails`). If the thread of a deal
   cannot start, `match_done` keeps counting the game that was never dealt
   (`table.cpp:586`, `:710`).
3. *Picks that never return* (`pick_returns`). Pipes are not closed on exec and
   other threads fork meanwhile (`deepseek_client.cpp:92`), so two children may
   keep each other's input open. `RingsNeverResolve` proves there is no way out.
4. *Refused for being online, and never again* (`client_late`). The browser
   notices a loss before the server and logs in over a new socket, is refused as
   already online (`table.cpp:841`), and has nothing that tries again
   (`app.js:152`): it shows the room while its seat runs out. For this reason no
   property says that a dropped page always gets back by itself.

Two more were seen on the way and have no run of their own:

* *A seat the heartbeat does not watch.* With `LoginTwice` TRUE,
  `HeartbeatWatchesSeats` fails in `Lobby`: a form submitted again before the
  first login has given the player the held seat back replaces the session, finds the
  seat online over its own connection and erases the session
  (`table.cpp:854-859`). The seat is online without a session, and the player's
  messages are refused until the connection closes. `HeartbeatMissesNoSeat`
  proves that this is the only way to such a seat, and `lobby` takes `LoginTwice`
  FALSE. `client` takes it TRUE and finds what the page makes of it: the login
  counts as refused.
* *Two sockets.* The form submitted while the page still connects, or while its
  timer runs, starts a second way to the server (`app.js:113`). Without
  `patient` `ViewMatchesServer` fails: a fetch that is answered late puts a new socket
  before the one the player is logged in over, and messages of the older one
  still change the view and what is saved. `LossResolves` fails too, when two
  sockets take turns in closing and replacing each other. What holds is that
  the page goes on trying: `RetryUnderWay` is checked for both players and proved for
  any number of ways.

## 5. Proofs

The theorems hold for every value of the constants that meets the named
assumptions in `Room`, `Lobby`, `Client`, `Game`, `Swipe`, `Deal` and `Pick`. The most
important ones are listed under `theorems` in `PROJECT.json`.

**Room.** `TypeOK` is inductive, one lemma per group of fields (seats, match,
deals, flags). `RetryHasTimer` is inductive on top of it. The rest needs
`DealInv`, three invariants in one, because each action that starts, ends
or aborts a deal changes flags, sequence numbers and threads together:

* `DealSide`: a deal in progress has a thread with the current number, and any
  thread with the current number is one the deal waits for;
* `PrefetchSide`: the same for a prefetch, and the pack it brings is for the
  small game the counters say;
* `MatchSide`: seats taken, scoreboard alone, nothing left of an old match.

Neither of the first two is inductive without its second half: an abort
raises the number, and only `w.seq <= deal_seq` of every thread tells that a later
deal cannot meet an old one. What `FinishDeal`, `BeginAsyncDeal`, `AbortGame`
and `OpenSmallGame` do to the invariant is stated once, in lemmas; then each
handler is one step. `NoEvictionAfterReturn` and `RedealKeepsMatch` are action
properties from the same invariant.

**Match.** `MatchAccounting` and the refinement of `Match` hold if threads start
(`~ThreadMayFail`; finding 2 is what happens otherwise). `CountInv` adds that no
more small games are finished than agreed on: `on_small_over` compares with `>=`,
the scoreboard means equality, and only the two together say when the last
small game was. For the refinement, an action of `Room` either changes what
`Match` sees, and then is the step of the same meaning, or leaves `MatchView`
alone. Giving up a seat is `Quit` even when no match was going on, because
`NothingFromOldMatch` says there is nothing left to void, and taking one is
`Join` because seats are free before a match only.

**Lobby.** The inductive invariant says that sessions and seats point at each
other, in both directions: `SessionKnowsItsSeat` (a session's player has no seat
but in the room it names, over no other connection) and `SeatKnowsItsSession`
(a seat's connection is either without session or its player's). The first
alone is not inductive: a late `on_close` takes the seat from a connection, and only
the second says that it is not a returned player's. With `OnePlayerPerAccount` and
`SeatedSessionsHaveSeats` they give all the invariants of the run, action by
action, and two that no run states because they follow: `NothingOnClosed`, and
`SameSeatAfterReturn`. `HeartbeatMissesNoSeat` assumes `~LoginTwice`. `PresenceKept` is the
refinement: the hall, seats and presence of the lobby are described once
per kind of change (a session put or erased, a seat taken, attached, vacated), and each handler
is put together from these.

**Client.** `RetriesGoOn` is about any player. What has to be shown is that the
timer a socket clears when it opens (`reconnectTimer`, the last one set) was not
the last way back of another. `RetryInv` says so: while any socket is connecting
the latest is, because the browser opens or fails it after the others (`Turn`). An older
socket that opens therefore clears a timer only while the latest has yet to open or
to fail, and on failing it sets one of its own or has no try left.

`ViewIsTrue` is about a player who waits. `ClientInv` joins the lobby's invariant with
three things about the page:

* `WaysInv`: only the latest socket lives, and while it does nothing else is under
  way; otherwise there is at most one fetch or timer.
* `SocketsInv`, `OnlyMe`, `LoginFirst`: a connection starts without messages,
  nobody else plays from this page, and a login that is not repeated is the first message.
* `PageInv`: what the messages under way will do. The view may be wrong
  while answers are on their way, so `ViewMatchesServer` is not inductive: the
  invariant says which of them will put it right. The last of them that is no error
  tells the truth (`ViewInv`, `LeftInv`), behind the restoring view there is one
  login or its one answer (`RestoreInv`), and no login follows a logout that
  will be granted (`LogoutInv`, `SavedInv`).

Messages arrive in order (TCP), and the proof needs it: the queues are sequences, and
each handler takes the head and appends its answer. `LoginTwice` may be
either. `LobbyUnderClient` proves the composition for either player: page and
server together do nothing that `Lobby` does not, so `Lobby`'s theorems hold behind
the page.

**Game.** `AuctionIsFair` needs two invariants beside each other: `AuctionInv`, part of
`IInv`, says of the flags who has been asked in each phase, and `AnswerInv` says
how the flags follow from the answers, that these went round from the seat after the
caller, all before the seat that is asked now, and that the landlord is the last
who took it. A caller marked as having passed would never be asked to rob back
(`game.cpp:46`). It takes a redeal that fails to become one (`table.cpp:977`), and
`PassedInTurn` shows that then all three are marked: nobody can rob either, so
`AuctionFair` makes no exception.

`IInv` has four parts: `AuctionInv`, `CardInv` (hands, table
and the pack as it was dealt), `OutInv` (only a settled game has an empty hand,
and just one), `TurnInv` (the actor is one or two seats after the last play).
`OutInv` needs `CardInv`: a hand is empty only by a play because packs have no
empty hand and a reveal only adds. `MovesRunOut` compares the cards in hands
before and after a move, with the finite set theorems. `SmallGameKept` is the
refinement of `SmallGame`: its steps map to steps or stutters, and the outcome
follows from the multiplier being at least the base score (`MultInv`).

`SettleProofs` extends `GameProofs`. `SpringsAreTold` needs that the counts and
the cards agree (`CountInv`: a play count is zero exactly while the hand is the one
given, a play takes at least one card and none comes back), that the landlord
leads before anybody can pass (`LeadInv`), and that settling uses the counts of the
last play too (`SpringInv`). `TypeCorrect` adds the seats, the doubling choices and
the tallies to what these invariants already say of the cards and counts; which
pattern the play on the table may have is left out: it is a matter of `Cards` alone.

`ScoresAreSettled` rests on `RunInv`: the multiplier is the base score times two
to the number of robs and bombs. `settle` doubles once more for a spring, and
each side's choice to double multiplies by two. To speak of powers of two at all
the proof needs a bound on the exponent, because the prover knows `^` for
literals only: each rob leaves a seat in `rob_done`, each bomb four cards on the
table and the rocket two, so there are at most three and fourteen, and the
powers up to 2^20, a farmer's most, are cases. The bound is worth having by
itself: `DoublingsAreFew` says that `public_mult_` stays within the base score
times 2^17 and a score within 2^21, so that the code's `int` cannot overflow
with a base score below 1024.

**Cards and swipes.** `SwipeProofs` is about any counts with each joker once at
most (`Hands`), and `DeckCounts` says that the counts of any cards of the deck
are such. What a run compares on some ranks holds for all 2^54 sets of cards:

* `FoldIsSum`: the library's sum, which folds in an order it chooses, is the sum
  written out over the fifteen ranks. The written sum satisfies the equation
  of the fold, so the fold is defined; that no other function satisfies it needs
  induction over sets, done as a least counterexample (`<` is well-founded).
* `FormBySize` replaces the sum over the wings in a rule by the size of all the cards,
  which is what a matcher looks at. With it each matcher has a lemma: its keys
  are those of its form (`TrioPairKeys`, `ChainKeys`, `PlaneSoloKeys`, ...).
  For a plane with single wings this takes `OneSoloPlane`: two bodies
  that have no trio beside them would be apart, and too large together. So
  the code may take the highest body without choosing.
* `OneReading`: the body of every play but such a plane is the ranks with the most
  cards (`ReadingTops`), so two readings have one body, and the size tells
  their patterns apart (`PatternOf`). The body of such a plane lies in the
  body of any other play of the same cards; as no trio is beside it, it is all of
  it, and again the size tells them apart (`PlaneSoloAlone`).

`SwipesLeavePlays` shows that what `keepSwipeChain` keeps is a chain.
`BeatsIsStrict` is by cases.

**Deal.** `StageInv` follows the deal from stage to stage. While tiers are
served, `ServedTo(n)` says that the tiers left are the cut of `seat_ord` from
place n on, that the hands left are the first 4 - n of `hand_ord`, and, with a
bijection for a witness, that the places before n have got the others, each
later tier a stronger hand (`GivenOut`). The lemmas under it:

* `FallingFalls`: the operator that sorts by counting gives each seat once, in falling order;
* `ShufflePermutes`: the swaps of `shuffle_idx`, unrolled for up to three
  places, permute the tier, so it gets the hands it would get unshuffled;
* `TiersCut`, `NextTier`: where the tiers begin and end for each set of gaps;
* `PackOfDeck`: the slices of a deck of different cards are disjoint and use it up.

`RepliesAreObeyed` finds the first token of a kind with the well-foundedness of
`<`. `ShufflesAreEven` maps each draw to the order it gives and the quotients of
its words. That is a bijection to pairs (`EvenThree`: six orders, each word the
quotient and the remainder of an accepted one), so every order has as many draws
as there are quotients, whatever the number of words. Without the words
`random_int` throws away the last quotient would not have all its remainders.

Assumed are hands of a natural size, decks of different cards with enough for
three hands (`full_deck`, shuffled), replies of known tokens and integer scores.

**Pick.** `IInv` is `TypeOK` and `ChildWithinAttempt`: no thread makes new pipes
while its child runs. So a child that reads keeps its thread in `read_all`,
what it holds stays held, and a ring stays a ring.

Only model-checked is liveness, which the prover does not reach: `DealCompletes`,
`DroppedSeatResolves`, `ReturnsUnlessCrossed`, `LostPlayerNoticed`,
`LossResolves`, `RestoreEnds`.

## 6. Not modelled, and why

* **Browser client**: rendering, sound, the search and the pages of the hall, and
  what is shown inside a room: no state that others depend on. The page is checked
  with one tab; a second tab of the same account is refused by the server.
* **DealEval**: the text of the prompt, and how good the model's choice is.
  `std::shuffle` of the decks: `Deal` takes any decks.
* **Numbers of dissolved rooms** drawn again while a thread of the old room still
  runs: one draw in ninety million meets one, and what it would do is deal
  another random pack. `Room` and `Lobby` have one room of each number at a time.
* **Room inside Lobby**: the two see the same handlers of `table.cpp`, the one
  with match and deals of one room, the other with sessions and rooms. They are
  not composed: what they share is the seat, taken, online, held or given up,
  and both model all that changes it.
* **MySQL**, JSON access, logging, configuration, start-up, scripts: I/O or
  formatting without later effect. A login that fails because the database does
  is refused and changes nothing. An exception on a malformed reply is listed
  as a hazard.
* **websocketpp, asio, nlohmann::json, spdlog** are vendored and make up nearly all
  lines of the repository. They are not modelled; connections, timers and
  posting are, where the server relies on them.
* Sorting and naming of cards: no property depends on them.
* Overflow of `public_mult_` and the scores: the model's integers are unbounded. By
  `DoublingsAreFew` only a base score of 1024 or more can overflow an `int`.

## 7. Plan

In order of what a mistake would cost the players. The first seven are done and
described above.

1. `Room` with `Match`: runs, type invariant, safety and deal proofs, refinement.
2. `Game`, `Cards`, `Swipe`, `SmallGame`: runs, invariants, scores, refinement.
3. `Pick`: ring argument.
4. `Lobby` with `Presence`: runs, invariants, refinement.
5. `Client` composed with `Lobby`: runs, invariants, refinement.
6. `Deal`: runs, invariants, even shuffles.
7. `SwipeProofs`: sums over the ranks, the matchers and the rules, one reading, `beats`.
8. To come: that the plays on the table of `Game` grow by `beats` and have the
   reading of their cards, from the lemmas of `SwipeProofs`.
