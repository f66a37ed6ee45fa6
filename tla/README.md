# A TLA+ model of the SA-MP server

This directory holds TLA+ models of the San Andreas Multiplayer server
(`src/server`), of the part of the client that the server's protocols rely on
(`src/client/net`) and of the network library under both (`src/sdk/raknet`),
the configurations with which TLC checks them, and theorems about them that
TLAPS has checked. `PROJECT.json` lists the same things for tools: components,
runs, the source lines of every definition, hazards, mutants and theorems.

Contents:

1. [The system](#1-the-system)
2. [The models](#2-the-models)
3. [The runs](#3-the-runs)
4. [Fairness](#4-fairness)
5. [The proofs](#5-the-proofs)
6. [Assumptions and abstractions](#6-assumptions-and-abstractions)
7. [What the work found](#7-what-the-work-found)
8. [What is not modelled](#8-what-is-not-modelled)
9. [Plan](#9-plan)

To run: `tlc -config MCNetGame.cfg MCNetGame` (the cfg of a run has the run's
name; the module is named in `PROJECT.json`), `tlapm NetGameProofs.tla`.

## 1. The system

The server is one process. Its game runs in one thread (on Windows a second
thread reads the console), the network library in another; the two exchange
packets and commands through queues. The main loop (`main.cpp` 464-486) calls
`CNetGame::Process`, which serves the network, runs script timers and filter
script ticks, processes every player, vehicle and object, and counts the wait
of a restart. Scripts, which are Pawn programs run by the AMX, react to
*callbacks* and act through *natives*. Both happen in the middle of the
server's own operations: a packet handler calls a callback, the script calls a
native, and the native changes the pool the handler is working on. This, the
network, and the restart of game modes under connected players make the code
hard to get right.

| Component | State | Operations | Interacts with | Hard behaviour | What makes it correct |
|---|---|---|---|---|---|
| Main loop, player pool, restart (`main.cpp`, `netgame.cpp`, `playerpool.cpp`, join handler of `netrpc.cpp`) | game state, the pools, the game mode, slots, count, highest id, wait counter, the request flag | join, leave, kick, gmx/changemode/GameModeExit, shut down, wait, re-initialise | owns all pools; callbacks of mode and filter scripts in the middle of join, shutdown and re-initialisation | kicks inside callbacks, leaving while the pools are gone, requests at the wrong moment | accounting equals slots; clients are told the truth; scripts hear of each player once; a restart completes |
| Player presence (`netrpc.cpp`, `player.cpp`; client `localplayer.cpp`, `remoteplayer.cpp`, `playerpool.cpp`) | state of each player, spawn info; the client's active/wasted/spectating/cleared/waiting flags, the peds it shows | class selection, spawn, die, spectate, leave, restart, natives that spawn and spectate | calls from clients on their way while the server restarts; broadcasts to all other clients | calls that arrive in another game than they were sent in; joining while others spawn | all clients list and show the same players |
| Object pool (`objectpool.cpp`) | global and personal slots, the flag that links them | create, destroy, join, leave, restart | natives; the player pool at joins and leaves | two kinds share one id space | no id means two things; clients mirror the pool |
| Script timers (`scrtimers.cpp`) | a map from ids to timers | set, kill, unload a script's timers, process | functions of timers run inside Process and change the map | iterators held over callbacks | no dangling iterator, no call into freed programs, no starvation |
| Vehicles (`vehicle.cpp`, `vehiclepool.cpp`) | slots, counts, the life of each vehicle, what players said of their seats | create, destroy, sync packets, death reports, respawns | packets of several clients, late ones too; natives; time | stale packets after respawns, several reports of one wreck | one death per life, wrecks come back, counts agree |
| Menus (`menu.cpp`, `menupool.cpp`) | texts, who has which text, who is shown which menu | create, change, destroy, show, hide, answers | answers cross new menus; callbacks in answer handlers | reuse of ids, stale flags | clients have current texts; one answer per menu |
| Rotation and game mode files (`netgame.cpp` 250-339, `gamemodes.cpp`, `console.cpp`) | index, repeat count, file, request flag, whether a mode loaded | GameModeExit, gmx, changemode, restart | several requests before one restart; unreadable files; files without a program | counters past zero, partial failure | the configured modes all come; only a bad file stops the server |
| Filter scripts (`filterscripts.cpp`) | slots with programs, their names, a counter | loadfs, unloadfs, reloadfs, callbacks | called at every event of the game | failed loads, gaps among the slots, a counter that only grows | what runs can be found and reloaded |
| Pickups and text draws (`pickuppool.cpp`, `textdrawpool.cpp`, both at the server and at the client) | slots; who has which text draw; the client's pools and its count | create, destroy, show, hide, change | broadcasts reach clients that are no players yet; scripts run in the callbacks of joins | slots used again, things sent twice | clients show what is there, and it is current |
| Delivery (`ReliabilityLayer.cpp`) | message numbers, resend list, hole list, fragments, ordered messages held back | send, resend, acknowledge, receive, reassemble, give up | the other end, over a network that loses, duplicates and reorders | numbers wrap; books of the two ends differ | each reliability's promise; reliable messages arrive |
| Connections (`RakPeer.cpp`, `RakServer.cpp`, join and disconnect handlers) | connection of each index, packets queued for the game, commands queued for the library | open, refuse, lose, close, kick | the game's thread and the library's | an index is free for the next client before the game knows that the last one left | nobody stays in a slot; no packet acts on a successor |
| Gang zones, object motion, checkpoints, RCON and bans, console thread, plugins, database, queries | see section 8 | | | | |

The rest of the repository: the client's game side (hooks into GTA), the test
bot, the remote console, the announcer, the archive tool, launchers, the
script compiler's includes, the installer and assets. None of it takes part in
the server's protocols; `PROJECT.json` lists each with the reason.

## 2. The models

Names of variables and actions follow the code; the comment beside each
variable names the member it stands for. Callbacks are never given bodies: what
a script *may* do in one is a set of actions that are enabled there.

* **`NetGame`** — the main loop. `phase` says where the thread is: serving the
  network, in a frame, at the end of an iteration, or inside an operation
  that runs callbacks (`joinFS`, `joinGM`, `asking`, `dying`, `exiting`,
  `loading`, `reinitFS`, `reinitGM`). A join is `ClientJoin`, `AnnounceJoin`,
  `ProcessClientJoin`; a packet of a player who is there, whose handler calls
  scripts and then goes on with him (class, spawn, chat, synchronisation, entering
  and leaving vehicles), is `PlayerRequest` and `EndPlayerRequest`; a death is
  `Death` and `EndDeath`, with the killer that the client names and the log that
  asks for the killer's name; a restart is `Shutdown`,
  `ShutdownDone`, `RestartWait`, `EndInit`, `ReInitPlayer`, `ReInitGameMode`,
  `ReInitNext`, `ReInitDone`, so that kicks (`KickInCallback`) and requests
  (`GameModeExit`) come in the middle of each. `scripts` says what the server's
  scripts are like; it is chosen from `ScriptBehaviours` at the start and stays: in which callbacks they kick, whether
  they end the mode while it restarts, and whether kills are logged.
  `crash` records which null or freed pointer the server followed: the model
  says when that happens instead of assuming it away.
* **`Presence`** — players between connecting and leaving, on both sides of
  the wire. The client's calls (`RPC_ClientJoin`, `RequestClass`,
  `RequestSpawn`, `Spawn`, `Death`) wait in `up[c]`; what the server sends is
  handled in the step that sends it, which loses nothing while calls arrive in
  order (see the module's header). `listed` and `shown` are the client's
  `CRemotePlayer`s and their peds.
* **`ObjectPool`** — slots as sets; `known[p]` is what client `p` was sent.
  `Connect` and `InitForPlayer` bracket the callbacks of a join, in which
  scripts may create and destroy objects.
  The names in this module and in `Menus`, `ScriptTimers` and
  `GameModeRotation` that several would share carry a prefix (`ObjectsInit`,
  `TimersTypeOK`), because one module of proofs extends all four; **`PlayerIds`**
  declares the players that two of them have.
* **`ScriptTimers`** — `Process` is cut into `Process`, `Pass`, `Call`,
  `Reap`, `Return`, with the code's two iterators `itor` and `tmp` as
  variables. While a timer's function runs, scripts may set and kill timers.
* **`Vehicles`** — one record per vehicle. Time is counted in units of five
  seconds and each age only as far as the code compares it. The packets are
  those a client may send, also for vehicles that are gone. A death is
  `AnnounceDeath`, which sets the flag, an `OnVehicleDeath` for each filter script
  and the game mode, with natives in between (one of them may respawn the vehicle),
  and `DeathAnnounced`. `heard`, `early` and `reported` are histories: the deaths
  each script heard of since the last spawn, the scripts that heard of that spawn
  before the death it ended, and the vehicles that clients reported since.
* **`Menus`** — `text[m]` is a number that every change raises, `has[p][m]`
  the number a client was last sent, `sent[p]` how many answers of the client are
  on their way. `telling` opens the handler of an answer to the scripts it calls,
  `connecting` that of a join. Menus may be shown to and hidden from empty slots:
  the natives mean to refuse that and do not (section 7).
* **`FilterScripts`** — the slots of programs, their names and the counter,
  with loads that fail in either of two ways. **`GameModeRotation`** extends it:
  the index and repeat counter with every way to change them, the file that is
  loaded at a restart, and the callbacks a restart makes in both kinds of
  scripts.
* **`Arrivals`** — clients that the library accepted (`online`), players
  (`slots`), those whose handler has not finished with them (`pending`), and
  whether a game is `up`. **`Pickups`** and **`TextDraws`** extend it, each with
  its own state at the server and at the clients, its natives, and an operator
  for what each arrival does to it. **`ScriptItems`** conjoins the three:
  one step of an arrival acts on both pools. What is sent lies in a bag per client
  (`mail`) until `Receive`, in any order, as RELIABLE allows. `crossed` is a
  history: the items about which two different messages were on their way at once,
  until one is sent alone again. `Settled(p, x)`: nothing about `x` is on its way
  to `p`, and what arrived last was sent last. The properties are about settled
  items, and say nothing of the others: there the code shows old things until the
  next message, which may never come.
* **`MessageChannel`** — the abstract specification of one direction of a
  connection: the sequence sent, the sequence handed over, and for each
  reliability of `PacketPriority.h` what may be handed over next.
  **`ReliabilityLayer`** is the code: numbers, the queue to be sent,
  `resendList`, the receiver's list of holes (`queue`), `splitList`,
  `orderingList`. Its property `ImplementsMessageChannel` is the refinement,
  with the kinds of the sent messages for `sent` and `output` for `delivered`.
* **`PlayerSlots`** — the abstract specification of who is there: an id is
  given to one client at a time, a client gets one once, and a client that went
  away does not keep it. **`RakPeer`** is the code, with its two threads:
  `remoteSystemList`, the queue of `packets`, the queue of
  `bufferedCommands`, what each client has on its way (`up`), and `slot`, the
  player pool. `ImplementsPlayerSlots` is the refinement.
* **`SlotLemmas`** — the lemmas that a finite set of integers has a greatest and
  a least element, for the highest ids of the player and vehicle pools and for
  every scan that stops at the first free slot or at the next timer.
* **`NetGameProofs`**, **`PresenceProofs`**, **`VehiclesProofs`**,
  **`ScriptItemsProofs`**, **`RakPeerProofs`**, **`ReliabilityLayerProofs`** — the
  theorems about the module each is named after; **`ScriptingProofs`** — those
  about `ObjectPool`, `Menus`, `ScriptTimers` and `GameModeRotation` with
  `FilterScripts`.
* **`MC*`** — instances for TLC: constants and symmetry, no behaviour.

Operators marked *A mutant* are faults of the kind a change to the code could
bring in. No specification uses them; each shows that some property notices
when it takes the place of the definition it is named after.

How the modules relate. `ReliabilityLayer` carries what `RakPeer` and all
others send. `RakPeer`, `Pickups` and `TextDraws` use only what `MessageChannel`
promises of RELIABLE, which is no order; `Presence` and `Menus` assume order for
what is sent RELIABLE (section 6). `RakPeer` gives `NetGame` its joins and departures: an id that is
taken and left as `PlayerSlots` says. `NetGame` is the frame of the rest. Its
`Restart`/`Shutdown` is the `ObjectsRestart` of `ObjectPool`, the
`MenusRestart` of `Menus`, the `Restart` of `Vehicles` and
`Presence` and the `RestartBegins` of `ScriptItems` (each resets its component
in one step, as `ShutdownForGameModeRestart` deletes and re-creates the pool),
its joins and leaves are their `Connect`/`ClientJoin`/`Join` and
`ObjectsDisconnect`/`MenusDisconnect`/`Leave`/`Departure`, and `finished` is set by the actions of
`GameModeRotation`. `Presence` takes the game state from the same operations
with the wait in one step.

## 3. The runs

Twelve runs; ten must pass, two must find a violation, the disagreements of
section 7. State counts are of distinct states.

| Run | Instance | What it checks | States |
|---|---|---|---|
| `MCNetGame` | 3 slots, wait of 1 frame; scripts that kick in no callback of a packet or restart but end the mode at any time, and scripts that kick in every callback, with kills logged; fair | `TypeOK`, `ScriptsArePaired`, `RunningGameIsSafe`, `PoolIsExact`, `ToldTheTruth`, `RestartsHappen` | 208 258 |
| `MCNetGameLeaving` | 2 slots, scripts that do neither | violates `LeavingIsChecked` | |
| `MCPresence` | 3 players, 2 calls of each on the way | `TypeOK`, `ListMirrors`, `RestartClears`, `WorldIsShared`, `AnswerLostOnlyInRestart` | 424 531 |
| `MCObjectPool` | 2 players, slots 1 to 4, `SlotBound` 4 | `ObjectsTypeOK`, `SlotsHaveOneOwner`, `ClientsMirrorBelowBound` | 2 446 |
| `MCScriptItems` | 2 players, 2 messages on their way to each; 2 pickups, one of them a player's; 1 text draw, 2 texts; one pool in use at a time | `TypeOK`, `ClientsShowPickups`, `TextDrawsAreCurrent` | 1 598 941 |
| `MCScriptTimers` | 2 scripts, 3 timers, fair | `TimersTypeOK`, `NothingDangles`, `NoCallTooMany`, `TimersFire` | 250 094 |
| `MCVehicles` | 2 players, 1 vehicle at a time, a car and a train, a filter script and the game mode, fair | `TypeOK`, `LivesAreApart`, `WrecksComeBack` | 700 896 |
| `MCMenus` | 2 players, 2 menus, 3 changes of texts, 2 answers of each on their way, answers handled with nested shows | `MenusTypeOK`, `TextIsCurrent`, `OneAnswerPerMenu` | 2 743 088 |
| `MCGameModeRotation` | 4 entries, one unreadable; changemode to a file without a program and to none; 3 slots of filter scripts, 3 names, one without a program; fair | `RotationTypeOK`, `NamesMatch`, `StopsForBadFilesOnly`, `ReloadKeepsRunning`, `GmxReachesAll` | 41 074 |
| `MCGameModeRotationStuck` | the same | violates `RotatesAsConfigured` | |
| `MCReliabilityLayer` | 3 packets from number 65534 on, four kinds of message, two of them split; fair | `TypeOK`, `NothingLostOrDoubled`, `ImplementsMessageChannel`, `ReliableArrives` | 90 489 |
| `MCRakPeer` | 2 indexes, 2 connection attempts, fair | `TypeOK`, `SlotsAgree`, `PacketsHitTheirOwn`, `ImplementsPlayerSlots` | 1 101 002 |

Why the bounds are enough:

* **Players.** The code treats slots alike but for the highest id. `NetGame` has
  three, so that a slot is freed above, below and between those in use while a
  re-initialisation walks over them. What a third party sees of two players
  needs three; hence three in `Presence`, whose properties compare two clients'
  views of a third. Pickups and text draws relate one client to the server: the
  second is there to be reached, or missed, by broadcasts.
* **`WaitLimit`** (1 frame) stands for the twelve seconds: the loop goes round
  at least once with the game down, and joins, leaves and kicks happen in it.
* **`MaxCalls`** (2): a second call is what can overtake the server's change of
  state while the first is handled; a queue of one hides every such race. No
  single action of a client sends more than two.
* **`MaxObjects`, `SlotBound`** (slots 1 to 4, bound 4): ids on both sides of
  the bound, and enough slots that both kinds run into each other.
* **`MaxTimers`** (3): an expired timer, the successor that is passed over and
  one more. The code's counter is a 32-bit number that is never reset.
* **Ages** in `Vehicles` are capped at the last value that a comparison tells
  apart (`AgeLimit`), so nothing is lost. One vehicle is enough for a life,
  because no rule relates two vehicles except a trailer, whose update goes
  through the cab's driver; in the instance a player whose uninitialised data
  name the vehicle sends such an update. The theorems hold for any number.
* **`MaxTexts`** (3): make, change, and make again under the same id.
* **`MaxSent`** (2): the client keeps answering what it displays; the second answer
  is the one that could be counted for the next menu, a third meets what the second
  does.
* **`NumScripts`** (2): one script is told before the other. The theorems hold for
  any number.
* **Counters of callbacks** (`heard`, `answers`, `fires`, `plays`, the counts
  of connects) stop at two or three: the properties tell only zero, one and
  more apart.
* **`RepeatFloor`** (-2): the code tells the repeat counter only from 0.
* **`MaxFilterScripts`** (3): a gap between two scripts, which is what ends the
  search for a duplicate too early, and a counter that runs out.
* **`MaxPickups`** (2): a client whose count is too high refuses a pickup only
  when its pool is counted full and has a free slot; that takes the player's pickup
  sent twice, and then the pool's. **`MaxTextDraws`** (1): no rule
  relates two text draws, and one slot is used again and again. **`MaxMail`** (2):
  any two messages about an item overtake one another in both ways; a third is
  sent once one of them has arrived. The two pools share only the clients, the
  mail and the restarts, so the instance has one of them in use at a time
  (`MCSpec`); the theorems are about both at once and any number of messages.
* **`MaxPackets`** (3), **`Start`** (65534), **`OrderStart`** (65535): both kinds of
  number wrap in the middle of the conversation, with the code's own ranges.
  Three packets are a split message and one that overtakes it, or a hole
  between two arrivals. The assumption of the module, that a conversation is
  shorter than half the range, is the library's (`InternalPacket.h` 35-38).
* **Two indexes, two attempts** in `RakPeer`: an index is left by the one and
  taken by the other while packets of both are queued. An attempt is never
  repeated (the client opens a new socket), so a third would repeat what the
  second meets. The queue is bounded by what two attempts can put into it.

## 4. Fairness

Six runs state fairness; each assumes what the loops of the code do:

* `NetGame`: weak fairness of the steps of the loop, which never blocks, and
  strong fairness of `EndNetwork`: a burst of packets ends, so that
  `UpdateNetwork`, which serves packets until there are none, comes back.
  Nothing is assumed of clients, scripts or administrators. `RestartsHappen`
  leaves out, for the way up, filter scripts that end the mode again and again
  while it is down, each of which starts the wait anew.
* `ScriptTimers`: `Process` is called again and again, and the functions of
  timers return. `TimersFire` leaves out scripts whose timers expire whenever
  they are reached: the double advance of `Process` lets those starve their
  neighbours.
* `Vehicles`: time passes, scripts return from their callbacks, and both outcomes
  of `rand() % 20` come up again and again, for each vehicle. The last is strong
  fairness: while the death of another vehicle is told to scripts, a vehicle is
  not processed, but it is processed in every frame. Strong statements about idle respawn are not
  made.
* `GameModeRotation`: the main loop serves a restart that was asked for. With
  `GmxReachesAll` every readable mode of the configuration *runs* again and again, if
  `gmx` is asked for again and again and nobody asks for anything before the last
  request was served. Two requests before one restart move the index twice, and the
  mode between is skipped, which is why the premise is there.
* `ReliabilityLayer`: every update of the library sends what waits and resends
  what is overdue, and a packet that is sent again and again arrives at some
  time. Nothing is assumed of acknowledgements.
* `RakPeer`: the game takes the packets that wait for it, and the connection of
  a client that is gone is found dead after its timeout, since such a client
  acknowledges nothing. Nothing is assumed of clients that are there. With
  this, a slot whose client went away becomes free, which is the fairness that
  `PlayerSlots` promises to scripts.

The remaining passing runs check safety only.

## 5. The proofs

All theorems hold for every value of the constants that satisfies the named
assumption of the module (`NetGameAssumption`, ...): any number of players,
slots, vehicles, models, timers, calls on their way, any traffic. The
assumptions say that the constants have the right kind, that there is at least
one of what the code takes to be there, and, for the network library, that a
conversation is short against the range of its numbers. Four theorems have a
further hypothesis, named below with the reason.

A theorem about an invariant has one shape: `Init` implies the inductive
invariant, every step keeps it (a lemma with a step for each action), it implies
the property, and PTL combines the three. What follows says what each inductive
invariant adds to the property, and why it is needed.

**`NetGameProofs`.** `TypeCorrect`, `WorldFollowsState`, `CountsAreRight`,
`SlotsAreConnected`, `PoolIsRight` (the last two together),
`ClientsAreToldTheTruth`, `RunningIsSafe`, `ScriptsKnowThePlayers`. The
properties speak of the moments between handlers, so none is inductive; each
invariant extends one of them into the phases.

* `WorldInv`: what `phase` implies for the game state, the pools and the
  cursor `who`. Without it, a re-initialisation could be thought to run with
  the game down.
* `CountInv`: during the callbacks of a join the count is one less than the
  number of slots, whether or not the joining player has been kicked; `last`
  is the maximum again when the join ends.
* `ToldInv`: during a re-initialisation the players the cursor has passed were
  told of the new game, the others of the restart.
* `SafeInv`: on a server whose scripts kick nobody in the callbacks of a packet, the
  player whose handler is running still has his slot when it goes on. What the theorem says of a running game is which
  crashes are left: those, and the killer's name of an empty slot.
* `ModeInv`, `FiltersInv`: the two kinds of scripts learn of a player at
  different moments. `ModeKnows` says for each phase which players the game mode
  has been told of: none while it is loaded, those below the cursor afterwards,
  the one at the cursor only in the last of its callbacks. Filter scripts
  outlive a restart, so a player who joined before it may be announced to them
  twice; what the proof keeps is that nobody who left is still known.

The maximum that `New` and `Delete` compute by scanning is related to the set
of slots by `LastOfIsMaximum`, which rests on `FiniteMaximum` (`SlotLemmas`,
from the library's facts about finite sets).

**`PresenceProofs`.** `TypeCorrect`, `ClientsListThePlayers`,
`WorldIsCleared`, `AnswersAreLostInRestarts`, `TheWorldIsShared`.

* `ListInv` says of clients that have not joined yet that they list only players
  that are there, which is what makes the union of what they heard before and
  at their join exact.
* `ClearInv` adds that during a restart nobody is in the world for the server
  either, so that a join brings no ped back.
* `BaseInv`: a client without a slot has done nothing but ask for one
  (`OutsideInv`), one with a slot asked once (`InsideInv`), and nobody spawns or
  waits to without spawn info (`InformedInv`). With these, every action but a
  request served between two modes leaves whoever waits for an answer either
  waiting for one that is on its way or not waiting.
* `WorldInv`: the property is about clients that have no calls on their way, so
  the invariant has to say what the calls will do. A player who is active for
  himself and not for the server has a Spawn on its way, and no Death is ahead
  of it (`ActiveInv`, `DeathsFollowSpawns`); the server's first word about a
  player comes with the call at the head of his queue (`KnownInv`); what is
  shown is exactly what the server holds active (`ShownInv`); and nobody, not
  even for himself, is in the world between two modes (`EmptyInv`). The last is
  false when filter scripts use players in a restart, and the property with it:
  hence the hypothesis `~ScriptsInRestart` (section 7).

**`VehiclesProofs`.** `TypeCorrect`, `LivesDoNotMix`, `CountsAreRight`.
`RecordInv` is one predicate on a vehicle's record and what clients reported of it;
each record operator (`Updated`, `Respawned`, `SetDead`, ...) has a lemma that it
keeps the predicate. `HeardInv` says exactly how often each script heard of a death
(`Expected`), from whether the death is announced, whether the script has yet to be
told of it, and whether it heard of the spawn early. `NotifiedIsDead` and
`OneDeathPerLife` follow, and neither is inductive: when the next script is told,
nothing but the exact number bounds the new one. `CountInv` relates the counters to
the cardinality of the set of active vehicles of each model.

**`ScriptItemsProofs`.** `TypeCorrect`, `TextsAreCurrent`,
`ClientsShowThePickups`. Messages arrive in any order, so the invariants say what
each message on its way is worth.

* `TextInv`. For an item that nothing crossed, the arrival of any message about it
  that is on its way brings the client to the server's state (`TextFits`); if there
  is none, the client is there already (`TextRight`). A restart on its way counts as a
  message about every item. Each native posts at most one message about one text
  draw, and the step splits on whether it travels alone.
* `PickupInv` says the same of pickups. A client refuses a pickup when it counts
  its pool as full, and it counts each pickup as often as it is sent: the invariant
  is that the count of a client is never less than the number of pickups it
  shows; a pool that is counted full and is not is the case that the property
  leaves out. The lemmas about `Cardinality` under adding and removing a pickup
  carry that part; the rest says that static pickups are not among the others and
  that the ids of scripts are apart from the pool's (section 6).

**`ScriptingProofs`.** Four modules that share no variable.

* Objects: `ObjectsTypeCorrect`, `SlotsAreDisjoint`, `ClientsMirrorThePool`.
  `SlotInv` is the conjunction of the type, the exactness of the flag,
  disjointness and ownership: none is inductive alone, since creation tests the
  flag and destruction restores it by scanning the owners. `ViewInv` adds what a
  player in the middle of its join has been told.
* Menus: `MenusTypeCorrect`, `NoOutdatedMenu`, `MenusAreAnsweredOnce`.
  `AnswerInv`: a player of whom the server notes a menu has had no answer told to
  scripts since it was noted, except the one whose answer they are being told of.
  It is what the handler relies on when it looks at `m_bytePlayerMenu`, and without
  it a second answer, or one that crosses a new menu, could be counted twice. For
  the texts, the flag of an empty slot and of a player who is still joining says
  nothing; `ResetPlayer` at the end of the join makes it true.
* Timers: `TimersTypeCorrect`, `IteratorsStayValid`, `NobodyIsCalledTooOften`.
  `ScanInv` places the iterators: `tmp` is past `itor`, and `itor` is in the map
  while the scan looks at it. `BookInv`: ids are handed out in order, so a new
  timer has no past; a killed timer stays killed until it is removed; no timer's
  program is gone. `CallInv`: while a function runs, its timer and the next are
  in the map, and a timer that does not repeat was called only if it is the one
  whose function runs. The last two theorems have the hypothesis
  `~UnloadInCallback`: a function that unloads a script frees the timers the
  iterators stand at, and TLC finds the freed iterator in a few steps when the
  constant is TRUE. That unloading between the walks is safe is part of what is
  proved.
* Game modes and filter scripts: `RotationTypeCorrect`, `ScriptsAreFoundByName`,
  `OnlyBadFilesStopTheServer`, `ReloadedScriptsRun`. `FilterState` is stated of
  any assignment of programs and names to slots, since a reload goes through
  one in between: names and programs agree, and a slot without a program exists
  only if such a file was tried. `RotationInv` adds the same of the game mode.
  For reloading: the script leaves its first slot, so the first free slot is
  that one or one before it; before it no slot has the script's name, so the
  search for a duplicate ends at the free slot and the script gets it
  (`FirstInRange` is the scan).

**`RakPeerProofs`.** `TypeCorrect`, `SlotsFollowConnections`,
`PacketsFindTheirOwn`, `SlotsKeepTheirPromise`. The two threads see different
moments of a connection, and the queue of packets lies between them.
`FreshInv`: nothing was ever queued about a client whose handshake is not done,
and a client has one connection after it. `JoinInv`: a client asks to join
once. `QueueInv`: the packets about a client that is connected carry its index,
and none is a departure. `OrderInv` is the heart: of the packets with one index,
those of the connection that has it now come last, and if the player in the
slot is another client, the departure of that client comes before all of them.
Hence the packet that the game takes is about the player in the slot or nobody.
`SlotsKeepTheirPromise` maps every step to a step of `PlayerSlots` or to none
(the taking of a slot happens in the step that handles a join, the leaving in
the step that handles a departure).

**`ReliabilityLayerProofs`.** `TypeCorrect`, `NothingIsLostOrDoubled`,
`TheLibraryKeepsItsPromises`. All numbers wrap, so the proofs count from the
start of the conversation: `Off` and `Rank` undo the wrap, and a handful of
lemmas show that the code's comparisons and differences of wrapped numbers are
those of the unwrapped ones, as far as a conversation goes. `IInv`:

* `SentInv`: messages have consecutive spans of offsets; the indices of a
  channel count its messages of one kind.
* `PacketInv`: every packet anywhere is a fragment of the message it names, with
  the offset and the index the sender gave it; what waits to leave are the last
  offsets. Without this nothing that arrives could be related to what was sent.
* `WindowInv`: the receiver's list of holes starts with a hole and ends with a
  packet it has, and reaches no further than what left: so no number is counted
  before it is sent.
* `ResendInv`: a reliable packet that left and was not counted is with the
  sender, and an acknowledgement on its way is of a number that was counted.
* `DeliveryInv`: what is kept or handed over was counted, and what was counted is
  kept, handed over, superseded or given up.
* `SequenceInv`: the index a channel is at follows a message handed over, so a
  sequenced packet that is dropped as old is indeed superseded.

For the refinement of `MessageChannel`, `PromiseInv` adds the order of what was
handed over (`ArrivalInv`), that an ordered message waits once (`OnceInv`), that
the ordered messages handed over are the first ones, as many as the index says
(`OrderInv`), and that sequenced ones are older than the index (`LatestInv`).
Each step of the code then hands over nothing, one message, or an ordered
message with those that waited for it, and each of these is a step of the
channel. The hypothesis `2 * MaxPackets + 2 < OrderRange` asks for a
conversation one packet shorter than `ReliabilityAssumption` does: at an index
past half the range, `IsOlderOrderedPacket` subtracts half of the greatest index
and adds one (`ReliabilityLayer.cpp:2007`), so a message that lags by exactly
that half is taken for a new one. With the code's 16 bits that is a lag of
32767 messages; with a range of 8 TLC shows it in a short run (`OrderRange` 8,
`MaxPackets` 3, `OrderStart` 4), and the theorem is false there.

**Only model-checked**: liveness and fairness (`RestartsHappen`, `TimersFire`,
`WrecksComeBack`, `GmxReachesAll`, `ReliableArrives`, and the promise in
`ImplementsPlayerSlots` that a slot becomes free), because liveness and ENABLED
are out of the prover's reach here. All safety properties that the passing runs
check are theorems.

## 6. Assumptions and abstractions

All models:

* One thread for the game. The console thread of the Windows build is not
  modelled; on Linux there is none. The thread of the network library appears
  in `RakPeer`; for the other models it is the channel.
* Scripts call natives from callbacks in any order unless a constant or a line
  below says otherwise.

By module:

* `NetGame`: game modes load. `OnPlayerDisconnect` callbacks do not kick. A
  client calls `RPC_ClientJoin` once per connection. What scripts do in
  callbacks is `ScriptBehaviours`; the run has both ends. The properties about who
  was told what say in their premise that scripts kick in no callback that matters;
  `RunningGameIsSafe` has no such premise: it says which crashes there are. The
  handlers that call scripts and then go on with the player are one, since they use
  him in the same way; a freed player that is used is a crash, although a build may
  survive it. A death is apart from them for the killer.
* `Presence`: calls from a client arrive in order, and position packets, which
  are not reliable, between them or not at all; RakNet's RELIABLE does not
  promise the order (hazard at `player.cpp:885`). Every mode has a class.
  Natives do not name the player of a handler that is running in order to kick
  him. Nobody leaves while a mode restarts (this stops the server, see
  `NetGame`). A client that loses its connection starts anew. The wait of
  twelve seconds outlasts every call. `ScriptsInRestart` is FALSE in the run:
  filter scripts do not toggle spectating and do not spawn players between two
  modes; with TRUE, `WorldIsShared` fails (section 7). What decides when a dead
  player is put back, or pressed keys, is nondeterministic. All states that
  `IsActive()` accepts (on foot, driver, passenger, wasted, spawned) are one.
* `ObjectPool`: slots only; the index that a native passes is checked by
  `GetSlotState` and its like, as in the code.
* `ScriptTimers`: `UnloadInCallback` is FALSE in the run. If a timer's function
  unloads scripts (through RCON), `Process` goes on with freed iterators; the
  model has that outcome as phase `crashed`.
* `Vehicles`: no script destroys a vehicle in its own `OnVehicleDeath` or
  `OnVehicleSpawn`. The `OnVehicleSpawn` callbacks of a respawn are one step: no
  death is announced between them. Health is whether an update wrecks the vehicle.
* `Menus`: texts as numbers; columns, rows, `DisableMenu` and `DisableMenuRow`
  are left out; what the server sends to a client arrives
  in the order it was sent in, although it is sent RELIABLE; a client's answers are
  alike, so their order does not matter. A client that displays a menu may answer it
  again before it hides it.
* `GameModeRotation`, `FilterScripts`: whether a file can be opened and holds a
  program does not change. The first mode of the configuration loads, or the
  server would not have started. The parsing of a `gamemodeN` variable is
  reduced to what it yields: the name, and never a repeat count. All callbacks
  that reach filter scripts are one.
* `Arrivals`, `Pickups`, `TextDraws`: at most `MaxMail` messages are on their way to
  one client; a step that would send more waits. Scripts keep the ids of the pickups they make for single
  players apart from those the pool hands out, which the pool does not check.
  Between two modes they do not call the natives that go through a deleted pool
  without testing for it (`CreatePickup`, `DestroyPickup`, `TextDrawDestroy` and
  the two that hide text draws); the others then do nothing. Nobody leaves then
  (see `NetGame`).
* `ReliabilityLayer`: a datagram is its packets and acknowledgements, each of
  which may be lost alone. One priority. No congestion control: when a packet is
  sent or sent again is left open. The conversation starts with everything
  before it delivered and acknowledged, and is shorter than half the range of
  the numbers.
* `RakPeer`: static data, pings, ban lists, passwords, plugins and packets with
  unknown contents are left out. Messages of one connection may overtake one
  another, since the handshake and the calls are sent RELIABLE and without
  order. A `ClientJoin` that overtakes the client's last message of the
  handshake is taken for a possible bot and dropped (`netrpc.cpp` 86-91). What
  refuses a join (version, name, limits) is one refusal.

## 7. What the work found

Two disagreements between the code and its own comments have a run that shows
them:

* `MCNetGameLeaving`: `CPlayerPool::Delete` goes through the object pool
  pointer "checking done by the function" (`playerpool.cpp:144`), but nothing
  checks it, and during a restart it is NULL: whoever leaves in those twelve
  seconds stops the server.
* `MCGameModeRotationStuck`: modes are to rotate "as per configuration"
  (`netgame.cpp:252`); the repeat counter falls to -1, which counts as repeats
  that are left, so a mode that ends by itself is followed by itself for ever.

Others are built into the premises of properties that pass:

* *Objects.* `GetSlotState` compares an object id with `MAX_PLAYERS`
  (`objectpool.h:52`), so objects from 200 on are not sent to those who join
  later and cannot be destroyed: `ClientsMirrorBelowBound` is about the others.
* *Vehicles.* `IsOccupied` is to "find drivers or passengers"
  (`vehicle.cpp:148`) and asks the last driver in every iteration of its loop,
  so passengers lose their idle vehicle.
* *Pickups.* The client counts a pickup each time it is sent
  (`client/net/pickuppool.cpp:48`), and everything from `OnGameModeInit` is sent
  twice to those who are there at a restart. With 200 pickups or more, players
  who stay over a restart are not given "all the existing pickups"
  (`netgame.cpp:1205`): the premise of `ClientsShowPickups`.
* *Delivery.* The receiver gives up a hole after `timeoutTime`
  (`ReliabilityLayer.cpp` 492-505) while the sender goes on sending, and
  acknowledges and drops the packet when it comes (430-433, 459-467). A message
  that `PacketPriority.h` calls reliable is lost on a connection that lives, and
  an ordered channel waits for it for ever: the exception in `ReliableArrives`.
* *Filter scripts.* Unloading does not lower the counter
  (`filterscripts.cpp:43`), so after sixteen loads `reloadfs` unloads a script
  and cannot load it again: the premise of `ReloadKeepsRunning`.

Behaviour that a maintainer will want to know and no statement of the code
contradicts, found while modelling:

* *Presence.* A request to spawn that arrives during a restart is dropped
  (`netrpc.cpp:255`), and the client goes on waiting for the answer: SHIFT does
  nothing in the next game (`localplayer.cpp` 1253-1260) until a script spawns
  him. `AnswerLostOnlyInRestart` shows that this is the only way to lose it.
* *Presence.* With `ScriptsInRestart = TRUE`, a filter script that ends
  spectating between two modes makes the client spawn, which the server
  ignores: he walks about unseen by those present, and seen by those who join
  later once he has sent a position.
* *Deaths.* With `chatlogging` on, the log of a kill asks the player whom the client
  names as the killer for his name, and nothing tests that there is one
  (`player.cpp` 826-827).
* *Kicks in callbacks.* Handlers of a player's packets go on with the player after
  their callbacks (`player.cpp` 160-175, 510-604, 927-952; `netrpc.cpp` 187-196,
  233): a script that kicks him there leaves them a freed object.
  `RunningGameIsSafe` shows that this and the killer's name are all that stops a
  running game. Likewise a kick by index reaches whoever has the index by then
  (`netgame.cpp:1364`), who may be a successor; `RakPeer` has that step, and no
  property says that it must not happen.
* *Vehicles.* A late VehicleDestroyed call makes the fresh vehicle a wreck again:
  the five seconds in which updates are ignored are not for it (`netrpc.cpp`
  711-714). A filter script that respawns a vehicle in its `OnVehicleDeath` makes
  those after it hear of the spawn first and the death then, and so of two deaths
  between two spawns (`vehicle.cpp` 225-226); `OneDeathPerLife` says that nothing
  else does.
* *Vehicles.* A wreck can be respawned as idle before its death is announced;
  `Respawn` keeps the health of the wreck (`vehicle.cpp:253`), which later
  joiners are sent.
* *Menus.* `ShowMenuForPlayer` and `HideMenuForPlayer` test `!pPlayerPool && ...`
  (`scrcustom.cpp` 5190, 5208), which refuses nobody: a menu can be shown to an empty
  slot, where its flag says that the client has the text until `ResetPlayer` at the
  end of the next join. `TextIsCurrent` shows that this comes in time.
* *Menus.* `HideMenuForPlayer` stores the hidden menu as the one shown; a menu
  that a script shows while an answer is on its way is forgotten by the
  handler of that answer, so its own answer is dropped.
* *Objects.* `GetPlayerSlotState` (`objectpool.h:61`) is false for every
  personal object, so the natives that move them do nothing.
* *Rotation.* A refused `changemode` still changes the file the pending
  restart loads (`netgame.cpp:329`).
* *Pickups and text draws.* All is sent RELIABLE, without order (`pickuppool.cpp` 44,
  59, 83; `textdrawpool.cpp` 112, 122, 147, 178). A destroy or a restart that
  overtakes the pickup leaves it on the screen; of two edits, or a show and a hide,
  that overtake one another, the older stays, and nothing sends the newer again. The
  premise `Settled` leaves these out and nothing else.
* *Pickups.* A static pickup stores -1 in a BYTE and is never recognised as
  static (`pickuppool.cpp:30,105`); two bounds admit `MAX_PICKUPS` itself.
* *Pings.* `UpdatePings` stops before the last player (`netrpc.cpp:444`).
* *Names.* `ServerJoin` writes the length of a name as `size_t`
  (`playerpool.cpp:62`), the client reads a byte.
* *Scripts without a program.* A filter script that fails to load because its
  file holds no program stays in its slot, and the first callback that comes to
  it reads through a null pointer (`amx.c:1286`); a game mode that does not load
  does the same at the next restart, when `OnGameModeExit` is looked for.
* *Text draws.* The flags of who has a text draw are never cleared when a
  player leaves; `TextDrawsAreCurrent` shows that a flag too many does no harm.
  `TextDrawDestroy` and the two natives that hide text draws follow the pool
  pointer unchecked, which is null in a restart (`scrcustom.cpp` 5834, 5858,
  5869).
* *Connections.* The reply to a request to connect is sent once; when it is lost
  the attempt leads to nothing, and the client has to start a new one.
* *Delivery.* Fragments of a sequenced message that a newer one has overtaken
  stay in the list of fragments until the connection ends.

## 8. What is not modelled

* **Pure data**: positions, weapons, colours, number plates, key states, chat,
  text formatting, the console's variables. They pass through the server.
* **Vendored code** other than the network library: the AMX, SQLite, zlib, the
  client's user interface (DXUT): modelled by how the server uses it, where at
  all. It makes up most of the repository's lines.
* **The network library's other parts**: datagrams, congestion, encryption,
  plugins, file lists, bans, statistics. They keep no state that the game sees
  or that the promises of `MessageChannel` and `PlayerSlots` depend on.
* **Gang zones**: the server keeps where each lies and nothing of who was shown
  it, so there is no second state for it to disagree with. **Weapons dropped by
  the dead**: compiled out (`WANT_PICKUP`).
* **The client's game side**, tools and assets: see `PROJECT.json`.
* **Planned**: checkpoints, the player's clock, object motion, RCON logins and
  bans, the console thread, virtual worlds, and the unordered channel under
  `Presence` and `Menus`.

## 9. Plan

Order of the modules, the most important behaviour first:

1. `ObjectPool`, `NetGame`: the pools' common pattern and the frame. *Done,
   proved.*
2. `ScriptTimers`, `Vehicles`, `Menus`, `GameModeRotation` with `FilterScripts`.
   *Done, proved but for liveness.*
3. `Presence`. *Done, proved.*
4. `Pickups` and `TextDraws` in `ScriptItems`. *Done, proved.*
5. `MessageChannel` and `ReliabilityLayer`, `PlayerSlots` and `RakPeer`: the
   network library with its abstract specifications. *Done, proved but for
   liveness.*

Next, theorems that relate the modules to one another:

* that what `NetGame` takes its connections to do (an index is used again only
  after it was given back) is what `PlayerSlots`, which `RakPeer` was shown to
  implement, promises: a `NetGame` in which slots hold clients;
* that the pools and `Presence` see the restarts of `NetGame` and no others.

Then, models: checkpoints and the clock (`player.cpp` 144-245, 1001-1090) with
scripts that answer from the callbacks; the console thread against the loop;
failed RCON logins and bans; virtual worlds and the unordered channel in
`Presence`.

Runs are kept to one per question: when a new module needs one, instances that
ask the same question of the same module are joined first.
