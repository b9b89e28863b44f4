# libKCD2: models, model checks and proofs

libKCD2 is a library of reverse-engineered headers and wrappers for *Kingdom
Come: Deliverance II*, and a dozen KCSE plugins built on it (`src/Projects`).
Most of the wrappers hold no state; the logic that can go wrong over several
steps is in the plugins. This directory models the plugins whose behaviour
depends on the order of events: calls of Lua scripts, the game's per-frame
tasks, FMOD and Flash doing things in between, and calls that fail half way.

Everything below is modelled on the game's main thread; what interleaves are
*operations*: script calls, frame tasks, input and UI callbacks, messages, and
whatever the game, FMOD or another plugin did between two of them. Two plugins
guard their state with a mutex (the handle registry, PersistCVarEdits); each of
their operations holds it throughout, but for one read noted at the end of this
file.

## Inventory

| part | state it keeps | operations | what is hard | what makes it correct |
|---|---|---|---|---|
| **LuaUtils AudioManager** (`LuaUtils/src/audio`) | four handle pools (banks, sounds, events, channels), `m_bankPaths`, `m_soundPaths`, `m_eventOwners`, `m_routes`, the active FMOD identity and its epoch | load / unload / force-unload, play, stop, attach, detach, the per-frame `Tick`, `RefreshBackend` before each | FMOD calls fail in the middle of an operation; FMOD restarts or is "not ready" for a frame; instances, entities and buses vanish between frames; one bus lock is shared by many channels | counts equal what they count; tables lead exactly to what is live; no stale FMOD pointer is used; a bus is locked exactly while the manager needs it and knows it; what is over is retired |
| **AudioHandlePool** (`AudioHandles.h`) | slots with generations, a free list, a size | Emplace, Get, Erase, Clear | reuse of slots, wrap of the generation, Clear over free slots | a dead handle never resolves, the live ones do |
| **MCM** (`MCM/src`, `MCM/flash/mcm.as`) | the settings model `g_mods`, Lua listeners, the menu's cache in Flash | rebuild on each open, push to Flash with retries, value changes by index, listener registration | a push that fails half way leaves Flash and the model with different indices; retries interleave with edits and with another open | an edit reaches the setting the user saw; edits survive a rebuild; each change is told once to those who listen |
| **Autobrew** (`Autobrew/src`) | the executor's phase, intents, plan and cursor, stall and boil clocks, prompt rows | the per-frame `Tick`, action callbacks, session start and end, the brew-result hook | intents recorded between frames; the game's verbs finish when they like; the clock may jump; the session may end in any phase | a run ends or goes on; verbs are dispatched only into a free slot; the prompts say what the phase is |
| **Trampoline** (`src/REL/BranchTrampoline.cpp`, `KCSE/Trampoline.h`) | per plugin a pool of relays and a map from addresses to the bytes that stood there; the game's code, shared by all plugins | create, set_trampoline, write_branch, write_call (5 and 6 bytes), destroy, move, unload without destroy | patching a site twice or across another patch, several plugins on one call, any order of giving up | the code is the game's under the patches that remain; nothing leads into a freed pool; what a hook calls on is alive |
| **RTTR handle registry** (`LuaUtils/src/rttr`) | a map from handles to variants, the next handle | Store, Lookup, Release, Clear when a game is loaded or begun | scripts keep handles of an earlier game; the counter ends | a handle names one object, ever |
| **PersistCVarEdits**, **Autobrew's settings** (`persist.cpp`, `mcm.h`) | the edits by cvar, a `mod.cfg` each, the switch, the sink | read the file, record an edit, rewrite the file, pause; register cvars, apply and record the menu's settings | cvars register before or after the sink is armed; the same cvar in both files; a write that fails or that the game dies in; sessions follow each other | the next launch comes up with what was last set; a rewrite forgets nothing; both files agree |
| **FastTravelTweaks** | none of its own: the mark, the armed route, the dialog are the map's | press to preview, press to confirm, yes, no, cancel a frame later | others arm a destination while the dialog is open; the prompt of an ambush opens before the deferred cancel | a yes leads where the player confirmed; a prompt is never dismissed; no route is drawn afterwards |
| **PTFextender** | none but the clone it merges into | the merge of trees of rows, the loop over patch files, the swap | leaf against container, files in between that cannot be read | the result is what one reads off all files at once: the last file that says something wins |
| **CompassOverhaul** (`plugin.cpp`, `flash/compass.as`) | the names of objective marks; in the HUD's movie an overlay with its own copy | note the names of new marks, inject the overlay, push the table; the overlay reads it again when its length changed | marks are added while there is no movie; the movie is unloaded and made again; any step of the injection fails | the overlay has the names of just the objectives' marks |
| small tweaks, script binds, FMOD bindings, game wrappers, headers | none, or a pointer looked up once | – | – | – |

Interactions: script binds call the AudioManager and MCM; KCSE's task queue
runs `TickAudio`, Autobrew's `Tick` and MCM's push retries once per frame; KCSE
messages carry MCM's value changes to Autobrew; the AudioManager, MCM and
Autobrew call into FMOD, Flash and the alchemy minigame and are called back by
hooks.

## The modules

### AudioBackend, AudioBanks, AudioSounds, AudioManager

`AudioBackend` is what the two halves of the manager share: the FMOD system that
exists (`system`), whether `FmodRuntime::Refresh` accepts it (`visible`), the
identity the manager holds (`active`) and its epoch. The game restarts FMOD
(`RestartSystem`) or lets it fail a check for a while (`HideSystem`, a
"hiccup"). Every operation of the manager begins with `EnsureReady`, that is
with a refresh. In the models an operation is guarded by `Ready` (the refresh
changes nothing) and the refresh that does change something is the step
`RefreshBackend`; an operation that finds a new backend is that step followed by
the operation.

Each call of FMOD may fail. `Fails(n)` takes n failures from a budget
(`MaxFaults`); an operation's disjuncts are its outcomes, one per combination of
failures that leaves a different state. Two runs differ in nothing but bounds.

`AudioBanks` has the pools of banks and events as functions from handles to
records or `NoRecord`, `m_bankPaths` and `m_eventOwners` as functions, FMOD's
side as the state of the instance behind each event handle, and as history the
references each script has not given back (`held`). The scripts follow the
documented contract: they unload what they hold.

`AudioSounds` has the pools of sounds and channels, one route per bus, and
FMOD's side: the channels that play, the incarnation of each bus (odd while it
exists, so that a pointer to an earlier one is recognised as invalid) and how
often each bus is locked. What `AcquireRoute` and `ReleaseRoute` may do is a
*set of outcomes* (the route after, the lock count after, how many calls
failed, whether the caller got the route), because `PlaySound` and
`RetireChannel` go on from each of them differently.

`AudioManager` composes them: `Studio == INSTANCE AudioBanks`,
`Core == INSTANCE AudioSounds`. A script call is a step of one half, Tick, a
change of backend and the game's own steps are steps of both.
`ImplementsStudio` and `ImplementsCore` say that the composition refines each
half's specification: nothing in the other half, the shared Tick or the shared
failure budget is more than the half allows for. What the halves are shown to
satisfy therefore holds of the whole.

A fresh handle is any handle that is not in use. That a handle is not mistaken
for an older one is the business of the pool:

### AudioHandlePool, AudioHandleTable

`AudioHandlePool` is the template of `AudioHandles.h` on integers: a handle is
`((kind * GenerationSpan) + generation) * SlotSpan + slot + 1`, the shifts of
`MakeAudioHandle` with the two spans (2^24 and 2^32 in the code) as constants.
`retired` is history: for every handle erased or cleared, how many generations
ago. `AudioHandleTable` is the abstract specification: a table of names, each
issued at most once. The pool implements it until a slot starts its generations
over (`TableBetweenWraps`: every step that wraps no slot is a step of the
table); across a wrap the weaker `StaleNeverResolves` holds: no handle resolves
within a cycle of its retirement.

### McmSettings, McmPanel, Mcm, McmSession

`McmSettings` is the model `g_mods` of the plugin and its pure operations:
declaring mods and items, the snapshot of the values before a rebuild, putting
them back, the numbers a change comes in with. `McmPanel` is the flash movie
(`mcm.as`): its cache, the rows it shows and a slider somebody holds, with the
mouse or an arrow key. `Mcm` puts the two together: opening (rebuild and push),
the task that retries an incomplete push, closing, every gesture of the player.
A push is a sequence of calls of which any set may fail within `MaxFailures`
(`MayFail`, `Pushed`). `McmSession` is what the menu promises: a table of
settings in which an edit changes what the player asked for and a rebuild keeps
the values; `ImplementsSession` is the refinement. It lets an edit stray only
while the panel was not filled completely. `applied` and `missed` are history:
what the consuming mods run with, and the settings a rebuild left out.

Consuming mods (`OwnerChanges`) and the task queue are outside the plugin.

### McmListeners

The two vectors of Lua listeners in `scriptbind.h`, the references the plugin
holds to closures (`refs`) and how often a change called each (`told`).

### BrewPlan, BrewKitchen

`BrewPlan` is `Executor::BuildPlan` from the recipe rows on, as operators: the
sort, the test of the schedule, the boil windows, the preparation, the finish,
and every mistake `MistakeEngine` may add, as a set of plans. A window is in
turns; the parts of a second taken off for the swing of the kettle, and the
probabilities, are abstracted. `BrewKitchen` carries a plan out at the table.
The table itself is the game's: what its verbs do is taken from the comments
and checks of the executor, and marked external in the map. It takes an
operation only in the state it is meant for (`TableTakes`), so that a plan that
does not fit the table gets stuck; so does one that takes more units than its
stack at the station has (`OutOfUnits`): the driver waits (`RunDry`) until it
gives the brew up as stalled. `BrewsRecipe` says that the first never happens,
whatever mistakes are rolled, and that without mistakes the verdict is right.
`TakesFindUnits`, that the second does not either, is what a comment claims and
the code does not keep (`brew_stacks`). The player holds a fresh and a dried
stack of each ingredient; `StockStations` brings one of the two, and with sloppy
hands the dried one although there is a fresh one. What is assumed of a recipe (`Recipes`): it lists an ingredient
once, and does not ask for it both ground and not. That a quantity is at least
1 and a target at least -1 is the parser's doing (`row.m_quantity ? ... : 1u`,
and targets start at -1 and only grow).

### Executor

The driver of `Tick.cpp` and `Executor.cpp`: phases, intents, plan and cursor,
the stall and the boil timer, the Stop prompt, teardown, looping; the session
hooks; and the verdict hook. `Tick` is one step, as in the code. What it reads
off the game and the model does not hold (`CanPerformVerb`, the accrued boil,
the perk and brewed-once walls, whether the table is idle) is any answer. Its
plans are those of `BuildPlan`. A timer is an age on the game clock, or -1 when
the clock was set back behind its start. `mine`, `verdict`, `quiet` and
`ending` are history: how a brew that is being finished should be shown, how
the last one was, how long nothing moved, how the last run ended.

### Trampoline

A cell of the game's code holds a byte of the game or byte `at` of patch `of`.
A 5-byte patch is an opcode and `Disp` bytes of displacement, a 6-byte patch has
one byte more. `records` is the map `m_patches`, in which a second patch of a
site replaces the first one's record, and `Restored` is the loop of
`unpatch_all`: it runs over a `std::map`, so on a cell of two records the one at
the higher address has the last word, not the older one. `LeadsTo` is the target
`write_call` returns to its caller, read from the bytes that stand there, which
may be half of an older patch (`Wild`).

The class promises to "undo all patches (restore original bytes)", which cannot
hold for every use of it. `tidy` is history: each trampoline given up so far was
given up so that it can (`Tidy`: no site twice, of two overlapping patches of
one plugin the higher address first, nobody else's patch on top). All three
properties are about tidy behaviours; `Tidy` is thereby the contract the code
asks of its callers and does not check.

### RttrHandles

`Store`, `Lookup`, `Release` and the clearing on a load message. The module
implements the `AudioHandleTable` above: the pool of the audio manager and this
registry are two implementations of one promise, and this one keeps it without
a condition, because the counter stops at its end (`MaxHandle` for 2^64 - 1) and
`ClearHandles` leaves it alone.

### PersistedEdits

Two plugins and the console between them, over several sessions: the launch
(each plugin reads its own file; the engine evaluates both, one after the other,
the order unknown and constant, `lastFile`), the phases of KCSE's messages, the
sink and when it is armed, the registration of Autobrew's cvars, edits from the
console and from the menu, the two rewrites, the quit, and a game that dies
while it writes. A rewrite that dies leaves some lines in the file's order, the
last one perhaps cut (`Torn`); `Blank` is a value cut off, which the console
reads as 0. `wanted` is history: the value last set where somebody recorded.
The console is the game's; what it does with values for cvars that do not exist
yet is taken from the comments of both plugins.

### FastTravel

The plugin has hardly any state of its own, so the module models the map, the
dialog and the travel as the game lets the plugin see them, marked external, and
the plugin's two presses, the dialog's two answers and the deferred cancel.
`SetDestination` may be refused by the game, and other scripts arm destinations
at any time.

### PtfMerge

`MergeChildren` on trees of rows, and the loop that reads the patch files in the
order of the pak file system, skips what it cannot read and swaps the clone in.
The code's recursion into the children is a function of the height
(`MergeUpTo`), its loop over a patch's children a function of the place
(`MergeAll`), so that both can be reasoned about. The reference it is checked
against does not merge anything: what stands on each path of keys in the result
is read off the trees, one layer over the other (`MergeIsOverride`). Siblings
have different keys (`Siblings`): the key of a row is its tag with the seven
identifying attributes, and `FindChildIndex` never reaches a second row with the
key of a first. A patch that repeats a key under one parent is left out: what it
means is not said anywhere, and the code lets the second row go over the first.

### CompassNames

The quest log adds marks, the plugin notes their names and
pushes the table, the HUD's movie is made and unloaded, and the overlay reads the
table only when its length changed. `LabelsCurrent` says that this signal is
enough, which rests on two facts: the game never uses a mark's id again
(`C_CompassMark.h`) and the plugin never takes a name out of its table (the
mutant does).

### MCPlugins

`Trampoline`, `McmListeners`, `RttrHandles`, `FastTravel`, `PtfMerge`,
`PersistedEdits`, `CompassNames` and `BrewKitchen` share no state, and the run `plugins` checks them together:
each behaviour belongs to one plugin, chosen at the beginning, while the others
keep their initial state. Nothing is lost by it, for a step of one plugin
changes nothing another one reads, and the states stay those of the plugins one
by one instead of their product. (`PersistedEdits` holds the two plugins that do
meet.)

## The runs

| run | what happens in it | bounds and why they are enough |
|---|---|---|
| `banks` | two mods, two banks with one common event path, one event of the game, force and normal unloads, a restart and a hiccup | two events and two banks give every sharing and clash; two faults let an operation fail *and* its cleanup fail |
| `pool` | three slots, three generations, two values | each slot wraps; the free list has every order |
| `sounds` | two mods, one sound, two channels on two buses that come and go (`MaxBusChanges`: four changes between them) | the last and the last-but-one channel of a route; lock, flush, unlock failing one after the other; a bus is unloaded and loaded again under its route while the other one exists or not |
| `manager` | one of everything, both halves, under fairness; both refinements, both retirements | one entry in each pool suffices for the shared steps; each half's own depth is in its own run |
| `mcm` | two mods with items of both kinds, declared by XML, C++ and Lua; two openings, one failing call, every gesture | two mods and two items make a wrong index visible; one failure anywhere shifts all later ones |
| `mcm_retries` | one slider, two openings, up to three failing calls, under fairness | three failures use up the attempts of one opening |
| `plugins` | the eight modules above, one per behaviour. Trampoline: two plugins, three sites (0, 2, 3) whose patches overlap, one of them followed by a nop, four patches, three pools. Listeners: two mods, two closures. Registry: four handles over two objects and loads. Travel: two places, two deferred cancels. Patches: two files over trees of two levels. Edits: three sessions, five edits, one fault, one cvar of the engine, one of the menu and the switch. Compass: five marks, added one or two at a time. Brewing: every recipe of one row (two units), of two rows with any two targets, of three rows with two weak targets; mistakes with one and two rows; with one row the stacks are fresh, dried, or both, the two together enough for what either alone is not | four patches give a site patched twice with one across it, and a plugin that patches again after giving up; four handles are used up; two places tell the confirmed destination from another; three sessions let an edit survive a session that does not touch it; one fault is a failed or a fatal write; five marks let tables of one length differ and marks come before, between and after two movies; two rows show each coupling of the shared pot, the third the inheritance over a row; the stacks let a brew run dry at the over-counted unit, and at a unit of the recipe itself |
| `mcm_sliders` (violation) | the menu of `mcm`, one opening, no failure | |
| `brew_stacks` (violation) | one row, one unit, one fresh and one dried unit in the inventory, mistakes on | |
| `brew_refusals` (violation) | the recipes of `plugins` | |
| `executor` | two batches, five acts of the player, the clock and the sessions; under fairness | the second batch meets the finish of the first; two units of stall and three of boiling tell the timers apart |
| `executor_prompt` (violation) | the same with four acts | |

Deadlock is checked in every run but four: `mcm_retries`, where the menu stays
closed after `MaxOpens`, `plugins`, where sessions, patch files and handles come
to an end, and the two of the executor, where no session is left after
`MaxActs`. That no plan gets stuck at the table is no matter of deadlock but a
part of `BrewsRecipe`.

### Findings

* `executor_prompt`: `ReturnToIdle` hides the prompt "Stop" only from phase
  Cooking, but a looped run is stopped, or ends because the ingredients ran
  out, in phase Arming. The prompt then stays until the next run or session.
* `brew_stacks`: the guard of the over-count slip adds the fresh and the dried
  units of an ingredient (`Executor.cpp:350-361`), but one stack of the two is
  brought to the table (`Executor.cpp:176-195`). With one fresh and one dried
  unit a row of quantity 1 may be over-counted; its second take finds no unit,
  and the brew ends in the stall abort, which is what the guard is there to
  prevent ("it needs a spare unit in the inventory or the extra take would run
  the station stack dry", `Executor.cpp:344-346`). The sloppy slip has the same
  effect without an over-count: the dried stack it takes may be smaller than the
  recipe's quantity. `StacksLast` says which stacks are enough.
* `brew_refusals`: `BuildPlan` tries only the order sorted by weak and then by
  strong target. A row with only a strong target sorts behind every row with a
  weak one, so `{a: strong 2}` with `{b: weak 1, strong 1}` is refused although
  a before b meets both; the comment says that it verifies "the coupled
  constraints are schedulable at all". With conditions for one heat only
  nothing is refused (`BrewsRecipe`).
* `mcm_sliders`: selecting another mod while an arrow key holds a slider drops
  the gesture without emitting it; the cached item keeps the value of the
  steps, which was neither stored nor broadcast.

Seen while modelling, without a run of their own:

* `RegisterValueChangeListener` adds a second listener for a mod when the
  closure differs, where `MCM/README.md:186` promises a replacement.
* An incomplete push leaves indices in flash that are not the plugin's until the
  retry (`plugin.cpp:17` says they mirror the push order), which is why
  `FaithfulPanel` and `ImplementsSession` ask for a complete one.
* Arming waits without a limit for the table (`Tick.cpp:129`): nothing in the
  code promises an end, and `CookingEnds` does not claim one.
* PersistCVarEdits says that only changes of a session are recorded; when its
  sink is armed before Autobrew registers, the values the console held for
  Autobrew's cvars are recorded as well. They equal what was in a file, so
  nothing is wrong until the other file changes.
* An edit in the menu followed by one in the console leaves the two files
  different: Autobrew's file keeps the menu's value. The next launch takes
  whichever file is evaluated last, and `ReplaysRecorded` therefore exempts a
  disputed cvar. `MenuNeverDisputed` says who is safe.
* "Delete a line to return that setting to its default" holds only if the other
  file has no line for it.
* A write that failed is not repeated for the same value: `Stands` compares with
  the entry in memory (`unsaved` until another edit).
* A backend that is not ready for a moment (`AudioManager.cpp:167`) makes the
  manager forget what plays and which buses it locked, without releasing
  anything. The models have it; `NoStrayPlayback`, `NoStrayChannel` and
  `LocksKnown` are about histories without one.
* A route whose bus was unloaded while the manager held it locked stays unusable
  until the backend changes, even when the bus is back.
* An overlay of CompassOverhaul or Floating Damage whose `loadMovie` fails leaves
  an empty clip that counts as an overlay: it is not tried again in that movie.
* `compass.as:27` says that both tables are pushed from quest-marker events only;
  both are pushed by the injection, and the mark types by nothing else. The order
  it asks for (after the load) is kept.
* `AllocTrampoline` does not look at whether `create` found memory, and the
  bound of the pool is an assert.

### Fairness

`TickAudio` (plugin.cpp) puts itself back into KCSE's task queue every
time it runs, so Tick is called every frame: weak fairness of Tick and of the
refresh at its beginning. Nothing else is fair: scripts may never call, FMOD may
never stop an instance. The failures are finitely many (`MaxFaults`), so a
retirement that fails is tried again. In `mcm_retries` the task queue runs the
task of a retry, as KCSE does on the next frame; in `executor` the permanent
task runs `Tick` every frame, montages and swings end, and time passes. No
player, script or consuming mod is fair anywhere.

Every property has a mutant: a definition placed before the one it changes, with
the bug a reviewer would look for (a dropped guard, a forgotten decrement, a
missing cleanup). TLC refutes the property with the mutant in its place.

## What is proved

`AudioBanksProofs` (module `AudioBanks`, all constants arbitrary): the
conjunction `BanksInvariant` is inductive. Besides the properties it needs one
more fact, `UnnoticedIsSilent`: until readiness lapses for the first time, a
system the manager has not noticed yet is new and nothing sounds in it.
Without it `NoStrayPlayback` is not inductive: `RefreshBackend` empties the
event pool, and only the restart before it silenced the instances. The heart of
the proof are the lemmas on `CountsAfter`: taking the retired events out of the
pool takes exactly their number from the owners' counts, so `Monus` never
clips. They rest on the finite-set theorems and on
`IsFiniteSet(EventHandles)`. From the invariant: `CountsExact`,
`OwnersStayLive`, `ReferencesAreLoads`, `PointersStayCurrent`, `NothingStrays`.

`AudioHandlePoolProofs`: `PoolInvariant` (types, free list, size, history) is
inductive for every span; from it no stale handle resolves
(`StaleHandlesRejected`), exactly the listed handles do
(`OnlyListedHandlesResolve`, which needs the arithmetic of packing and
unpacking), every step that wraps no slot is a step of the table
(`HandlesAreNames`), and a pool that never wraps implements it
(`FreshHandles`).

`AudioSoundsProofs` (any sounds, channels, buses, restarts and failures):
`SoundsInvariant` is inductive. What the properties need besides themselves:
the shape of a route (`RoutesWellFormed`: a group is kept locked only under a
locked bus, and a route never holds a pointer the bus has yet to get), that a
manager without a backend has no routes, and `UnnoticedIsIdle` with
`LocksExact`: the locks FMOD holds are those of the routes as long as the
manager sees the system that exists, and a system it has not noticed yet holds
none. The outcomes of `AcquireRoute` and `ReleaseRoute` are the heart of it:
`AcquireOutcomesGood` and `ReleaseOutcomesGood` show that on each error path a
bus's locks change by what the route's record of them changes. From the
invariant: `SoundCountsExact`, `LocksStayKnown`, `BusesLockedWhileUsed`,
`NoChannelStrays`.

`AudioManagerProofs`: `ManagerImplementsStudio` and `ManagerImplementsCore`. A
step of one half is a step of the other or one of its `Other` steps, because all
it may do to the shared backend is to spend failures, of which there are never
more than the budget (`StudioFailures`, `CoreFailures`); a `Tick` is a step of
both. So what is proved of a half holds of the whole manager.

`TrampolineProofs` (any plugins, sites, lengths, patches and pools): in tidy
behaviours the code is the *overlay* of the patches in the order of their
numbers (`Layered`). The invariant needs to say what a record holds, and it is
not the bytes of when it was made, for older patches may be gone: it holds what
the patches older than its own put there *now* (`Remembered`), because none of
those that went covered a cell of it. With that, undoing from the highest
address down is undoing from the youngest to the oldest (`DestroyRestores`), and
the other steps keep it (`TidyRemoval`, `WritePatchInv`, `MoveFromInv`; moving a
trampoline renames the owner of patches, which `OverlayRenamed` shows to be
invisible). `Ranked`, that every set of patches has a newest, stands in for the
finiteness of `patches`. From the invariant: `DestroyUndoesExactly`,
`NoJumpIntoFreedPool`, `ChainsStayAlive`.

The settings files, in `PluginsProofs` (any cvars, values, sessions and failed
writes): `EditsInvariant` is inductive. What a launch will find is `Lasting`, the files
of a game that is not running and the plugins' records of one that is; the
properties are about the moment of a launch, and the invariant has to say what
is true of `Lasting` in every phase. `NoneUnknown` (a plugin remembers whatever
its file holds) keeps a rewrite from forgetting; `HeldForRegistration` (nobody
touches the lines of a cvar before it registers, and the console holds the last
of them for it) connects the replay with the files; `WantedLasts` is about
cvars on which the two files `Agreed` only, since the one read last decides
where they differ; `MenuSays` is what makes them agree on the menu's own cvars.
From it: `FilesStayWhole`, `MenuFilesAgree`, `NothingForgotten`,
`EditsAreReplayed`.

`McmProofs` (any mods, settings, values and declarations, any number of
openings and failed calls): `McmInv` is inductive. Its parts:

* the model is one (`Models`): no mod and, within a mod, no setting stands there
  twice, so that a place and a setting determine each other (`PlaceOfSetting`);
* the panel is sound (`Panels`): its rows and the sliders it holds are items of
  its cache, whichever calls failed;
* after a push without a failed call the cache mirrors the model place by place
  (`Mirrors`), values included except those of sliders, which a drag may have
  moved. This is what an edit by index needs, and it is about the panel as it
  was pushed: no edit changes which places there are (`Alike`, `MirrorsKept`);
* the menu and the mods agree, and what a mod was told of stands in the model
  unless a rebuild left it out (`MenuAgreesWithMods`, `Known`).

The rebuild and the push are recursive functions. What they compute is not
proved by induction over a formula: `StepsExist` says once and for all that a
function defined by steps, each of which leads from one *set* of values into the
next, exists and has its values there. `BuiltGood` uses it with the set of
models, the proofs about one mod's calls and about all mods' calls with the set
of panels filled so far (`Filled`, `Filling`). From the invariant:
`FaithfulPanelHolds`, `TogglesShowStoredHolds`, `MenuAgreesWithModsHolds`, and
for the steps `LiveValuesShownHolds` and the refinement
`McmImplementsSession`. Besides the three assumptions of the modules
(`PlaceholderAssumption`, `PanelAssumption`, `McmAssumption`) nothing is assumed.

`PluginsProofs`, the small plugins. MCM's listeners: references and fan-out for
any mods, closures and number of registrations; `RefsExact` is inductive only
with the uniqueness of the entries, from which `ToldOnce` follows. The handle
registry: the refinement of the table of names (`RegistryImplementsTable`) for
any number of handles; the invariant is that only issued handles have entries.
FastTravelTweaks: a yes travels as confirmed because, while the dialog is open,
its mark is armed unless somebody re-armed; no route is drawn because after a
yes no drawing is pending either. CompassOverhaul: the overlay compares
lengths only (`LabelsFollowNames`), which is enough because the names never
lose one: what it has is a part of a finite set of the same size.
PTFextender (`PatchesOverride`): merging one child changes the row of its key
and no other (`MergeChildGood`), so a whole patch gives every key the row of the
side that has it, or the merged row of both (`MergeAllUp`, `OneLevel`); below a
key of a merge stands the merge of what stands there below (`BelowMerge`), hence
on every path one meets the merge of what is met on both sides (`AlongMerge`),
and the result is `Override` (`RowsMerged`). The heights, the children of a
patch, the keys of a path and the files of the listing are all walked by
`StepsExist` and `StepsStay`.

`ExecutorProofs`: two inductive invariants for any recipes, limits and bounds.
`StallInv`: the stall window is open only on an operation of a plan and is
never older than the quiet it measures; with it an abort is real
(`StallsAreReal`). `VerdictInv`: a finish of the driver's keeps the player at
the table, and after the frame that follows its dispatch the phase agrees with
what the player asked for; with it `VerdictsAsAsked`. The plan's contents play
no part in either.

The plans of Autobrew, in the last section of `PluginsProofs`: `RecipesBrewed`
and `StacksLast`, for recipes of any length, any quantities and targets, and every
mistake the engine may roll. The argument has four parts.

* The sort is one (`SortedRows`): `Place` numbers the rows without gaps, by a
  count over a finite set, and orders them by `Before`.
* The windows telescope (`Windows`): what a row boils from when it is put in to
  the end is the sum of the windows from its own on, that is its inherited
  target, and with a condition of its own that is the row's (`Inherits`). Where
  `Schedulable` holds no window is negative, so that none of it is lost to the
  test `> 0` (`LaidWindows`). With conditions for one heat only the sorted rows
  are always schedulable (`SparePlan`).
* A plan is laid out stage by stage (`Laid`): every operation of a row, of its
  fire and of the finish has a known place, however the row slipped and the
  window was jittered (`EmittedStaged`, by the same `StepsExist` as the merge;
  `LaidOps`).
* The table is in step with the cursor (`KitchenInv`): at each kind of place it
  says what is in hand, in the mortar and in the pot, and what each row in the
  pot has boiled so far, namely its target less the target of what is still to
  come (`Boiled`). `BrewsRecipe` speaks of the verdict and of the operation
  at hand only and is not inductive; this difference is what a window carries
  from one stage to the next.

That each operation meets the table it needs (`TableTakes`, a part of
`BrewsRecipe`) is read off the same invariant (`KitchenFits`). Recipes without
ingredients are the exception, which `BuildPlan` does not refuse and which the
table would not grade. Units are a matter of their own, since the stock is the
player's: `StacksLast` proves that every take finds its unit if each stack covers
its row and, when mistakes are asked for, one unit more (`StacksCover`). Its
invariant `UnitsLeft` says of every take still to come that its unit is at the
station together with those of its row that come after it; no two rows share a
stack, so that a take leaves the stacks of the other rows as they are.

Assumptions: those named in the modules (`BackendAssumption`,
`BanksAssumption`, `PoolAssumption`, `LimitsAssumption`, `OrdersAssumption`,
...), nothing else. So every invariant, every property of steps and every
refinement of the passing runs is proved. Only model-checked: the liveness
properties `CookingEnds`, `DueRetire` and `PushRecovers` (fairness is out of the
prover's reach), and the four expectations the code does not meet (see the
findings).

## What is left out, and why

* Positions, volumes, pitches and parameters: they touch no table and no
  property depends on them.
* The results of clean-up calls the code ignores (the `StudioBankUnload` on
  `LoadBank`'s error paths): a bank leaked in FMOD is not tracked.
* A new FMOD system at the very addresses of the old one, unnoticed between two
  frames (`RestartSystem` excludes it).
* Scripts that give back what they do not hold; the 32-bit width of reference
  counts.
* `MaxFaults` counts failures generously: two failing calls on one object may be
  one fault in `Tick`.

* MCM: the injected menu button, parsing of the XML, scrolling, tooltips; a row
  the search hides is a row the player does not touch.
* Autobrew: the walk over the compiled conditions of a recipe, the odds of the
  mistakes, the wording of toasts. What the game does with an exhausted stack is not in the repository;
  the comments say that the take is then not possible, and so does
  `BrewKitchen`. The game is assumed to carry out a swing or a
  verb it accepted, to keep the player at the table during a montage, and to
  have a clock (`haveGameClock`: without one the driver never gives up).

* Trampoline: looking up addresses (`IDDatabase`, `Relocation`), the search for
  free memory within two gigabytes, encodings of the relays. An address of code
  is a cell; which instruction decodes at a torn patch is not modelled
  (`Wild`).
* RTTR: the conversion of values between Lua and variants, and whether a method
  of the game that is called through a handle ends in a script that releases it.
* PersistCVarEdits reads the value before it takes the mutex: with two threads
  that set one cvar the file may end up with the older value. The repository
  does not say that the console is ever used from several threads; the model
  has one. Its sink also passes over cvars that are read-only or constant and
  over values with a line break; the model has neither.
* CompassOverhaul: the table of mark types, pushed once, and where the labels are
  drawn. Floating Damage injects its overlay in the same way, keeps nothing else
  and is a mod of `Mcm` for its settings.
* PTFextender: the hooks on the game's loaders, paths, the syntax of the files.
* FMOD bindings and the CryPak reader, the script binds of LuaUtils, the small
  tweaks (a patched constant, a hook that returns a constant) and the wrappers
  of the game's classes: each call looks something up and passes it on, keeping
  nothing. What their callers can observe of a failure is in the models of the
  callers.
* The CryEngine and game headers, which are nearly all of the repository's
  lines, are declarations: types, virtual tables and offsets without behaviour
  of their own. They are why the mapped share of the repository is small; of the
  plugins' stateful code most is mapped.

## Plan

Done: the AudioManager and its handle pool, MCM, Autobrew, the trampoline, the
handle registry, the two settings files, FastTravelTweaks, CompassOverhaul and
the merge of PTFextender, with proofs of all their safety properties.

Left: the walk over the compiled conditions of a recipe, as a function from
conditions to rows that `Recipes` would then be the image of.
