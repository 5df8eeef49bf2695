# Melitta Barista for Home Assistant: TLA+ models, checks and proofs

This directory holds the formal models of the integration under
`src/custom_components/melitta_barista/` (below: `CB/`). It is written for a
reader who has the repository. Modules are named after the part they model; every
definition that models code is listed with its source lines under `map` in
`PROJECT.json`.

## 1. Inventory of the system

The integration talks to one coffee machine over Bluetooth LE, through a local
adapter (BlueZ) or ESPHome proxies, from tasks and callbacks that share one
asyncio event loop. A small SQLite database backs the "Sommelier" panel.

| Part | State it keeps | Operations | Talks to |
|---|---|---|---|
| Bond health machine (`bond_state.py`) | state, count of auth-fail cycles, persisted snapshot | `on_handshake_success`, `on_cycle_failure`, `on_bond_destroyed`, `allow_unpair` | called by the ladder; saved by `__init__.py` |
| Connect ladder and pairing recovery (`ble_client.py` 1246-1884, `__init__.py` 420-870, 1136-1356) | source affinity, hint, migration flag, cached device, failure class, episode latch | `connect` with rungs pair=False / pair=True / unpair + pair=True, `_try_unpair`, `set_ble_device`, force repair, set-up | bond machine, radio, proxy's UNPAIR action, stores on disk |
| Reconnect supervision (`ble_client.py` 1885-2160, `__init__.py` 1459-1783, 2264-2291) | two connect loops, back-off, counter of failures, repair card, poll task, entry life cycle | `_async_connect_and_poll`, `_reconnect_loop`, `_note_connect_failure`, `_trigger_repair`, `disconnect`, unload | ladder, advertisements, presence, repairs |
| Protocol channel (`protocol.py`) | key prefix, receive buffer, one ACK future, response futures per command, channel lock | `perform_handshake`, `send_and_wait_ack`, `send_and_wait_response`, `on_ble_data` | `_write_ble`, notifications |
| Brew and command gate (`_ble_commands.py`, `_ble_recipes.py`, `_ble_settings.py`) | brew lock, polling pause, staged brew intent | five `brew_*`, cancel, recipe and profile writes, cup-counter refresh | protocol channel, lifecycle detector |
| Brew lifecycle detector (`lifecycle.py`, `event.py`) | previous status, captured brew, cancel latches | `feed`, start/finish/cancel events | status callbacks, brew intent |
| Clock and prompts (`__init__.py` 191-306, `ble_client.py` 979-1010) | last clock check, last auto-confirmed prompt | clock comparison and write, auto-confirm | protocol channel |
| Recipe copies (`_ble_recipes.py`, `select.py`, `ui_contract.py`) | `base_recipes`, `_directkey_recipes`, the select's list, a contract's recipes | preloads, refresh, save, reset | protocol channel |
| Nivona overrides and MyCoffee (`_ble_commands.py` 259-330, `number.py`, `button.py`) | sliders, the machine's temporary recipe, the copy of the slots | announce, field writes, start | brew gate |
| Sommelier store (`sommelier_db.py`, handlers in `sommelier_api.py`) | one SQLite connection, `db._lock`, `_BACKUP_LOCK`, rows | profile, favourite, rating writers | WebSocket API |
| Bundles and snapshots (`sommelier_backup.py`, `sommelier_api.py` 1876-2359) | a folder of files | export, import, restore, prune, delete | store, executor threads |
| LLM generation and brewing wizard (`sommelier_api.py`, `ai_recipes.py`) | sessions, recipes, favourites, hoppers | generate, brew by phases, favourites, deletions | store, brew gate, an LLM service |
| Set-up flows and pairing (`config_flow.py`, `ble_agent.py`) | a draft per dialogue, agent, discovery and connection on the system bus | discovery, forms, pairing, creation | BlueZ, entries |
| Entries (`__init__.py` 307-360, 871-1130, 2264-2320) | panel, services, WebSocket commands, database: all shared | set-up, unload, reload, removal, options | everything else |
| Automatic repairs (`__init__.py` 1459-1740, `scanner_reach.py`) | times of reloads and losses, repair cards | repair with reload of the proxy, flap card, lost source | supervision, scanners |
| Narration (`narration.py`, `event.py`, `panel_api.py`) | strings of a language, stashed | preload, compose | events of the detector |
| Identity and entities (`ble_client.py` 192-246, 1780-1858, platforms) | capabilities, serial, device information, entities | set-up of platforms, refinement at each connect | scanner, machine |
| Codecs and tables of the brands; diagnostics; panel frontend; proxy configurations | none, or a mirror of the client's | pure derivations, forwarding | client |

What is hard here is not the data but the order of things: everything between two
`await`s is atomic and nothing else is. Two connect loops, the poll task, the
disconnect callback, advertisements, repairs, an unload and service calls all
interleave; the machine, the proxy and the radio answer late or never; the
bond may be destroyed by a request whose answer was lost; Home Assistant
restarts between a change and its delayed save; every handler of the panel writes
through one connection, and SQLite has one transaction per connection.

What makes each part correct:

* bond and ladder: a bond is only degraded on evidence, only cleared at the
  scanner that owns it, at most once per episode, also over restarts;
* supervision: a lost link is always somebody's to pursue, a live one is polled
  and announced, an outage starts with a fresh count, a reachable machine is
  connected again, a wedged one is reported;
* store: locked requests are atomic on disk, an export is one state, an import that reports
  success has brought everything;
* channel and gate: an answer belongs to the request it completes, what is
  brewed is what was written, commands of two tasks do not mix, a lost
  notification costs one answer and no more;
* copies: whoever shows a recipe, a sentence, a clock or a set of entities shows what
  its source is, however source and copy change meanwhile;
* wizard and bundles: a generation, a drink of several phases and an undo are whole;
* flows and entries: one entry per machine, nothing left behind by a pairing, and
  what entries share is there as long as one of them uses it;
* repairs: as often as allowed and no more.

`PROJECT.json` lists every hazard found with its line, and the properties for it.

## 2. Plan

Order of work, most important behaviour first. Done in this version: 1 to 11.

1. `BondState`, `WipeBudget` (abstract), `ConnectLadder`, `ConnectLadderProofs`.
2. `ReconnectSupervisor` (proofs in `MachineProofs`).
3. `StoreContent`, `AtomicStore` (abstract), `SommelierStore`, `SommelierStoreProofs`.
4. `CommandChannel`, `CommandChannelProofs`: protocol channel with the brew gate on top.
5. `BrewLifecycle`, `BrewLifecycleProofs`: `lifecycle.py` `feed` against a machine that
   makes drinks, with the hand-off of the intent and of the two records of a cancel.
6. `RecipeShape` and `SommelierWizard` over it, `SommelierWizardProofs`.
7. `BundleContent` and `SnapshotFolder` over it, `SnapshotFolderProofs`.
8. `SetupFlow` and `ConfigEntries` over it, `ConfigEntriesProofs`.
9. `RecipeBook`, `NivonaBrew`, `PromptConfirm`, `MachineIdentity`, and `MachineProofs`.
10. `ClockSync`, `RepairBreaker`, `StreamFramer`, `Narration` (proofs in `MachineProofs`).
11. `MachineMC`: the eight modules of 9 and 10 side by side.
12. Left: composition of `ReconnectSupervisor` with `ConnectLadder` (the supervisor's
    "ladder" stage refined by the rungs), so that repair and bond meet; proofs of the
    properties that hold by hand only (section 8); the UI contract document.

Theorems worth proving are the inductive invariants, the action properties that
follow from them, and the two refinements (`WipeBudget`, `AtomicStore`).

## 3. Modules and the code

A step of every model is what one task or callback does between two suspensions
(`await`s) of the event loop. An action is named for the function, or the part of
it up to the next `await`, that it models; its comment names the function.
Definitions that end in `_Something` and are called "Variant" in their comment are
plausible bugs, kept beside the definition they vary: `PROJECT.json` (`mutants`)
says which property catches each.

**`BondState`** (pure operators) is `bond_state.py`: the six states, and a record of the
state and the two counters that drive it. **`ConnectLadder`** is one `connect()` after
another: `pc` says where the cycle that holds `_connect_lock` stands (rungs 1-3, the
unpair and its fallback, the reads). `device`, `affinity`, `hint`, `migrating` are
the client's fields; `diskBond` and `diskSource` the two stores, written by delayed
saves (`SaveBond`, `SaveSource`) that a `Restart` at any time may beat. `rejections`,
`wipes`, `proven`, `wipeSaved` are history. **`WipeBudget`** is what the ladder
promises: a destructive request needs a rejection, and an episode has one.

**`ReconnectSupervisor`** has the two connect loops (`at["initial"]` is
`_async_connect_and_poll`, `at["reconnect"]` is `_reconnect_loop`), the poll task, the
disconnect callback (`LinkDrops`), advertisements, the automatic and the user's repair,
and the unload. A connect cycle is two stages, "ladder" and "reads"; what happens in
them is `ConnectLadder`. `card` is the repair issue, `hard` and `failures` what
`_note_connect_failure` counts, `onAir` the answer of the presence callback.

**`StoreContent`** is the content of the database as four sets (profiles, active ones,
favourites, ratings) and what each statement does to it. **`SommelierStore`** runs the
handlers over it a statement at a time: `view` is what the connection sees, `committed`
what is on disk, `txn` the one transaction of the connection, `lock` and `backup` the
two locks; `at[t]` is the next statement of request `t`. **`AtomicStore`** is the promise:
each request changes the durable content whole or not at all.

**`CommandChannel`** has `MelittaProtocol`'s channel lock (one per protocol object, that is
per session), the retry of writes, response futures that match by register, ACK futures
that match nothing, and over it the sequences of `brew_recipe`, `brew_freestyle`,
`write_profile_recipe`/`save`, the recipe refresh and an ungated setting, with
`_brew_lock`, its FIFO queue (`gate`) and the pausing of the poll task. `temp` is the
machine's temporary recipe; `stray` remembers that an ACK may be about that nobody waits for.

**`BrewLifecycle`** has the machine (its drinks are numbered), the notifications of one
link in the order sent (`inbox`), one brew or cancel command whose task runs on some
time after its ACK was dispatched, the client's `_brew_intent` (`stage`) and
`_ha_cancel_pending` (`haCancel`), and the latches of `LifecycleDetector`
(`detector`). `detector.of` and `detector.link` are history: the drink whose frame set
the latch, and the link it came over.

**`RecipeShape`** (operators) is what becomes of a recipe on its way from the language model
to the machine: the validator of `ai_recipes.py` (`ClampPortion`, `ValidProcess`, `ValidatePhases`, which drops
phases that pour nothing) and the checks at brew time (`Brewable`,
`Payload`). **`SommelierWizard`** has the handlers of the wizard over it. `at[t]` is the
await request `t` stands at and `job[t]` what it holds over it; `beans`, `hopper`,
`sessions`, `recipes`, `favorites` are the tables as the connection sees them, with
their foreign keys; `poured` is history: the last phases the machine has accepted.

**`BundleContent`** (operators) is `sommelier_backup.py` without its SQL: what an export takes
(`Export`, with and without history, up to `MaxRows`), which cells it hoists out of the rows
because they mean something here only, and what a replace-import keeps, rewrites and refuses.
**`SnapshotFolder`** runs imports, restores, snapshots and deletions over `folder`, whose
helpers run in threads: writing a file is two steps (`Torn` between them), and pruning goes by
modification time, not by name.

**`SetupFlow`** is a dialogue from picker, form or discovery card to the created entry, with
the pairing on D-Bus it waits for: `step`, `draft` and `bluez` of each flow. A dialogue that is
closed leaves its pairing running (`open`). **`ConfigEntries`** goes on from there: `life` of each
entry, and what entries share, `panelFlag` and `panel` (two things, with an `await` between
them), `services`, `commands`, and the lazily opened database (`domainDb`, `connected`, `opening`).
`stale` and `again` are the option changes a running set-up does not hear and a running reload does.

**`RecipeBook`** has the machine's slots and the four copies of them: the client's (`book`), the
select's (`listed`), an editor's and a contract's. Preloads, refresh, save and reset fill
them in steps that end in any order. **`NivonaBrew`** has the sliders, the one temporary
recipe of the machine (`register`) that overlapping presses would share, and one MyCoffee slot with
the client's copy of its flag. **`PromptConfirm`** has the machine's prompt, the last frame's
(`status`), the debounce (`confirmed`), the detector's edge (`previous`), and confirmations that
are sent when the prompt may be another one. **`ClockSync`** keeps minutes: Home Assistant's (`now`)
and the machine's (`clock`), over the wrap at midnight, and the tasks between them.

**`RepairBreaker`** has the times of proxy reloads and losses in the last hour, the source that
holds the bond and the cards; machines may share a proxy. **`StreamFramer`** takes the notifications
of answers apart into bytes and puts frames together again (`Received`: `Processed` byte by byte);
an encrypted byte may look like any other. **`Narration`** has the files of each language (`file`), whose strings
are in memory (`narrated`, `served`), the tasks that load them while the language changes
(`load`), and the sentence the last event got (`told`). **`MachineIdentity`** has what scanner, machine and user say the model is, what
`client.capabilities` makes of it, and the entities each platform has added; platforms
are set up before, beside or after the first connect.

**`MachineMC`** runs these eight in one run: they share no variable, `focus` names the one
whose behaviour is followed, and the others rest in one initial state. It saves eight configurations
and changes nothing in the eight modules.

## 4. Runs

| Run | Question | Outcome |
|---|---|---|
| `ladder` | When may the bond be degraded or cleared, over which source, how often? | the properties hold, and the ladder implements `WipeBudget` |
| `supervisor` | Is a lost link always somebody's to pursue, a live one served? | holds, except for `stranded` losses (section 8) |
| `supervisor_live` | Is a reachable machine connected again, a wedged one reported? | holds under the fairness below |
| `store_locked` | Handlers that take `db._lock`: atomic on disk, exports of one state? | holds, and the store implements `AtomicStore` |
| `store_all` | What still holds with the unlocked writers? | no open transaction is left, what was reported done is on disk, and a successful import is whole; but see section 8 |
| `channel` | Do locks, reads, brews and reports stay with whom they belong to? | holds while no late ACK is about |
| `brew_lifecycle` | Is each drink announced once, each intent used once, each end true, each latch released? | holds |
| `wizard` | Whatever the model answers and whoever deletes meanwhile: sessions with the recipes written for them, brewable recipes, drinks counted once, every request answered? | holds |
| `snapshots` | Can each import be undone, does pruning spare what it must, does an import bring in only what belongs here, does a restore bring back what was there? | holds, within the exceptions `ImportsCanBeUndone` names |
| `entries` | Two dialogues and two entries over one panel, one set of services, one database: one entry per machine, nothing left behind, a loaded entry served? | holds |
| `machine` | Eight components at one machine: do copies show their source, do writes meet their own brew, is nothing confirmed, synchronised, reloaded or said amiss? | holds |
| `settings` | "Options-less descriptors ... are surfaced as number entities in number.py instead" (`select.py:167`)? | no: before the first connect they are not made at all |

The properties of each run are in `PROJECT.json`, each with a comment at its definition that
names the code it is about, and each with a mutant: a plausible bug in a mapped definition
under which the run fails. The violation is the finding listed there.

`machine` holds eight modules because they share no variable: a behaviour follows one of them. It takes
two to three minutes. To look at one alone, fix `focus`.

## 5. Bounds

* `AuthCycleCap = 2`: the counter of rejected cycles is compared with 2 only.
  Two sources are enough to be the right and the wrong one; they are symmetric.
* `RepairAfterFailures = 2`: the least threshold with a failure that does not reach it.
  Counters are capped at it, where the code resets them.
* Store: two requests at a time (every pair of handlers meets), two profiles
  (activation moves), one favourite; two bundles, one an export, one edited by hand with
  two active profiles and an orphaned rating.
* Channel: two callers and the poll task; two sessions, so that a frame
  with an old key can arrive; one frame in flight (two in `ChannelUncorrelatedAck.cfg`,
  which looks for two ACKs of one command). `freestyle` brews and `save` use the same gate and
  channel; they are covered by the proofs, which take any `Operations`.
* Lifecycle: two drinks (one inherits from the other), one reconnect, one notification on
  its way. `Brews = 2, Pending = 2` and `Brews = 3, Pending = 1` (5 and 11 million
  states) were checked as well for the safety properties and the inductive invariant. With
  `Brews = 3` a cancel's ACK that is only taken after the next panel drink has begun would
  blame that drink on Home Assistant; `PanelBrews` excludes it (nobody selects the next
  drink faster than a notification is dispatched).
* Wizard: two tasks, one that generates and brews and one that does everything else (brews do not
  overlap with brews: the machine makes one drink at a time, and a count is one SQL statement); one bean in two
  hoppers, one session of one or two recipes of up to two phases, one favourite,
  two drinks. `Replies` holds a good reply, one that breaks the schema in every way the validator
  knows, prose, and no answer.
* Snapshots: two tasks, two requests, `SNAPSHOT_RETENTION` of 1 (the least that prunes), two
  seconds, so that names collide and do not. `MAX_IMPORT_ROWS` and the limit of a file lie between the
  contents: one fits both, one fits the rows only, one neither.
* Entries: two flows and machines, one of which tells its brand by name; two connections to
  the database at once, since one may close while the next one opens.
* Machine: one base recipe and one DirectKey slot with two contents each (the hidden half of the
  slot's differs); one field with two amounts and two overlapping presses; one soft prompt, two
  hard ones, two confirmations under way; a day of 5 minutes with a threshold of 2, so that
  clocks differ by less and by more either way round midnight, a throttle of 3 and 6 minutes in all; one
  proxy and one adapter, one reload allowed in two ticks of three; every triple of
  start and end bytes for encrypted ones, and two triples that look like another frame, notifications of
  4 bytes, frames of 4 and 7, three notifications under way, so that a question can follow a cancelled
  one whose answer is half there (`MaxUnderWay`); two languages with files that
  miss, break or blank one string; three models, two of them of one family, one with more and
  one with fewer slots than its family's table (in this run the machine is one of the first
  family and its name tells nothing; `settings` has all).

The proofs cover every other value of the constants of the modules they are about; every module
with a safety property that a run checks has them.

## 6. Fairness

Safety is asked of `Spec` without fairness. `ReconnectLiveness.cfg` uses `UndisturbedSpec`:

* weak fairness of every step a running task takes by itself (taking the lock, the end of
  a ladder, of the reads, of a closing poll and of a repair): asyncio runs what is ready and
  each of these awaits has a time-out;
* strong fairness of the end of a back-off: its deadline is fixed when it begins
  (`_wait_backoff`), so ignored wake-ups do not move it;
* an advertisement is seen again and again while the machine is on the air, also during a
  back-off, which lasts 5 s at least;
* strong fairness of a successful handshake: a machine that is ready and tried without end
  answers some time. Nothing is assumed of a machine that refuses;
* the entry stays loaded and the user starts no repair of his own.

`BrewLifecycle`'s `Spec` assumes that polling goes on while the link is up, that what
arrives is taken, that a resolved task runs, and that time passes (`LatchAges`). Frames with an
unknown code count as frames: the property is about a machine that sends nothing else.

`SommelierWizard`'s `Spec` assumes that statements end, that the call of the model ends (it has a time-out,
`_llm_call_text`), that commands of a brew end by theirs, and that `db._lock`, an `asyncio.Lock`,
serves its waiters in turn (strong fairness of taking it). Nothing is assumed of the native
helper of SmartChain: its call has no time-out, and `RequestsAreAnswered` excepts who waits for it.

The other runs are about safety, and their specifications state no fairness.

## 7. Proofs

All for every value of the constants, under the named `ASSUME`s (`None` is
none of the other values, the threshold is positive, bundles are contents, operations and
process codes are the known ones, bounds are naturals).

* `ConnectLadderProofs`. `LadderInv` is the strengthening: the frozen source, the cached
  device and the hint never leave the owner (`SourcesInv`), every stored owner is proven
  (`ProvenInv`), latch, count of wipes and bond machine move together (`LatchInv`), without
  a rejection nothing in memory **or on disk** speaks against the bond (`InnocenceInv`; the disk
  part is needed because a restart reads it back), and a saved wipe keeps both in
  PAIRING_REQUIRED (`SavedInv`). The action properties and the refinement of `WipeBudget`
  follow from it step by step.
* `SommelierStoreProofs`. `StoreInv` for any handlers: an open transaction is somebody's to
  end and a closed one leaves no trace. `ImportInv`, for any handlers too: whoever needs the lock has
  it, and an import has brought by each stage what the stages before it insert; writers without
  the lock only add to it, so what it commits is whole. `LockedInv` if the handlers keep the rule of
  `sommelier_backup.py:49` (`Disciplined`, an assumption of those theorems): `Progress(t)`
  says what the holder of the lock has done so far, from which each commit is one
  `AtomicStore` step.
* `CommandChannelProofs`. `ChannelInv` says where tasks stand and what locks they hold
  (`Standing`), what reads can have brought (`Reading`), and, while no stray ACK is about, that a
  write or ACK in flight belongs to the one who waits for it (`Truth`).
* `BrewLifecycleProofs`. The idea is `NothingBefore(b)`: everything still to be fed is of drink
  b or of a later one. It holds of whatever the latches, the stage and the history speak of,
  since notifications are taken in the order sent; with `InboxInv` (frames tell the
  truth, and an end is not followed by a PRODUCT of the same drink) it gives the rest.

* `MachineProofs`, one inductive invariant per module. `RecipeIInv`: the select lists what the client knows
  whenever no preload task runs, and a contract is held only while its bases are the client's; each
  change of the copy announces itself. `NivonaIInv`: who presses holds the brew lock, so the
  temporary recipe is his (`LockInv`), and what was ACKed stands in it (`AckedInv`). `PromptIInv`:
  the debounce remembers exactly the soft prompt of the last frame, over lost links too. `IdentityIInv`:
  the capabilities always fit the family the user chose, if he chose one. All for any
  number of slots, fields, presses, prompts and models. `BreakerIInv`: the times the breaker keeps are
  the last ones of the history of repairs, in their order, so what it counts is all there was in
  its hour. `ClockIInv`: a task that compares has a minute of the
  machine, one that writes a minute of Home Assistant; the rest is arithmetic round the dial. `NarrationIInv`:
  what is in memory is a language that was loaded from the files. `SupervisorInv` adds
  to its properties that `_connect_lock` has one holder, whose ladder starts without a link, and that a
  set-up loop in its last reads is not counted on to pursue a loss. `FramerIInv`: of an answer
  that has arrived whole so far the buffer holds the bytes; of one that has lost a notification it
  holds a segment of what arrived, which is no frame (`ChecksumAssumption`); and when nobody waits,
  what is left in it is too old to be added to, unless that wait was cancelled (`cut`). `cut` is given up
  by the first question that follows a pause of `Limit + Lag`, the time after which nothing under way or
  in the buffer can be younger than a stale frame.
* `SommelierWizardProofs`. `IInv`: by its stage, what a request has collected (`JobsFit`); requests
  do not share ids (`IdsDiffer`); the rows of a session are those of its reply, up to the one its request is at
  or the one whose INSERT raised
  (`HistoryFits`); what is being generated is not brewed yet (`NewIsUnbrewed`); the counters agree with
  the drinks. The recipes of a reply pass the brew-time checks by what the validator does, entry by entry.
* `SnapshotFolderProofs`. `IInv`: what a request carries between its steps and what the files hold.
  Three properties follow; the fourth, that whoever is about to import has his undo in the
  folder, needs `UndoFits`: from the write on the file is there, nobody else has its name, and it is not
  among the victims of any prune, since it is newer than what any prune may take and files are
  as old as their names. That is why the theorem assumes
  `~MaySetBack`.
* `ConfigEntriesProofs`. `IInv` is `TypeOK`, `FlowPart` (the flows alone: a flow with an entry
  has ended, and only a pairing that runs holds anything on the bus) and `SharedInv`: what a loaded or
  forwarding entry uses is there (`UseInv`), nobody else waits for the connection it uses, and a
  connection being closed is not handed out (`SharedDbIsOpen`). Proved for any flows, machines
  and number of connections.

Theorems whose property no run checks (`AtMostOneWipe`, `LatchAgrees`, `HintIsProvisional`,
`FreshAfterSuccess`, `CancelsHaveACause`, `DbIsOpen` and the type invariants)
were checked by TLC before they were proved; runs are kept for what says most.

Induction over the entries of a sequence is done where it is needed: the least element of a nonempty
set of numbers comes from the library's `WFMin`, from it induction for sets of numbers, from that the
existence of a loop's values (`LoopExists`), which makes a recursive function what its equation says.

Three assumptions say what the machine sends and are not checked against one: `CommandsAssumption` (a
frame is complete at its end and no earlier; true of `KNOWN_COMMANDS`, since the commands of one byte, A
and N, begin none of two), `ChecksumAssumption` (nothing that can be read out of what a lossy link leaves
of an answer is a frame), and that an answer comes within the second an unfinished frame may be
old (`Lag <= Limit`). The second is an idealisation: the checksum is one byte, and where encrypted bytes
happen to hold a whole frame, that frame is taken for the answer. Notifications of 2 or 3 bytes make the
instance of `MachineMC` do so (TLC then refuses the assumption); with 4 bytes there is no such chance.

Only model-checked: the liveness properties (`RecoversWhenReachable`, `WedgeEscalates`,
`LatchIsReleased`, `RequestsAreAnswered`), for liveness is beyond the prover; everything in section 8.

## 8. Divergences seen and not carried as runs

Sentences of the documentation that a model refutes. Those in the first table have a configuration
here (`tlc -config <cfg> <module>`); those in the second are checked by naming the property
in the configuration of its run.

| Configuration, module | Property | What happens |
|---|---|---|
| `LadderStaleUnpair.cfg`, `ConnectLadderMC` | `UnpairNeedsTwoRejectedCycles` | the failure class of an earlier cycle is counted again in one that saw no rejection |
| `StrandedLoop.cfg`, `ReconnectSupervisor` | `EveryLossIsPursued` | a link that drops under the last reads of a connect is nobody's until the next advertisement |
| `StoreHalfImport.cfg`, `SommelierStoreMC` | `NoHalfImport` | an unlocked writer's commit lands the first half of an import |
| the same, with `INVARIANT AtMostOneActive` instead | `AtMostOneActive` | two activations both deactivate, then both activate: two profiles are active (`sommelier_db.py:1833-1837`; docstring, 1828: "deactivates all others") |
| `ChannelUncorrelatedAck.cfg`, `CommandChannelMC` | `ReportedMeansStarted` | the late ACK of a retried write is taken for that of the start |
| `FavoriteTwice.cfg`, `SommelierWizardMC` | `OneFavoritePerRecipe` | two clicks both look for a duplicate before either inserts (`sommelier_api.py:1448`, against the docstring, 1438-1441) |
| `PanelLeft.cfg`, `ConfigEntriesMC` | `PanelGoesWithTheLast` | a disabled entry still counts as remaining (`__init__.py:356`, 2280-2286) |

| Run | Property | What happens |
|---|---|---|
| `supervisor` | `UnloadStopsTheLoops` | a repair suspended over the unload re-arms the client |
| `snapshots`, `MaxAsked = 3` | `NeverPrunedUnderYou` | the pruning of one restore takes the file another is about to read (`README.md:832-833`) |
| `entries` | `SecondSetupIsHarmless` | two set-ups meet between the flag and the panel (`__init__.py:319`), and the second fails |
| `entries` | `SavedOptionsRun` | options saved during a set-up run after the next reload only: the listener comes last |
| `entries` | `LoadedHasServices` | the last unload takes the services from an entry set up while the database closed (`__init__.py:2289-2306`) |
| `machine` | `AllOrNothing` | a field that fails is logged and the start goes on (`_ble_commands.py:259-265`; docstring, `button.py:486-495`) |
| `machine` | `OnlyArmedSlotsBrew` | the button goes by a copy that is as old as the last read (`button.py:645-648`) |
| `machine` | `HardStaysManual` | a confirmation made for a soft prompt reaches a machine that shows a hard one (`README.md:736`) |
| `machine`, `MaxMinutes = 11` | `SyncedEveryDay` | a daily tick without a link, or a rejected write, is not made up for (`__init__.py:299-304`) |
| `machine` | `NeverHalfAndHalf` | labels come from `ui_strings` of Home Assistant's language, the frame from the language loaded last (`event.py:327`; `README.md:580-582`) |
| `machine` | `ButtonsAreTaken` | a reconnect without an answer to HL counts the family's slots again, and presses of the rest are refused |

`SavesKeepTheHidden`, `CompleteMeansRead` (`RecipeBook`) and `SharedDbIsOpen` (`ConfigEntries`)
hold, and can be checked the same way.

Seen while modelling or reading, without a property of their own:

* Ladder: a source migration unpairs on the first rejection, without the bond machine, and
  again after a restart (`ble_client.py:1642`). A `TIMEOUT` with a stale class `AUTH` degrades
  trust, which `bond_state.py` excludes. A crash within the 5 s before the delayed
  save forgets a wipe. Force repair erases the proxy's bonds without
  `on_bond_destroyed` (`__init__.py:782`).
* Supervisor: `_on_disconnect` may start a reconnect loop beside a live set-up loop. Adverts
  after a success count from zero, so an episode need not serve its full back-off
  (`ble_client.py:1916`). An unload during a cycle can leave the link up.
* Store: a note may insert a rating for a favourite removed between its two sections
  (`sommelier_db.py:1307`); snapshot and import are two sections, so what is replaced may
  differ from what was saved (`sommelier_api.py:2068`).
* Gate: `was_polling` is sampled before the lock is awaited (`_ble_recipes.py:361`), so a save
  that queues while `connect()` reads leaves polling off. A save answers FALSE although it has written
  when its re-read raises.
* Channel, framer: a refresh that runs into its 60 s (`_ble_recipes.py:582`) or a poll that is stopped
  (`ble_client.py:2231-2236`) cancels a waiting read and frees the channel at once (`protocol.py:665-684`),
  with part of an answer received; the next answer is appended to it and lost. `IsCancelled` has it, and
  `IntactAnswersGetThrough` excepts it by `cut` (without `cut` the run fails).
* Lifecycle: an intent whose own drink was never announced (it fell in a poll gap, or its
  PRODUCT was the first frame after a reconnect), or was announced before the intent was
  staged, is inherited by the next panel drink within `BREW_INTENT_TTL_S`; `README.md:594-597`
  says such a drink carries no recipe. The Cancel button needs a
  status that is not READY, when the stage is empty or holds such a left-over: then
  `annotate_brew_intent` marks the next panel drink as cancelled by Home Assistant
  (`_ble_commands.py:513`). `CreditedOnce` and `CancelHasACause` state what holds all the same.
  Prompt edges are balanced within a link only (`lifecycle.py`, about line 626).
* Wizard: an INSERT of a generation that raises (`calories_approx` has no upper bound,
  `ai_recipes.py:930-936`, and SQLite's integers have: `sommelier_db.py:928`) is answered with an error, and what
  was inserted before it is not rolled back: the next commit on the connection makes a session with
  part of its recipes durable. `InsertRaises` has it; that is why `SessionsKeepTheirRecipes` does not
  speak of whole replies. `async_delete_bean` says it never raises; a session created by the unlocked
  `create_session` between its statements makes it. The migration from version 4 to 5 gives
  single-phase recipes a second phase "none".
* Snapshots: with the clock set back (`MaySetBack = TRUE`) a fresh snapshot is the oldest by
  name, and `ImportsCanBeUndone` fails (`README.md:826-833`). Two threads may choose the same name in one
  second. A prune that has listed a file may take a fresh one that got the same name after the
  file was deleted within that second; the model excuses that undo (`pruning` in `OpensFile`). Built-in presets are seeded after the COMMIT of an import.
* Entries: the lazy opening of the database may leak a connection when two requests open it; WebSocket
  commands outlive the last unload and open it again; delayed saves are lost by a quick
  reload; repair cards stay after a removal; force repair may re-arm the client of before a
  reload; a failed StartDiscovery leaves StopDiscovery uncalled. `SetupFlow` does not
  rely on Home Assistant to refuse a second dialogue for one unique id
  (`config_flow.py:458-463` says it lets it go on).
* Clock, prompts, repairs: two quick reconnects both pass the clock's throttle, and a rejected write
  arms it. The same soft prompt after a reconnect or a failed confirmation is not
  tried again (`README.md:736`). Two machines that share a proxy reload it twice as
  often as one may. A restart forgets the cards that do not persist. The HD reset runs without the brew lock.
  The generation of recipes starts at 0 again when an entry is reloaded, and may meet an
  old fingerprint.
* Narration: a clause whose string is blank passes the guard and is silently dropped;
  `complete` stays TRUE when a prompt's label is missing. Overlapping loads finish in any order.

## 9. What is left out

Abstractions: delays are not modelled, a timer may elapse at any time, where a module does not say
otherwise; the supervisor has no source migration and one user repair at a time, and a
threshold of 0 (repair off) is not modelled. Store: other tables, columns and foreign keys, the
re-seeding of presets, the commit of `_ensure_panel_schema`, inserts row by row,
`take_snapshot=False`, failing statements of ordinary writers. Channel: chunks of a frame are one
step, the reads of `connect()` itself are not on the channel, the read and write loops of
`write_profile_recipe` and `brew_directkey` are one each, waiters for the
channel lock are served in any order. Lifecycle: prompts,
maintenance procedures and shape; BUSY stands for maintenance; frames may come at any time,
which includes every polling rhythm, and at most one between an ACK and the task that waited
for it. Wizard: ratings, the profile's foreign key, the annotation of the intent, prompt texts and
vocabularies. Snapshots: the checks of single rows, other tables, imports without a snapshot. Flows:
options, the reconfigure step (an address that does not fit aborts), the looks of the forms.
Recipes: statistics and names. Framer: a checksum is membership in `Frames`, unsolicited
frames and an overflow of the buffer do not occur in the instance (its frames are shorter than
the limit), and the time-out is the 2 to 30 s of the options (`config_flow.py:796-799`), longer
than the second after which a buffer is stale. Narration: volumes, substitution, the
budget of clauses, regional variants of a language, and that the entries of several
machines share one stash. Identity: the family of a Melitta by its machine type
(`ble_client.py:2207-2224`); the DIS hint names the true family.

Not modelled: the UI contract document (derived data, but for the generation of
recipes that `RecipeBook` keeps); payload codecs, ciphers and the tables of the brands (pure functions of
bytes, and data); entities that forward a call or mirror a value; maintenance commands and cup
counters (one command each, over the same channel); schema migrations of the database;
diagnostics and scanner reach (read-only reports); the panel's JavaScript; ESPHome
configurations and scripts.
