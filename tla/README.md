# A verification model of the traffic light

The traffic light is six entities of a KasperskyOS image and a simulator of the central server. This
directory models them in TLA+, checks the models with TLC and proves their main safety properties with
TLAPS. It is written from the code; paths below are relative to the repository.

## The system

```
 central server  <-HTTP-  Connector  <-IPC-  ControlSystem  -IPC->  CrossController  -IPC->  LightsGPIO
                                                                                  (security monitor)
 everybody  -IPC->  Diagnostics
```

IPC is synchronous: a caller blocks until its callee has replied, and a callee serves one request at a
time. Only CrossController has two threads.

| Part | State it keeps | Operations | Must be true of it |
|---|---|---|---|
| LightsGPIO `lights_gpio/src/lights_gpio.c` | `mode`, what the lamps show | SetCrossLights, which reports to Diagnostics before it replies | lamps never conflict; the report follows the lamps |
| Security monitor `einit/src/security.psl` | two Flow objects, one per direction | grants or denies each SetCrossLights | in step with the lamps; leaves a way out of every combination |
| CrossController `cross_controller/src` | current and requested behavior, mode, durations; `timerMutex`; the mode file | SetCrossSchedule (main); a turn of the timer thread every 3 s | the two threads never mix two requests; phases keep their length; every request ends |
| ControlSystem `control_system/src` | the last mode fetched, the last codes | a round every 10 s: Collect, GetTrafficMode, SetCrossSchedule, SendDiagnostics | hands on what the server said, failures do not stop it |
| Connector `connector/src/connector.c` | a socket per call | GetTrafficMode, SendDiagnostics, each with up to 10 connection attempts | an answer is the server's mode, and there is always an answer |
| Response parser `connector/src/response-parser.c` | static `update_modes`, `traffic_light_resp` | parse_response | nothing of one response shows in the next |
| Diagnostics `diagnostics/src` | the last event code of each entity | Collect | (a register) |
| Central server `central-server/central-server.py` | `tl_mode` | GET mode, POST manual, POST diagnostics | (the environment) |

What is hard about it:

- the timer thread holds `timerMutex` across a call to LightsGPIO, while main takes schedules;
- the timer thread is started before the proxies it uses are initialised, with its stop flag set;
- the monitor has a state machine of its own, written apart from the ones in CrossController and
  LightsGPIO, and a denied request is only noticed by its error code;
- every result on the way from the server to CrossController is dropped by somebody: no connection, no
  answer, an answer that does not parse, a dead Connector all end in a call of SetCrossSchedule;
- three copies of the mode outlive a round (the parser's two statics and ControlSystem's `trafficMode`);
- three sleeps pace the system (3 s, 10 s, 1 s), and whether a request is granted depends on where in the
  cycle of the lamps it arrives.

`PROJECT.json` lists these as hazards, each at its line with the properties that would catch it.

## The modules

| Module | Models | Remarks |
|---|---|---|
| `CrossModes` | the IDL constants, `color_defs.h`, `GetNextRegulatedMode`, the SetCrossLights message | a mode is an integer, two bytes of lamps |
| `Diagnostics` | `Collect` | atomic: Collect calls nobody |
| `LightsGpio` | the dispatch loop, split at the call to Diagnostics | EXTENDS CrossModes, Diagnostics |
| `SecurityMonitor` | the SetCrossLights policy | constant `DenyRollsBack`, see below |
| `Intersection` | abstract specification: six colours per direction, compatible pairs, legal changes | no code |
| `SecuredLights` | LightsGPIO behind the monitor, and any client | implements `Intersection` |
| `CrossController` | both threads, LightsGPIO, monitor, Diagnostics | implements `SecuredLights` and `Intersection` |
| `ResponseFields` | the parser's functions on one token | pure operators |
| `ResponseParser` | `parse_response`, again and again | EXTENDS ResponseFields |
| `CentralServer` | the simulator | an object is the sequence of its members |
| `Connector` | its dispatch loop and both handlers, step by step | EXTENDS CentralServer, Diagnostics |
| `ModePolling` | abstract specification: publish, sample, deliver | no code |
| `ControlSystem` | the main loop with Connector, server and Diagnostics | implements `ModePolling` |
| `TrafficSystem` | everything together, against the clock | composes `ControlSystem` and `CrossController`, and implements both |
| `Folding` | a function over a sequence, element by element | used by `ResponseFields` and `CentralServer`, for the proofs |
| `MCSecuredLights`, `MCCrossController`, `MCResponseParser`, `MCControlSystem`, `MCTrafficSystem` | instances for TLC | |
| `...Proofs` | theorems about the module they are named after | `MonitorProofs`: the Flow objects; `FoldingProofs`: folds |

State and actions follow the code: a variable is a field or a local of the code under its name, and
`main`, `timer`, `gpio`, `connector` and `control` say where a thread is. A step ends where the code
blocks, calls another entity or touches what another thread may see (mutex operations, sleeps, file
writes). Everything between two such points is one action, error paths included.

Undefined behaviour is a choice over its outcomes: a call on an all-zero proxy crashes the entity or
returns an error; an unwritten `traffic_light_mode` holds any of `GarbageModes` or a text without an end;
an unwritten `behavior` any of `GarbageBehaviors`; `free` of a stack array kills the Connector or does
nothing.

`TrafficSystem` joins the two halves. A call of SetCrossSchedule is one step of ControlSystem and of
CrossController's dispatch loop, after which ControlSystem waits until that loop is ready again; both halves
report to one Diagnostics. Time is counted in seconds and passes only when every thread sleeps, is blocked,
waits for one that is, or is gone: what happens between two such points takes no time but is interleaved in
every order with what others do in that second. The timer thread sleeps `TimerFreq` (3 s) between turns,
ControlSystem `RoundPause` (10 s) between rounds, the Connector `AttemptPause` (1 s) before each attempt to
connect. The Connector is blocked in `connect()` and in `read()`, which have no timeout in the code
(`connector.c:77`, `109`, `151`): any number of seconds may pass there (`Blocked`, `Tick`), so that a round has
a shortest length but no longest one. The mode file, which nobody reads, is written without failures there;
`CrossController` has them.

Constants:

- `DenyRollsBack`. What the monitor's runtime does with a Flow object that took its half of a request
  which the other half then denies is not in the repository. TRUE: nothing is kept. FALSE: each object
  may or may not keep its half. What rests on TRUE is said so in its theorem. With FALSE `NoTrap` and
  `MonitorInStep` fail: the monitor can come to believe in colours the lamps do not show, and then
  refuse every request; that the lamps never conflict holds for both.
- `Schedules`, `Messages`, `Posts`, `Documents`: the inputs a run enumerates.
- `NumRetries`: the code has 10. `IntHalf`: 2^31.

## The runs

| Run | Question | Bounds |
|---|---|---|
| `lights_honest` | do monitor and lamps stay in step and implement `Intersection`, does the policy grant exactly what `Intersection` may show, and is no combination a trap, when the client names the colours of the mode it sends? | all 81 pairs of lamp bytes `GetColorMode` can produce and one it cannot; one event code |
| `lights_forged` | what is left when names and mode disagree and a denial may leave half of itself? | 8 modes with all 49 pairs of names, `DenyRollsBack` FALSE |
| `controller_safety` | do the two threads keep their shared state consistent, under any interleaving; can they wait in a circle; is a step of the cycle ever refused? | seven schedules: regulated, unregulated, an unknown behavior, manual modes inside, outside and against the policy |
| `controller_live` | is every schedule answered, every request resolved, does the cycle go round? | three schedules, one for each behavior, one with a green of length 0 |
| `parser` | does a field hold the last value given under its key, and nothing of an earlier object? | all objects of up to three tokens, longer ones with two or three keys, a 4-bit int |
| `polling` | what reaches CrossController and the server in spite of every failure on the way? | 2 attempts, 2 objects the server takes and 2 it refuses, two garbage modes, 2 event codes |
| `traffic` | do the halves, put together, behave as each assumes of the other; do the sleeps bring about the fairness they assume; are reports of their own round; does each schedule get its turn in time, do lamps flicker, does anybody sleep with the mutex; is a mode left alone obeyed? | any number of failures and of seconds in `connect()` and `read()`; one attempt to connect, a 2-bit int, two garbage modes, three modes on the server (blinking yellow, a cycle with greens of 1 and 2 turns, manual green/red) |
| `mode_names`, `mode_file`, `proxy_first`, `timer_stop` | findings, see below | as the passing run of the same module |
| `operator_obeyed` | finding, see below | as `traffic`, restricted by `NetworkIsPerfect`: nothing fails, and a round takes as long as its sleeps |

Why small is enough. No code compares durations with anything but 0, so the lengths 0, 1, 2 and the fixed
3 show every count-down; what a schedule asks for only matters up to its behavior, whether its mode is
permitted and whether it is in the cycle, and every kind is there. The handlers of the Connector keep
nothing between two calls except the attempts, so two attempts have a first, a last and one in between
them and success. The parser's memory is one set of flags, so what three tokens cannot do to it four
cannot, and the theorem about it has no bound. A 4-bit int makes 9 wrap, as 2^31 does in the code.
In `traffic` a failure matters in two ways: what garbage it leaves, and that it shifts the rounds against the
turns of the timer. Nothing bounds either: every round may fail, at every point, and `connect()` and `read()`
may take any number of seconds, so every phase of a round against the turns is reached with one attempt to
connect as with ten. The counters stay finite because no clock runs beyond its sleep. One of the garbage modes
is against the policy and has a negative duration, the other is empty and has no behavior. The operator posts while the Connector waits for an answer: of what is posted before that,
only the last is ever read, and what is posted after it waits for the next GET. The VIEW (`WhatIsRead`) merges
states that differ only in values which are written again before anybody reads them, or are never read: the mode
file, `received`, codes nobody compares, and the copies of a mode or a schedule behind the last place that reads
them. Each such variable is listed there with the places where it is still live. A property of states that names a
variable the view drops would be checked too little, so the properties of this run name those it keeps, or are
about steps (the refinements, `ReportIsFresh`, `OwnReportFits`), and a step only reads what is live.

Fairness. `CrossController`: a thread that can run runs (weak fairness of each thread and of LightsGPIO).
Acquiring `timerMutex` is strongly fair, since main holds it for six assignments every ten seconds and the
timer thread for one turn every three, so that neither can find it taken for ever. Nothing makes
ControlSystem send a schedule. `ControlSystem`: it and the Connector run on; `sleep` and `connect` end by
themselves. Nothing makes the server answer, the operator post or another entity report. The liveness
properties therefore name what they need: `RoundsGoOn` has the two ways the rounds do stop (an assertion
on a text that cannot be copied, and a connection the server leaves open without a word, for the read
has no timeout), `ModeReachesController` asks that fetching succeeds from some time on, and `CodesReachServer`
that reports arrive again and again. A connection is not enough for the latter: the report is written to the
socket and no answer read (`connector.c:204`), so a report may be lost on an open connection too (`ReportLost`).

`TrafficSystem` assumes only that each thread which can run does, that `connect()` and the transfer of an answer
come to an end, and that time goes on; no strong fairness, and none of the server: whether it ever answers a GET
is its own affair (`ServerStep`). ControlSystem is one thread, so `RoundStep` and `SetCrossSchedule` share one
condition. `SchedulingIsFair` then shows that the strong fairness assumed of `timerMutex` in `CrossController`,
and all that `ControlSystem` assumes, holds there because of the sleeps.

Two properties are about seconds and not about "in the end". `NoScheduleOverlooked`: a schedule main has
applied is decided on by a turn of the timer thread within 3 s. A turn that finds the mutex taken is
skipped, so this rests on the rounds being longer than the sleep of that thread, and would fail if they were
not (`waited` is the clock that measures it). `NoFlicker`: lamps that change have been shown for 3 s or more,
although no line of the code says so; excepted is the first turn, before which the lamps have just been
switched on. Both hold whatever is posted, lost or refused and however long a round takes: they need that
the next schedule is at least 10 s away, never that it is at most so.

`ReportIsFresh` and `OwnReportFits` are about reports and lamps. A round has no longest duration, so a report may
be any number of seconds old when it arrives; what the code does promise is that it is of its own round. If
the lamps show what they showed in the second before the round began (`unchanged`), the report names it:
a report of an earlier round, or codes collected late or kept from before, would break that. A report may be
wrong about a change in the very second in which its codes are collected, hence the comparison with the second
before. `OwnReportFits` is the other report: main reports a copy of `curCrossMode` after it has given back the
mutex (`cross_controller.c:316-322`), and the copy may only be behind by a change of that same second.

`ReportsAreGenuine` is about the way of the codes: Diagnostics, ControlSystem and the server each keep a copy,
and what has reached the server of an entity is a code that entity sends and is never taken back. The
Connector's own is left out of it: it is whatever the stack held.

`ObeyedOrRefused` is what remains of "the lamps do as the server says": a mode the operator leaves alone is
in the end the one the lamps follow, or it is refused again and again. No lost answer, no leftover of an
earlier mode and no skipped turn outlasts it; a refusal can, see finding 4.

`ImplementsPolling` is the strongest statement about the way from the server: a round whose fetch
succeeded hands on what the server's mode meant at one moment of that round, behavior, colours and
durations, whatever the parser and ControlSystem still hold of earlier rounds. `Meaning` reads an object
member by member and knows nothing of tokens, flags or walks.

## Findings

1. `mode_file`: `WriteModeToFile` gets `resultMode`, 0 in every turn without a successful call, so the
   file names no mode during count-downs and after refusals.
2. `proxy_first`: `KosThreadCreate` comes before `LightsGpioProxy_Init`.
3. `timer_stop`: a first `TryLock` that fails ends the timer thread, because its local stop flag starts
   as true.
4. `operator_obeyed`: blinking yellow, posted while the cycle runs, may be refused for ever. It is only
   granted where one direction is green or both are red, tried once and given up until the next round. The
   durations of the refused schedule, 0, stay, so both greens shrink; with the turns lost to refusals the
   cycle then takes 24 turns of 3 s, exactly six rounds of 12 s, and every round meets it in the same wrong
   phases. That is a resonance: it needs rounds that take no longer than their sleeps, and clocks that do not
   drift. What the code says against it is only the "success" in the server's answer to the operator
   (`central-server.py:46`), which can be read as no more than "noted". (A cycle asked for from manual red/red is never granted either: there is no next mode.)
5. `mode_names`: the result of `parse_response` is dropped; an answer that was lost becomes whatever the
   stack held, sent with `NK_EOK`.

Seen while modelling and not worth a run: `SendDiagnostics_impl` never copies the Connector's own code
(`connector.c:266`), the status printed at `connector.c:239` is OK even when parsing failed, and
`CrossControlProxy_SetCrossSchedule` returns `NK_EOK` whatever the call returned (`control_system.c:302`).

## What is proved

For every value of the constants, under the named assumptions on them (types only: `MessagesType`,
`EventCodesType`, `SchedulesType`, `DenyRollsBackType`, `IntHalfType`, `DocumentsType`, `PostsType`,
`GarbageType`, `ConstantsType`).

- `SecuredLightsProofs`. `TypeCorrect`, then `LightsArePermitted` from it: the lamps change only to a
  request that passed the combination list, for any messages and either value of `DenyRollsBack`.
  `NoConflictEver` follows, as all twelve combinations are compatible. `MonitorStaysInStep` and
  `Refinement` (of `Intersection`) need an honest client and `DenyRollsBack`; their invariant says that
  the Flow objects name the colours of the lamps, or of the request being served. `NoTrapEver` follows from
  it and from a way out of each of the twelve combinations. `PolicyStaysExact` is the other half of the
  refinement: the monitor also refuses nothing that `Intersection` allows, so the combination list and the
  two transition tables, three pieces of text, say together what the abstract specification says in one
  line. It rests on the names and the bytes of a colour being in one-to-one correspondence (`MonitorProofs`).
- `CrossControllerProofs`, in layers, each the base of the next.
  `MutexInv`: who holds the mutex follows from where the threads are.
  `CallInv`, `ServeInv`, `LampInv`: while a call is under way the mode asked for is still the one
  `reqBehavior` and `curCrossMode` ask for, LightsGPIO serves exactly that call, and the lamps show
  `callMode` or `curCrossMode`. None of these is inductive without the mutex layer: a schedule that
  arrived in the middle would break the first.
  `StateInv`: behavior, mode and count-down belong together.
  `ClientInv`: every call is one that `SecuredLights` expects of a client.
  `HolderInv`: whoever holds the mutex is in the section it guards.
  From these: `NobodyWaitsInACircle`, `TurnsSettleRequests`, `ControllerStaysInStep`, `BehaviorAlwaysMatches`, `ClockAlwaysRight`, the action properties
  `PhasesNotCutShort` and `LightsAlwaysFollow`, `RefinesSecuredLights`, and through it
  `LampsNeverConflict` and `RefinesIntersection` without another look at the threads.
  `CycleIsNeverRefused` (needs `DenyRollsBack`) puts all layers together: the call is the one the cycle asks for, it
  is made from the mode the lamps show, and the monitor knows the colours of that mode (`MonitorKnowsLamps`).
- `FoldingProofs`. A function defined by recursion over a sequence has the property that defines it, for
  every length (`FoldUnfolds`). The provers cannot instantiate an induction theorem over a predicate, so the
  induction is over a set of numbers, by counting (`UpTo`), and what is folded is a constant operator of the
  module, which each INSTANCE supplies.
- `ResponseParserProofs`, on `ResponseFieldsProofs`. `LastValueWins` for documents of any length. Its invariant
  adds to the property that the flag set is the one of the last key seen (`FlagsFollowKeys`): the flags
  outlive a response and are harmless only because every object starts with a key. `ParseIsAlwaysWalk`: the
  token by token walk and the function `Parse` agree, which is why the Connector's model may use `Parse`; no
  run checks it, for it says no more of the result than `LastValueWins` does. Its invariant is that the fields
  are those of `Walk` at the token reached.
- `ControlSystemProofs`. `TypeCorrect`, with the values that move from the server to the schedule (`ValueInv`).
  `RefinesPolling`: ControlSystem implements `ModePolling`. For a flat object (each member has one value and no
  key inside) `FlatParse` says what the parser makes of it, `CastTwice` that a number cut to an int and read as
  unsigned is the number modulo 2^32, and `ParsedMeaning` that the schedule made of it is its `Meaning`;
  `PollInv` says which of the copies of the mode is the one fetched in this round. The theorem assumes
  that accepted posts are flat: the parser files the members of a nested object with those of the mode.
  `ReportsStayGenuine`: the invariant follows a code through its three copies (`Passed`) and says that nothing
  can be posted before the first Collect (`Diagnosed`). It assumes that no entity sends the code that stands
  for none at all.
- `TrafficSystemProofs`. `ClocksCorrect`. `RefinesCrossing` and `RefinesRounds`: each step of the composition is
  a step of `CrossController`, and of `ControlSystem`, or leaves it alone; this needs what a schedule may
  hold whatever garbage it was made of (`Values`), and which codes CrossController and LightsGPIO report
  (`Reports`). With the theorems of the parts, end to end: `LampsNeverConflict`, whatever is posted and
  whatever is lost on the way, `TrafficIsAnIntersection` and `CycleIsNeverRefused` under `DenyRollsBack`,
  `SchedulesFollowServer`, for flat posts, and `ReportsStayGenuine`, now without an assumption.
  `ReportsAreFresh`: a report that arrives is of its own round, however long that round is held up. Its
  invariants are that Diagnostics knows what the lamps show but for moments in which no time passes
  (`KnownInv`), and that what ControlSystem has collected is still true as long as `unchanged` is, from the
  collection to the report (`FreshInv`): the lamps cannot have been known wrongly at the collection, because
  a second has passed since they last changed.
  `OwnReportsFit`: the copy main reports is the mode of the lamps, or they have changed in this very second
  (`SnapshotInv`). While main makes its way from the mutex to the report no second can pass, so a change since
  the copy was taken is one of the same second; and the mode copied is the one of the lamps, for the mutex was main's
  (`CurrentInv`).
  `MutexIsFreeInSleep` follows from `HolderInv`; once the entity has crashed the mutex is nobody's concern.
  `LampsNeverFlicker`: `steady` is bounded by no guard and the sleep of the timer thread by no property, so neither is
  inductive; their sum is (`ShownInv`): what is left of the sleep and how long the lamps have been shown are
  together at least 3 s, in every place of the thread before it may change them.
  `SchedulesGetTheirTurn`: likewise, what is left of the thread's sleep and how long a schedule has waited
  are at most 3 s, and what is left of the round's sleep and that time at least 10 s (`WaitInv`). So while a
  schedule waits no other is under way, nobody but the timer thread takes the mutex, and the next turn is not
  skipped. The second half is needed for the first, and neither holds without the places of the other
  threads (`TurnInv`).

Only model-checked, since proofs of liveness under fairness are out of the prover's reach: `ScheduleAnswered`,
`RequestResolved`, `SteadyRegulatedCycles`, `RoundsGoOn`, `ModeReachesController`, `CodesReachServer`,
`SchedulingIsFair`, `ObeyedOrRefused`. What can be proved of some of them is proved: behind `ScheduleAnswered`,
`NobodyWaitsInACircle`; behind `RequestResolved`, `TurnsSettleRequests`; behind `SteadyRegulatedCycles`,
`CycleIsNeverRefused`; behind `SchedulingIsFair`, `MutexIsFreeInSleep` and `SchedulesGetTheirTurn`.

## What is not modelled

- `json_parser/` is a vendored library; it appears as "parses" or "does not parse".
- Texts longer than their 16 bytes, which `strncpy` leaves without a terminator; HTTP framing: an answer
  arrives whole or is broken.
- Console output and colours, image start-up and the static connection table, policies without state.
- `control_system/test/` is not built and written against an interface that no longer exists.
- The chunks in which an answer is read. `strcat` appends them unterminated and a failed read counts as one
  more (`connector.c:93`, `connector.c:110`); the outcomes are there (the answer, garbage, a dead Connector, a
  read that never ends), how the bytes lead to them is not.
- How long a step takes, but for the sleeps and the blocking of `connect()` and `read()`. Writing the report may
  block too when the buffers of a connection just opened are full; it is taken to end in the second it began.
- What becomes of a report after it was written: `received` is what has been written to an open connection and
  not been lost. A server that takes it up late may see it after the next one.

## Plan

Done: every entity, the parser and the server, their composition against the clock, theorems for every safety
property the passing runs check.

1. The progress behind `SteadyRegulatedCycles` and `RoundsGoOn` as theorems about single steps: a count that
   every turn, and every step of a round, makes smaller.
2. The answer in chunks, on small buffers, in place of "whole or broken".
3. Texts at the boundary of their field (`MAX_MODE_LEN` against `ITrafficMode_MaxModeLength`).
4. Larger bounds for `traffic`: two attempts, three garbage modes.
5. `ModePolling` promises nothing of the schedule after a lost sample; it could say that it is the last one again, or
   made of what the stack held.
