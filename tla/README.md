# Open Voice: a TLA+ model of the runtime and of the SDK that talks to it

Open Voice is a voice assistant runtime (Python, asyncio) and a browser SDK
(TypeScript). A browser streams microphone audio over a websocket; the runtime
detects the end of an utterance, transcribes it, routes it to a language model,
and streams the answer back as speech. The person may speak, type, or press
"stop" at any time, and several things then happen at once inside one event
loop. This directory models that system, checks it with TLC and proves parts
of it with TLAPS. Paths below are relative to `src/`; `RT` is
`packages/runtime/src/open_voice_runtime`, `SDK` is `packages/web-sdk/src`.

## The system and its parts

| Component | State it keeps | Operations | What makes it correct | Modules |
|---|---|---|---|---|
| **Session worker** `RT/session_worker/worker.py` | active turn and generation, response task, trace, queue of utterances, input buffer, the session record | every client message; the response pipelines; interrupt, close | one turn is answered at a time; whatever is being answered can be stopped; every utterance is answered once; no status is left behind | `SessionWorker`, `SessionStatus`, `TurnTaking`, `ToolFeedback` |
| **Session record, in-memory manager** `RT/session/{models,manager,state_machine}.py` | status, turns, active turn | begin/complete turn, transition, create, close | the status follows the table; turns are completed once | `SessionStatus`, `SessionWorker` |
| **Redis manager** `RT/session/redis.py` | JSON of a session under a key, an index of ids | the same, by read, modify, write; list | keys and index tell the same sessions; a deleted session stays deleted | `SessionServer` |
| **Worker host** `RT/session_worker/host.py` | workers by session id | find or create the worker of a message; turn errors into events | one worker per session | `SessionServer`, `ClientMessages` |
| **Websocket handler** `RT/transport/websocket/handler.py` | `closed`, send lock | receive, apply, emit; disconnect | events in order; a cancelled reply lets go of the lock; the client knows the status | `SessionServer`, `SpeechIntake` |
| **Client messages** `RT/transport/websocket/{codec,protocol}.py` | none | parse, decode audio | a bad message reaches its sender and nobody else | `ClientMessages` |
| **Transcription coordinator** `RT/session_worker/transcription.py` | a semaphore, `queued_jobs`, `active_jobs` | `transcribe`, cancelled at any await | no permit or wake-up lost; counters right; first come, first served | `TranscriptionPool` |
| **Input buffer, endpointing, VAD stream** `RT/session_worker/{input_buffer,endpointing}.py`, `RT/vad` | chunks, the detector's flags, the stream's frames | append, seal, decide, push | all speech ends up in an utterance, silence in none | `SpeechIntake` |
| **Response pipeline, output streamer** `RT/session_worker/{response_pipeline,output_streamer}.py` | none across calls | `route_text` (1.5 s limit), `stream_llm`, `stream_response` | an engine failure ends the turn in an orderly way | `ClientSession`, `Engines`, `OpencodeStream` |
| **OpenCode engine** `RT/llm/engines/opencode.py`, `RT/integrations/opencode` | listener task, event queue, memory of parts; the server process | stream; start the server | the reply to this prompt is spoken, each word once | `OpencodeStream`, `OpencodeEvents`, `Engines` |
| **STT, TTS, router engines** `RT/{stt,tts,router}/engines`, `RT/integrations` | loaded models, loading locks | load, run in threads | a model is there when it is used; no lock is left behind | `Engines` |
| **HTTP API** `RT/transport/http`, `RT/app/server.py` | none of their own | create, list, read, delete sessions | a delete beside a running worker does no harm | `SessionServer`, `SessionWorker` |
| **Conversation events** `RT/conversation/events.py` | none | | | `ConversationEvents` |
| **SDK interruption** `SDK/interruption`, `SDK/audio/streaming_pcm_player.ts` | active and rejected generations, suppression flag, promise chain, epoch | `shouldAccept`, `observe`, `preemptAndFlush`, `interrupt`, `reset` | nothing of an interrupted answer is heard; the next answer is | `GenerationGate`, `Playback` |
| **SDK orchestration** `SDK/orchestration/{event_sequencer,generation_owner}.ts` | a promise chain; a gate | push, reset, decide | events are applied in order | `Playback`, `ClientSession` |
| **SDK session and store** `SDK/{session,state}.ts`, `SDK/store`, `SDK/agent` | socket, reducer state, the clock of the pending turn | send, dispatch, tick, close | the state shown is the session's, and no call waits unseen | `ClientSession`, `VoiceState` |
| **SDK microphone and connection** `SDK/audio/browser_mic_input.ts`, `SDK/client.ts` | stream, context, capture token | start, stop, connect | a microphone that is off is released | `Microphone` |
| **Retired realtime session** `RT/transport/websocket/session.py` 147-3672, with `RT/session/{turns,interruption_handler}.py` | the predecessor of the worker | unreachable | | |
| **Settings** `RT/app/config.py`, `RT/llm/{config,prompting}.py`, `RT/session_worker/shared.py` | the runtime's configuration, the session's `runtime_config` | normalize, merge, complete, read | what was sent last holds; an answer follows one configuration | `SessionSettings`, `ConfiguredSession` |
| **Bootstrap, trace sink, demos, contracts** | | | | |

How they interact: a websocket handler awaits `WorkerHost.apply`, which awaits
the worker's handler for the message; the worker creates one response task per
turn, which shares the worker's fields with the handlers; both emit events
through the connection's `emit`. All workers share one `TranscriptionCoordinator`
and one executor of threads. An interrupt cancels the response task and awaits
it. The SDK receives the events of all generations on one socket, sorts them
out by generation id and reduces them to the state an application shows.

What is hard: every `await` is a place where another handler of the session
(two tabs, or a reconnect beside a handler that has not noticed), the response
task, or a cancellation may run; `_interrupt` awaits a task whose `finally`
block itself starts new work; engines raise; a cancelled job's thread and a
cancelled reply's server run on; Redis operations are several commands; the
client acts on events that were true when they were sent.

## The modules

| Module | What it is |
|---|---|
| `SessionStatus` | the status table and the guarded moves the worker makes through it |
| `SessionWorker` | one session: all handlers, response tasks, the queue, cancellation, failure |
| `TurnTaking` | the abstract promise: one turn is served at a time, a finished turn never comes back |
| `SessionWorkerProofs` | its type correctness and the fate of inputs; the order of queued utterances; the inductive invariant for one socket and `send_now`, and the refinement; what holds of a worker with settings |
| `SessionSettings`, `ConfiguredSession` | what settings come to, as pure operators; the worker whose clients change them |
| `TranscriptionPool`, `TranscriptionPoolProofs` | the coordinator, its semaphore and its executor, all sessions' jobs |
| `SessionServer`, `SessionServerProofs`, `SettledSessionProofs` | sockets, HTTP requests, worker host and Redis, command by command; proofs, those about the status of a session that settles in a module of their own |
| `OpencodeEvents`, `ToolFeedback`, `OpencodeStream` | the reading of the server's events and the speech about tools as pure operators; the stream, its listener and the server |
| `Engines`, `EnginesProofs` | lazy loads in a shared executor, their locks, the router's time limit, the start of the OpenCode server |
| `ClientMessages`, `Microphone`, `SpeechIntake`, `SpeechIntakeProofs` | the message types as pure operators; the browser's microphone; both with the buffer, the detector and the VAD stream behind them |
| `GenerationGate`, `Playback`, `PlaybackProofs` | the SDK's gate as pure operators; the audio of one socket |
| `ConversationEvents`, `VoiceState`, `ClientSession`, `ClientSessionProofs` | the events; the SDK's reducer as pure operators; one session of the SDK with its worker; proofs that what the store shows fits together |
| `MC...` | instances for TLC |

### SessionWorker

A step is the code between two awaits that can suspend; asyncio runs nothing
else in between. The coroutines of the in-memory session manager never suspend,
so a status transition belongs to the step that makes it (`SessionServer` has
the manager whose coroutines do). An input, the turn that answers it, its
response task and its generation share one number: the code gives each a fresh
id and uses none for two turns. `kind` says whether a turn answers an
utterance, a text or an announcement, `stage` where the work on it stands,
`handler` what each websocket's handler is suspended on, and the other
variables are the fields of `SessionState` and `SessionWorkerRuntimeState` they
are named after.

`StartSession`, `AppendAudio`, `CommitAudio`, `GenerateReply`, `Say`,
`Interrupt`, `CloseSession` and `UpdateConfig` are the handlers up to their
first await, `AudioPushed`, `ReplyRouted`, `ReplyAnnounced`, `SaySpoken`,
`SayFailed`, `InterruptDone`, `CloseDone`, `CommitDone`, `GenerateDone` and
`SayDone` their continuations. `TaskStarted` to `HandoffDone` are the response
task from its first step to its `finally` block (`Leave`), which may start the
next queued utterance while the task still runs ("handoff"). `task.cancel()`
adds to `cancelling`; the `CancelledError` is delivered by `TaskCancelled`. A
task cancelled before it first runs has no `finally` block. `DeleteSession` is
the HTTP route, which does not go through the worker.

### SessionSettings and ConfiguredSession

A configuration is a function from sections to fields to names; of a value only
its kind matters, so "wrong" stands for every value of another type than the
field's and "null" for JSON's null. `Accepted` is the check of the codec,
`Merged` the merge of an update, `Unusable`, `FromMapping` and `Effective` what
the runtime's defaults and a session's settings come to, `TargetsFor`,
`Decisions`, `Request`, `Prompt` and `Voice` what an answer gets out of it.

`ConfiguredSession` extends the worker by the variables that hold settings and
by what each turn has read of them (`answer`): the targets before the router is
awaited (`AskRouter`), the request after it (`AskModel`), the prompt when the
OpenCode session is there (`PromptModel`), the voice with the answer
(`SpeakAnswer`). `ReceiveStart`, `ReceiveConfig` and `SelectEngine` change
them, `HearAudio` reads the detector's limits once. All other actions are the
worker's own, and each of these is one of them or leaves the worker alone:
that is the theorem `ConfiguredIsAWorker`. Of the histories `overtaken` names
the turns during which settings changed, and `retooled` says that the tools
changed after the first request.

What it brought to light: settings are merged before they are found unreadable
(`worker.py:145`), so that a null `turn_detection` stays, and takes every
audio chunk with an error until an update sets it right; one unusable value
makes `_effective_runtime_config` ignore all settings of the session;
`route_targets` without an engine are completed with the default engine when
they are read; the OpenCode session keeps the permissions of its first request
(`opencode.py:197`), while prompts name the tools configured later, and
`_permissions` promises an allowlist of "explicitly configured tools"
(`opencode.py:300`): the property excepts the sessions that were `retooled`.

### TranscriptionPool

`transcribe` and the semaphore under it, for all sessions' jobs. The semaphore
and the executor are external: they follow CPython 3.11's `asyncio.locks`, a
fair queue of futures in which a release hands the permit to the oldest waiting
job, and in which a job cancelled after the permit was handed to it hands it
on. `metrics_lock` is never contended, because nothing under it awaits.
`queued_jobs` stays too high when a job is cancelled while it waits, and a
cancelled job's thread runs on after its permit is free, so more than
`configured_workers` recognisers may run.

### SessionServer

A task, of a socket's handler, of an HTTP request or of a reply, is a list of
steps still to do (`Apply`, `Create`, `Delete`, `Replying`), and every Redis
command and every send is an await of its own: `UpdateGet`, `UpdateSet` and
`Updated` are one `RedisSessionManager.update`, `Lookup` finds or makes a
worker around the look-up of its record, `Emit` and `Send` are the guarded emit
with its lock, `Members`, `Read` and `Drop` the listing. `RedisFails` lets any
command raise, `Crash` restarts the runtime, and a reply may be cancelled in
any of its steps (`Stop`). The first message of a socket for a session is
`session.start`, as the SDK sends it.

What it brought to light and the properties except: an update that read a key
before a delete and writes it afterwards brings the session back (`raced`); of
the updates of two sockets that start one session at the same time one may be
lost, and every further transition of the worker is then an error; `begin_turn`
and `complete_turn` change only the worker's copy of the session and nothing
calls `persist`, so with Redis a turn is gone with the next change of status
and the history stays empty (`packages/runtime/README.md:46` counts the turns
to what the managers keep); a delete over HTTP does not tell the worker; an
error drops the events collected before it; a client that reconnects in the
middle of a reply never hears its end.

### OpencodeEvents, ToolFeedback, OpencodeStream

`_stream` is `Begin` to `Complete`. Each event is yielded alone (`Yields`); at
every yield the stream is suspended, the worker may take its time or be
cancelled, and `due` holds what is yielded next (`YieldNext`), so that a stream
may be cut between GENERATING and the first item. Its listener is `Connect`, `Listen`,
`ListenerFails` and `ListenerCut`; `Events` reads one event with the memory
`_State`, `Hint` is `_tool_progress_speech_hint`. The server is external: it
answers the prompts of a session one after the other, announces a message and
its parts before their text, and may repeat a snapshot or a delta (`Repeat`) or
send what belongs to other sessions (`Foreign`), and opens and closes its steps
with parts of their own. A text is a sequence of words. `SearchesAreToldTruly`
holds what is said aloud against the server's tools, not against the worker's
memory of them, which forgets (`Forget`): the end of the searches is said once,
when every search that was told of is over.

What it brought to light: cancelling a reply does not stop the server, and the
next listener tells sessions apart but not prompts, so that the rest of the old
answer is spoken as the new one and its `session.idle` completes the new stream
(`QuietStreamsAnswer` is about streams that begin on a quiet server); an event
stream that ends before `_raise_if_listener_failed` looks leaves the stream
waiting for ever (`cut`).

### Engines

Three models are loaded by the first turn that needs them, in threads of one
executor; the router and the voice load under an `asyncio.Lock`, Moonshine
does not. `Enter` is `load()` up to its first await, `Recheck` the look again
of a waiter that got the lock. `lock` is the line of an engine, the holder
first; `running` are the jobs in threads that somebody awaits and `lost` counts
those nobody awaits any more: what a cancellation or the 1.5 s limit does to a
call is to leave the line and to turn its running job into a lost one, or to
take it from the queue. The states of the OpenCode server are those of
`ensure_running`.

What it brought to light: a router whose load takes longer than its limit is
never loaded, because each abandoned load's result is thrown away, and these
loads pile up in the executor all engines share; Moonshine may be loaded once
by every job that comes first; a turn whose startup deadline passes may stop a
server another turn was told is healthy; two sessions may both start a server,
and only the last process is remembered.

### ClientMessages, Microphone, SpeechIntake

`Reception` is the fate of a message: handled, answered by an error event, the
socket closed because no session could be told, or the handler ended by a
`ValueError` nobody catches (an unknown or null audio transport, an unknown
encoding). `Start`,
`Granted`, `Refused`, `Stop` and `StopEnds` are the microphone between its
awaits. Each frame is handed to a thread twice, by the iterator and for the
probability (`Iterated`, `Judged`), so that two handlers of one session
interleave their frames in one stream. A push under way carries what its
events will make of the detector (`heard`), because the detector's fields are
read when the push is over and another handler may have sealed in between;
`LoadedElsewhere` is another session that loads the model all streams share.
`session.close` of one client (`Closes`, `Interrupted`) drops the detector and
empties the buffer, at once or after the response it interrupts; the worker
stays, so a push under way on the closed detector goes on and decides, and the
next chunk, or a handler that waited for the model, brings a new detector.

What it brought to light, and the properties except: a `stop()` while the
person is still asked for permission does not reach the device that is then
granted; a `stop()` whose context is still closing clears the fields of a
`start()` that came meanwhile, and of two starts the first cannot be released
any more (`overlapped`); a second `stop()` rejects on the closed context, and
`session.close()` with it; an explicit commit in the middle of speech resets
the detector but not the stream, which ends that speech a second time, so that
a silent utterance cuts the answer just begun (`cut`); a push on a stream that
another client's `session.close` has closed may decide an endpoint in the quiet
audio that came since (`cut` as well: the property is about the utterances
before that one and after it); two handlers that both
wait for the model make two detectors (`replaced`); between utterances silence
is appended to the buffer without limit.

### GenerationGate and Playback

The worker is reduced to what one socket with the `send_now` policy shows of
it: one answer at a time, cut short by a new request or a stop. That is what
`SessionWorkerProofs` shows of `SessionWorker` (`SoloTakesTurns` and the
theorems beside it). `Script` lists the events of an answer in the order the code emits
them; a generation is numbered like the request it answers. Events that no gate
and no player reacts to are left out; the status events and `turn.metrics`
stay, because any event with a generation can make that generation the active
one. The wire is a FIFO of `WireCapacity` events.

In the browser a step is the code between two awaits of the audio context.
`ReceiveEvent` is the handler of `session.ts` for the next event of the event
sequencer (`GenerationOwner.decide`, then `SessionAudioController.onEvent`);
`AppendEnds`, `ContextClosed` and `Settle` are the continuations of
`appendTtsChunk`, `StreamingPcmPlayer.flush` and `preemptAndFlush`; `PressStop`,
`Ask` and `AskOver` the calls an application makes. Up to `MaxStops` calls of
`interrupt()` run beside the sequencer.

`AudioContext` is external: a context starts suspended, `resume()` and
`close()` settle (the browser permits audio), a chunk scheduled in a running
context is played after some time, `close()` of a context being closed is
refused. Two flags name what depends on timing outside the code: `SlowSend` (a
send suspends under backpressure, and the new utterance's task may then send
before the handler has sent the interruption of the old answer) and `SlowClose`
(the next answer's first chunk may arrive before `close()` of the old context
is settled). Microtask order within one await is not tracked.

### ConversationEvents, VoiceState, ClientSession

`VoiceState` is the reducer of `state.ts` and the clock of the pending turn.
`ClientSession` puts it between an application that speaks, commits, asks and
interrupts and the worker with all the events it sends: the handler's notices
and the task's script interleave wherever a send awaits. The text of an answer
is the set of turns its words come from, so that a word shown under the wrong
transcript is seen; `elapsed` is the last of the limits of 2, 8 and 25 seconds
passed, so that the clock ticks late as well as in time.

What it brought to light: `conversation.interrupted` leaves the speech status
at "playing", so that the client shows `agent_speaking` until the next
transcript (`state.ts:348-358`); the end of an announcement sends no status
(`worker.py:599`, `615-619`), with the same result; both are the exception
`disturbed` of `PhaseIsHonest`. A commit that cuts an answer starts the new
turn before its handler sends the interruption (`worker.py:222-228`); when the
VAD has something to say first, `stt.final` of the new turn may overtake it,
the gate then rejects the turn it has just let in (`generation_gate.ts:85`),
and the client, which refuses the rest of that turn, stays at "processing"
while the worker listens: the exception `Rejects` (the run has this case).
A synthesiser that fails leaves "playing" too; the run's faults are the
recogniser's. The agent's state signals are never emitted,
because its own listener sets `previousState` before the comparison
(`voice_agent.ts:51-65`); a commit whose send throws is shown as sent, until
the clock runs out (which `ClientIsAnswered` checks); `close()` restarts the
clock it has cleared when a turn is pending; the count of queued turns stays
too high after a blank utterance (that it is never below the worker's queue,
once the notices under way are applied, is part of `ShownFitsTogether`); the words of a generated reply,
which has no transcript of its own, are added to those of the answer before.

## What is checked

| Run | Instance | Shows | Distinct states |
|---|---|---|---|
| `worker_send_now` | one socket, `send_now`, every message, engines that raise, 3 inputs | one turn at a time, whose task any interrupt reaches; no turn is abandoned; no busy status without work; every turn ends; implements `TurnTaking` | 40,739 |
| `configured_session` | one socket, `enqueue`, a client that speaks, starts again, selects engines and sends settings (6 updates, refused, unusable and unreadable ones among them), 3 inputs, 2 updates | no utterance is lost; they are answered in order, each of them; what was sent last holds and decides the answer; no prompt names a denied tool | 162,405 |
| `worker_two_sockets` | two sockets, every message, both policies, engines that raise, 2 inputs | no input answered twice; every task ends and every interrupt returns | 167,700 |
| `pool` | 4 jobs, 2 permits, 2 threads, cancellation anywhere | no permit lost, the counter of those at work right, order, progress | 76,123 |
| `session_store` | 2 sessions, 2 sockets, an HTTP request, 3 messages, failures, a restart | one worker per session; keys and index agree; listings are true; what is deleted stays so; worker, key and client agree on the status; a cancelled reply leaves no lock | 727,807 |
| `reply_stream` | 2 turns of a reply of 2 words, 2 searches, a repeated or foreign event, every failure, cancellation anywhere | what is spoken is the reply and no word twice; a stream that began on a quiet server answers its own prompt, and ends; no search is said to be over that still runs | 1,325,258 |
| `engine_loading` | 2 sessions, 3 turns, 4 threads, the router missing or one that may load for ever, failures | no lock left behind; nothing runs on a missing model; no late answer decides another turn; every turn ends | 513,396 |
| `speech_intake` | 8 scenarios of one client's microphone and of two clients, which speak, commit, err and close the session under each other, 2 frames a chunk | a microphone that is off is released; no speech stays in the buffer; the VAD seals no silence | 773,935 |
| `playback_spoken` | 3 utterances, 2 stops, prompt sends and closes | every chunk of the wanted answer is heard; nothing interrupted stays in the player | 825,934 |
| `playback_slow` | 2 requests of any kind, 2 stops, 2 chunks, slow sends and closes, a gate that remembers one rejection | a stop ends in silence and the gates agree; a superseded generation is rejected; everything settles | 364,072 |
| `client_state` | 6 conversations of two turns under both policies, utterances ended by the VAD or committed, blank ones, a recogniser and a model that fail, a lost connection | the phase shown is the worker's; what is shown fits together; commits and interrupts are answered | 321,126 |

Why the bounds are enough. The hazards of the worker are races between one
answer, the one that replaces it and one more that waits: three inputs on one
socket reach every stage of a task together with every handler, and two inputs
on two sockets every pair of handlers. Three utterances on the queue are one
that is answered and two that could change places; two updates are one read
before and one after it, or one that undoes the other. Four jobs for two permits give two
that wait and two that may be cancelled in front of them. On the wire, two
answers suffice to confuse a gate and three to forget a rejection
(`MaxRejected` is 1 or 2 instead of 32, which only makes forgetting easier);
two chunks tell the first, which opens a context, from the next. In
`configured_session` the first message is `session.start` (`Opening`); the
other runs of the worker let any message come first. Which of the two
hypotheses about timing each theorem on `Playback` needs is said below;
`playback_spoken` has neither flag set, `playback_slow` has both. Where no
invariant of a run includes the module's `TypeOK`, it is a theorem.

Of the store, two sockets and a request are three tasks that interleave on one
session, enough for a lost update, a delete in the middle of one and a listing
beside both; sessions and sockets are symmetric. A turn of the OpenCode engine
meets only the turn before it, so two suffice; `ReplayMin` is 2 words for 16
characters. Three turns of two sessions let one load under the lock, one wait
for it and one come after an abandoned load; abandoned loads and a cut
transcription fill four threads, and jobs queue and are cancelled in the queue.
Two frames in a chunk (8 in the code) leave a chunk unfinished between two
threads, and `MinSilence` of one frame (25 in the code) tells a pause from the
end. `MaxDetectors` bounds how often a session is closed and comes to a new
detector: four are the two that two first chunks make, and two after a close. `InFlight` bounds what is on its way; a larger bound only delays what the
receiver does next.

Every property is also run against a faulty variant of one definition (the
definitions commented "Faulty variant"), which it must refute.

One further run shows where the code does something else than its comments
say: `playback_announced`. `session.say()` after any earlier answer is refused
by the client's gate; the finding in `PROJECT.json` quotes the lines. Met while
modelling, without a run of their own:

- with `enqueue`, an interrupt lets the dying task start the queued turn and
  then forgets that task (`worker.py:648`): nothing can stop it. With two
  sockets the same happens under `send_now`, which is why
  `worker_two_sockets` does not check `EveryResponseIsInterruptible`;
- an utterance queued behind `agent.generate_reply` stays queued, although the
  session listens (`worker.py:582`);
- `enqueue` queues also while the current turn is still being transcribed or
  routed (`worker.py:207`);
- `generateReply()` that interrupts the first utterance of a connection before
  any event of it arrived is refused by the client's gate
  (`generation_gate.ts:126`);
- a new utterance does not flush what the player still holds of an answer the
  worker has finished sending (`generation_gate.ts:110`);
- `WantedIsHeard` fails with `SlowSend`, where an interruption that arrives
  after the new transcript rejects the new answer (`generation_gate.ts:85` does
  not look at the generation it names), and with `SlowClose`, where chunks are
  lost in a closing context.

### Fairness

`SessionWorker` assumes weak fairness of every handler continuation and every
task step: the event loop resumes a coroutine that is ready, and an engine
answers, raises, or is cancelled. Only `route_text` has a timeout in the code
(1.5 s); for the other engines this is an assumption about them, which
`Engines` relaxes for loads. No client message is assumed ever to arrive.
`ConfiguredSession` assumes the same.
`TranscriptionPool` assumes the same of jobs and threads. `Playback` adds that
the socket delivers and that the browser settles `resume()` and `close()` and
plays what is scheduled; nothing is assumed of the application.
`OpencodeStream` assumes that the event loop runs the stream and its listener
and that the server, once it has a prompt, goes on to its idle event.
`Engines` assumes that the loop runs what is ready, that timers fire, and that
a thread ends, except a load of an engine in `Slow`. `ClientSession` assumes
that the worker and the browser go on and that the interval of the clock fires.
`SessionServer` and `SpeechIntake` state no fairness; their properties are
invariants.

## What is proved

`tlapm` checks every proof. The theorems hold for every value of the constants.

- **`SessionWorkerProofs`**: `TypeCorrect`, whose inductive invariant adds to
  `TypeOK` that a handler which will begin a turn carries an input
  (`CarriesInput`); and, for any number of sockets and either policy, that no
  input is lost or answered twice. Every step receives, seals, serves or
  discards inputs or leaves them where they are (`InputMoves`), and these moves
  preserve the invariant. `SpokenOrder` is proved for clients that start, speak
  and send settings, while the policy is "enqueue" and no engine raises: its
  invariant says that while an utterance waits a task is there to serve it
  which will find the session listening (`QueueIsBacked`), so that none begins
  beside the queue, and that what waits is newer than what was begun (`InOrder`).
  Each hypothesis is needed: with an interrupt, an `agent.generate_reply`, a
  transcriber that raises, or audio before `session.start`, TLC finds a queued
  utterance overtaken.
  With one socket and `send_now` it proves
  `EveryResponseIsInterruptible`, `WorkingTaskOwnsSession`, `CompletedIsOver`,
  `NoTurnIsAbandoned`, `BusyIsBacked`, and that the worker implements
  `TurnTaking`, step by step under the refinement mapping `Serving`, `Over`.
  None is inductive alone. `SoloInv` says
  of every stage of every task and of the handler which of the session's fields
  are theirs (`TaskIsTracked`, `TaskOwns`, `HandlerOwns`, `InterruptIsExact`),
  that unreceived inputs are untouched (`InputsAreFresh`) and that an open turn
  has somebody (`ActiveIsBacked`). TLC refutes the invariant as soon as either
  assumption is dropped: the queue lets the `finally` block start a task while
  an interrupt awaits, a second socket lets another handler do so.
  Of `ConfiguredSession` the same module proves that a worker with settings
  implements the worker (`ConfiguredIsAWorker`), so that what is proved of the
  one holds of the other (`ConfiguredInputsAreKept`, `ConfiguredKeepsOrder`).
  `SettingsAreFollowed` has two halves: that the last word about a field holds
  is an induction over the updates, whose step is what a merge does to one
  field (`MergedField`, `AppendedSays`); that an answer follows one
  configuration is inductive as it stands (`FollowInv`), because a change of
  the settings puts everybody who has read some of them into `overtaken`. For
  `ToolsAreHonest` the invariant adds the requests under way: their tools,
  those of the session and those of every prompt are the ones in force
  (`HonestInv`).
- **`TranscriptionPoolProofs`**: type correctness, `PermitsAddUp`,
  `ActiveJobsIsExact`. The invariant adds that a pending future belongs to a
  waiting job and that a cancelled job's future is settled. For
  `FirstComeFirstServed` it adds that whoever waits stands in the queue
  (`InLine`), and that taking one out keeps the others in order (`LeavesOrder`).
- **`PlaybackProofs`**: type correctness (with the fact that all but an
  interruption carries a generation, `WireEvent`), `SupersededIsRejected` from
  lemmas about the gate that hold for any gate and any event, whatever the
  limit on remembered rejections, and the three invariants about what is heard.
  These share two strengthenings. `OrderInv` is about the wire: events come in
  the order of their generations but for interruptions and ends (`Sorted`,
  `StartsFrom`), and a request under way is newer than all there is of answers
  (`RequestsAreNew`). `GateInv` is about the client: the gate the sequencer
  asks and the one the player asks are equal, a flush began by rejecting the
  active generation, and while that is rejected there is no context to play
  in. On these, `StopsAreFinal` rests on `StopInv` (after a stop that nothing
  followed, the interruption is in the request, among the notices, on the wire
  with nothing of the answer behind it, or has come), whatever is slow.
  `InterruptedIsSilent` rests on `CutInv`, the same of every answer the worker
  has cut, and assumes `~SlowSend`; `WantedIsHeard` rests on `HeardInv`: the
  request is still to be answered, or the gate listens (`Listening`) – a
  transcript of the answer comes before its phase, that before its chunks, and
  no interruption behind them. It assumes `~SlowSend`, `~SlowClose` and that
  only utterances are committed; drop any of the three and TLC refutes it.
- **`EnginesProofs`**: `LocksHaveHolders`, `ModelsAreInPlace`,
  `AnswersAreForTheirTurn`, for any finite set of sessions, any number of
  threads and turns and whichever engines are slow or missing. `EnginesInv`
  says which step of a turn fits which stage, that a line holds each session
  once and its first is the one that loads, that the loaders and the copies of
  Moonshine together are no more than the transcriptions at a time, and that
  every job in a thread or in the queue has its one waiter.
- **`SpeechIntakeProofs`**: `MicrophoneIsReleased`, for any number of calls of
  `start()` and `stop()`. The invariant says that calls come one after the
  other and that then only the capture the fields hold can be open (`InTurn`),
  at each await of `start()` and `stop()`. `UtterancesHoldSpeech` and
  `SpeechIsTaken`, for any clients, scenarios, chunks, silence and closes:
  `IntakeInv` relates the streams, the detectors' fields, what each push under
  way has heard and the buffer (`Agree`, `Follows`, `Hush`), of the detector
  in use as of those that were closed under a push: until such a push is over
  `cut` is true, and a push on a closed stream leaves alone what is followed of
  the new one (`OtherPushFollowed`). The utterance that `cut` excepts is one
  the code does make. `SpeechIsTaken` has one
  hypothesis, `EnoughSilence`: a scenario has at most `MinSilence` + 1 sockets.
  Each handler may have one frame between two threads, so that many clients
  together could end a speech that one of them has just begun again; by default
  25 frames are waited for (800 ms, `vad/contracts.py:24`), hence 26 clients.
- **`SessionServerProofs`**: `OneWorker`, `RegistryIsTrue` and `RepliesLetGo`,
  for any number of sessions, sockets and requests, with failing commands and
  restarts at any point. `ServerInv` says of the lists of steps
  that only a first step creates (`Todo`), that a session in creation has no
  other user (`OneCreator`), that whoever is used was issued (`NotIssued`), that a name in the index or in a listing has its key behind
  it (`Listed`), and that what was deleted quietly has neither a key nor an
  update about to write one (`QuietInv`). All steps but the creations keep it
  for one reason, stated once (`Joins`, `MovesKeep`): a task goes on in its
  session or comes to one that was made. `RegistryInv` adds what the store
  needs: which steps come in pairs, a key and its name written or deleted, the
  names and their keys read (`ListsInv`); that whoever creates a session is
  alone with it until its name is in the index (`EnterInv`); that a key missing
  under an update, or to the close that removes its name, was deleted there or
  raced with (`StoreInv`); and that a listing has found, or has still to read,
  whatever was there all the time (`ListingInv`). Steps that leave the store
  alone keep it by `Passes` and `PassKeeps`, and each command has a lemma.
  `RepliesLetGo` rests on `LetGoInv`: whoever stands in the line of a socket is
  in the middle of a send, a handler's list of steps keeps its order, a session
  is used through the sockets it was started by, and once a handler has come to
  the commands of a close its session has no reply. A step only goes on with a
  list or lets it fail (`Heirs`), which keeps all four.
- **`SettledSessionProofs`**: `SettledAgree` of `SessionServer`, with the same
  generality. It rests on those invariants and on `SettleInv`, which tells
  what is still to come of a session that one socket uses. The steps of a
  handler form a path (`Path`: which step may follow which, and which comes
  last), and a reply is at one of six places (`Unanswered`, `Answered`). The
  two together say which status the worker may have (`Expected`, `Standing`),
  that the key has it too, but between the two writes of an update and where
  an interruption cut an update there (`Same`), and that what the client is
  still to be told ends with it (`Telling`). With them go that the reply of
  such a session is its current one (`Owned`), that a session no socket has
  used is as its creation left it (`Unused`), and that no step of another
  session and no request changes any of this (`Apart`, `Asked`). Each step of
  a handler or a reply has a lemma about `Fit` and `Knowing` alone – the
  tasks, the worker, the key and what the client heard, as plain values – and
  `TaskRuns`, `ReplyRuns`, `ReplyTurns` and `RequestSettles` lift those to the
  whole state. When nothing runs the path is empty and the worker listens, as
  do the key and the client. What a failure cut in two (`torn`) and what came
  back after its deletion (`raced`) is left out, as in the property.
- **`ClientSessionProofs`**: `ShownFitsTogether`, for any set of
  conversations, any faults and any loss of the connection, as one inductive
  invariant of four parts. `TypeInv` gives every event and every item of a
  script its type and says that each turn has a number (`WithinBound`): what is
  begun, queued, heard or still asked for is no more than the calls made.
  `OrderInv` gives what is told of a turn a place – transcript, words, answer –
  and says that what the task has still to tell comes after what is under way,
  and that after what is shown (`Due`, `Earlier`, `ToldBefore`); hence
  `TranscriptIsInOrder` and `AnswersFollowTheirQuestion`, also when the gate
  refuses any of it. `QueueInv` is about a count that two sides keep: the
  reducer's steps over the events under way are followed by a function
  (`Foretold`) that stays at or above the worker's queue from the last
  `turn.queued` on. It rests on how an utterance's script ends (`ClosedLast`,
  `MeasuredWhile`): `turn.metrics`, at which the client counts down, is its
  last event and is sent while the session listens, so that the next utterance
  leaves the queue in the same step. `ClockInv` is `ClockWatchesThePendingTurn`
  without its hypothesis.

Only model-checked: every liveness property (out of the prover's reach);
`PhaseIsHonest` of `ClientSession`; and the properties of `OpencodeStream`,
whose module has no proofs. What the operators on words of `OpencodeEvents`
compute for every reply would need an induction over data.

## What is not modelled

Signal processing and inference; the wording of prompts; counting of tokens;
logging and the trace sink; bootstrap, the catalog of engines and the check of
dependencies; a `session.start` whose metadata holds a whole `runtime_config`;
the demos but for the microphone switch; the retired realtime session and what
only it uses; the SDK's helpers without a caller (`interruption_policy.ts`,
`pending_turn_tracker.ts`, `stt_track_state.ts`); `reset()` of the sequencer
and the audio controller on close; tool updates and history of the agent; the
worker's path without an emitter, its `lifecycle` label, and failures of the
VAD's threads or of its load, after which the chunk stays in the buffer; the state inside the Silero model, which all streams share.
`llm.error`, `turn.accepted` and `session.closed` are events the models do not
send.

Smaller simplifications, each at one place: an `AudioContext` that cannot be
made once the microphone was permitted (`browser_mic_input.ts:119-122`), and a
`start()` on a microphone that runs counts as overlapping calls, which
`MicrophoneIsReleased` excepts; an append that fails on a context still open
(`audio_output.ts:101-104`), of which `Playback` has only the context closed
under it; a second `preemptAndFlush` awaits no chain, since the first has
emptied it; an answer of a model that is not available, which sends nothing at
all (an answer that is not spoken, for want of a synthesiser or of text, is
among `Answers`); in `SessionServer` the look at the worker's status and the read of
the key are one step (`UpdateGet`); `ensure_running` is its states,
without the error for a missing program.

What could follow: a proof of `OnlyTheReplyIsSpoken`, the part of
`SpokenIsTheReply` that folds no words, from an invariant on the event queue of a
stream; and of `PhaseIsHonest`, from one on which events of a turn are under way.
