# NATC: a TLA+ model of the test harness

NATC runs SQL test scripts against an Altibase database server and compares
what they print with a recorded oracle. This directory models the service that
runs a test case with one thread for each process of the script, the client
that runs lists of cases, the agent on other machines, and the programs the
tests drive: isql, iloader and the limit test hooks. Paths are relative to
`src/src/` unless they begin with `src/`.

- [The system](#the-system): components, their state, how they interact
- [Modules](#modules): what each one models, and how
- [Runs](#runs): what TLC checks, on which instances, and what that shows
- [Fairness](#fairness)
- [Proofs](#proofs)
- [Disagreements with comments and assertions](#disagreements)
- [Abstractions](#abstractions), and [what is not modelled](#not-modelled)
- [Plan](#plan)

## The system

```
 atsclnt (client)                     STAF process
 ----------------     "run", "status" -------------------------------------------
 list of cases  ----------------------> ServiceManager: handleRun, handleStatus
                                          | one Servicer thread for each run
                                          v
                                        Servicer: walks the parsed script
                                          | one Laborer thread for each PROCESS
                                          v
                                        Laborer ---pipes---> isql ---> server
                                             \-----TCP-----> target agent
```

| Component | State | Operations | Interacts by |
|---|---|---|---|
| ServiceManager (`ats2/serviceManager.cpp`, `service.cpp`) | list of Servicers, a mutex | run, status, kill, help, version; addService, rmService, registerHandle | a STAF thread for each request; creates, joins and deletes Servicers |
| Servicer (`ats2/serviceThread.cpp`) | parse table, map of laborers, a list of commands for each process, IGNORE, the flags of the recovery test, the output | parseOption, load, runReal, runParseTable, sync and async, syncLaborer, endLaborer, saveRESULT, saveArtRESULT, enqueueData, status | fills the laborers' queues, polls them, joins and deletes them |
| Laborer (`ats2/laborerThread.cpp`) | queue, mEnd, mLogon, mRetry, mSbegin, text of results, handler, connections | push_back, sync, end, run, runReal and a branch for every kind of command; executeArtTest | its queue under its mutex; flags of the Servicer without one |
| AltibaseHandler (`ats2/altibaseHandler.cpp`) | pid, two pipes, the result | logon, ping, execute, getResult, logout | the isql process; fork in a process with many threads |
| Remote commands (`ats2/host.cpp`, `target_agent/target/target.cpp`) | a socket for each agent a laborer has used; the agent: one client | execute, get, put, mkdir, rmdir, delete, copy, quit, terminate | messages over TCP |
| Recovery points (`ats2/recpointManager.cpp`, laborer) | table of points, boot log, mIsHit, mIsCrash, mIsArtRestart, FATAL | executeArtTest, retryExecution4ART, doCheckServer4ART, cleanServer | boot log on disk; flags shared by all laborers |
| Parser (`ats2/psl.l`, `psy.y`) | node list | parse | called once for a case |
| Environments (`ats2/serverManager.cpp`, `serviceThread.cpp`) | the cache of server.conf; for each test case mServerMap, mServerAlias and the types of connection | load, DECLARE, SET_ENV, UNSET_ENV, getEnv4System, getEnv4Rsystem, getLogonData, replace | written by the Servicer and by laborers, read by both, no lock |
| Client (`atsclnt/`) | list of cases, skip map, platforms, counters, list of recovery points | load, mergeCase, the loop over the cases, report | one request at a time to the service |
| isql (`psql/src/`) | stack of input files, history, session, host variables | a command loop over some sixty commands | script files, the user, the server |
| iloader (`ploader/src/`) | prompt, statement, form, data and bad files | in, out, formout, structout | the server, array by array |
| allim (`allim/`) | a shared segment with two spin locks, a key file, static data of each process | limit points, hooks of malloc, open, socket ..., four tools | shared memory; preloaded into the database servers |

What is hard in it:

- **Queues and barriers.** The commands of a process wait in the Servicer until
  a PWAIT or the end of the script hands them over; P0's go at once. A laborer
  pops under its mutex but executes outside it, and `sync` looks at the queue:
  an empty queue does not mean an idle laborer. *Correct* means: no command
  lost, repeated or reordered; a barrier holds for what it names; the verdict
  is about the complete output; the output does not depend on the interleaving.
- **Lifetime.** Status requests walk pointers to Servicers and laborers that
  other threads delete; three kinds of mutex are nested. *Correct*: status
  never finds an object that is gone, no deadlock, every request is answered.
- **Sessions.** Nothing but order ties an answer to a command; select may time
  out, isql may die, pipe ends are inherited. *Correct*: an answer is taken for
  the command that caused it, and a dead session is noticed.
- **Recovery tests.** Several laborers see one server die. *Correct*: HIT,
  MISS, CRASH and FATAL tell what happened to the server.
- **The agent protocol.** Both sides must count messages alike; the agent
  serves one client and laborers keep their connection. *Correct*: both in step
  after every operation; SUCCESS is true; nobody waits for ever.

- **Environments.** Parameters take effect when a thread gets to them, in maps
  without a lock. *Correct*: a command sees what its script has set for its
  server by then, and nothing of other servers or of earlier test cases.
- **Lists.** A list is loaded by recursion over shared members, merged by an
  iterator, walked twice; recovery points are erased while they are walked.
  *Correct*: the list is what the files say; each runnable case is requested
  once, with its links; each recovery point takes its turn.
- **isql.** State that outlives a command (end of file, cursors, explain mode,
  sysdba flag, bind list) on many error paths. *Correct*: the next command
  finds what the user was told.
- **iloader.** Arrays, commit units and lines that fail. *Correct*: the table,
  the counts and the bad file are what the file says; a download reads back.
- **Limit tests.** Spin locks in shared memory, held by processes that may die
  and by hooks that call themselves; static data beside shared data. *Correct*:
  one segment for all, a failure at the right pass, nothing freed that is not
  one's own, locks given back.

All components, the ones left out too, are listed in `PROJECT.json` under
"components", and what is hard to test, line by line, under "hazards".

## Modules

| Module | Models | State and actions |
|---|---|---|
| `CaseScript` | the parsed script | no state. A script is a sequence of items: a node opens a PROCESS section, a cmd belongs to a process, three kinds of PWAIT, IGNORE. `WellFormed` is what parser and `runReal` guarantee; `Oracle` is the output of a run in which every session answers |
| `Laborer` | the laborer threads of a normal test | `queue` (mQuery), `cur` (the command popped and not finished), mEnd, mLogon, mRetry, mSbegin, mResult, FATAL. One action for each turn of `run`, the pop, and each branch of `runReal` that differs in control |
| `Servicer` | the thread of a run; EXTENDS Laborer | `pc` follows runReal, runParseTable, syncP0, sync/async, syncLaborer, collection, verdict, endLaborer with its own error exit; the error path is `failed` |
| `TestCase` | the abstract specification of a run: per process the commands that have begun and their output; a command begins after the ones before it and after the barriers before it | the `Case!Spec` that `Servicer` implements |
| `ServicerProofs` | theorems about Servicer: types, order, barriers and the end of the laborers; verdicts and the refinement of `TestCase` | |
| `ServiceManager` | requests, mutexes, lifetimes | hpc (handleRun), spc (Servicer thread), apc (handleStatus), the three kinds of mutex, objects none/alive/destroyed/deleted; a critical section with no wait in it is one action |
| `ArtRecovery` | the recovery test | the loop of runReal with executeArtTest; shared flags without mutex; server, boot log and recovery points as external actions |
| `AltibaseHandler` | sessions | the two pipes as sequences of commands and lines, stdio's buffer, errno, fork between `pipe` and the closing of the ends; isql external |
| `Environment` | server.conf, DECLARE, SET_ENV and what reads them | the cache, mServerMap, mServerAlias and the types of connection; the Servicer walks the script, laborers execute; each lookup and each write of a command is a step (only the walk of replaceServicePort over all servers is one); a pair of threads in one map, one of them writing, is a `Race` that has no effect or ends the service |
| `RemoteSystem` | RSYSTEM | both ends of the protocol for every operation, how the agent splits a command line, the messages on the way, the backlog, destruction in the order of mLaborer; reads and writes of files that fail on either side, short writes |
| `CaseLists` | CaseManager::load and mergeCase, PlatformManager | `frames` is the recursion, one per open list; the members all levels share are variables of their own; `mShared` keeps the list as it was before the merge |
| `AtsClient` | main of the client; EXTENDS CaseLists | the two walks over the list, a request as one step, links, counts, the recovery points and their iterator |
| `IsqlInput` | the stack of input files, the end-of-file rules of the lexer, the history | operators on two records; `Isql` holds the state |
| `IsqlSession` | the session with the server | each function of utISPApi and iSQLExecuteCommand maps a session to the set of its outcomes `[s, ok]` |
| `IsqlHostVars` | host variables and the bind list | operators on one record |
| `Isql` | the main loop; EXTENDS the three | one action per turn of the loop, the login scripts, the user |
| `IloaderData` | data files character by character | GetToken with its limit, ReadOneRecord with the slots of a row, PrintOneRecord as operators |
| `Iloader` | in, out, formout; EXTENDS IloaderData | `pc` follows main and LoadwithPrepare: read a record, execute an array, commit a unit, and the error exits; the table and what is committed of it; the row limit a fetch leaves on the statement |
| `Allim` | allib.c, allimso, the hooks and the tools | the key file, which segment a key finds, every segment, static data of each process, where each thread is in a list of functions |
| `ServiceManagerProofs`, `ArtRecoveryProofs`, `AltibaseHandlerProofs`, `RemoteSystemProofs`, `AtsClientProofs`, `IsqlProofs`, `AllimProofs` | theorems about the module of that name, `AtsClientProofs` also about `CaseLists` | |
| `MC*` | definitions for the .cfg files; `MCAtsClient` has the reference the lists are compared with | |

`Servicer` composes with `Laborer` by EXTENDS: Servicer's actions use the
operators of Laborer that stand for its methods (`PushBack`, `Synced`, `End`,
`TakeResult`, `Destroy`). `AltibaseHandler`, `RemoteSystem` and `ArtRecovery`
refine one branch of `runReal` each, `Environment` what its commands are
started with; `Laborer` keeps the answers they may give (`Answers`, `Logons`).
`AtsClient` sees of the service the replies it may get. Operators headed
"Defect" are faulty variants of the definition that follows them; each run's
properties are tested against one.

## Runs

Distinct states are given in parentheses.

| Run | Instance | Shows |
|---|---|---|
| `servicer_run` (121 051) | 2 or 3 processes; 4 scripts with SKIP, RESTART, IGNORE, PWAIT for one, for all, for a time and for a process without laborer; every fault on | `TypeOK`; `CommandsInOrder`: queue, buffer, command in execution and output together are always exactly the commands up to the Servicer's place; `VerdictComplete`; `QuietRunPasses`: PASS under every interleaving in which each session answered; `BarrierHolds`: behind a barrier everything in front of it has **begun** (the code guarantees no more, the last command may be running); `EndsInOrder`; `RunEnds`: every run ends, without laborers unless an error path gave them up; `ImplementsTestCase` |
| `manager_requests` (155 751) | 2 runs, 1 status, 2 processes, every failure stage | `TypeOK`; `StatusFindsAlive` with the exceptions the code has (thread not created; endLaborer given up); `VerdictLeavesNothing`; `AllAnswered` |
| `art_verdicts` (803 296) | 2 processes, 2 kills, 1 bug; assertions live and not; a full test, and a sequential and a regressive test in which P1 restarts the server | `HitIsReal`: no hit without a kill and no kill reported as a miss; `CrashAfterHit` |
| `art_enable` | a full test, no bug | violated, see below |
| `session` (289 107) | 1 session with 3 commands, 2 deaths of isql and timeouts; or 2 sessions that log on at the same time | `OwnAnswer`, `EndsUnlessInherited` |
| `environment` (365 292) | 2 processes, 2 editions of server.conf, 2 of 7 short cases, 1 lost session | `EnvironmentIsLastSet`, `SessionWhereDeclared` |
| `remote_protocol` (167 764) | 2 laborers, 1 agent; 3 commands each of every kind, up to 2 blocks, host writes fail; or 1 command each, and host reads fail or every read and write of both sides | `InStep`, `SuccessIsTrue`, `EndsUnlessKept` |
| `remote_put` | 1 put | violated, see below |
| `client_lists` (412 476) | 2 659 inputs: lists of up to three lines over lists of two, users' lists, all replies, sequential tests over three recovery points | `TypeOK`; `ListIsTree` against a reference that reads the files as a tree; `MergeInOrder`; `RequestsFollowList`: also what each request finds among the results, its own directory and the scripts of earlier ones; `PointsTakeTurns` |
| `isql_user` (1 291 735) | 3 kinds of users over 16 surroundings, a history of 3 | `ScriptModeTracksStack`, `HistoryKeepsLast`, `StatementsClosed`, `SysdbaMatchesSession`, `PlanRestored`, `ExecWritesBound` |
| `iloader_session` (1 269 149) | 1 425 first commands, a second command, 1 fault; arrays of up to 3, units of up to 2; 17 files, terminators and enclosers of one and two characters | `TypeOK`; `LoadIsTrue`; `CommitBound`; `WrittenReadsBack` |
| `limit_tests` (452 154) | 2 servers, 3 threads, 1 tool, 10 plans, 1 fault | `OneTest`, `HitOnCount`, `WasteIsHeld`, `LockReleased` |

`CommandsInOrder` and `ImplementsTestCase` are about the same promise from two
sides: the first ties the commands to the Servicer's place, the second hides
the Servicer and is what a user may rely on.

A run checks a type invariant where the state has grown by hand (Servicer,
ServiceManager, AtsClient, Iloader). Where the values are few and every action
sets them outright, the properties fail first; the `TypeOK` of `ArtRecovery`,
`AltibaseHandler` and `RemoteSystem` is there for the proofs.

Bounds, and why they are enough:

- *Processes*: the Servicer passes over the laborers one by one, and laborers
  meet only in it and in shared flags; two laborers show every pair, three a
  barrier that waits for one of two others.
- *Scripts*: each is short but uses every operation; the order of operations
  around a barrier (before, at, behind, nothing behind) is what matters, and
  the proofs cover all scripts.
- *Commands in a session* (MaxCommand): an answer can be late by one command
  and then by two (three commands); two deaths (MaxEnds) reach the second
  execution and what follows it.
- *Limits* in `AltibaseHandler` and `RemoteSystem`: an initial state chooses
  one of a few sets of bounds, so that a long quiet session and a short one
  with every fault are in the same run and not multiplied with each other.
- *Kills*: two are enough for a kill during the recovery from a kill.
- *Blocks*: none, one and two: empty, last, and not last. *MaxArgs*: two
  arguments, one of them the last.
- *Operations* on a connection: three show one left out of step followed by
  others. Where the agent's writes or the host's reads fail there is one
  operation only, because what a connection that is out of step does to later
  commands is not modelled.
- *MaxTests*: two cases in a row, in each order, show the cache of server.conf
  filled, used stale and loaded again; one lost session (MaxLost) shows the
  second logon.
- *MaxRun*: eight requests take a sequential test round three cases and three
  recovery points twice.
- *Slots*: a ring of three entries wraps within the four commands typed
  (MaxTyped; it is 21 in the code).
- *Arrays and units*: 0 to 3 and 0 to 2 over files of up to four lines: the
  last array full, partial and empty; units that divide the array and that do
  not. *MaxValue*, the length of a value, is 4 (32K in the code) and the limit
  of a token twice that, so that a field is too long for its slot, for the
  buffer or for neither; *MaxRows*, the limit a fetch leaves behind, is 1 (1000
  in the code).
- *MaxThreads* in `Allim`: two slots for three threads, so that one is without
  (256 in the code). Five keys: more segments than are ever made. Two chunks,
  descriptors and units of disk: a wish below, at and above what there is.

`CHECK_DEADLOCK FALSE` is said where the system may really stop: in `session` a
laborer waits for the end of a stream that another isql keeps open; in
`remote_protocol` and `remote_put` a laborer waits for an agent that another
laborer keeps until the join that waits for the first, or laborer and agent
wait for each other after a read that failed; in `limit_tests` threads wait for
a lock that is never given back. `environment`, `isql_user` and
`iloader_session` come to an end: the last case has run, the program has
exited.

## Fairness

Weak fairness of each thread: `run` and `sync` poll with `usleep` and hold no
lock while they sleep; a command is bounded by `mIsqlReadTimeout` (600 s) and
`mEVENT_TIMEOUT` (30 s). Two waits in the code have no bound: `ping()` reads
without select, and SYSTEM waits for its process. That these end is an
assumption. isql answers what it is given, or ends (`WF` of its actions; no
fairness for its death). In `ServiceManager` a status request that waits for a
laborer's mutex is strongly fair, and so is a laborer's way out of its loop:
the other side takes the mutex again and again, but sleeps in between. The
agent acts when it has something to read. No fairness is given to faults,
kills, bugs or timeouts. `Environment`, `Isql`, `Iloader` and `Allim` are
checked for safety only; a sequential recovery test need not end, and no
property says it does.

## Proofs

Checked by TLAPS for every value of the constants under the named assumptions
of the modules: any set of processes with natural numbers, any set of
well-formed scripts, any choice of faults and bounds.

| Theorem | Says, of every behaviour of `Spec` |
|---|---|
| `TypeCorrect` | Servicer's `TypeOK` |
| `CommandsAlwaysInOrder` | `CommandsInOrder`: what a process has printed, executes, has queued and is still owed is always exactly its commands in the order of the script |
| `BarriersAlwaysHold` | `BarrierHolds`: behind a PWAIT, each process it names has begun every command in front of it or has lost its session |
| `LaborersEndInOrder` | `EndsInOrder`: a laborer is ended when nothing can be handed to it any more |
| `VerdictsComplete` | `VerdictComplete`: the output a verdict compares has every command of the process, or ends with its session's death |
| `QuietRunsPass` | `QuietRunPasses`: a run in which each session answered and each thread started ends in PASS, under every interleaving, with SKIP and IGNORE |
| `OracleInOrder` | the recursive function `Oracle` gives exactly the commands of a process, in order, each with the output the script says |
| `ServicerImplementsTestCase` | `Case!Spec`: every run of threads, queues and locks is a run of the abstract test case |
| `TypeInvariance`, `StatusFinds`, `VerdictLeaves` | ServiceManager's `TypeOK`, `StatusFindsAlive`, `VerdictLeavesNothing` |
| `HitsAreReal`, `CrashesFollowHits` | ArtRecovery's `HitIsReal`, `CrashAfterHit`, for any number of processes, kills and bugs, with assertions live or not |
| `AnswersAreOwn` | AltibaseHandler's `OwnAnswer`, for any number of sessions, commands and deaths of isql |
| `StaysInStep`, `SuccessMeansDone` | RemoteSystem's `InStep`, `SuccessIsTrue`, for any number of laborers, blocks and operations, whichever reads and writes of files fail; the exceptions are in the properties |
| `ClientTypeOK` | AtsClient's `TypeOK`, for all list files, users' lists and replies |
| `MergeKeepsOrder` | `MergeInOrder`: the common list keeps its order, each case of the user is in once, a new one behind its predecessor |
| `ClientFollowsList` | `RequestsFollowList`: the requests are the cases of `all_count.log`, and each finds its links, and of other directories their scripts only |
| `ClientPointsTakeTurns` | `PointsTakeTurns`, for any number of recovery points |
| `ModeFollowsStack` | Isql's `ScriptModeTracksStack`, for every command line, all scripts that call each other and every user |
| `RingHoldsLast` | `HistoryKeepsLast`, for a ring of any size and however often it went round |
| `CommandsClose`, `SysdbaAgrees` | `StatementsClosed`, `SysdbaMatchesSession`, whatever the server answers and whenever it goes down |
| `ListsRestorePlan`, `ExecWritesWhatItBinds` | the action properties `PlanRestored` and `ExecWritesBound` |
| `LocksReleased`, `OneTestOnly` | Allim's `LockReleased`, `OneTest`, for any number of servers, tools, threads and keys, whatever they call, in any order; the ways to hang with a lock are in the property |
| `HitsOnCount` | `HitOnCount`, for any count, any number of slots and any interleaving of the threads that pass |
| `WastedIsHeld` | `WasteIsHeld`, wherever wasting stops, hangs or is cut off by a death |

None of these is inductive. What each needs is given here by name, in the
module of the specification or of the proofs, and holds on the run's instance,
where TLC can evaluate it; each proof has a step for each action, and cites the
part of the invariant that action leans on.

**Servicer.** `Flush` appends the buffer to the queue and keeps the order only
because the command in execution is at most one and only while the laborer
executes; `Waited` appends a line to P0's *queue* and keeps it only because
nothing is buffered for P0; a new laborer's buffer is reset, which loses
nothing only because it is empty; `Collect` moves output once. `Placed` says
so, and `TypeOK /\ Placed /\ CommandsInOrder` is inductive.

- *Barriers*: `Held` says what the passes over the laborers have achieved by
  the time they are somewhere: behind `flush` the buffers of the visited are
  empty, in `wait` all are and the visited are synced. A process that is synced
  with an empty buffer has, by `CommandsInOrder`, begun everything up to `ip`.
- *Ends*: `EndedInOrder` says why mEnd may be trusted: either the report of the
  session's death is the last of the output, or the Servicer is behind its last
  barrier and nothing is queued; a laborer that has been joined holds nothing.
- *Verdicts*: `Judged` ties mIgnore to the IGNORE items passed and the verdict
  to the outputs compared; `Answered` ties SKIP to the commands begun so far,
  and each answered command to the output the script says.
- *Oracle*: `Oracle` is a recursive function on the prefixes of the script. The
  library's induction theorems cannot be instantiated here, so the lemmas on it
  are proved without them: were there a prefix of which the statement is false,
  there would be a least one (`NatMin`, from the order of the naturals), and
  its predecessor refutes it.
- *Refinement*: the abstract variables are what has begun and what is printed,
  as functions of Servicer's. Each action maps to a step of `TestCase` or a
  stutter; that a command begins behind its barriers is `BarrierHolds` at the
  place of its owner.

**ServiceManager.** `Holders` says who holds which mutex by where it is: status
under the list's mutex and under the mutex of the Servicer it looks at,
registration under the list's, endLaborer under the Servicer's. `Once` (no
Servicer is in the list twice, so that rmService removes it) and `Request`
(where handleRun is when its Servicer is in the list) give that a Servicer
found is alive; `Laborers` (the map holds what is alive, but while one is being
started or all are ended) gives the same of the laborers, and that a verdict
leaves none. The two exceptions in the property, a thread that was not created
and an endLaborer given up, come out as the only cases.

**ArtRecovery.** `Evidence`: a kill is in the boot log before a laborer sees
it, and only who has seen it starts or cleans the server. `Unseen`: as long as
nobody has, a server that is down stays down (no script starts it:
`NeverSystem` of every queue), no session lives, the boot log is kept, and one
of those whose session broke is still on the way to look, unless the assertion
has ended the service, and then there is no verdict. A run that has ended has
no such laborer, so the kill was seen.

**AltibaseHandler.** An answer crosses two buffers, stdio's and the pipe's; the
invariants speak of their concatenation `Lines`. `Fresh`: a session begins with
nothing in either. `InPairs`: after the line of an answer comes its `$$EOF$$`,
or nothing. `OneAtATime`: without a late answer one command at most is being
answered, and its `$$EOF$$` is the last there is. `CutShows`: what was written
to nobody is answered by nobody, and errno says so.

**RemoteSystem.** `Ordered(p)`, the protocol's table: for each place of the
host and of the agent in an operation, which messages are on the way in each
direction. Each handler moves from one row to another. `Queue` says that a
connection is served or queued once and only for a laborer that has a
descriptor; `AllTruthful` that the host's result agrees with what the agent
did. A put leaves the table where the host breaks it off (`BrokenOff`) or the
agent may fail to write (`Spoilt`), and nothing else does: a get whose file the
agent cannot read stays in its row, and a copy, whose reads and writes are not
looked at, keeps its messages. So a laborer's connection is `Ordered` or
`Apart`; the properties except the latter only where the failure can happen,
and the copy (`Unchecked`) only in `SuccessIsTrue`.

**AtsClient.** The constants carry what the parser of a line and the options
guarantee: `KindAssumption` (each file has a kind), `InputsAssumption` (files
hold lines; the first list is common, the second the user's) and
`WalkAssumption` (each file has a directory, recovery.dat holds lines).

- *Types*: `ListTypes` bounds the recursion's frames, `ListTrees` says that all
  frames, and all cases in a list, are of the tree that is being loaded: the
  user's cases are told from the common ones by it. `WalkTypes` keeps both
  iterators in their lists or at the end, over erasures and wraps.
- *Merge*: `MergedTo` has the places of the common cases (`at`, increasing) and
  of the user's cases merged so far (`pos`), and says that the iterator stands
  behind the last of these. An insertion moves all places from there on up by
  one (`MergePut`); a twin takes the place of a common case (`MergeTwin`).
- *Requests*: `Served` compares the number of requests with the rank of the
  iterator among the cases of `all_count.log`; it follows step by step because
  `Runnable` reads nothing that changes (`RankStep`).
- *Links*: `LinkInv`: without a lost request the links to data are those of
  `sOld` alone, or none, and those to scripts the ones of every directory
  visited so far (`Visited`), which no unlink takes away; a request that does
  not ask for links finds its own there. `VisitedMore` and `NoLinks` say what a
  request adds and an unlink leaves.
- *Points*: `Due`: going round from a point that was missed to the iterator,
  every point passed was tried since. An erasure shifts places and iterator
  together (`Up`), a miss adds the point it steps over, the wrap goes from the
  end to the front with nothing in between (`DueAfter`, `DueWrap`); when the
  iterator is back at the missed point, that is all of them (`TurnedAfter`).

**Isql.** The invariant `Inv` has four parts, one for each of the things a
command can spoil.

- *Input*: `Fits` says that the mode follows the stack: the user's input lies
  only at the bottom, and not under -f; what pushes a script raises the mode,
  what pops one lowers it only when the user's input or nothing is left.
- *History*: `Turns` gives the place of the k-th command typed as a remainder
  modulo the ring, so the last ones lie one behind the other, and no two of
  them at one place (`Places`, from four lemmas about remainders).
- *Session*: each function of the driver maps a session to its outcomes; `Kept`
  is what every one of them but a logon leaves alone, with the cursors it may
  leave open. One lemma per function shows it, whichever call fails. `LoggedOn`
  follows: no cursor between two commands, no transaction under autocommit, and
  the server's idea of SYSDBA is isql's. Before the logon there is no session
  (`BeforeLogon`).
- *Explain mode*: a list turns the mode off, runs up to five queries and turns
  it on again. The second change works only if autocommit has left no
  transaction (`Ready`), which is why the lists read with `Quiet` and every
  outcome is `Restored`.
- *Host variables*: `WellFormed`: the list has each variable once, with a type
  and a value. `ExecWrites` follows the bind list from the text to the reply.
  The last place an EXEC returns a variable at is the greatest of a set of
  numbers, and that one exists by the order of the naturals (`Greatest`).

**Allim.** The functions of allib.c share one shape: wait for the lock, change
the segment, write to the log, unlock. The lemmas on `Unlock` and on the
functions say once how each can end (`Ends`: unlocked, or hung with the lock),
so that the invariants are shown for that shape and not for each of the
functions.

- *Locks*: `LockInv` ties the lock to the place of its owner; a thread that
  wastes has it (`WasterHolds`), the log stays locked only after a seek failed
  (`LogFree`), and the flag of a process is up while its only thread in a hook
  is there (`HooksUp`), so that a hook that is called in a hook does not wait
  for itself. A process that dies of a chunk list that is too short dies with
  all the locks its other threads hold, on other segments too: a step of this
  proof failed until the model said so. `Tries` says that a server has tried to
  open its log before its hooks work, so that an open under the lock is a
  hooked one that waits for its own thread only where that first try failed.
- *One test*: `Single`: who makes the segment is alone; until it has written
  the key nobody has one, and from then on every key anybody has finds the
  same.
- *Hits*: `Counting`: the slots are taken in order, one for each thread, and
  each is down from the count by what its thread has passed since. `CountsPass`
  is the step: a thread finds its own slot, or the first free one when it has
  none.
- *Waste*: `Wasted`: while one process has wasted, it holds what the segment
  says when the lock is free, and what its thread has counted up to in between;
  the other processes and segments are at zero, so who begins to waste begins
  there too (`AloneBefore`).

Only model-checked, and why:

- `RunEnds`, `AllAnswered`, `EndsUnlessInherited`, `EndsUnlessKept` are
  liveness under fairness, and the prover has no ENABLED.
- `EnabledAgain` and `MessageReceived` are violated.
- `ListIsTree` and `WrittenReadsBack` compare with recursive references over
  data: induction over data is out of the prover's reach.
- `TypeOK`, `LoadIsTrue` and `CommitBound` of `Iloader`: its data module reads
  files with RECURSIVE operators, and the prover has no arithmetic in a module
  that reaches one.
- `EnvironmentIsLastSet` and `SessionWhereDeclared` compare the maps with a
  replay of server.conf and of all changes; they are not proved.

## Disagreements

Runs expected to be violated; each quotes its line in `PROJECT.json`
"findings".

- `art_enable`: a comment says that the command that enables the recovery
  points is queued again after each restart; what is queued is a local variable
  that this call of runReal need not have set.
- `remote_put`: the agent's message after a failed put is numbered in the
  comments of both sides, but the host's half is commented out.

What else the models show of the code, and the properties allow for. Each is in
the condition of a property or in the actions, not in a run of its own:

- `retryExecution4ART` (laborerThread.cpp:1757) asks for the cause of a second
  death to be looked for; `execute` succeeds whatever the session answered, so
  it never is. The assertion of executeArtTest that no restart is pending
  (laborerThread.cpp:1656) does not hold with two processes. The makefile sets
  -DNDEBUG for some platforms but overwrites CFLAGS on all but Windows
  (ats2/makefile:222), so that the assertion is live there: the kill then ends
  the service, and there is no verdict. The tests of `art_verdicts` have it
  live and not.
- endLaborer gives up at the first laborer that cannot be destroyed
  (serviceThread.cpp:314); the rest stay, with their threads, in a run that
  ends.
- A command is formed from several lookups without a lock, so that a request
  formed for one host may go to another when HOST_IP is set in between, and
  ports and homes may be of two states. `EnvironmentIsLastSet` compares each
  lookup with what was last set at its own time.
- A put whose file the host cannot read to its end leaves the agent in the loop
  that waits for blocks, where it takes the next command for one; a get whose
  file the agent cannot read leaves the host waiting for a block, for ever. A
  block of a put that is not written, or in part, and every failed read and
  write of a copy are answered SUCCESS in the end.
- `Servicer::unlink` leaves the links to `*.sh` (serviceThread.cpp:3467), so
  that the scripts of all directories a client has been in stay among the
  results (`RequestsFollowList` says which).
- The isql kept here rejects the options `-nls_use` and `-ataf` that
  `AltibaseHandler::logon` passes: the harness runs the isql of the product.
- `ResetInput` is written for the end of a file and for LOAD
  (iSQLCompiler.cpp:333), but the flag for the end of file is static: a script
  called in a last line that has no newline is dropped unread (`ReadEnd`).
- SQLError of utISPApi.cpp never fills in the state, so that no error of a call
  is taken for a lost connection: isql goes on with the session it believes in.
- The first fetch of a download sets SQL_ATTR_MAX_ROWS to 1000, too late for
  its own SELECT, and nothing resets it (iloSQLApi.cpp:1035): later downloads
  of the session end after 1000 rows. A token longer than the buffer counts as
  the end of the file (iloDataFile.cpp:172): the load ends there, and the lines
  behind it are not counted. Rows that could not be written are counted as
  downloaded (iloDownLoad.cpp:157).
- A value that holds a carriage return, a part of a terminator of several
  characters in front of a whole one, or nothing between enclosers of several
  characters is not read back (`Writable` lists these).
- With `-L` and `-array` rows of the last, partial array are lost; a load whose
  form has sequences that do not fit goes on; no commit follows the last rows
  of a load but AutoCommit's own (`LoadIsTrue` names these).
- A comment of mergeCase (caseManager.cpp:613) puts the user's first case, if
  it is a new one, at the very front; the code inserts it at the end
  (`MergeOne`).
- A client whose recovery.dat is empty divides by zero in a sequential test
  (atsc.cpp:2128); the inputs of `client_lists` have at least one point. A lost
  first request of a directory loses its links.
- In limit tests a server that has found no segment may make a second one, and
  what one server has wasted another one tries to free. A server that has not
  got its log opened by the time it holds the lock opens it there, through its
  own hook, which waits for that lock (allib.c:66): it hangs. The conditions in
  `OneTest`, `HitOnCount`, `WasteIsHeld` and `LockReleased` list how each comes
  about.

## Abstractions

- Commands without a session (strings, SYSTEM, POST, WAIT, APPEND, ...) are one
  kind, "text", in `Laborer`; `Environment` has those that read or change
  parameters.
- A command's text is its place in the script; an output is one of five kinds.
- In the error path results are read while laborers write them. The race is
  taken as atomic; what happens after a deleted object is touched is not
  followed.
- `load` in `ServiceManager` is the critical section only.
- In `ArtRecovery` the boot log is its last line; `cleanServer` is one step; a
  command that enables recovery points is modelled by that effect; queues are
  handed over command by command.
- SIGPIPE is ignored by the STAF process, so that a write to a dead isql or a
  reset connection fails with an error.
- A descriptor closed by quit and terminate stays closed; numbers that are used
  again are left out. A block is MAX_BUF_SIZE bytes, and a file keeps its
  length while it is transferred.
- In `Environment` a value is a text with at most one reference, and a barrier
  is a step: what it waits for is `Servicer`'s business.
- In `CaseLists` a line is what its characters stand for; in `AtsClient` a
  request is one step.
- In `Isql` a command is a record, parsed; the server is what isql can tell of
  it: connected, in a transaction, explaining, up or down. The driver's and the
  server's refusals are choices.
- In `Iloader` a row that contains x is refused; a commit, the server or the
  writing of a file may fail once. A value longer than its slot ends in
  `undefined`, of which nothing is said. The values in the table are shorter
  than the buffer they are fetched into, and the row limit of a statement is
  applied, as in ODBC, when its result is created.
- In `Allim` memory and descriptors are counted in units; errno, file names
  with directories and the text of the log are left out. A log that is opened
  under a lock with no hook in the way counts as opened from the start.

## Not modelled

See "components": the parser; log files; files of results, includes and links;
thread wrappers; utilities; Windows branches; `ads`, an older service; the rest
of `psql` and `ploader` (ploader's copy of the driver layer, options, display,
passwords); `ecm`, `viewer`, `java`, `ses`, `valgrind`, scripts, test cases.
kill, help and version of the service are a signal and constant texts.

Hazards no property covers (`PROJECT.json`): a server that hangs at logon
(ping() reads without a timeout: an endless run by construction), events (POST
before WAIT), a temporary file that all SYSTEM2 commands share, the 32-bit
elapsed time, a value of a data file that is longer than its slot, and rows of
a download that could not be written. For events and the file no line of the
code says what should happen; the time is a multiplication whose result nothing
reads but a report; what follows the long value is undefined; a download that
lost a write is an exception of `WrittenReadsBack`.

## Plan

Done: the models of every component above; the theorems of the five modules the
service consists of, of the client, of isql and of allim.

Next:

1. `Environment`: the replay as a recursive function of the log, and the maps
   shown to agree with it. `Iloader`: its data operators split off, so that
   `CommitBound` can be proved without them.
2. `AltibaseHandler` as a refinement of the answers `Laborer` assumes.
3. Results: saveRESULT against the oracle, links and reports.
4. What a connection that is out of step does to later commands.
