------------------------------- MODULE Assets -------------------------------
(***************************************************************************)
(* The asset registry (engine/assets/src/registry.cpp), its workers and    *)
(* artifact cache, and the main thread that pumps it, turns what was       *)
(* decoded into textures (engine/renderer/src/texture_cache.cpp) and polls *)
(* for changed files (apps/sandbox/main.cpp).  A file is the number of the *)
(* write that made it and whether it decodes; that number is also its time *)
(* of modification, so no two writes share a time.  Content and time are   *)
(* read one after the other, and a write may fall between.                 *)
(***************************************************************************)
EXTENDS Integers, Sequences, FiniteSets, Functions

CONSTANTS Asset,
          Finalised,  \* assets of a type that something finalises
          Cached,     \* assets of the type the artifact cache keeps
          AssetWorker,
          StalledPumps,
          MaxWrites,  \* bound: writes to the files
          MaxRuns,    \* bound: runs of the program
          Nothing     \* no time, no payload, no job

ASSUME AssetAssumption == IsFiniteSet(Asset) /\ Nothing \notin Asset

VARIABLES file,       \* the files on disk
          artifacts,  \* the cache directory: what each key decodes to
          raced,      \* auxiliary: times a worker read that were not its content's
          entry,      \* the table: entries by asset
          shown,      \* the texture cache: the version behind each texture
          jobs,       \* the job queue
          finished,   \* completions waiting for the main thread
          hand,       \* what each worker is about
          quitting,   \* stopping is set
          step,       \* where the frame of the main thread is
          runs

assetVars == <<file, artifacts, raced, entry, shown, jobs, finished, hand, quitting, step, runs>>

Settled(state) == state \in {"ready", "failed"}
InProgress(state) == state \in {"queued", "loading", "decoded"}

Unloaded == [state |-> "unloaded", at |-> Nothing, payload |-> Nothing,
             pumps |-> 0, reported |-> FALSE]

At(place) == [at |-> place, asset |-> Nothing, read |-> Nothing]

(* The condition variable: sleeping workers wake when notified, and look.  *)
Sleeping == {w \in AssetWorker : hand[w].at = "asleep"}
NotifyOne ==
  IF Sleeping = {} THEN {hand}
  ELSE {[hand EXCEPT ![w] = At("looking")] : w \in Sleeping}

\* Mutant: a reload wakes nobody, as if the next request would.
NotifyNobody == hand

NotifyAll == [w \in AssetWorker |-> IF w \in Sleeping THEN At("looking") ELSE hand[w]]

(* The main thread.                                                        *)
\* Asking again for a known asset queues nothing.
Request(a) ==
  /\ step = "pump" /\ entry[a].state = "unloaded"
  /\ entry' = [entry EXCEPT ![a].state = "queued"]
  /\ jobs' = Append(jobs, a)
  /\ hand' \in NotifyOne
  /\ UNCHANGED <<file, artifacts, raced, shown, finished, quitting, step, runs>>

\* A failure keeps the time of the last load that succeeded.
Completed(e, c) ==
  IF ~c.good THEN [e EXCEPT !.state = "failed"]
  ELSE [state |-> "decoded", at |-> c.time, payload |-> c.version, pumps |-> 0, reported |-> FALSE]

Waited(e) ==
  IF e.state # "decoded" THEN e
  ELSE IF e.pumps < StalledPumps THEN [e EXCEPT !.pumps = @ + 1]
  ELSE [e EXCEPT !.reported = TRUE]

\* The table after each of the completions, from none to all of them.
Brought ==
  LET after[i \in 0 .. Len(finished)] ==
        IF i = 0 THEN entry
        ELSE [after[i - 1] EXCEPT ![finished[i].asset] = Completed(@, finished[i])]
  IN  after

Pump ==
  /\ step = "pump"
  /\ entry' = [a \in Asset |-> Waited(Brought[Len(finished)][a])]
  /\ finished' = <<>>
  /\ step' = "finalise"
  /\ UNCHANGED <<file, artifacts, raced, shown, jobs, hand, quitting, runs>>

\* The payload is taken once; a device that refuses the texture fails the
\* asset, and a texture that is replaced is destroyed.
Finalise(refused) ==
  LET pending == {a \in Finalised : entry[a].state = "decoded"}
      made == pending \ refused
  IN  /\ step = "finalise"
      /\ shown' = [a \in Asset |-> IF a \in made THEN entry[a].payload ELSE shown[a]]
      /\ entry' = [a \in Asset |->
           IF a \in pending
           THEN [entry[a] EXCEPT !.payload = Nothing, !.state = IF a \in made THEN "ready" ELSE "failed"]
           ELSE entry[a]]
      /\ step' = "poll"
      /\ UNCHANGED <<file, artifacts, raced, jobs, finished, hand, quitting, runs>>

\* Only what has settled is loaded again: two loads of one asset would race.
Changed(a) ==
  /\ Settled(entry[a].state)
  /\ entry[a].at = Nothing \/ file[a].version > entry[a].at

\* The table is walked in the order of its hashes, which is any order.
Orders(changed) ==
  {order \in [1 .. Cardinality(changed) -> changed] : IsInjective(order) /\ Range(order) = changed}

ReloadChanged(due) ==
  LET changed == {a \in Asset : due /\ Changed(a)}
  IN  /\ step = "poll"
      /\ entry' = [a \in Asset |-> IF a \in changed THEN [entry[a] EXCEPT !.state = "queued"] ELSE entry[a]]
      /\ \E order \in Orders(changed) : jobs' = jobs \o order
      /\ hand' = IF changed = {} THEN hand ELSE NotifyAll
      /\ step' = "pump"
      /\ UNCHANGED <<file, artifacts, raced, shown, finished, quitting, runs>>

\* Destroying the registry tells the workers to stop and joins them.
Quit ==
  /\ step = "pump"
  /\ quitting' = TRUE /\ step' = "joining"
  /\ hand' = NotifyAll
  /\ UNCHANGED <<file, artifacts, raced, entry, shown, jobs, finished, runs>>

\* The next run starts afresh, on the files and artifacts there are.
Begin ==
  /\ step = "joining" /\ \A w \in AssetWorker : hand[w].at = "gone"
  /\ runs < MaxRuns
  /\ runs' = runs + 1
  /\ entry' = [a \in Asset |-> Unloaded] /\ shown' = [a \in Asset |-> Nothing]
  /\ jobs' = <<>> /\ finished' = <<>>
  /\ hand' = [w \in AssetWorker |-> At("looking")]
  /\ quitting' = FALSE /\ step' = "pump"
  /\ UNCHANGED <<file, artifacts, raced>>

(* A worker.  It holds the queue's lock to look, the table's to mark, and  *)
(* none while it reads and decodes.                                        *)
Look(w) ==
  /\ hand[w].at = "looking"
  /\ IF quitting
     THEN hand' = [hand EXCEPT ![w] = At("gone")] /\ UNCHANGED jobs
     ELSE IF jobs = <<>>
     THEN hand' = [hand EXCEPT ![w] = At("asleep")] /\ UNCHANGED jobs
     ELSE /\ hand' = [hand EXCEPT ![w] = [At("marking") EXCEPT !.asset = Head(jobs)]]
          /\ jobs' = Tail(jobs)
  /\ UNCHANGED <<file, artifacts, raced, entry, shown, finished, quitting, step, runs>>

Mark(w) ==
  /\ hand[w].at = "marking"
  /\ entry' = [entry EXCEPT ![hand[w].asset].state = "loading"]
  /\ hand' = [hand EXCEPT ![w].at = "reading"]
  /\ UNCHANGED <<file, artifacts, raced, shown, jobs, finished, quitting, step, runs>>

ReadContent(w) ==
  /\ hand[w].at = "reading"
  /\ hand' = [hand EXCEPT ![w].at = "dating", ![w].read = file[hand[w].asset]]
  /\ UNCHANGED <<file, artifacts, raced, entry, shown, jobs, finished, quitting, step, runs>>

\* Mutant: keyed by the path alone.
KeyByPath(a, time) == <<a>>

\* The cache is keyed by path and time; what it has is not decoded again.  The
\* code's key has the content's size in bytes too, which this one does not tell
\* apart: it hits wherever the code's does, and where the size alone differs.
KeyOf(a, time) == <<a, time>>

Kept(a, time) == {k \in artifacts : a \in Cached /\ k.key = KeyOf(a, time)}

\* load_texture: an entry that is not whole is discarded, and decoded afresh.
Hit(a, time) == {k \in Kept(a, time) : k.whole}

\* store_texture: under a name of its own, then renamed; it may fail.
Stored(a, time, content, works) ==
  LET rest == artifacts \ Kept(a, time)
  IN  IF a \in Cached /\ content.good /\ works
      THEN rest \cup {[key |-> KeyOf(a, time), version |-> content.version, whole |-> TRUE]}
      ELSE rest

Decode(w, works) ==
  LET a == hand[w].asset
      content == hand[w].read
      time == file[a].version
      hit == Hit(a, time)
      version == IF hit = {} THEN content.version ELSE (CHOOSE k \in hit : TRUE).version
  IN  /\ hand[w].at = "dating"
      /\ finished' = Append(finished,
           [asset |-> a, good |-> content.good \/ hit # {}, version |-> version, time |-> time])
      /\ artifacts' = IF hit = {} THEN Stored(a, time, content, works) ELSE artifacts
      /\ raced' = IF time = content.version THEN raced ELSE raced \cup {<<a, time>>}
      /\ hand' = [hand EXCEPT ![w] = At("looking")]
      /\ UNCHANGED <<file, entry, shown, jobs, quitting, step, runs>>

(* Outside the program: a file is written, an entry of the cache damaged   *)
(* between two runs.                                                       *)
Write(a, good) ==
  /\ FoldFunction(+, 0, [b \in Asset |-> file[b].version]) < MaxWrites
  /\ file' = [file EXCEPT ![a] = [version |-> @.version + 1, good |-> good]]
  /\ UNCHANGED <<artifacts, raced, entry, shown, jobs, finished, hand, quitting, step, runs>>

Spoil(k) ==
  /\ step = "joining" /\ \A w \in AssetWorker : hand[w].at = "gone"
  /\ k \in artifacts /\ k.whole
  /\ artifacts' = (artifacts \ {k}) \cup {[k EXCEPT !.whole = FALSE]}
  /\ UNCHANGED <<file, raced, entry, shown, jobs, finished, hand, quitting, step, runs>>

AssetInit ==
  /\ file = [a \in Asset |-> [version |-> 0, good |-> TRUE]]
  /\ artifacts = {} /\ raced = {}
  /\ entry = [a \in Asset |-> Unloaded] /\ shown = [a \in Asset |-> Nothing]
  /\ jobs = <<>> /\ finished = <<>>
  /\ hand = [w \in AssetWorker |-> At("looking")]
  /\ quitting = FALSE /\ step = "pump" /\ runs = 1

Frame ==
  \/ Pump
  \/ \E refused \in SUBSET Finalised : Finalise(refused)
  \/ \E due \in BOOLEAN : ReloadChanged(due)

Work(w) == Look(w) \/ Mark(w) \/ ReadContent(w) \/ \E works \in BOOLEAN : Decode(w, works)

AssetNext ==
  \/ Frame
  \/ \E a \in Asset : Request(a)
  \/ Quit
  \/ Begin
  \/ \E w \in AssetWorker : Work(w)
  \/ \E a \in Asset, good \in BOOLEAN : Write(a, good)
  \/ \E k \in artifacts : Spoil(k)

\* The frame loop runs until it is told to quit, the threads are scheduled.
AssetFair == WF_assetVars(Frame) /\ \A w \in AssetWorker : WF_assetVars(Work(w))

AssetSpec == AssetInit /\ [][AssetNext]_assetVars /\ AssetFair
------------------------------------------------------------------------------
\* How often an asset is in the queue, a completion or a worker's hands.
Carried(a) ==
  Cardinality({i \in DOMAIN jobs : jobs[i] = a})
  + Cardinality({i \in DOMAIN finished : finished[i].asset = a})
  + Cardinality({w \in AssetWorker : hand[w].asset = a})

\* A texture that is ready shows the file as it was at the time the entry has,
\* unless the file was written between the reads of its content and its time;
\* and an asset is in the hands of the workers exactly while its entry says so
\* (Registry, TextureCache).
AssetsCoherent ==
  /\ \A a \in Asset :
       entry[a].state = "ready" => shown[a] = entry[a].at \/ <<a, entry[a].at>> \in raced
  /\ \A a \in Asset : Carried(a) = IF entry[a].state \in {"queued", "loading"} THEN 1 ELSE 0
==============================================================================
