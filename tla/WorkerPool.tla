----------------------------- MODULE WorkerPool -----------------------------
(***************************************************************************)
(* The worker pool of engine/tasks: parallel_for splits a range in chunks, *)
(* publishes a job that lives on its own stack, and the caller and any     *)
(* worker that wakes in time claim chunks from an atomic counter.          *)
(*                                                                         *)
(* The kernel runs a batch of systems through the pool, and a system's     *)
(* body may split its own rows through the same pool, on whichever thread  *)
(* it happens to run: calls nest, and several threads drive the pool at    *)
(* once.  A thread therefore has two slots: its outer activity, and the    *)
(* loop that activity called.  Atomic steps are single accesses to shared  *)
(* atomics and the sections that hold the mutex.                           *)
(***************************************************************************)
EXTENDS Integers, FiniteSets

CONSTANTS Worker,         \* the pool's threads
          Caller,         \* the thread that owns the pool
          MaxChunks,      \* bounds the chunks of one loop
          MaxGeneration   \* bounds how many loops are ever published

ASSUME WorkerAssumption == IsFiniteSet(Worker) /\ Caller \notin Worker
ASSUME ChunksAssumption == MaxChunks \in Nat /\ MaxGeneration \in Nat

Thread == Worker \cup {Caller}
Slot == Thread \X {"outer", "inner"}

\* The slots that own a loop: the Job object lives on that call's stack.
Job == {<<Caller, "outer">>} \cup (Thread \X {"inner"})

\* A worker's outer slot is a guest in the loop of somebody else.
Guest == Worker \X {"outer"}

NoJob == <<>>

\* No loop; one that is over, of which the range is remembered; chunks that ran.
NoLoop == [chunks |-> 0, next |-> 0, done |-> 0, present |-> 0, born |-> 0]
Over(finished) == [NoLoop EXCEPT !.chunks = finished.chunks]
Chunk == 0 .. MaxChunks
NoneRan == [c \in Chunk |-> 0]

VARIABLES
  pc,         \* where each slot is
  at,         \* the job each guest took
  chunk,      \* the chunk each slot claimed last
  loop,       \* the Job object of each owner
  ran,        \* history: how often each chunk of each job's loop ran
  job,        \* Impl::job: the published job, or NoJob
  generation, \* Impl::generation
  seen,       \* each worker's: the generation it last looked at
  stopping    \* Impl::stopping

vars == <<pc, at, chunk, loop, ran, job, generation, seen, stopping>>
pool == <<job, generation, stopping>>

\* Whose loop a slot works on.
Of(s) == IF s \in Job THEN s ELSE at[s]

\* A thread inside a nested call resumes its outer activity only afterwards.
Active(s) == s[2] = "inner" \/ pc[<<s[1], "inner">>] = "idle"

At(s, label) == pc[s] = label /\ Active(s)

\* Workers asleep on work_ready, and owners asleep on chunk_done.
WakeWorkers == [s \in Slot |-> IF pc[s] = "resting" THEN "awake" ELSE pc[s]]
WakeOwners(labels) == [s \in Slot |-> IF labels[s] = "asleep" THEN "check" ELSE labels[s]]

Init == /\ pc = [s \in Slot |-> IF s \in Guest THEN "awake" ELSE "idle"]
        /\ at = [s \in Guest |-> NoJob]
        /\ chunk = [s \in Slot |-> 0]
        /\ loop = [j \in Job |-> NoLoop]
        /\ ran = [j \in Job |-> NoneRan]
        /\ job = NoJob
        /\ generation = 0
        /\ seen = [w \in Worker |-> 0]
        /\ stopping = FALSE

\* A body that may call parallel_for: the owner between ticks, or a system of
\* the batch that the caller's loop runs.
MayCall(j) ==
  IF j = <<Caller, "outer">> THEN At(j, "idle")
  ELSE LET outer == <<j[1], "outer">>
       IN  At(outer, "run") /\ Of(outer) = <<Caller, "outer">>

\* parallel_for of two chunks or more: a Job on this thread's stack.  Fewer run
\* on the spot and touch nothing shared.
Enter(j) ==
  /\ MayCall(j)
  /\ generation + Cardinality({other \in Job : pc[other] = "publish"}) < MaxGeneration
  /\ \E n \in 2 .. MaxChunks : loop' = [loop EXCEPT ![j] = [NoLoop EXCEPT !.chunks = n]]
  /\ ran' = [ran EXCEPT ![j] = NoneRan]
  /\ pc' = [pc EXCEPT ![j] = "publish"]
  /\ UNCHANGED <<at, chunk, seen, pool>>

\* Under the mutex: whatever job was published before is overwritten.
Publish(j) ==
  /\ At(j, "publish")
  /\ job' = j
  /\ generation' = generation + 1
  /\ loop' = [loop EXCEPT ![j].born = generation + 1]
  /\ pc' = [pc EXCEPT ![j] = "notify"]
  /\ UNCHANGED <<at, chunk, ran, seen, stopping>>

\* work_ready.notify_all, with the mutex released.
NotifyWorkers(j) ==
  /\ At(j, "notify")
  /\ pc' = [WakeWorkers EXCEPT ![j] = "claim"]
  /\ UNCHANGED <<at, chunk, loop, ran, seen, pool>>

------------------------------------------------------------------------------
\* next_chunk.fetch_add.
Claim(s) ==
  /\ At(s, "claim")
  /\ chunk' = [chunk EXCEPT ![s] = loop[Of(s)].next]
  /\ loop' = [loop EXCEPT ![Of(s)].next = @ + 1]
  /\ pc' = [pc EXCEPT ![s] = "compare"]
  /\ UNCHANGED <<at, ran, seen, pool>>

\* Mutant: a chunk one past the last is taken for work.
CompareOffByOne(s) ==
  /\ At(s, "compare")
  /\ IF chunk[s] <= loop[Of(s)].chunks
     THEN pc' = [pc EXCEPT ![s] = "run"] /\ UNCHANGED chunk
     ELSE /\ pc' = [pc EXCEPT ![s] = IF s \in Guest THEN "leave" ELSE "check"]
          /\ chunk' = [chunk EXCEPT ![s] = 0]
  /\ UNCHANGED <<at, loop, ran, seen, pool>>

\* The count is read from the Job after the claim: the Job must still be there.
Compare(s) ==
  /\ At(s, "compare")
  /\ IF chunk[s] < loop[Of(s)].chunks
     THEN pc' = [pc EXCEPT ![s] = "run"] /\ UNCHANGED chunk
     ELSE /\ pc' = [pc EXCEPT ![s] = IF s \in Guest THEN "leave" ELSE "check"]
          /\ chunk' = [chunk EXCEPT ![s] = 0]
  /\ UNCHANGED <<at, loop, ran, seen, pool>>

\* run_chunk returns, whatever its body called in the meantime.
Run(s) ==
  /\ At(s, "run")
  /\ ran' = [ran EXCEPT ![Of(s)][chunk[s]] = @ + 1]
  /\ pc' = [pc EXCEPT ![s] = "count"]
  /\ UNCHANGED <<at, chunk, loop, seen, pool>>

\* chunks_done.fetch_add.
Count(s) ==
  /\ At(s, "count")
  /\ loop' = [loop EXCEPT ![Of(s)].done = @ + 1]
  /\ pc' = [pc EXCEPT ![s] = "claim"]
  /\ UNCHANGED <<at, chunk, ran, seen, pool>>

------------------------------------------------------------------------------
\* Mutant: a caller waits for its chunks, not for the guests to be out.
CheckChunksOnly(j) ==
  /\ At(j, "check")
  /\ IF loop[j].done = loop[j].chunks
     THEN /\ job' = NoJob
          /\ pc' = [pc EXCEPT ![j] = "idle"]
          /\ loop' = [loop EXCEPT ![j] = Over(@)]
     ELSE pc' = [pc EXCEPT ![j] = "asleep"] /\ UNCHANGED <<job, loop>>
  /\ UNCHANGED <<at, chunk, ran, seen, generation, stopping>>

\* The caller's wait, under the mutex: the predicate holds and the call returns,
\* or it sleeps.  Returning clears whatever job is published, its own or not.
Check(j) ==
  /\ At(j, "check")
  /\ IF loop[j].done = loop[j].chunks /\ loop[j].present = 0
     THEN /\ job' = NoJob
          /\ pc' = [pc EXCEPT ![j] = "idle"]
          /\ loop' = [loop EXCEPT ![j] = Over(@)]
     ELSE pc' = [pc EXCEPT ![j] = "asleep"] /\ UNCHANGED <<job, loop>>
  /\ UNCHANGED <<at, chunk, ran, seen, generation, stopping>>

\* Mutant: the last guest out wakes nobody.
LeaveQuietly(s) ==
  /\ At(s, "leave")
  /\ loop' = [loop EXCEPT ![at[s]].present = @ - 1]
  /\ pc' = [pc EXCEPT ![s] = "awake"]
  /\ at' = [at EXCEPT ![s] = NoJob]
  /\ UNCHANGED <<chunk, ran, seen, pool>>

\* A guest leaves under the mutex, so that no owner can miss it.
Leave(s) ==
  /\ At(s, "leave")
  /\ loop' = [loop EXCEPT ![at[s]].present = @ - 1]
  /\ pc' = WakeOwners([pc EXCEPT ![s] = "awake"])
  /\ at' = [at EXCEPT ![s] = NoJob]
  /\ UNCHANGED <<chunk, ran, seen, pool>>

\* A worker's wait, under the mutex: it stops, registers with the published job,
\* finds that job already gone and waits again, or sleeps.
Look(w) ==
  LET s == <<w, "outer">>
  IN  /\ At(s, "awake")
      /\ \/ /\ stopping
            /\ pc' = [pc EXCEPT ![s] = "gone"]
            /\ UNCHANGED <<at, loop, seen>>
         \/ /\ ~stopping /\ generation # seen[w] /\ job # NoJob
            /\ seen' = [seen EXCEPT ![w] = generation]
            /\ at' = [at EXCEPT ![s] = job]
            /\ loop' = [loop EXCEPT ![job].present = @ + 1]
            /\ pc' = [pc EXCEPT ![s] = "claim"]
         \/ /\ ~stopping /\ generation # seen[w] /\ job = NoJob
            /\ seen' = [seen EXCEPT ![w] = generation]
            /\ UNCHANGED <<at, loop, pc>>
         \/ /\ ~stopping /\ generation = seen[w]
            /\ pc' = [pc EXCEPT ![s] = "resting"]
            /\ UNCHANGED <<at, loop, seen>>
      /\ UNCHANGED <<chunk, ran, pool>>

------------------------------------------------------------------------------
\* ~WorkerPool: stopping is set under the mutex, then everyone is woken and joined.
Stop ==
  LET j == <<Caller, "outer">>
  IN  /\ At(j, "idle") /\ ~stopping
      /\ stopping' = TRUE
      /\ pc' = [pc EXCEPT ![j] = "closing"]
      /\ UNCHANGED <<at, chunk, loop, ran, job, generation, seen>>

\* Mutant: stopping is set and nobody is told.
StopUnannounced ==
  LET j == <<Caller, "outer">>
  IN  /\ At(j, "closing")
      /\ pc' = [pc EXCEPT ![j] = "joining"]
      /\ UNCHANGED <<at, chunk, loop, ran, seen, pool>>

NotifyStop ==
  LET j == <<Caller, "outer">>
  IN  /\ At(j, "closing")
      /\ pc' = [WakeWorkers EXCEPT ![j] = "joining"]
      /\ UNCHANGED <<at, chunk, loop, ran, seen, pool>>

Join ==
  LET j == <<Caller, "outer">>
  IN  /\ At(j, "joining")
      /\ \A w \in Worker : pc[<<w, "outer">>] = "gone"
      /\ pc' = [pc EXCEPT ![j] = "joined"]
      /\ UNCHANGED <<at, chunk, loop, ran, seen, pool>>

Work(s) == Claim(s) \/ Compare(s) \/ Run(s) \/ Count(s)
Own(j) == Publish(j) \/ NotifyWorkers(j) \/ Check(j)
Serve(w) == Look(w) \/ Leave(<<w, "outer">>)
Close == NotifyStop \/ Join

Next == \/ \E s \in Slot : Work(s)
        \/ \E j \in Job : Enter(j) \/ Own(j)
        \/ \E w \in Worker : Serve(w)
        \/ Stop \/ Close

Spec == Init /\ [][Next]_vars

\* Every thread that can go on does: the scheduler and the mutex are fair.  No
\* thread is owed a spurious wake-up, and nobody has to call or to stop.
Fairness == /\ \A s \in Slot : WF_vars(Work(s))
            /\ \A j \in Job : WF_vars(Own(j))
            /\ \A w \in Worker : WF_vars(Serve(w))
            /\ WF_vars(Close)

FairSpec == Spec /\ Fairness

------------------------------------------------------------------------------
Busy == {"claim", "compare", "run", "count"}
InCall == Busy \cup {"publish", "notify", "check", "asleep"}
Inside(s) == s \in Guest /\ pc[s] \in Busy \cup {"leave"}

TypeOK ==
  /\ pc \in [Slot -> InCall \cup {"idle", "awake", "resting", "leave", "gone",
                                  "closing", "joining", "joined"}]
  /\ at \in [Guest -> Job \cup {NoJob}]
  /\ chunk \in [Slot -> Nat]
  /\ loop \in [Job -> [chunks : Chunk, next : Nat, done : Chunk, present : Nat, born : Nat]]
  /\ ran \in [Job -> [Chunk -> Nat]]
  /\ job \in Job \cup {NoJob}
  /\ generation \in Nat
  /\ seen \in [Worker -> Nat]
  /\ stopping \in BOOLEAN

\* A loop's Job dies with the call that made it: the published pointer is never
\* one to a dead Job, and a worker inside a Job is inside the very call it
\* registered with, not in a later one on the same stack.  Holds however calls
\* nest, overwrite each other's pointer and clear it for each other.
JobOutlivesGuests ==
  /\ job # NoJob => pc[job] \in InCall /\ loop[job].born = generation
  /\ \A s \in Guest : Inside(s) =>
       /\ pc[at[s]] \in InCall
       /\ loop[at[s]].born = seen[s[1]]

\* When parallel_for returns every chunk has run exactly once; until then no
\* chunk has run twice, and never one that is not of the range.
EveryChunkOnce ==
  \A j \in Job : \A c \in Chunk :
    /\ ran[j][c] <= IF c < loop[j].chunks THEN 1 ELSE 0
    /\ pc[j] = "idle" /\ c < loop[j].chunks => ran[j][c] = 1

\* A loop returns, whoever takes part in it and whoever else drives the pool.
EveryCallReturns == \A j \in Job : pc[j] = "publish" ~> pc[j] = "idle"

\* Destroying the pool ends: no worker sleeps through the last notification.
CloseEnds == stopping ~> pc[<<Caller, "outer">>] = "joined"
==============================================================================
