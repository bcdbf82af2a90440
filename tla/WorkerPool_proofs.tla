------------------------- MODULE WorkerPool_proofs -------------------------
(***************************************************************************)
(* The worker pool proved for any number of workers, chunks and loops: no  *)
(* worker is ever inside a Job whose call has returned, however the calls  *)
(* nest and overwrite each other's pointer.                                *)
(*                                                                         *)
(* The argument is the one that the comment in parallel_for makes: a guest *)
(* registers and leaves under the mutex, so what a caller reads under it   *)
(* is the exact number of its guests, and it reads zero before it returns. *)
(*                                                                         *)
(* Every chunk runs once because a chunk is in at most one place: not      *)
(* given out, in the hand of one thread (Exclusive), or run and counted    *)
(* (RanOnce, Reckoned).  A caller leaves when the count is its chunks, and *)
(* then none is in a hand.                                                 *)
(***************************************************************************)
EXTENDS WorkerPool, TLAPS, FiniteSetTheorems

USE WorkerAssumption, ChunksAssumption

OwnerLabel == InCall \cup {"idle", "closing", "joining", "joined"}
GuestLabel == Busy \cup {"awake", "resting", "leave", "gone"}

\* A call of which the Job may be seen by others: it has been published once.
Open == InCall \ {"publish"}

\* What the steps need to know of the types; TypeOK says more of the counters.
Typed ==
  /\ pc \in [Slot -> OwnerLabel \cup GuestLabel]
  /\ \A j \in Job : pc[j] \in OwnerLabel
  /\ \A s \in Guest : pc[s] \in GuestLabel
  /\ at \in [Guest -> Job \cup {NoJob}]
  /\ loop \in [Job -> [chunks : Nat, next : Nat, done : Nat, present : Int, born : Nat]]
  /\ job \in Job \cup {NoJob}
  /\ generation \in Nat
  /\ seen \in [Worker -> Nat]

GuestsOf(j) == {s \in Guest : Inside(s) /\ at[s] = j}

\* workers_present counts the guests exactly, for as long as the call lasts.
Counted == \A j \in Job : pc[j] \in InCall => loop[j].present = Cardinality(GuestsOf(j))

\* A guest is in a call that is still open, the one it registered with.
Hosted == \A s \in Guest : Inside(s) =>
            /\ at[s] \in Job
            /\ pc[at[s]] \in Open
            /\ loop[at[s]].born = seen[s[1]]

\* The published pointer is one to the latest call, which is still open.
Published == job # NoJob => pc[job] \in Open /\ loop[job].born = generation

IInv == Typed /\ Counted /\ Hosted /\ Published

------------------------------------------------------------------------------
\* A slot is either a worker's outer activity or the owner of a loop.
LEMMA Slots ==
  /\ Slot = Guest \cup Job
  /\ Guest \cap Job = {}
  /\ NoJob \notin Job
  /\ <<Caller, "outer">> \in Job
  /\ \A w \in Worker : <<w, "outer">> \in Guest
  /\ \A s \in Guest : s[1] \in Worker /\ s = <<s[1], "outer">>
<1>1. Slot = Guest \cup Job
  BY DEF Slot, Guest, Job, Thread
<1>2. Guest \cap Job = {}
  BY DEF Guest, Job, Thread
<1>3. NoJob \notin Job
  BY DEF NoJob, Job, Thread
<1> QED
  BY <1>1, <1>2, <1>3 DEF Guest, Job, Thread

LEMMA GuestsAreFinite == IsFiniteSet(Guest) /\ \A j : IsFiniteSet(GuestsOf(j))
<1>1. IsFiniteSet({"outer"})
  BY FS_Singleton
<1>2. IsFiniteSet(Guest)
  BY <1>1, FS_Product DEF Guest
<1>3. \A j : GuestsOf(j) \in SUBSET Guest
  BY DEF GuestsOf
<1> QED
  BY <1>2, <1>3, FS_Subset

\* A step that moves nobody in or out of a Job, opens no call and ends none
\* that has guests or is published leaves the invariant as it was.
LEMMA QuietStep ==
  ASSUME IInv, Typed',
         at' = at, seen' = seen, job' = job, generation' = generation,
         \A s \in Guest : Inside(s)' <=> Inside(s),
         \A j \in Job : pc[j] \in Open => pc'[j] \in Open,
         \A j \in Job : pc'[j] \in InCall => pc[j] \in InCall,
         \A j \in Job : loop'[j].present = loop[j].present /\ loop'[j].born = loop[j].born
  PROVE  IInv'
<1>1. \A j : GuestsOf(j)' = GuestsOf(j)
  BY DEF GuestsOf
<1>2. Counted'
  BY <1>1 DEF Counted, IInv
<1>3. Hosted'
  BY DEF Hosted, IInv
<1>4. Published'
  BY DEF Published, IInv, Typed
<1> QED
  BY <1>2, <1>3, <1>4 DEF IInv

LEMMA InitIInv == Init => IInv
<1> SUFFICES ASSUME Init PROVE IInv
  OBVIOUS
<1>1. Typed
  BY Slots DEF Init, Typed, OwnerLabel, GuestLabel, NoLoop
<1>2. \A s \in Guest : ~ Inside(s)
  BY Slots DEF Init, Inside, Busy
<1>3. \A j \in Job : pc[j] \notin InCall
  BY Slots DEF Init, InCall, Busy
<1>4. Counted /\ Hosted /\ Published
  BY <1>2, <1>3 DEF Counted, Hosted, Published, Init
<1> QED
  BY <1>1, <1>4 DEF IInv

------------------------------------------------------------------------------
\* The steps of a slot at work touch neither the registrations nor the calls.
LEMMA WorkKeepsIInv ==
  ASSUME IInv, NEW s \in Slot, Work(s)
  PROVE  IInv'
<1> USE DEF At
<1>1. s \in Guest => at[s] \in Job
  BY Slots DEF Work, Claim, Compare, Run, Count, IInv, Hosted, Inside, Busy
<1>2. Of(s) \in Job
  BY <1>1, Slots DEF Of
<1>3. CASE Claim(s)
  <2>1. Typed'
    BY <1>2, <1>3, Slots DEF Claim, IInv, Typed, OwnerLabel, GuestLabel, InCall, Busy, pool
  <2>2. /\ at' = at /\ seen' = seen /\ job' = job /\ generation' = generation
        /\ \A j \in Job : loop'[j].present = loop[j].present /\ loop'[j].born = loop[j].born
    BY <1>2, <1>3 DEF Claim, IInv, Typed, pool
  <2>3. \A t \in Slot : pc'[t] = IF t = s THEN "compare" ELSE pc[t]
    BY <1>3 DEF Claim, IInv, Typed
  <2>4. \A t \in Guest : Inside(t)' <=> Inside(t)
    BY <2>3, <1>3, Slots DEF Claim, Inside, Busy
  <2>5. \A j \in Job : /\ pc[j] \in Open => pc'[j] \in Open
                       /\ pc'[j] \in InCall => pc[j] \in InCall
    BY <2>3, <1>3, Slots DEF Claim, Open, InCall, Busy
  <2> QED
    BY <2>1, <2>2, <2>4, <2>5, QuietStep
<1>4. CASE Compare(s)
  <2>1. Typed'
    <3>1. UNCHANGED <<at, seen, job, generation, loop>>
      BY <1>4 DEF Compare, pool
    <3>2. PICK label \in {"run", "leave", "check"} :
            /\ pc' = [pc EXCEPT ![s] = label]
            /\ s \in Guest => label # "check"
            /\ s \notin Guest => label # "leave"
      BY <1>4 DEF Compare
    <3>3. \A t \in Slot : pc'[t] = IF t = s THEN label ELSE pc[t]
      BY <3>2 DEF IInv, Typed
    <3>4. pc' \in [Slot -> OwnerLabel \cup GuestLabel]
      BY <3>2 DEF IInv, Typed, OwnerLabel, GuestLabel, InCall, Busy
    <3>5. \A j \in Job : pc'[j] \in OwnerLabel
      BY <3>2, <3>3, Slots DEF IInv, Typed, OwnerLabel, InCall, Busy
    <3>6. \A g \in Guest : pc'[g] \in GuestLabel
      BY <3>2, <3>3, Slots DEF IInv, Typed, GuestLabel, Busy
    <3> QED
      BY <3>1, <3>4, <3>5, <3>6 DEF IInv, Typed
  <2>2. at' = at /\ seen' = seen /\ job' = job /\ generation' = generation /\ loop' = loop
    BY <1>4 DEF Compare, pool
  <2>3. PICK label \in {"run", "leave", "check"} :
          /\ \A t \in Slot : pc'[t] = IF t = s THEN label ELSE pc[t]
          /\ s \in Guest => label # "check"
          /\ s \notin Guest => label # "leave"
    BY <1>4 DEF Compare, IInv, Typed
  <2>4. \A t \in Guest : Inside(t)' <=> Inside(t)
    BY <2>3, <1>4, Slots DEF Compare, Inside, Busy
  <2>5. \A j \in Job : /\ pc[j] \in Open => pc'[j] \in Open
                       /\ pc'[j] \in InCall => pc[j] \in InCall
    BY <2>3, <1>4, Slots DEF Compare, Open, InCall, Busy
  <2> QED
    BY <2>1, <2>2, <2>4, <2>5, QuietStep
<1>5. CASE Run(s)
  <2>1. Typed'
    BY <1>5, Slots DEF Run, IInv, Typed, OwnerLabel, GuestLabel, InCall, Busy, pool
  <2>2. at' = at /\ seen' = seen /\ job' = job /\ generation' = generation /\ loop' = loop
    BY <1>5 DEF Run, pool
  <2>3. \A t \in Slot : pc'[t] = IF t = s THEN "count" ELSE pc[t]
    BY <1>5 DEF Run, IInv, Typed
  <2>4. \A t \in Guest : Inside(t)' <=> Inside(t)
    BY <2>3, <1>5, Slots DEF Run, Inside, Busy
  <2>5. \A j \in Job : /\ pc[j] \in Open => pc'[j] \in Open
                       /\ pc'[j] \in InCall => pc[j] \in InCall
    BY <2>3, <1>5, Slots DEF Run, Open, InCall, Busy
  <2> QED
    BY <2>1, <2>2, <2>4, <2>5, QuietStep
<1>6. CASE Count(s)
  <2>1. Typed'
    BY <1>2, <1>6, Slots DEF Count, IInv, Typed, OwnerLabel, GuestLabel, InCall, Busy, pool
  <2>2. /\ at' = at /\ seen' = seen /\ job' = job /\ generation' = generation
        /\ \A j \in Job : loop'[j].present = loop[j].present /\ loop'[j].born = loop[j].born
    BY <1>2, <1>6 DEF Count, IInv, Typed, pool
  <2>3. \A t \in Slot : pc'[t] = IF t = s THEN "claim" ELSE pc[t]
    BY <1>6 DEF Count, IInv, Typed
  <2>4. \A t \in Guest : Inside(t)' <=> Inside(t)
    BY <2>3, <1>6, Slots DEF Count, Inside, Busy
  <2>5. \A j \in Job : /\ pc[j] \in Open => pc'[j] \in Open
                       /\ pc'[j] \in InCall => pc[j] \in InCall
    BY <2>3, <1>6, Slots DEF Count, Open, InCall, Busy
  <2> QED
    BY <2>1, <2>2, <2>4, <2>5, QuietStep
<1> QED
  BY <1>3, <1>4, <1>5, <1>6 DEF Work

------------------------------------------------------------------------------
\* A thread that calls has no call going on, on that slot.
LEMMA EnterFromIdle ==
  ASSUME NEW j \in Job, Enter(j)
  PROVE  pc[j] = "idle"
<1>1. CASE j = <<Caller, "outer">>
  BY <1>1 DEF Enter, MayCall, At
<1>2. CASE j # <<Caller, "outer">>
  <2>1. j \in Thread \X {"inner"}
    BY <1>2 DEF Job
  <2>2. j = <<j[1], "inner">>
    BY <2>1
  <2>3. Active(<<j[1], "outer">>)
    BY <1>2 DEF Enter, MayCall, At
  <2> QED
    BY <2>2, <2>3 DEF Active
<1> QED
  BY <1>1, <1>2

\* A call begins on a slot that was idle, so without guests; the Job is new.
LEMMA EnterKeepsIInv ==
  ASSUME IInv, NEW j \in Job, Enter(j)
  PROVE  IInv'
<1>1. pc[j] = "idle"
  BY EnterFromIdle
<1>2. PICK n \in 2 .. MaxChunks : loop' = [loop EXCEPT ![j] = [NoLoop EXCEPT !.chunks = n]]
  BY DEF Enter
<1>3. /\ \A t \in Slot : pc'[t] = IF t = j THEN "publish" ELSE pc[t]
      /\ \A other \in Job : other # j => loop'[other] = loop[other]
      /\ loop'[j].present = 0
      /\ at' = at /\ seen' = seen /\ job' = job /\ generation' = generation
  BY <1>2 DEF Enter, pool, IInv, Typed, NoLoop
<1>4. Typed'
  <2>1. [NoLoop EXCEPT !.chunks = n] \in [chunks : Nat, next : Nat, done : Nat, present : Int, born : Nat]
    BY <1>2 DEF NoLoop
  <2> QED
    BY <1>2, <2>1, Slots DEF Enter, pool, IInv, Typed, OwnerLabel, InCall
<1>5. \A t \in Guest : Inside(t)' <=> Inside(t)
  BY <1>3, Slots DEF Inside
<1>6. \A k : GuestsOf(k)' = GuestsOf(k)
  BY <1>3, <1>5 DEF GuestsOf
<1>7. GuestsOf(j) = {}
  BY <1>1, Slots DEF GuestsOf, IInv, Hosted, Open, InCall, Busy
<1>8. Counted'
  BY <1>3, <1>6, <1>7, FS_EmptySet, Slots DEF Counted, IInv, InCall
<1>9. Hosted'
  BY <1>1, <1>3, <1>5, Slots DEF Hosted, IInv, Open, InCall, Busy
<1>10. Published'
  BY <1>1, <1>3, Slots DEF Published, IInv, Typed, Open, InCall, Busy
<1> QED
  BY <1>4, <1>8, <1>9, <1>10 DEF IInv

\* Publishing replaces the pointer; the call has no guests before it.
LEMMA PublishKeepsIInv ==
  ASSUME IInv, NEW j \in Job, Publish(j)
  PROVE  IInv'
<1>1. /\ pc[j] = "publish"
      /\ \A t \in Slot : pc'[t] = IF t = j THEN "notify" ELSE pc[t]
      /\ \A k \in Job : k # j => loop'[k] = loop[k]
      /\ loop'[j].present = loop[j].present /\ loop'[j].born = generation + 1
      /\ at' = at /\ seen' = seen /\ job' = j /\ generation' = generation + 1
  BY DEF Publish, At, IInv, Typed
<1>2. Typed'
  BY Slots DEF Publish, IInv, Typed, OwnerLabel, InCall
<1>3. \A t \in Guest : Inside(t)' <=> Inside(t)
  BY <1>1, Slots DEF Inside
<1>4. \A k : GuestsOf(k)' = GuestsOf(k)
  BY <1>1, <1>3 DEF GuestsOf
<1>5. Counted'
  BY <1>1, <1>4, Slots DEF Counted, IInv, InCall
<1>6. Hosted'
  BY <1>1, <1>3, Slots DEF Hosted, IInv, Open, InCall, Busy
<1>7. Published'
  BY <1>1, Slots DEF Published, Open, InCall
<1> QED
  BY <1>2, <1>5, <1>6, <1>7 DEF IInv

LEMMA NotifyWorkersKeepsIInv ==
  ASSUME IInv, NEW j \in Job, NotifyWorkers(j)
  PROVE  IInv'
<1>1. /\ pc[j] = "notify"
      /\ \A t \in Slot : pc'[t] = IF t = j THEN "claim"
                                  ELSE IF pc[t] = "resting" THEN "awake" ELSE pc[t]
      /\ at' = at /\ seen' = seen /\ job' = job /\ generation' = generation /\ loop' = loop
  BY DEF NotifyWorkers, At, pool, WakeWorkers
<1>2. Typed'
  <2>1. pc' \in [Slot -> OwnerLabel \cup GuestLabel]
    BY DEF NotifyWorkers, WakeWorkers, IInv, Typed, OwnerLabel, GuestLabel, InCall, Busy
  <2> QED
    BY <1>1, <2>1, Slots DEF IInv, Typed, OwnerLabel, GuestLabel, InCall, Busy
<1>3. \A t \in Guest : Inside(t)' <=> Inside(t)
  BY <1>1, Slots DEF Inside, Busy
<1>4. \A k \in Job : /\ pc[k] \in Open => pc'[k] \in Open
                     /\ pc'[k] \in InCall => pc[k] \in InCall
  BY <1>1, Slots DEF Open, InCall, Busy
<1> QED
  BY <1>1, <1>2, <1>3, <1>4, QuietStep

\* A call that returns has read that nobody is present, and so nobody is.
LEMMA CheckKeepsIInv ==
  ASSUME IInv, NEW j \in Job, Check(j)
  PROVE  IInv'
<1>1. pc[j] = "check" /\ at' = at /\ seen' = seen /\ generation' = generation
  BY DEF Check, At
<1>2. CASE loop[j].done = loop[j].chunks /\ loop[j].present = 0
  <2>1. /\ \A t \in Slot : pc'[t] = IF t = j THEN "idle" ELSE pc[t]
        /\ \A k \in Job : k # j => loop'[k] = loop[k]
        /\ job' = NoJob
    BY <1>2 DEF Check, IInv, Typed
  <2>2. Typed'
    <3>1. Over(loop[j]) \in [chunks : Nat, next : Nat, done : Nat, present : Int, born : Nat]
      BY DEF Over, NoLoop, IInv, Typed
    <3>2. loop' = [loop EXCEPT ![j] = Over(loop[j])] /\ pc' = [pc EXCEPT ![j] = "idle"]
      BY <1>2 DEF Check
    <3> QED
      BY <1>1, <2>1, <3>1, <3>2, Slots DEF IInv, Typed, OwnerLabel
  <2>3. GuestsOf(j) = {}
    BY <1>1, <1>2, GuestsAreFinite, FS_EmptySet DEF IInv, Counted, InCall
  <2>4. \A t \in Guest : Inside(t)' <=> Inside(t)
    BY <2>1, Slots DEF Inside
  <2>5. \A k : GuestsOf(k)' = GuestsOf(k)
    BY <1>1, <2>4 DEF GuestsOf
  <2>6. Counted'
    BY <2>1, <2>5, Slots DEF Counted, IInv, InCall, Busy
  <2>7. \A t \in Guest : Inside(t) => at[t] # j
    BY <2>3 DEF GuestsOf
  <2>8. Hosted'
    BY <1>1, <2>1, <2>4, <2>7, Slots DEF Hosted, IInv
  <2>9. Published'
    BY <2>1 DEF Published
  <2> QED
    BY <2>2, <2>6, <2>8, <2>9 DEF IInv
<1>3. CASE ~ (loop[j].done = loop[j].chunks /\ loop[j].present = 0)
  <2>1. job' = job /\ loop' = loop /\ pc' = [pc EXCEPT ![j] = "asleep"]
    BY <1>3 DEF Check
  <2>2. Typed'
    BY <1>1, <2>1, Slots DEF IInv, Typed, OwnerLabel, InCall
  <2>3. \A t \in Guest : Inside(t)' <=> Inside(t)
    BY <2>1, Slots DEF Inside
  <2>4. \A k \in Job : /\ pc[k] \in Open => pc'[k] \in Open
                       /\ pc'[k] \in InCall => pc[k] \in InCall
    BY <1>1, <2>1, Slots DEF IInv, Typed, Open, InCall, Busy
  <2> QED
    BY <1>1, <2>1, <2>2, <2>3, <2>4, QuietStep
<1> QED
  BY <1>2, <1>3

------------------------------------------------------------------------------
\* Leaving takes one guest out of the Job and out of its count.
LEMMA LeaveKeepsIInv ==
  ASSUME IInv, NEW s \in Guest, Leave(s)
  PROVE  IInv'
<1>0. pc[s] = "leave" /\ Inside(s) /\ at[s] \in Job /\ pc[at[s]] \in Open
  BY DEF Leave, At, Inside, IInv, Hosted
<1>1. PICK host \in Job : host = at[s] /\ Inside(s) /\ pc[host] \in Open
  BY <1>0
<1>2. /\ \A t \in Slot : pc'[t] = IF t = s THEN "awake"
                                  ELSE IF pc[t] = "asleep" THEN "check" ELSE pc[t]
      /\ \A t \in Guest : t # s => at'[t] = at[t]
      /\ \A k \in Job : /\ k # host => loop'[k] = loop[k]
                        /\ loop'[k].born = loop[k].born
      /\ loop'[host].present = loop[host].present - 1
      /\ seen' = seen /\ job' = job /\ generation' = generation
  BY <1>0, <1>1, Slots DEF Leave, WakeOwners, pool, IInv, Typed
<1>3. Typed'
  <2>1. pc' \in [Slot -> OwnerLabel \cup GuestLabel]
    BY DEF Leave, WakeOwners, IInv, Typed, OwnerLabel, GuestLabel, InCall, Busy
  <2>2. /\ at' \in [Guest -> Job \cup {NoJob}]
        /\ loop' \in [Job -> [chunks : Nat, next : Nat, done : Nat, present : Int, born : Nat]]
    BY <1>1 DEF Leave, IInv, Typed
  <2>3. \A j \in Job : pc'[j] \in OwnerLabel
    BY <1>2, Slots DEF IInv, Typed, OwnerLabel, InCall
  <2>4. \A t \in Guest : pc'[t] \in GuestLabel
    BY <1>2, Slots DEF IInv, Typed, GuestLabel, Busy
  <2> QED
    BY <1>2, <2>1, <2>2, <2>3, <2>4 DEF IInv, Typed
<1>4. \A t \in Guest : Inside(t)' <=> Inside(t) /\ t # s
  <2>1. pc'[s] = "awake" /\ \A t \in Guest : pc[t] # "asleep"
    BY <1>2, Slots DEF IInv, Typed, GuestLabel, Busy
  <2> QED
    BY <1>2, <2>1, Slots DEF Inside, Busy
<1>5. \A k \in Job : GuestsOf(k)' = GuestsOf(k) \ {s}
  BY <1>2, <1>4 DEF GuestsOf
<1>6. \A k \in Job : k # host => GuestsOf(k)' = GuestsOf(k)
  BY <1>1, <1>2, <1>4 DEF GuestsOf
<1>7. s \in GuestsOf(host)
  BY <1>1 DEF GuestsOf
<1>8. Cardinality(GuestsOf(host)') = Cardinality(GuestsOf(host)) - 1
  BY <1>1, <1>5, <1>7, GuestsAreFinite, FS_RemoveElement
<1>9. \A k \in Job : /\ pc[k] \in Open => pc'[k] \in Open
                     /\ pc'[k] \in InCall => pc[k] \in InCall
  BY <1>2, Slots DEF Open, InCall, Busy
<1>10. Counted'
  <2>1. pc[host] \in InCall
    BY <1>1 DEF Open
  <2> QED
    BY <1>1, <1>2, <1>6, <1>8, <1>9, <2>1 DEF Counted, IInv
<1>11. Hosted'
  BY <1>2, <1>4, <1>9 DEF Hosted, IInv
<1>12. Published'
  BY <1>2, <1>9 DEF Published, IInv, Typed
<1> QED
  BY <1>3, <1>10, <1>11, <1>12 DEF IInv

\* Looking either registers with the published job or changes no registration.
LEMMA LookKeepsIInv ==
  ASSUME IInv, NEW w \in Worker, Look(w)
  PROVE  IInv'
<1> DEFINE s == <<w, "outer">>
<1>1. s \in Guest /\ s[1] = w /\ pc[s] = "awake" /\ job' = job /\ generation' = generation
  BY Slots DEF Look, At, pool
<1>2. ~ Inside(s)
  BY <1>1 DEF Inside, Busy
<1>3. CASE ~ stopping /\ generation # seen[w] /\ job # NoJob
  <2>1. /\ job \in Job /\ pc[job] \in Open /\ loop[job].born = generation
        /\ seen' = [seen EXCEPT ![w] = generation]
        /\ at' = [at EXCEPT ![s] = job]
        /\ loop' = [loop EXCEPT ![job].present = @ + 1]
        /\ pc' = [pc EXCEPT ![s] = "claim"]
    BY <1>3 DEF Look, IInv, Typed, Published
  <2>2. Typed'
    <3>1. /\ at' \in [Guest -> Job \cup {NoJob}]
          /\ seen' \in [Worker -> Nat]
          /\ pc' \in [Slot -> OwnerLabel \cup GuestLabel]
      BY <1>1, <2>1, Slots DEF IInv, Typed, GuestLabel, Busy
    <3>2. loop' \in [Job -> [chunks : Nat, next : Nat, done : Nat, present : Int, born : Nat]]
      BY <2>1 DEF IInv, Typed
    <3>3. /\ \A k \in Job : pc'[k] \in OwnerLabel
          /\ \A t \in Guest : pc'[t] \in GuestLabel
      BY <1>1, <2>1, Slots DEF IInv, Typed, GuestLabel, Busy
    <3> QED
      BY <1>1, <3>1, <3>2, <3>3 DEF IInv, Typed
  <2>3. \A t \in Guest : Inside(t)' <=> Inside(t) \/ t = s
    BY <1>1, <2>1, Slots DEF Inside, IInv, Typed, Busy
  <2>4. /\ at'[s] = job /\ \A t \in Guest : t # s => at'[t] = at[t]
        /\ seen'[w] = generation
        /\ \A t \in Guest : t # s => seen'[t[1]] = seen[t[1]]
    BY <1>1, <2>1, Slots DEF IInv, Typed
  <2>5. /\ \A k \in Job : /\ pc'[k] = pc[k]
                          /\ k # job => loop'[k] = loop[k]
                          /\ loop'[k].born = loop[k].born
        /\ loop'[job].present = loop[job].present + 1
    BY <1>1, <2>1, Slots DEF IInv, Typed
  <2>6. \A k \in Job : k # job => GuestsOf(k)' = GuestsOf(k)
    BY <1>2, <2>3, <2>4 DEF GuestsOf
  <2>7. GuestsOf(job)' = GuestsOf(job) \cup {s} /\ s \notin GuestsOf(job)
    BY <1>1, <1>2, <2>3, <2>4 DEF GuestsOf
  <2>8. Cardinality(GuestsOf(job)') = Cardinality(GuestsOf(job)) + 1
    BY <2>7, GuestsAreFinite, FS_AddElement
  <2>9. Counted'
    BY <1>1, <2>1, <2>5, <2>6, <2>8 DEF Counted, IInv, Open
  <2>10. Hosted'
    BY <1>1, <2>1, <2>3, <2>4, <2>5 DEF Hosted, IInv
  <2>11. Published'
    BY <1>1, <2>1, <2>5 DEF Published, IInv
  <2> QED
    BY <2>2, <2>9, <2>10, <2>11 DEF IInv
<1>4. CASE stopping \/ generation = seen[w]
  <2>1. PICK label \in {"gone", "resting"} : pc' = [pc EXCEPT ![s] = label]
    BY <1>4 DEF Look
  <2>2. at' = at /\ loop' = loop /\ seen' = seen
    BY <1>4 DEF Look
  <2>3. Typed'
    BY <1>1, <2>1, <2>2, Slots DEF IInv, Typed, GuestLabel
  <2>4. \A t \in Guest : Inside(t)' <=> Inside(t)
    BY <1>1, <2>1, Slots DEF Inside, IInv, Typed, Busy
  <2>5. \A k \in Job : pc'[k] = pc[k]
    BY <1>1, <2>1, Slots DEF IInv, Typed
  <2> QED
    BY <1>1, <2>2, <2>3, <2>4, <2>5, QuietStep
<1>5. CASE ~ stopping /\ generation # seen[w] /\ job = NoJob
  <2>1. seen' = [seen EXCEPT ![w] = generation] /\ at' = at /\ loop' = loop /\ pc' = pc
    BY <1>5 DEF Look
  <2>2. Typed'
    BY <1>1, <2>1 DEF IInv, Typed
  <2>3. \A t \in Guest : Inside(t)' <=> Inside(t)
    BY <2>1 DEF Inside
  <2>4. \A k \in Job : GuestsOf(k)' = GuestsOf(k)
    BY <2>1, <2>3 DEF GuestsOf
  <2>5. \A t \in Guest : Inside(t) => seen'[t[1]] = seen[t[1]]
    BY <1>2, <2>1, Slots DEF IInv, Typed
  <2>6. Counted' /\ Hosted' /\ Published'
    BY <1>1, <2>1, <2>3, <2>4, <2>5 DEF Counted, Hosted, Published, IInv
  <2> QED
    BY <2>2, <2>6 DEF IInv
<1> QED
  BY <1>3, <1>4, <1>5

\* The steps of the destructor, and stuttering: nobody is inside anything anew.
LEMMA CloseKeepsIInv ==
  ASSUME IInv, Stop \/ Close
  PROVE  IInv'
<1> DEFINE j == <<Caller, "outer">>
<1>1. PICK label \in {"closing", "joining", "joined"} :
        /\ pc[j] \in {"idle", "closing", "joining"}
        /\ \A t \in Slot : \/ pc'[t] = IF t = j THEN label ELSE pc[t]
                           \/ t # j /\ pc[t] = "resting" /\ pc'[t] = "awake"
        /\ pc' \in [Slot -> OwnerLabel \cup GuestLabel]
  BY Slots DEF Stop, Close, NotifyStop, Join, At, WakeWorkers, IInv, Typed, OwnerLabel, GuestLabel, Busy
<1>2. at' = at /\ seen' = seen /\ job' = job /\ generation' = generation /\ loop' = loop
  BY DEF Stop, Close, NotifyStop, Join, pool
<1>3. Typed'
  BY <1>1, <1>2, Slots DEF IInv, Typed, OwnerLabel, GuestLabel, InCall, Busy
<1>4. \A t \in Guest : Inside(t)' <=> Inside(t)
  BY <1>1, Slots DEF Inside, Busy
<1>5. \A k \in Job : /\ pc[k] \in Open => pc'[k] \in Open
                     /\ pc'[k] \in InCall => pc[k] \in InCall
  BY <1>1, Slots DEF Open, InCall, Busy
<1> QED
  BY <1>2, <1>3, <1>4, <1>5, QuietStep

LEMMA NextKeepsIInv == IInv /\ [Next]_vars => IInv'
<1> SUFFICES ASSUME IInv, [Next]_vars PROVE IInv'
  OBVIOUS
<1>1. ASSUME NEW s \in Slot, Work(s) PROVE IInv'
  BY <1>1, WorkKeepsIInv
<1>2. ASSUME NEW j \in Job, Enter(j) \/ Own(j) PROVE IInv'
  BY <1>2, EnterKeepsIInv, PublishKeepsIInv, NotifyWorkersKeepsIInv, CheckKeepsIInv DEF Own
<1>3. ASSUME NEW w \in Worker, Serve(w) PROVE IInv'
  BY <1>3, LookKeepsIInv, LeaveKeepsIInv, Slots DEF Serve
<1>4. CASE Stop \/ Close
  BY <1>4, CloseKeepsIInv
<1>5. CASE UNCHANGED vars
  BY <1>5 DEF vars, IInv, Typed, Counted, Hosted, Published, GuestsOf, Inside
<1> QED
  BY <1>1, <1>2, <1>3, <1>4, <1>5 DEF Next

THEOREM IInvHolds == Spec => []IInv
<1> QED
  BY InitIInv, NextKeepsIInv, PTL DEF Spec

\* JobOutlivesGuests, for any number of workers, loops and chunks: the job
\* pointer that parallel_for publishes from its own stack never dangles, and a
\* worker that registered with a call is still in that call when it leaves.
THEOREM GuestsAreSafe == Spec => []JobOutlivesGuests
<1>1. IInv => JobOutlivesGuests
  BY DEF IInv, Typed, Hosted, Published, JobOutlivesGuests, Open
<1> QED
  BY <1>1, IInvHolds, PTL

------------------------------------------------------------------------------
(* Every chunk once.                                                       *)

\* A slot has claimed a chunk and not yet counted it.
Holding == {"compare", "run", "count"}

\* Chunk c of j's loop is claimed and has yet to run; it has run, uncounted.
InHand(j, c) == \E s \in Slot : pc[s] \in {"compare", "run"} /\ Of(s) = j /\ chunk[s] = c
Uncounted(j, c) == \E s \in Slot : pc[s] = "count" /\ Of(s) = j /\ chunk[s] = c

\* The chunks that have been counted in chunks_done.
Finished(j) == {c \in Chunk : ran[j][c] = 1 /\ ~ Uncounted(j, c)}

ChunksTyped ==
  /\ chunk \in [Slot -> Nat]
  /\ ran \in [Job -> [Chunk -> Nat]]
  /\ \A j \in Job : loop[j].chunks \in Chunk

\* What is held was given out, and is of the range once it has been compared.
Claimed ==
  \A s \in Slot : pc[s] \in Holding =>
    /\ chunk[s] < loop[Of(s)].next
    /\ pc[s] # "compare" => chunk[s] < loop[Of(s)].chunks

\* No chunk is held twice.
Exclusive ==
  \A s, t \in Slot :
    pc[s] \in Holding /\ pc[t] \in Holding /\ Of(s) = Of(t) /\ chunk[s] = chunk[t] => s = t

\* A chunk of the range has run once, unless the call is still going on and the
\* chunk was not given out, or was and is yet to run.
RanOnce ==
  \A j \in Job, c \in Chunk :
    ran[j][c] = IF /\ c < loop[j].chunks
                   /\ pc[j] \in InCall => c < loop[j].next /\ ~ InHand(j, c)
                THEN 1 ELSE 0

\* chunks_done is exactly the number of chunks that ran and were counted.
Reckoned == \A j \in Job : pc[j] \in InCall => loop[j].done = Cardinality(Finished(j))

ChunkInv == ChunksTyped /\ Claimed /\ Exclusive /\ RanOnce /\ Reckoned

\* A slot that holds a chunk works for a call that is going on.
LEMMA HoldersAreHosted ==
  ASSUME IInv, NEW s \in Slot, pc[s] \in Holding \cup {"claim"}
  PROVE  Of(s) \in Job /\ pc[Of(s)] \in InCall /\ pc[Of(s)] # "publish"
<1>1. CASE s \in Job
  BY <1>1 DEF Of, Holding, InCall, Busy
<1>2. CASE s \in Guest
  <2>1. Inside(s)
    BY <1>2 DEF Inside, Holding, Busy
  <2> QED
    BY <1>2, <2>1, Slots DEF Of, IInv, Hosted, Open
<1> QED
  BY <1>1, <1>2, Slots

LEMMA ChunksAreFinite ==
  \A j : IsFiniteSet(Finished(j)) /\ Cardinality(Finished(j)) \in Nat
<1>1. IsFiniteSet(Chunk)
  BY FS_Interval DEF Chunk
<1>2. \A j : Finished(j) \in SUBSET Chunk
  BY DEF Finished
<1> QED
  BY <1>1, <1>2, FS_Subset, FS_CardinalityType

\* A step that claims, runs and counts nothing and begins and ends no call.
LEMMA QuietForChunks ==
  ASSUME IInv, ChunkInv, chunk' \in [Slot -> Nat], ran' = ran,
         \A s \in Slot : \A label \in Holding : pc'[s] = label <=> pc[s] = label,
         \A s \in Slot : pc[s] \in Holding => chunk'[s] = chunk[s] /\ Of(s)' = Of(s),
         \A j \in Job : pc'[j] \in InCall <=> pc[j] \in InCall,
         \A j \in Job : /\ loop'[j].chunks = loop[j].chunks
                        /\ loop'[j].next = loop[j].next
                        /\ loop'[j].done = loop[j].done
  PROVE  ChunkInv'
<1>1. \A s \in Slot : pc[s] \in Holding => Of(s) \in Job
  BY HoldersAreHosted
<1>2. ChunksTyped'
  BY DEF ChunkInv, ChunksTyped
<1>3. Claimed' /\ Exclusive'
  BY <1>1 DEF ChunkInv, Claimed, Exclusive, Holding
<1>4. \A j \in Job, c \in Chunk : InHand(j, c)' <=> InHand(j, c)
  BY DEF InHand, Holding
<1>5. \A j \in Job, c \in Chunk : Uncounted(j, c)' <=> Uncounted(j, c)
  BY DEF Uncounted, Holding
<1>6. RanOnce'
  BY <1>4 DEF ChunkInv, RanOnce
<1>7. \A j \in Job : Finished(j)' = Finished(j)
  BY <1>5 DEF Finished
<1>8. Reckoned'
  BY <1>7 DEF ChunkInv, Reckoned
<1> QED
  BY <1>2, <1>3, <1>6, <1>8 DEF ChunkInv

LEMMA InitChunkInv == Init => ChunkInv
<1> SUFFICES ASSUME Init PROVE ChunkInv
  OBVIOUS
<1>1. ChunksTyped
  BY Slots DEF Init, ChunksTyped, NoneRan, NoLoop, Chunk
<1>2. \A s \in Slot : pc[s] \notin Holding
  BY Slots DEF Init, Holding
<1>3. \A j \in Job : pc[j] \notin InCall /\ loop[j].chunks = 0
  BY Slots DEF Init, InCall, Busy, NoLoop
<1>4. RanOnce
  BY <1>3 DEF RanOnce, Init, NoneRan, Chunk
<1> QED
  BY <1>1, <1>2, <1>3, <1>4 DEF ChunkInv, Claimed, Exclusive, Reckoned

------------------------------------------------------------------------------
\* fetch_add gives out a number nobody has.
LEMMA ClaimKeepsChunkInv ==
  ASSUME IInv, ChunkInv, NEW s \in Slot, Claim(s)
  PROVE  ChunkInv'
<1> DEFINE host == Of(s)
           given == loop[host].next
<1>1. host \in Job /\ pc[host] \in InCall /\ pc[s] = "claim"
  BY HoldersAreHosted DEF Claim, At
<1>2. /\ pc' = [pc EXCEPT ![s] = "compare"]
      /\ chunk' = [chunk EXCEPT ![s] = given]
      /\ loop' = [loop EXCEPT ![host].next = @ + 1]
      /\ ran' = ran
      /\ \A t \in Slot : Of(t)' = Of(t)
  BY DEF Claim, Of
<1> HIDE DEF host
<1>3. /\ given \in Nat
      /\ loop'[host].next = given + 1
      /\ \A j \in Job : /\ j # host => loop'[j].next = loop[j].next
                        /\ loop'[j].chunks = loop[j].chunks
                        /\ loop'[j].done = loop[j].done
                        /\ loop[j].next \in Nat /\ loop[j].chunks \in Nat
  BY <1>1, <1>2 DEF IInv, Typed
<1> HIDE DEF given
<1>4. /\ pc'[s] = "compare" /\ chunk'[s] = given /\ Of(s) = host
      /\ \A t \in Slot : t # s => pc'[t] = pc[t] /\ chunk'[t] = chunk[t]
      /\ \A t \in Slot : chunk[t] \in Nat
  BY <1>2 DEF IInv, Typed, ChunkInv, ChunksTyped, host
<1>5. ChunksTyped'
  BY <1>2, <1>3 DEF ChunkInv, ChunksTyped
<1>6. \A t \in Slot : pc[t] \in Holding => Of(t) \in Job
  BY HoldersAreHosted
<1>7. Claimed'
  <2> SUFFICES ASSUME NEW t \in Slot, pc'[t] \in Holding
               PROVE  /\ chunk'[t] < loop'[Of(t)].next
                      /\ pc'[t] # "compare" => chunk'[t] < loop'[Of(t)].chunks
    BY <1>2 DEF Claimed
  <2>1. CASE t = s
    BY <1>3, <1>4, <2>1
  <2>2. CASE t # s
    <3>1. Of(t) \in Job /\ pc[t] \in Holding /\ pc'[t] = pc[t] /\ chunk'[t] = chunk[t]
      BY <1>4, <1>6, <2>2
    <3>2. /\ chunk[t] < loop[Of(t)].next
          /\ pc[t] # "compare" => chunk[t] < loop[Of(t)].chunks
      BY <3>1 DEF ChunkInv, Claimed
    <3>3. loop'[Of(t)].chunks = loop[Of(t)].chunks /\ loop[Of(t)].next <= loop'[Of(t)].next
      BY <1>3, <3>1 DEF given
    <3> QED
      BY <1>3, <1>4, <3>1, <3>2, <3>3
  <2> QED
    BY <2>1, <2>2
<1>8. \A t \in Slot : pc[t] \in Holding /\ Of(t) = host => chunk[t] # given
  BY <1>4 DEF ChunkInv, Claimed, given
<1>9. Exclusive'
  BY <1>1, <1>2, <1>4, <1>8 DEF ChunkInv, Exclusive, Holding
<1>10. \A j \in Job, c \in Chunk : InHand(j, c)' <=> InHand(j, c) \/ (j = host /\ c = given)
  BY <1>1, <1>2, <1>4 DEF InHand
<1>11. \A j \in Job, c \in Chunk : Uncounted(j, c)' <=> Uncounted(j, c)
  BY <1>1, <1>2, <1>4 DEF Uncounted
<1>12. \A j \in Job : pc'[j] \in InCall <=> pc[j] \in InCall
  BY <1>1, <1>4, Slots DEF InCall, Busy
<1>13. RanOnce'
  <2> SUFFICES ASSUME NEW j \in Job, NEW c \in Chunk
               PROVE  ran[j][c] = IF /\ c < loop'[j].chunks
                                     /\ pc'[j] \in InCall => c < loop'[j].next /\ ~ InHand(j, c)'
                                  THEN 1 ELSE 0
    BY <1>2 DEF RanOnce
  <2>1. ran[j][c] = IF /\ c < loop[j].chunks
                       /\ pc[j] \in InCall => c < loop[j].next /\ ~ InHand(j, c)
                    THEN 1 ELSE 0
    BY DEF ChunkInv, RanOnce
  <2>2. CASE j # host
    BY <1>3, <1>10, <1>12, <2>1, <2>2
  <2>3. CASE j = host
    <3>1. c < loop'[j].next /\ ~ InHand(j, c)' <=> c < loop[j].next /\ ~ InHand(j, c)
      BY <1>3, <1>10, <2>3 DEF Chunk, given
    <3> QED
      BY <1>3, <1>12, <2>1, <3>1
  <2> QED
    BY <2>2, <2>3
<1>14. \A j \in Job : Finished(j)' = Finished(j)
  BY <1>2, <1>11 DEF Finished
<1>15. Reckoned'
  BY <1>3, <1>12, <1>14 DEF ChunkInv, Reckoned
<1> QED
  BY <1>5, <1>7, <1>9, <1>13, <1>15 DEF ChunkInv

\* A number past the range is put down again; it never was a chunk.
LEMMA CompareKeepsChunkInv ==
  ASSUME IInv, ChunkInv, NEW s \in Slot, Compare(s)
  PROVE  ChunkInv'
<1> DEFINE host == Of(s)
<1>1. host \in Job /\ pc[host] \in InCall /\ pc[s] = "compare"
  BY HoldersAreHosted DEF Compare, At, Holding
<1>2. loop' = loop /\ ran' = ran /\ \A t \in Slot : Of(t)' = Of(t)
  BY DEF Compare, Of
<1>3. PICK label \in {"run", "leave", "check"} :
        /\ pc' = [pc EXCEPT ![s] = label]
        /\ label = "run" => chunk[s] < loop[host].chunks /\ chunk' = chunk
        /\ label # "run" => ~ (chunk[s] < loop[host].chunks) /\ chunk' = [chunk EXCEPT ![s] = 0]
        /\ s \in Guest => label # "check"
        /\ s \notin Guest => label # "leave"
  BY DEF Compare
<1> HIDE DEF host
<1>4. /\ pc'[s] = label /\ Of(s) = host
      /\ \A t \in Slot : t # s => pc'[t] = pc[t] /\ chunk'[t] = chunk[t]
      /\ \A t \in Slot : pc'[t] \in Holding => pc[t] \in Holding /\ chunk'[t] = chunk[t]
  BY <1>1, <1>3 DEF IInv, Typed, ChunkInv, ChunksTyped, host, Holding
<1>5. ChunksTyped'
  BY <1>2, <1>3 DEF ChunkInv, ChunksTyped
<1>6. Claimed' /\ Exclusive'
  BY <1>1, <1>2, <1>3, <1>4 DEF ChunkInv, Claimed, Exclusive, Holding
<1>7. \A j \in Job, c \in Chunk : c < loop[j].chunks => (InHand(j, c)' <=> InHand(j, c))
  BY <1>1, <1>2, <1>3, <1>4 DEF InHand
<1>8. \A j \in Job, c \in Chunk : Uncounted(j, c)' <=> Uncounted(j, c)
  BY <1>1, <1>2, <1>3, <1>4 DEF Uncounted, Holding
<1>9. \A j \in Job : pc'[j] \in InCall <=> pc[j] \in InCall
  BY <1>1, <1>3, <1>4, Slots DEF InCall, Busy
<1>10. RanOnce'
  BY <1>2, <1>7, <1>9 DEF ChunkInv, RanOnce
<1>11. \A j \in Job : Finished(j)' = Finished(j)
  BY <1>2, <1>8 DEF Finished
<1>12. Reckoned'
  BY <1>2, <1>9, <1>11 DEF ChunkInv, Reckoned
<1> QED
  BY <1>5, <1>6, <1>10, <1>12 DEF ChunkInv

\* The chunk runs for the first time, and is not in anybody's hand afterwards.
LEMMA RunKeepsChunkInv ==
  ASSUME IInv, ChunkInv, NEW s \in Slot, Run(s)
  PROVE  ChunkInv'
<1> DEFINE host == Of(s)
           mine == chunk[s]
<1>1. host \in Job /\ pc[host] \in InCall /\ pc[s] = "run"
  BY HoldersAreHosted DEF Run, At, Holding
<1>2. /\ loop' = loop /\ chunk' = chunk /\ \A t \in Slot : Of(t)' = Of(t)
      /\ pc' = [pc EXCEPT ![s] = "count"]
      /\ ran' = [ran EXCEPT ![host][mine] = @ + 1]
  BY DEF Run, Of
<1>3. /\ mine \in Chunk /\ mine < loop[host].chunks /\ mine < loop[host].next
  BY <1>1 DEF ChunkInv, Claimed, ChunksTyped, Holding, Chunk
<1>4. InHand(host, mine)
  BY <1>1 DEF InHand
<1> HIDE DEF host, mine
<1>5. ran[host][mine] = 0
  BY <1>1, <1>3, <1>4 DEF ChunkInv, RanOnce
<1>6. /\ ran'[host][mine] = 1
      /\ \A j \in Job, c \in Chunk : j # host \/ c # mine => ran'[j][c] = ran[j][c]
  BY <1>1, <1>2, <1>3, <1>5 DEF ChunkInv, ChunksTyped
<1>7. /\ pc'[s] = "count" /\ Of(s) = host /\ chunk[s] = mine
      /\ \A t \in Slot : t # s => pc'[t] = pc[t]
      /\ \A t \in Slot : pc'[t] \in Holding <=> pc[t] \in Holding
  BY <1>1, <1>2 DEF IInv, Typed, host, mine, Holding
<1>8. ChunksTyped'
  BY <1>1, <1>2, <1>3 DEF ChunkInv, ChunksTyped
<1>9. Claimed' /\ Exclusive'
  BY <1>1, <1>2, <1>7 DEF ChunkInv, Claimed, Exclusive, Holding
<1>10. \A j \in Job, c \in Chunk : InHand(j, c)' <=> InHand(j, c) /\ (j # host \/ c # mine)
  BY <1>1, <1>2, <1>7 DEF InHand, ChunkInv, Exclusive, Holding
<1>11. \A j \in Job, c \in Chunk : Uncounted(j, c)' <=> Uncounted(j, c) \/ (j = host /\ c = mine)
  BY <1>1, <1>2, <1>7 DEF Uncounted
<1>12. \A j \in Job : pc'[j] \in InCall <=> pc[j] \in InCall
  BY <1>1, <1>7, Slots DEF InCall, Busy
<1>13. RanOnce'
  BY <1>2, <1>3, <1>6, <1>10, <1>12 DEF ChunkInv, RanOnce
<1>14. \A j \in Job : Finished(j)' = Finished(j)
  BY <1>5, <1>6, <1>11 DEF Finished
<1>15. Reckoned'
  BY <1>2, <1>12, <1>14 DEF ChunkInv, Reckoned
<1> QED
  BY <1>8, <1>9, <1>13, <1>15 DEF ChunkInv

\* One more chunk is finished, and one more is counted.
LEMMA CountKeepsChunkInv ==
  ASSUME IInv, ChunkInv, NEW s \in Slot, Count(s)
  PROVE  ChunkInv'
<1>a. Of(s) \in Job /\ pc[Of(s)] \in InCall /\ pc[s] = "count"
  BY HoldersAreHosted DEF Count, At, Holding
<1>b. PICK host \in Job : host = Of(s)
  BY <1>a
<1>c. chunk[s] \in Chunk
  <2>1. chunk[s] \in Nat /\ loop[Of(s)].chunks \in Chunk
    BY <1>a DEF ChunkInv, ChunksTyped
  <2>2. chunk[s] < loop[Of(s)].chunks
    BY <1>a DEF ChunkInv, Claimed, Holding
  <2> QED
    BY <2>1, <2>2, ChunksAssumption DEF Chunk
<1>d. PICK mine \in Chunk : mine = chunk[s]
  BY <1>c
<1>1. host \in Job /\ pc[host] \in InCall /\ pc[s] = "count"
  BY <1>a, <1>b
<1>2. /\ chunk' = chunk /\ ran' = ran /\ \A t \in Slot : Of(t)' = Of(t)
      /\ pc' = [pc EXCEPT ![s] = "claim"]
      /\ loop' = [loop EXCEPT ![host].done = @ + 1]
  BY <1>b DEF Count, Of
<1>3. /\ mine \in Chunk /\ mine < loop[host].chunks /\ mine < loop[host].next
  BY <1>1, <1>b, <1>d DEF ChunkInv, Claimed, Holding
<1>4. Uncounted(host, mine)
  BY <1>1, <1>b, <1>d DEF Uncounted
<1>5. /\ pc'[s] = "claim" /\ Of(s) = host /\ chunk[s] = mine
      /\ \A t \in Slot : t # s => pc'[t] = pc[t]
      /\ \A t \in Slot : pc'[t] \in Holding => pc[t] \in Holding
  BY <1>1, <1>2, <1>b, <1>d DEF IInv, Typed, Holding
<1>6. /\ loop'[host].done = loop[host].done + 1
      /\ \A j \in Job : /\ j # host => loop'[j].done = loop[j].done
                        /\ loop'[j].chunks = loop[j].chunks
                        /\ loop'[j].next = loop[j].next
  BY <1>1, <1>2 DEF IInv, Typed
<1>7. ~ InHand(host, mine)
  BY <1>1, <1>5 DEF InHand, ChunkInv, Exclusive, Holding
<1>8. ran[host][mine] = 1
  BY <1>1, <1>3, <1>7 DEF ChunkInv, RanOnce
<1>9. ChunksTyped'
  BY <1>2, <1>6 DEF ChunkInv, ChunksTyped
<1>10. \A t \in Slot : pc[t] \in Holding => Of(t) \in Job
  BY HoldersAreHosted
<1>11. Claimed' /\ Exclusive'
  BY <1>1, <1>2, <1>5, <1>6, <1>10 DEF ChunkInv, Claimed, Exclusive, Holding
<1>12. \A j \in Job, c \in Chunk : InHand(j, c)' <=> InHand(j, c)
  BY <1>1, <1>2, <1>5 DEF InHand
<1>13. \A j \in Job, c \in Chunk : Uncounted(j, c)' <=> Uncounted(j, c) /\ (j # host \/ c # mine)
  BY <1>1, <1>2, <1>5 DEF Uncounted, ChunkInv, Exclusive, Holding
<1>14. \A j \in Job : pc'[j] \in InCall <=> pc[j] \in InCall
  BY <1>1, <1>5, Slots DEF InCall, Busy
<1>15. RanOnce'
  BY <1>2, <1>6, <1>12, <1>14 DEF ChunkInv, RanOnce
<1>16. \A j \in Job : j # host => Finished(j)' = Finished(j)
  BY <1>2, <1>13 DEF Finished
<1>17. Finished(host)' = Finished(host) \cup {mine} /\ mine \notin Finished(host)
  <2>1. \A c \in Chunk : c \in Finished(host)' <=> c \in Finished(host) \/ c = mine
    BY <1>1, <1>2, <1>3, <1>8, <1>13 DEF Finished
  <2>2. mine \notin Finished(host)
    BY <1>4 DEF Finished
  <2>3. Finished(host) \subseteq Chunk /\ Finished(host)' \subseteq Chunk
    BY DEF Finished
  <2> QED
    BY <1>3, <2>1, <2>2, <2>3
<1>18. Cardinality(Finished(host)') = Cardinality(Finished(host)) + 1
  BY <1>17, ChunksAreFinite, FS_AddElement
<1>19. Reckoned'
  BY <1>1, <1>6, <1>14, <1>16, <1>18 DEF ChunkInv, Reckoned
<1> QED
  BY <1>9, <1>11, <1>15, <1>19 DEF ChunkInv

------------------------------------------------------------------------------
\* A loop begins with nothing given out, and nobody holds a chunk of it.
LEMMA EnterKeepsChunkInv ==
  ASSUME IInv, ChunkInv, NEW j \in Job, Enter(j), pc[j] = "idle"
  PROVE  ChunkInv'
<1>1. PICK n \in 2 .. MaxChunks : loop' = [loop EXCEPT ![j] = [NoLoop EXCEPT !.chunks = n]]
  BY DEF Enter
<1>2. /\ pc' = [pc EXCEPT ![j] = "publish"]
      /\ ran' = [ran EXCEPT ![j] = NoneRan]
      /\ chunk' = chunk /\ \A t \in Slot : Of(t)' = Of(t)
  BY DEF Enter, Of
<1>3. /\ loop'[j].chunks = n /\ loop'[j].next = 0 /\ loop'[j].done = 0
      /\ \A k \in Job : k # j => loop'[k] = loop[k] /\ ran'[k] = ran[k]
      /\ ran'[j] = NoneRan
  BY <1>1, <1>2 DEF IInv, Typed, NoLoop, ChunkInv, ChunksTyped
<1>4. /\ pc'[j] = "publish"
      /\ \A t \in Slot : t # j => pc'[t] = pc[t]
      /\ \A t \in Slot : \A label \in Holding : pc'[t] = label <=> pc[t] = label
  BY <1>2, Slots DEF IInv, Typed, Holding
<1>5. \A t \in Slot : pc[t] \in Holding => Of(t) \in Job /\ Of(t) # j
  BY HoldersAreHosted DEF InCall, Busy
<1>6. ChunksTyped'
  <2>1. NoneRan \in [Chunk -> Nat] /\ n \in Chunk
    BY DEF NoneRan, Chunk
  <2> QED
    BY <1>2, <1>3, <2>1 DEF ChunkInv, ChunksTyped
<1>7. Claimed' /\ Exclusive'
  BY <1>2, <1>3, <1>4, <1>5 DEF ChunkInv, Claimed, Exclusive, Holding
<1>8. \A k \in Job, c \in Chunk : (InHand(k, c)' <=> InHand(k, c)) /\ (Uncounted(k, c)' <=> Uncounted(k, c))
  BY <1>2, <1>4 DEF InHand, Uncounted, Holding
<1>9. \A c \in Chunk : ran'[j][c] = 0
  BY <1>3 DEF NoneRan
<1>10. \A k \in Job : k # j => (pc'[k] \in InCall <=> pc[k] \in InCall)
  BY <1>4, Slots
<1>11. RanOnce'
  BY <1>3, <1>4, <1>8, <1>9, <1>10 DEF ChunkInv, RanOnce, InCall, Chunk
<1>12. Finished(j)' = {}
  BY <1>9 DEF Finished
<1>13. \A k \in Job : k # j => Finished(k)' = Finished(k)
  BY <1>3, <1>8 DEF Finished
<1>14. Reckoned'
  BY <1>3, <1>10, <1>12, <1>13, FS_EmptySet DEF ChunkInv, Reckoned
<1> QED
  BY <1>6, <1>7, <1>11, <1>14 DEF ChunkInv

\* The call that returns has counted as many chunks as there are: all of them.
LEMMA CheckKeepsChunkInv ==
  ASSUME IInv, ChunkInv, NEW j \in Job, Check(j)
  PROVE  ChunkInv'
<1>1. pc[j] = "check" /\ chunk' = chunk /\ ran' = ran /\ \A t \in Slot : Of(t)' = Of(t)
  BY DEF Check, At, Of
<1>2. CASE loop[j].done = loop[j].chunks /\ loop[j].present = 0
  <2>1. /\ pc' = [pc EXCEPT ![j] = "idle"]
        /\ loop' = [loop EXCEPT ![j] = Over(loop[j])]
    BY <1>2 DEF Check
  <2>2. /\ pc'[j] = "idle"
        /\ \A t \in Slot : t # j => pc'[t] = pc[t]
        /\ \A t \in Slot : \A label \in Holding : pc'[t] = label <=> pc[t] = label
        /\ loop'[j].chunks = loop[j].chunks
        /\ \A k \in Job : k # j => loop'[k] = loop[k]
    BY <1>1, <2>1, Slots DEF IInv, Typed, Over, NoLoop, Holding
  <2>3. GuestsOf(j) = {}
    BY <1>1, <1>2, GuestsAreFinite, FS_EmptySet DEF IInv, Counted, InCall
  <2>4. \A t \in Slot : pc[t] \in Holding => Of(t) \in Job /\ Of(t) # j
    <3> SUFFICES ASSUME NEW t \in Slot, pc[t] \in Holding PROVE Of(t) \in Job /\ Of(t) # j
      OBVIOUS
    <3>1. Of(t) \in Job
      BY HoldersAreHosted
    <3>2. CASE t \in Job
      BY <1>1, <3>1, <3>2 DEF Of, Holding
    <3>3. CASE t \in Guest
      <4>1. Inside(t) /\ Of(t) = at[t]
        BY <3>3, Slots DEF Inside, Of, Holding, Busy
      <4> QED
        BY <2>3, <3>1, <3>3, <4>1 DEF GuestsOf
    <3> QED
      BY <3>2, <3>3, Slots
  <2>5. ChunksTyped'
    BY <1>1, <2>2 DEF ChunkInv, ChunksTyped
  <2>6. Claimed' /\ Exclusive'
    BY <1>1, <2>2, <2>4 DEF ChunkInv, Claimed, Exclusive, Holding
  <2>7. \A k \in Job, c \in Chunk : (InHand(k, c)' <=> InHand(k, c)) /\ (Uncounted(k, c)' <=> Uncounted(k, c))
    BY <1>1, <2>2 DEF InHand, Uncounted, Holding
  <2>8. \A k \in Job : k # j => (pc'[k] \in InCall <=> pc[k] \in InCall)
    BY <2>2, Slots
  <2>9. \A c \in Chunk : c < loop[j].chunks => ran[j][c] = 1
    <3> DEFINE range == {c \in Chunk : c < loop[j].chunks}
    <3>1. loop[j].chunks \in Nat /\ range = 0 .. (loop[j].chunks - 1)
      BY DEF ChunkInv, ChunksTyped, Chunk
    <3>2. IsFiniteSet(range) /\ Cardinality(range) = loop[j].chunks
      <4> DEFINE last == loop[j].chunks - 1
      <4>1. last \in Int /\ (IF 0 > last THEN 0 ELSE last - 0 + 1) = loop[j].chunks
        BY <3>1
      <4> HIDE DEF last
      <4>2. IsFiniteSet(0 .. last) /\ Cardinality(0 .. last) = loop[j].chunks
        BY <4>1, 0 \in Int, FS_Interval
      <4> USE DEF last
      <4> QED
        BY <3>1, <4>2
    <3>3. Finished(j) \in SUBSET range
      BY DEF Finished, ChunkInv, RanOnce
    <3>4. Cardinality(Finished(j)) = Cardinality(range)
      BY <1>1, <1>2, <3>2 DEF ChunkInv, Reckoned, InCall
    <3>5. Finished(j) = range
      BY <3>2, <3>3, <3>4, FS_Subset
    <3> QED
      BY <3>5 DEF Finished
  <2>10. RanOnce'
    <3> SUFFICES ASSUME NEW k \in Job, NEW c \in Chunk
                 PROVE  ran[k][c] = IF /\ c < loop'[k].chunks
                                       /\ pc'[k] \in InCall => c < loop'[k].next /\ ~ InHand(k, c)'
                                    THEN 1 ELSE 0
      BY <1>1 DEF RanOnce
    <3>1. CASE k = j
      <4>1. c < loop[j].chunks \/ ran[j][c] = 0
        BY DEF ChunkInv, RanOnce
      <4> QED
        BY <2>2, <2>9, <3>1, <4>1 DEF InCall, Busy
    <3>2. CASE k # j
      BY <2>2, <2>7, <2>8, <3>2 DEF ChunkInv, RanOnce
    <3> QED
      BY <3>1, <3>2
  <2>11. \A k \in Job : Finished(k)' = Finished(k)
    BY <1>1, <2>7 DEF Finished
  <2>12. Reckoned'
    BY <2>2, <2>8, <2>11 DEF ChunkInv, Reckoned, InCall, Busy
  <2> QED
    BY <2>5, <2>6, <2>10, <2>12 DEF ChunkInv
<1>3. CASE ~ (loop[j].done = loop[j].chunks /\ loop[j].present = 0)
  <2>1. loop' = loop /\ pc' = [pc EXCEPT ![j] = "asleep"]
    BY <1>3 DEF Check
  <2>2. /\ \A t \in Slot : \A label \in Holding : pc'[t] = label <=> pc[t] = label
        /\ \A k \in Job : pc'[k] \in InCall <=> pc[k] \in InCall
        /\ chunk' \in [Slot -> Nat]
    BY <1>1, <2>1, Slots DEF IInv, Typed, Holding, InCall, Busy, ChunkInv, ChunksTyped
  <2> QED
    BY <1>1, <2>1, <2>2, QuietForChunks
<1> QED
  BY <1>2, <1>3

------------------------------------------------------------------------------
\* The steps that publish, wake, join, leave and close hold no chunk.
LEMMA OthersKeepChunkInv ==
  ASSUME IInv, ChunkInv,
         \/ \E j \in Job : Publish(j) \/ NotifyWorkers(j)
         \/ \E w \in Worker : Serve(w)
         \/ Stop \/ Close
  PROVE  ChunkInv'
<1>1. chunk' \in [Slot -> Nat] /\ ran' = ran /\ chunk' = chunk
  BY DEF Publish, NotifyWorkers, Serve, Look, Leave, Stop, Close, NotifyStop, Join, ChunkInv, ChunksTyped
<1>2. ASSUME NEW j \in Job, Publish(j) PROVE ChunkInv'
  <2>1. /\ \A t \in Slot : \A label \in Holding : pc'[t] = label <=> pc[t] = label
        /\ \A k \in Job : pc'[k] \in InCall <=> pc[k] \in InCall
        /\ \A t \in Slot : Of(t)' = Of(t)
        /\ \A k \in Job : /\ loop'[k].chunks = loop[k].chunks
                          /\ loop'[k].next = loop[k].next
                          /\ loop'[k].done = loop[k].done
    BY <1>2, Slots DEF Publish, At, Of, IInv, Typed, Holding, InCall, Busy
  <2> QED
    BY <1>1, <2>1, QuietForChunks
<1>3. ASSUME NEW j \in Job, NotifyWorkers(j) PROVE ChunkInv'
  <2>1. /\ pc[j] = "notify"
        /\ \A t \in Slot : pc'[t] = IF t = j THEN "claim"
                                    ELSE IF pc[t] = "resting" THEN "awake" ELSE pc[t]
        /\ loop' = loop /\ \A t \in Slot : Of(t)' = Of(t)
    BY <1>3 DEF NotifyWorkers, At, WakeWorkers, Of
  <2>2. /\ \A t \in Slot : \A label \in Holding : pc'[t] = label <=> pc[t] = label
        /\ \A k \in Job : pc'[k] \in InCall <=> pc[k] \in InCall
    BY <2>1, Slots DEF Holding, InCall, Busy
  <2> QED
    BY <1>1, <2>1, <2>2, QuietForChunks
<1>4. ASSUME NEW w \in Worker, Look(w) PROVE ChunkInv'
  <2> DEFINE s == <<w, "outer">>
  <2>1. s \in Guest /\ s \in Slot /\ pc[s] = "awake"
    BY <1>4, Slots DEF Look, At
  <2>2. PICK label \in {"gone", "claim", "awake", "resting"} : pc' = [pc EXCEPT ![s] = label]
    BY <1>4, <2>1 DEF Look, IInv, Typed
  <2>3. \A t \in Guest : t # s => at'[t] = at[t]
    BY <1>4 DEF Look, IInv, Typed
  <2>4. \A k \in Job : /\ loop'[k].chunks = loop[k].chunks
                       /\ loop'[k].next = loop[k].next
                       /\ loop'[k].done = loop[k].done
    BY <1>4 DEF Look, IInv, Typed
  <2>5. /\ \A t \in Slot : \A l \in Holding : pc'[t] = l <=> pc[t] = l
        /\ \A k \in Job : pc'[k] \in InCall <=> pc[k] \in InCall
    BY <2>1, <2>2, Slots DEF IInv, Typed, Holding
  <2>6. \A t \in Slot : pc[t] \in Holding => Of(t)' = Of(t)
    BY <2>1, <2>3, Slots DEF Of, Holding
  <2> QED
    BY <1>1, <2>4, <2>5, <2>6, QuietForChunks
<1>5. ASSUME NEW s \in Guest, Leave(s) PROVE ChunkInv'
  <2>1. pc[s] = "leave" /\ s \in Slot
    BY <1>5, Slots DEF Leave, At
  <2>2. /\ \A t \in Slot : pc'[t] = IF t = s THEN "awake"
                                    ELSE IF pc[t] = "asleep" THEN "check" ELSE pc[t]
        /\ \A t \in Guest : t # s => at'[t] = at[t]
        /\ \A k \in Job : /\ loop'[k].chunks = loop[k].chunks
                          /\ loop'[k].next = loop[k].next
                          /\ loop'[k].done = loop[k].done
    BY <1>5, Slots DEF Leave, WakeOwners, IInv, Typed
  <2>3. /\ \A t \in Slot : \A l \in Holding : pc'[t] = l <=> pc[t] = l
        /\ \A k \in Job : pc'[k] \in InCall <=> pc[k] \in InCall
    BY <2>1, <2>2, Slots DEF Holding, InCall, Busy
  <2>4. \A t \in Slot : pc[t] \in Holding => Of(t)' = Of(t)
    BY <2>1, <2>2, Slots DEF Of, Holding
  <2> QED
    BY <1>1, <2>2, <2>3, <2>4, QuietForChunks
<1>6. CASE Stop \/ Close
  <2> DEFINE j == <<Caller, "outer">>
  <2>1. PICK label \in {"closing", "joining", "joined"} :
          /\ pc[j] \in {"idle", "closing", "joining"}
          /\ \A t \in Slot : \/ pc'[t] = IF t = j THEN label ELSE pc[t]
                             \/ t # j /\ pc[t] = "resting" /\ pc'[t] = "awake"
    BY <1>6, Slots DEF Stop, Close, NotifyStop, Join, At, WakeWorkers, IInv, Typed
  <2>2. loop' = loop /\ \A t \in Slot : Of(t)' = Of(t)
    BY <1>6 DEF Stop, Close, NotifyStop, Join, Of
  <2>3. /\ \A t \in Slot : \A l \in Holding : pc'[t] = l <=> pc[t] = l
        /\ \A k \in Job : pc'[k] \in InCall <=> pc[k] \in InCall
    BY <2>1, Slots DEF Holding, InCall, Busy
  <2> QED
    BY <1>1, <2>2, <2>3, QuietForChunks
<1> QED
  BY <1>2, <1>3, <1>4, <1>5, <1>6, Slots DEF Serve

LEMMA NextKeepsChunkInv == IInv /\ ChunkInv /\ [Next]_vars => ChunkInv'
<1> SUFFICES ASSUME IInv, ChunkInv, [Next]_vars PROVE ChunkInv'
  OBVIOUS
<1>1. ASSUME NEW s \in Slot, Work(s) PROVE ChunkInv'
  BY <1>1, ClaimKeepsChunkInv, CompareKeepsChunkInv, RunKeepsChunkInv, CountKeepsChunkInv DEF Work
<1>2. ASSUME NEW j \in Job, Enter(j) PROVE ChunkInv'
  BY <1>2, EnterFromIdle, EnterKeepsChunkInv
<1>3. ASSUME NEW j \in Job, Own(j) PROVE ChunkInv'
  BY <1>3, CheckKeepsChunkInv, OthersKeepChunkInv DEF Own
<1>4. ASSUME NEW w \in Worker, Serve(w) PROVE ChunkInv'
  BY <1>4, OthersKeepChunkInv
<1>5. CASE Stop \/ Close
  BY <1>5, OthersKeepChunkInv
<1>6. CASE UNCHANGED vars
  <2>1. \A t \in Slot : Of(t)' = Of(t)
    BY <1>6 DEF vars, Of
  <2> QED
    BY <1>6, <2>1, QuietForChunks DEF vars, pool, ChunkInv, ChunksTyped
<1> QED
  BY <1>1, <1>2, <1>3, <1>4, <1>5, <1>6 DEF Next

\* EveryChunkOnce, for any number of workers, loops and chunks: parallel_for
\* runs each chunk of its range exactly once before it returns, whoever claimed
\* it, and never one outside the range.
THEOREM ChunksRunOnce == Spec => []EveryChunkOnce
<1>1. ASSUME ChunkInv, NEW j \in Job, NEW c \in Chunk
      PROVE  /\ ran[j][c] <= IF c < loop[j].chunks THEN 1 ELSE 0
             /\ pc[j] = "idle" /\ c < loop[j].chunks => ran[j][c] = 1
  <2>1. ran[j][c] = IF /\ c < loop[j].chunks
                       /\ pc[j] \in InCall => c < loop[j].next /\ ~ InHand(j, c)
                    THEN 1 ELSE 0
    BY <1>1 DEF ChunkInv, RanOnce
  <2> QED
    BY <2>1 DEF InCall, Busy
<1>2. ChunkInv => EveryChunkOnce
  BY <1>1 DEF EveryChunkOnce
<1> QED
  BY <1>2, IInvHolds, InitChunkInv, NextKeepsChunkInv, PTL DEF Spec
==============================================================================
