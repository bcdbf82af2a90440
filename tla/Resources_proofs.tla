--------------------------- MODULE Resources_proofs ---------------------------
(***************************************************************************)
(* What the engine holds on to, proved: the asset registry, the graphics   *)
(* device, the quads that are drawn through its storage, and the sound.    *)
(*                                                                         *)
(* Assets, for any assets, workers, writes and runs: a texture that is     *)
(* ready is of the content its time names, and an asset under way is in    *)
(* one place only.  A version travels from the file or an artifact through *)
(* a completion and a payload to the texture, with the time it goes under; *)
(* Coherent says at each station that the two agree or were noted as       *)
(* raced.  An asset travels from the queue through a worker's hands to the *)
(* completions; Once says that it is in one place, and Travelling that the *)
(* entry knows.  Only what is in no place is queued, which is what         *)
(* reload_changed asks of an entry when it skips those not settled.        *)
(*                                                                         *)
(* The device, for any kinds and any number of objects that the            *)
(* generations of a slot can tell apart: the library is used as it must    *)
(* be.  Single and Apart say that an object has one holder, which is a     *)
(* slot, a buffer that is streamed through it, the frame or nobody;        *)
(* Balanced that the library's objects are exactly those; Pooled that what *)
(* is free holds nothing, and how old a slot can be; Handed that a handle  *)
(* is never newer than its slot, and is of the object while as new.        *)
(*                                                                         *)
(* The quads, for any textures, capacities and storage that cycling does   *)
(* not run out of: a frame paints what it was asked to.  Will is what a    *)
(* storage will hold when the copies under way have arrived, and Due what  *)
(* draws paint by then: no step changes it for a draw that waits.  That    *)
(* rests on Disjoint and Unharmed, which say that storage in use is not    *)
(* written again, and on Within, by which there is always some that is not.*)
(*                                                                         *)
(* The sound, for any clips, voices and lengths: what is heard of a voice  *)
(* is its clip from the beginning and to the end, but for the blocks that  *)
(* the stream refused.  Follows says where the cursor is by what was heard *)
(* and what was missed, for a sound that is repeated up to whole turns of  *)
(* it; NamesAgree that a clip an asset owns is the one its cache names.    *)
(***************************************************************************)
EXTENDS Assets, Audio, Device, QuadBatch, FiniteSetTheorems, SequenceTheorems, WellFoundedInduction, TLAPS

(* The assets.                                                             *)
Time == Nat \cup {Nothing}
States == {"unloaded", "queued", "loading", "decoded", "ready", "failed"}
Entry == [state : States, at : Time, payload : Time, pumps : Nat, reported : BOOLEAN]
File == [version : Nat, good : BOOLEAN]
Completion == [asset : Asset, good : BOOLEAN, version : Nat, time : Nat]
Artifact == [key : Asset \X Nat, version : Nat, whole : BOOLEAN]

\* A worker has an asset from the job to the completion, and content to date.
Hand ==
  [at : {"looking", "asleep", "gone"}, asset : {Nothing}, read : {Nothing}]
    \cup [at : {"marking", "reading"}, asset : Asset, read : {Nothing}]
    \cup [at : {"dating"}, asset : Asset, read : File]

Typed ==
  /\ file \in [Asset -> File]
  /\ artifacts \subseteq Artifact
  /\ entry \in [Asset -> Entry]
  /\ shown \in [Asset -> Time]
  /\ jobs \in Seq(Asset)
  /\ finished \in Seq(Completion)
  /\ hand \in [AssetWorker -> Hand]

\* A version and the time it goes under.
Honest(a, version, time) == version = time \/ <<a, time>> \in raced

Coherent ==
  /\ \A k \in artifacts : Honest(k.key[1], k.version, k.key[2])
  /\ \A i \in DOMAIN finished :
       finished[i].good => Honest(finished[i].asset, finished[i].version, finished[i].time)
  /\ \A a \in Asset : entry[a].state = "decoded" => Honest(a, entry[a].payload, entry[a].at)
  /\ \A a \in Asset : entry[a].state = "ready" => Honest(a, shown[a], entry[a].at)

\* The places an asset is in on its way.
Waiting(a) == \E i \in DOMAIN jobs : jobs[i] = a
Done(a) == \E i \in DOMAIN finished : finished[i].asset = a
Held(a) == \E w \in AssetWorker : hand[w].asset = a

Once ==
  /\ \A i, j \in DOMAIN jobs : jobs[i] = jobs[j] => i = j
  /\ \A i, j \in DOMAIN finished : finished[i].asset = finished[j].asset => i = j
  /\ \A v, w \in AssetWorker : hand[v].asset \in Asset /\ hand[v].asset = hand[w].asset => v = w
  /\ \A a \in Asset : ~(Waiting(a) /\ Done(a)) /\ ~(Waiting(a) /\ Held(a)) /\ ~(Done(a) /\ Held(a))

Travelling == \A a \in Asset : entry[a].state \in {"queued", "loading"} <=> Waiting(a) \/ Done(a) \/ Held(a)

IInv == Typed /\ Coherent /\ Once /\ Travelling

\* One completion filed in a table: what each link of Brought does.
Filed(table, i) == [table EXCEPT ![finished[i].asset] = Completed(@, finished[i])]

------------------------------------------------------------------------------
\* A nonempty set of naturals has a least element: what an induction on naturals
\* rests on here.
LEMMA LeastElement ==
  ASSUME NEW S \in SUBSET Nat, S # {}
  PROVE  \E n \in S : \A m \in S : n <= m
<1> DEFINE R == OpToRel(<, Nat)
<1>1. IsWellFoundedOn(R, Nat)
  BY NatLessThanWellFounded
<1> HIDE DEF R
<1>2. PICK n \in S : \A m \in S : ~ (<<m, n>> \in R)
  BY <1>1, WFMin
<1>3. \A m \in S : ~ (m < n)
  BY <1>2 DEF R, OpToRel
<1> QED
  BY <1>3

\* The recursive definition of the table is of a function that exists.
LEMMA BroughtIsAChain ==
  ASSUME NEW n \in Nat, Len(finished) = n
  PROVE  /\ Brought[0] = entry
         /\ \A i \in 1 .. n : Brought[i] = Filed(Brought[i - 1], i)
<1> DEFINE chain(g, m) == g = [i \in 0 .. m |-> IF i = 0 THEN entry ELSE Filed(g[i - 1], i)]
           missing == {m \in 0 .. n : ~ \E g : chain(g, m)}
<1>1. missing = {}
  <2> SUFFICES ASSUME missing # {} PROVE FALSE
    OBVIOUS
  <2>1. PICK m \in missing : \A j \in missing : m <= j
    <3>1. missing \in SUBSET Nat
      OBVIOUS
    <3> HIDE DEF missing
    <3> QED
      BY <3>1, LeastElement
  <2>2. m \in 0 .. n /\ ~ \E g : chain(g, m)
    OBVIOUS
  <2>3. CASE m = 0
    <3> DEFINE g == [i \in 0 .. 0 |-> entry]
    <3>1. chain(g, 0)
      OBVIOUS
    <3> QED
      BY <2>2, <2>3, <3>1
  <2>4. CASE m # 0
    <3>0. m \in 1 .. n /\ m - 1 \in 0 .. n /\ ~ (m <= m - 1)
      BY <2>2, <2>4
    <3>1. m - 1 \in 0 .. n /\ m - 1 \notin missing
      <4> HIDE DEF missing
      <4> QED
        BY <2>1, <3>0
    <3>2. PICK g : chain(g, m - 1)
      BY <3>1
    <3> DEFINE h == [i \in 0 .. m |-> IF i < m THEN g[i] ELSE Filed(g[m - 1], m)]
    <3>3. ASSUME NEW i \in 0 .. m
          PROVE  h[i] = IF i = 0 THEN entry ELSE Filed(h[i - 1], i)
      <4>1. CASE i = m
        BY <2>2, <2>4, <4>1
      <4>2. CASE i # m
        <5>1. i \in 0 .. (m - 1) /\ h[i] = g[i] /\ (i # 0 => h[i - 1] = g[i - 1])
          BY <2>2, <4>2
        <5>2. g[i] = IF i = 0 THEN entry ELSE Filed(g[i - 1], i)
          BY <3>2, <5>1
        <5> QED
          BY <5>1, <5>2
      <4> QED
        BY <4>1, <4>2
    <3>4. h = [i \in 0 .. m |-> h[i]]
      OBVIOUS
    <3> HIDE DEF h
    <3>5. chain(h, m)
      BY <3>3, <3>4
    <3> QED
      BY <2>2, <3>5
  <2> QED
    BY <2>3, <2>4
<1>2. \E g : chain(g, n)
  BY <1>1
<1>3. Brought = CHOOSE g : chain(g, n)
  BY DEF Brought, Filed
<1>4. chain(Brought, n)
  BY <1>2, <1>3
<1> QED
  BY <1>4


\* A completion is filed in an entry that then says what the worker found.
LEMMA CompletedIs ==
  ASSUME NEW e \in Entry, NEW c \in Completion
  PROVE  /\ Completed(e, c) \in Entry
         /\ c.good => /\ Completed(e, c).state = "decoded"
                      /\ Completed(e, c).payload = c.version /\ Completed(e, c).at = c.time
         /\ ~c.good => Completed(e, c).state = "failed"
BY DEF Completed, Entry, Completion, States, Time

\* Counting the pumps of a wait changes neither state nor payload.
LEMMA WaitedIs ==
  ASSUME NEW e \in Entry
  PROVE  /\ Waited(e) \in Entry /\ Waited(e).state = e.state
         /\ Waited(e).at = e.at /\ Waited(e).payload = e.payload
<1>1. e.pumps \in Nat /\ e.pumps + 1 \in Nat /\ e.state \in States
  BY DEF Entry
<1> QED
  BY <1>1 DEF Waited, Entry

\* An asset has at most one completion, and it is what becomes of its entry.
LEMMA BroughtEach ==
  ASSUME entry \in [Asset -> Entry], finished \in Seq(Completion),
         \A i, j \in DOMAIN finished : finished[i].asset = finished[j].asset => i = j
  PROVE  LET table == Brought[Len(finished)]
         IN  /\ table \in [Asset -> Entry]
             /\ \A a \in Asset : ~Done(a) => table[a] = entry[a]
             /\ \A i \in DOMAIN finished :
                  table[finished[i].asset] = Completed(entry[finished[i].asset], finished[i])
<1> DEFINE n == Len(finished)
           told(m) ==
             /\ Brought[m] \in [Asset -> Entry]
             /\ \A a \in Asset : (\A i \in 1 .. m : finished[i].asset # a) => Brought[m][a] = entry[a]
             /\ \A i \in 1 .. m :
                  Brought[m][finished[i].asset] = Completed(entry[finished[i].asset], finished[i])
           missing == {m \in 0 .. n : ~told(m)}
<1>1. n \in Nat /\ DOMAIN finished = 1 .. n /\ \A i \in 1 .. n : finished[i] \in Completion
  OBVIOUS
<1>2. Brought[0] = entry /\ \A i \in 1 .. n : Brought[i] = Filed(Brought[i - 1], i)
  BY <1>1, BroughtIsAChain
<1>3. missing = {}
  <2> SUFFICES ASSUME missing # {} PROVE FALSE
    OBVIOUS
  <2>1. PICK m \in missing : \A j \in missing : m <= j
    <3>1. missing \in SUBSET Nat
      OBVIOUS
    <3> HIDE DEF missing
    <3> QED
      BY <3>1, LeastElement
  <2>2. m \in 0 .. n /\ ~told(m)
    OBVIOUS
  <2>3. CASE m = 0
    <3>1. told(0)
      BY <1>2
    <3> QED
      BY <2>2, <2>3, <3>1
  <2>4. CASE m # 0
    <3>1. m \in 1 .. n /\ m - 1 \in 0 .. n /\ m - 1 \notin missing
      BY <1>1, <2>1, <2>2, <2>4
    <3>2. told(m - 1)
      BY <3>1
    <3> HIDE DEF missing
    <3>3. finished[m] \in Completion /\ finished[m].asset \in Asset
      BY <1>1, <3>1 DEF Completion
    <3> DEFINE old == Brought[m - 1]
               b == finished[m].asset
    <3>4. old \in [Asset -> Entry] /\ Brought[m] = [old EXCEPT ![b] = Completed(old[b], finished[m])]
      BY <1>2, <3>1, <3>2 DEF Filed
    <3>5. \A i \in 1 .. (m - 1) : i \in 1 .. n /\ i # m /\ finished[i].asset # b
      BY <1>1, <3>1
    <3>6. old[b] = entry[b]
      BY <3>2, <3>3, <3>5
    <3>7. Completed(old[b], finished[m]) \in Entry
      BY <3>3, <3>4, CompletedIs
    <3>8. Brought[m] \in [Asset -> Entry] /\ Brought[m][b] = Completed(entry[b], finished[m])
          /\ \A a \in Asset : a # b => Brought[m][a] = old[a]
      BY <3>3, <3>4, <3>6, <3>7
    <3>9. ASSUME NEW a \in Asset, \A i \in 1 .. m : finished[i].asset # a
          PROVE  Brought[m][a] = entry[a]
      <4>1. a # b /\ \A i \in 1 .. (m - 1) : finished[i].asset # a
        BY <3>1, <3>9
      <4> QED
        BY <3>2, <3>8, <4>1
    <3>10. ASSUME NEW i \in 1 .. m
           PROVE  Brought[m][finished[i].asset] = Completed(entry[finished[i].asset], finished[i])
      <4>1. CASE i = m
        BY <3>8, <4>1
      <4>2. CASE i # m
        <5>1. i \in 1 .. (m - 1)
          BY <3>1, <4>2
        <5>2. finished[i].asset \in Asset /\ finished[i].asset # b
          BY <1>1, <3>5, <5>1 DEF Completion
        <5> QED
          BY <3>2, <3>8, <5>1, <5>2
      <4> QED
        BY <4>1, <4>2
    <3> QED
      BY <2>2, <3>8, <3>9, <3>10
  <2> QED
    BY <2>3, <2>4
<1>4. told(n)
  BY <1>1, <1>3
<1> QED
  BY <1>1, <1>4 DEF Done

\* A worker has an asset in its hands from taking the job to its completion.
LEMMA HandIs ==
  ASSUME NEW h \in Hand
  PROVE  /\ h.asset \in Asset <=> h.at \in {"marking", "reading", "dating"}
         /\ h.asset \in Asset \cup {Nothing}
         /\ h.at = "dating" => h.read \in File
BY AssetAssumption DEF Hand

\* Waking moves sleepers only, who have nothing in their hands.
LEMMA WokenKeep ==
  ASSUME hand \in [AssetWorker -> Hand], hand' \in NotifyOne \cup {hand, NotifyAll}
  PROVE  /\ hand' \in [AssetWorker -> Hand]
         /\ \A w \in AssetWorker : hand'[w].asset = hand[w].asset
<1>1. At("looking") \in Hand /\ At("looking").asset = Nothing
  BY DEF At, Hand
<1>2. \A w \in Sleeping : w \in AssetWorker /\ hand[w].asset = Nothing
  BY DEF Sleeping, Hand
<1>3. CASE hand' = hand
  BY <1>3
<1>4. CASE hand' = NotifyAll
  BY <1>1, <1>2, <1>4 DEF NotifyAll
<1>5. CASE hand' # hand /\ hand' \in NotifyOne
  <2>1. PICK w \in Sleeping : hand' = [hand EXCEPT ![w] = At("looking")]
    BY <1>5 DEF NotifyOne
  <2> QED
    BY <1>1, <1>2, <2>1
<1> QED
  BY <1>3, <1>4, <1>5

\* Whoever moves no asset and settles none keeps each where it was.
LEMMA QuietStep ==
  ASSUME Once, Travelling, jobs' = jobs, finished' = finished,
         \A w \in AssetWorker : hand'[w].asset = hand[w].asset,
         \A a \in Asset : entry'[a].state \in {"queued", "loading"} <=> entry[a].state \in {"queued", "loading"}
  PROVE  Once' /\ Travelling'
BY DEF Once, Travelling, Waiting, Done, Held

------------------------------------------------------------------------------
\* What was never asked for is in no place, and is queued once (Registry::request).
LEMMA RequestStep ==
  ASSUME IInv, NEW a \in Asset, Request(a)
  PROVE  IInv'
<1>1. Typed /\ Coherent /\ Once /\ Travelling
  BY DEF IInv
<1>2. /\ entry \in [Asset -> Entry] /\ jobs \in Seq(Asset) /\ hand \in [AssetWorker -> Hand]
      /\ entry[a].state = "unloaded" /\ entry' = [entry EXCEPT ![a].state = "queued"]
      /\ jobs' = Append(jobs, a) /\ hand' \in NotifyOne
      /\ UNCHANGED <<file, artifacts, raced, shown, finished>>
  BY <1>1 DEF Typed, Request
<1>3. /\ hand' \in [AssetWorker -> Hand]
      /\ \A w \in AssetWorker : hand'[w].asset = hand[w].asset
  BY <1>2, WokenKeep
<1>4. /\ entry' \in [Asset -> Entry] /\ entry'[a].state = "queued"
      /\ \A b \in Asset : b # a => entry'[b] = entry[b]
  BY <1>2 DEF Entry, States
<1>5. Typed'
  BY <1>1, <1>2, <1>3, <1>4 DEF Typed
<1>6. Coherent'
  BY <1>1, <1>2, <1>4 DEF Coherent, Honest
<1>7. ~Waiting(a) /\ ~Done(a) /\ ~Held(a)
  BY <1>1, <1>2 DEF Travelling
<1>8. /\ Len(jobs) \in Nat /\ DOMAIN jobs = 1 .. Len(jobs)
      /\ DOMAIN jobs' = 1 .. (Len(jobs) + 1) /\ jobs'[Len(jobs) + 1] = a
      /\ \A i \in DOMAIN jobs : jobs'[i] = jobs[i]
  BY <1>2
<1>9. \A b \in Asset : Waiting(b)' <=> Waiting(b) \/ b = a
  BY <1>8 DEF Waiting
<1>10. \A b : (Done(b)' <=> Done(b)) /\ (Held(b)' <=> Held(b))
  BY <1>2, <1>3 DEF Done, Held
<1>11. Once'
  <2>1. \A i, j \in DOMAIN jobs' : jobs'[i] = jobs'[j] => i = j
    BY <1>1, <1>7, <1>8 DEF Once, Waiting
  <2>2. /\ \A i, j \in DOMAIN finished' : finished'[i].asset = finished'[j].asset => i = j
        /\ \A v, w \in AssetWorker : hand'[v].asset \in Asset /\ hand'[v].asset = hand'[w].asset => v = w
    BY <1>1, <1>2, <1>3 DEF Once
  <2>3. \A b \in Asset : ~(Waiting(b) /\ Done(b))' /\ ~(Waiting(b) /\ Held(b))' /\ ~(Done(b) /\ Held(b))'
    BY <1>1, <1>7, <1>9, <1>10 DEF Once
  <2> QED
    BY <2>1, <2>2, <2>3 DEF Once
<1>12. Travelling'
  BY <1>1, <1>4, <1>9, <1>10 DEF Travelling
<1> QED
  BY <1>5, <1>6, <1>11, <1>12 DEF IInv

\* What has been decoded has left the workers, and brings its version along.
LEMMA PumpStep ==
  ASSUME IInv, Pump
  PROVE  IInv'
<1> DEFINE table == Brought[Len(finished)]
<1>1. Typed /\ Coherent /\ Once /\ Travelling
  BY DEF IInv
<1>2. /\ entry' = [a \in Asset |-> Waited(table[a])] /\ finished' = <<>>
      /\ UNCHANGED <<file, artifacts, raced, shown, jobs, hand>>
  BY DEF Pump
<1>3. entry \in [Asset -> Entry] /\ finished \in Seq(Completion)
  BY <1>1 DEF Typed
<1>4. /\ table \in [Asset -> Entry]
      /\ \A a \in Asset : ~Done(a) => table[a] = entry[a]
      /\ \A i \in DOMAIN finished :
           table[finished[i].asset] = Completed(entry[finished[i].asset], finished[i])
  BY <1>1, <1>3, BroughtEach DEF Once
<1> HIDE DEF table
<1>5. entry' \in [Asset -> Entry]
      /\ \A a \in Asset : /\ entry'[a].state = table[a].state
                          /\ entry'[a].at = table[a].at /\ entry'[a].payload = table[a].payload
  BY <1>2, <1>4, WaitedIs
<1>6. Typed'
  <2>1. finished' \in Seq(Completion)
    BY <1>2
  <2> QED
    BY <1>1, <1>2, <1>5, <2>1 DEF Typed
<1>7. \A a \in Asset : Done(a) =>
        \E c \in Completion : c.asset = a /\ entry'[a].state = Completed(entry[a], c).state
           /\ entry'[a].at = Completed(entry[a], c).at
           /\ entry'[a].payload = Completed(entry[a], c).payload
           /\ (c.good => Honest(a, c.version, c.time))
  <2> SUFFICES ASSUME NEW a \in Asset, NEW i \in DOMAIN finished, finished[i].asset = a
               PROVE  \E c \in Completion :
                        /\ c.asset = a /\ entry'[a].state = Completed(entry[a], c).state
                        /\ entry'[a].at = Completed(entry[a], c).at
                        /\ entry'[a].payload = Completed(entry[a], c).payload
                        /\ (c.good => Honest(a, c.version, c.time))
    BY DEF Done
  <2>1. finished[i] \in Completion
    BY <1>3
  <2>2. table[a] = Completed(entry[a], finished[i])
    BY <1>4
  <2>3. finished[i].good => Honest(a, finished[i].version, finished[i].time)
    BY <1>1 DEF Coherent
  <2> QED
    BY <1>5, <2>1, <2>2, <2>3
<1>8. \A a \in Asset : IF Done(a)
        THEN /\ entry'[a].state \in {"decoded", "failed"}
             /\ entry'[a].state = "decoded" => Honest(a, entry'[a].payload, entry'[a].at)
        ELSE /\ entry'[a].state = entry[a].state
             /\ entry'[a].at = entry[a].at /\ entry'[a].payload = entry[a].payload
  <2> SUFFICES ASSUME NEW a \in Asset
               PROVE  IF Done(a)
                      THEN /\ entry'[a].state \in {"decoded", "failed"}
                           /\ entry'[a].state = "decoded" => Honest(a, entry'[a].payload, entry'[a].at)
                      ELSE /\ entry'[a].state = entry[a].state
                           /\ entry'[a].at = entry[a].at /\ entry'[a].payload = entry[a].payload
    OBVIOUS
  <2>1. CASE ~Done(a)
    BY <1>4, <1>5, <2>1
  <2>2. CASE Done(a)
    <3>1. PICK c \in Completion : c.asset = a /\ entry'[a].state = Completed(entry[a], c).state
             /\ entry'[a].at = Completed(entry[a], c).at
             /\ entry'[a].payload = Completed(entry[a], c).payload
             /\ (c.good => Honest(a, c.version, c.time))
      BY <1>7, <2>2
    <3>2. entry[a] \in Entry
      BY <1>3
    <3>3. c.good \in BOOLEAN
      BY DEF Completion
    <3>4. CASE c.good
      BY <2>2, <3>1, <3>2, <3>4, CompletedIs
    <3>5. CASE ~c.good
      BY <2>2, <3>1, <3>2, <3>5, CompletedIs
    <3> QED
      BY <3>3, <3>4, <3>5
  <2> QED
    BY <2>1, <2>2
<1>9. \A a, v, t : Honest(a, v, t)' <=> Honest(a, v, t)
  BY <1>2 DEF Honest
<1>10. Coherent'
  <2>1. \A k \in artifacts' : Honest(k.key[1], k.version, k.key[2])'
    BY <1>1, <1>2, <1>9 DEF Coherent
  <2>2. \A i \in DOMAIN finished' : FALSE
    BY <1>2
  <2>3. \A a \in Asset : entry'[a].state = "decoded" => Honest(a, entry'[a].payload, entry'[a].at)
    BY <1>1, <1>8 DEF Coherent
  <2>4. \A a \in Asset : entry'[a].state = "ready" => Honest(a, shown'[a], entry'[a].at)
    BY <1>1, <1>2, <1>8 DEF Coherent
  <2> QED
    BY <1>2, <2>1, <2>2, <2>3, <2>4 DEF Coherent, Honest
<1>11. \A a : ~Done(a)' /\ (Waiting(a)' <=> Waiting(a)) /\ (Held(a)' <=> Held(a))
  BY <1>2 DEF Done, Waiting, Held
<1>12. Once'
  <2>1. \A i, j \in DOMAIN finished' : finished'[i].asset = finished'[j].asset => i = j
    BY <1>2
  <2> QED
    BY <1>1, <1>2, <1>11, <2>1 DEF Once
<1>13. Travelling'
  BY <1>1, <1>8, <1>11 DEF Travelling, Once
<1> QED
  BY <1>6, <1>10, <1>12, <1>13 DEF IInv

\* A texture is made of the payload its entry was brought.
LEMMA FinaliseStep ==
  ASSUME IInv, NEW refused \in SUBSET Finalised, Finalise(refused)
  PROVE  IInv'
<1> DEFINE pending == {a \in Finalised : entry[a].state = "decoded"}
           shownNow == pending \ refused
<1>1. Typed /\ Coherent /\ Once /\ Travelling
  BY DEF IInv
<1>2. /\ shown' = [a \in Asset |-> IF a \in shownNow THEN entry[a].payload ELSE shown[a]]
      /\ entry' = [a \in Asset |->
           IF a \in pending
           THEN [entry[a] EXCEPT !.payload = Nothing, !.state = IF a \in shownNow THEN "ready" ELSE "failed"]
           ELSE entry[a]]
      /\ UNCHANGED <<file, artifacts, raced, jobs, finished, hand>>
  BY DEF Finalise
<1>3. entry \in [Asset -> Entry] /\ shown \in [Asset -> Time] /\ \A a \in Asset : entry[a].payload \in Time
  BY <1>1 DEF Typed, Entry
<1>4. \A a \in pending : entry[a].state = "decoded"
  OBVIOUS
<1> HIDE DEF pending
<1>5. \A a \in Asset : IF a \in pending
        THEN entry'[a].state = (IF a \in shownNow THEN "ready" ELSE "failed") /\ entry'[a].at = entry[a].at
        ELSE entry'[a] = entry[a]
  BY <1>2, <1>3 DEF Entry
<1>6. entry' \in [Asset -> Entry]
  <2>1. ASSUME NEW a \in Asset
        PROVE  entry'[a] \in Entry
    <3>1. PICK e \in Entry : e = entry[a]
      BY <1>3
    <3>2. CASE a \in pending
      <4>1. entry'[a] = [e EXCEPT !.payload = Nothing,
                                  !.state = IF a \in shownNow THEN "ready" ELSE "failed"]
        BY <1>2, <3>1, <3>2
      <4> HIDE DEF shownNow
      <4> QED
        BY <4>1 DEF Entry, States, Time
    <3>3. CASE a \notin pending
      BY <1>2, <1>3, <3>3
    <3> QED
      BY <3>2, <3>3
  <2> QED
    BY <1>2, <2>1
<1>7. shown' \in [Asset -> Time]
  BY <1>2, <1>3
<1>8. Typed'
  BY <1>1, <1>2, <1>6, <1>7 DEF Typed
<1>9. \A a, v, t : Honest(a, v, t)' <=> Honest(a, v, t)
  BY <1>2 DEF Honest
<1>10. Coherent'
  <2>1. /\ \A k \in artifacts' : Honest(k.key[1], k.version, k.key[2])
        /\ \A i \in DOMAIN finished' :
             finished'[i].good => Honest(finished'[i].asset, finished'[i].version, finished'[i].time)
    BY <1>1, <1>2 DEF Coherent
  <2>2. ASSUME NEW a \in Asset, entry'[a].state = "decoded"
        PROVE  Honest(a, entry'[a].payload, entry'[a].at)
    BY <1>1, <1>5, <2>2 DEF Coherent
  <2>3. ASSUME NEW a \in Asset, entry'[a].state = "ready"
        PROVE  Honest(a, shown'[a], entry'[a].at)
    <3>1. CASE a \in pending
      <4> HIDE DEF shownNow
      <4>0. entry'[a].state = (IF a \in shownNow THEN "ready" ELSE "failed") /\ entry'[a].at = entry[a].at
        BY <1>5, <3>1
      <4>2. a \in shownNow
        BY <2>3, <4>0
      <4>3. shown'[a] = entry[a].payload
        BY <1>2, <4>2 DEF shownNow
      <4>1. a \in shownNow /\ shown'[a] = entry[a].payload /\ entry'[a].at = entry[a].at
        BY <4>0, <4>2, <4>3
      <4> QED
        BY <1>1, <1>4, <3>1, <4>1 DEF Coherent
    <3>2. CASE a \notin pending
      BY <1>1, <1>2, <1>5, <2>3, <3>2 DEF Coherent
    <3> QED
      BY <3>1, <3>2
  <2> QED
    BY <1>2, <2>1, <2>2, <2>3 DEF Coherent, Honest
<1>11. Once' /\ Travelling'
  <2>1. \A a \in Asset : entry'[a].state \in {"queued", "loading"} <=> entry[a].state \in {"queued", "loading"}
    BY <1>4, <1>5
  <2> QED
    BY <1>1, <1>2, <2>1, QuietStep
<1> QED
  BY <1>8, <1>10, <1>11 DEF IInv

\* What has changed is settled, so nobody holds it, and is queued once.
LEMMA ReloadStep ==
  ASSUME IInv, NEW due \in BOOLEAN, ReloadChanged(due)
  PROVE  IInv'
<1> DEFINE changed == {a \in Asset : due /\ Changed(a)}
<1>1. Typed /\ Coherent /\ Once /\ Travelling
  BY DEF IInv
<1>2. /\ entry' = [a \in Asset |-> IF a \in changed THEN [entry[a] EXCEPT !.state = "queued"] ELSE entry[a]]
      /\ \E order \in Orders(changed) : jobs' = jobs \o order
      /\ hand' \in {hand, NotifyAll}
      /\ UNCHANGED <<file, artifacts, raced, shown, finished>>
  BY DEF ReloadChanged
<1>3. PICK order \in Orders(changed) : jobs' = jobs \o order
  BY <1>2
<1>4. /\ changed \subseteq Asset
      /\ \A a \in changed : entry[a].state \in {"ready", "failed"}
  BY DEF Changed, Settled
<1> HIDE DEF changed
<1>5. PICK n : /\ order \in [1 .. n -> changed] /\ n = Cardinality(changed)
               /\ \A i, j \in 1 .. n : order[i] = order[j] => i = j
               /\ \A a \in changed : \E i \in 1 .. n : order[i] = a
  BY DEF Orders, IsInjective, Range
<1>6. entry \in [Asset -> Entry] /\ jobs \in Seq(Asset) /\ hand \in [AssetWorker -> Hand]
  BY <1>1 DEF Typed
<1>7. /\ entry' \in [Asset -> Entry]
      /\ \A a \in changed : entry'[a].state = "queued"
      /\ \A a \in Asset : a \notin changed => entry'[a] = entry[a]
  <2>1. \A a \in Asset : entry'[a] \in Entry
    BY <1>2, <1>6 DEF Entry, States
  <2> QED
    BY <1>2, <1>4, <1>6, <2>1 DEF Entry
<1>8. hand' \in [AssetWorker -> Hand] /\ \A w \in AssetWorker : hand'[w].asset = hand[w].asset
  BY <1>2, <1>6, WokenKeep
<1>9. \A a \in changed : ~Waiting(a) /\ ~Done(a) /\ ~Held(a)
  BY <1>1, <1>4 DEF Travelling
<1>10. n \in Nat /\ order \in Seq(Asset) /\ Len(order) = n
  <2>1. n \in Nat
    BY <1>4, <1>5, AssetAssumption, FS_Subset, FS_CardinalityType
  <2> QED
    BY <1>4, <1>5, <2>1
<1>11. PICK k \in Nat : /\ DOMAIN jobs = 1 .. k
                        /\ jobs' \in Seq(Asset) /\ DOMAIN jobs' = 1 .. (k + n)
                        /\ \A i \in 1 .. k : jobs'[i] = jobs[i]
                        /\ \A i \in 1 .. n : jobs'[k + i] = order[i]
  <2>1. /\ Len(jobs) \in Nat /\ DOMAIN jobs = 1 .. Len(jobs)
        /\ jobs' \in Seq(Asset) /\ DOMAIN jobs' = 1 .. (Len(jobs) + n)
        /\ \A i \in 1 .. Len(jobs) : jobs'[i] = jobs[i]
        /\ \A i \in 1 .. n : jobs'[Len(jobs) + i] = order[i]
    <3>1. Len(jobs) \in Nat /\ DOMAIN jobs = 1 .. Len(jobs)
      BY <1>6
    <3>2. /\ jobs' \in Seq(Asset) /\ Len(jobs') = Len(jobs) + n
          /\ \A i \in 1 .. (Len(jobs) + n) :
               jobs'[i] = IF i <= Len(jobs) THEN jobs[i] ELSE order[i - Len(jobs)]
      BY <1>3, <1>6, <1>10, ConcatProperties
    <3> QED
      BY <1>10, <3>1, <3>2
  <2> QED
    BY <2>1
<1>12. Typed'
  BY <1>1, <1>2, <1>7, <1>8, <1>11 DEF Typed
<1>13. Coherent'
  BY <1>1, <1>2, <1>4, <1>7 DEF Coherent, Honest
<1>14. \A i \in DOMAIN jobs' : \/ i \in DOMAIN jobs /\ jobs'[i] = jobs[i]
                               \/ /\ i - k \in 1 .. n
                                  /\ jobs'[i] = order[i - k] /\ jobs'[i] \in changed
  <2> SUFFICES ASSUME NEW i \in DOMAIN jobs', i \notin DOMAIN jobs
               PROVE  /\ i - k \in 1 .. n
                      /\ jobs'[i] = order[i - k] /\ jobs'[i] \in changed
    BY <1>11
  <2>1. i \in Nat /\ i - k \in 1 .. n /\ k + (i - k) = i
    BY <1>5, <1>10, <1>11
  <2> QED
    BY <1>5, <1>10, <1>11, <2>1
<1>15. \A a \in Asset : Waiting(a)' <=> Waiting(a) \/ a \in changed
  <2> SUFFICES ASSUME NEW a \in Asset PROVE Waiting(a)' <=> Waiting(a) \/ a \in changed
    OBVIOUS
  <2>1. ASSUME Waiting(a) PROVE Waiting(a)'
    <3>1. PICK i \in DOMAIN jobs : jobs[i] = a
      BY <2>1 DEF Waiting
    <3>2. i \in DOMAIN jobs' /\ jobs'[i] = a
      BY <1>5, <1>10, <1>11, <3>1
    <3> QED
      BY <3>2 DEF Waiting
  <2>2. ASSUME a \in changed PROVE Waiting(a)'
    <3>1. PICK i \in 1 .. n : order[i] = a
      BY <1>5, <1>10, <2>2
    <3>2. k + i \in DOMAIN jobs' /\ jobs'[k + i] = a
      BY <1>5, <1>10, <1>11, <3>1
    <3> QED
      BY <3>2 DEF Waiting
  <2>3. ASSUME Waiting(a)' PROVE Waiting(a) \/ a \in changed
    <3>1. PICK i \in DOMAIN jobs' : jobs'[i] = a
      BY <2>3 DEF Waiting
    <3> QED
      BY <1>14, <3>1 DEF Waiting
  <2> QED
    BY <2>1, <2>2, <2>3
<1>16. \A a : (Done(a)' <=> Done(a)) /\ (Held(a)' <=> Held(a))
  BY <1>2, <1>8 DEF Done, Held
<1>17. Once'
  <2>1. ASSUME NEW i \in DOMAIN jobs', NEW j \in DOMAIN jobs', jobs'[i] = jobs'[j]
        PROVE  i = j
    <3>1. CASE i \in DOMAIN jobs /\ jobs'[i] = jobs[i] /\ j \in DOMAIN jobs /\ jobs'[j] = jobs[j]
      BY <1>1, <2>1, <3>1 DEF Once
    <3>2. CASE i \in DOMAIN jobs /\ jobs'[i] = jobs[i] /\ jobs'[j] \in changed
      BY <1>9, <2>1, <3>2 DEF Waiting
    <3>3. CASE j \in DOMAIN jobs /\ jobs'[j] = jobs[j] /\ jobs'[i] \in changed
      BY <1>9, <2>1, <3>3 DEF Waiting
    <3>4. CASE /\ i - k \in 1 .. n /\ jobs'[i] = order[i - k]
               /\ j - k \in 1 .. n /\ jobs'[j] = order[j - k]
      <4>1. i - k = j - k
        BY <1>5, <1>10, <2>1, <3>4
      <4>2. i \in Int /\ j \in Int
        BY <1>11
      <4> QED
        BY <1>11, <4>1, <4>2
    <3> QED
      BY <1>14, <3>1, <3>2, <3>3, <3>4
  <2>2. /\ \A i, j \in DOMAIN finished' : finished'[i].asset = finished'[j].asset => i = j
        /\ \A v, w \in AssetWorker : hand'[v].asset \in Asset /\ hand'[v].asset = hand'[w].asset => v = w
    BY <1>1, <1>2, <1>8 DEF Once
  <2>3. \A b \in Asset : ~(Waiting(b) /\ Done(b))' /\ ~(Waiting(b) /\ Held(b))' /\ ~(Done(b) /\ Held(b))'
    BY <1>1, <1>9, <1>15, <1>16 DEF Once
  <2> QED
    BY <2>1, <2>2, <2>3 DEF Once
<1>18. Travelling'
  BY <1>1, <1>7, <1>15, <1>16 DEF Travelling
<1> QED
  BY <1>12, <1>13, <1>17, <1>18 DEF IInv

\* The next run of the program knows of nothing but files and artifacts.
LEMMA BeginStep ==
  ASSUME IInv, Begin
  PROVE  IInv'
<1>1. /\ entry' = [a \in Asset |-> Unloaded] /\ shown' = [a \in Asset |-> Nothing]
      /\ jobs' = <<>> /\ finished' = <<>>
      /\ hand' = [w \in AssetWorker |-> At("looking")]
      /\ UNCHANGED <<file, artifacts, raced>>
  BY DEF Begin
<1>2. Unloaded \in Entry /\ Unloaded.state = "unloaded"
  BY DEF Unloaded, Entry, States, Time
<1>3. At("looking") \in Hand /\ At("looking").asset = Nothing
  BY DEF At, Hand
<1>4. Typed'
  <2>1. jobs' \in Seq(Asset) /\ finished' \in Seq(Completion)
    BY <1>1
  <2>2. entry' \in [Asset -> Entry] /\ shown' \in [Asset -> Time] /\ hand' \in [AssetWorker -> Hand]
    BY <1>1, <1>2, <1>3 DEF Time
  <2> QED
    BY <1>1, <2>1, <2>2 DEF IInv, Typed
<1>5. /\ \A a \in Asset : entry'[a].state = "unloaded"
      /\ \A w \in AssetWorker : hand'[w].asset = Nothing
      /\ DOMAIN jobs' = {} /\ DOMAIN finished' = {}
  BY <1>1, <1>2, <1>3
<1>6. Coherent'
  BY <1>1, <1>5 DEF IInv, Coherent, Honest
<1>7. \A a \in Asset : ~Waiting(a)' /\ ~Done(a)' /\ ~Held(a)'
  BY <1>5, AssetAssumption DEF Waiting, Done, Held
<1>8. Once' /\ Travelling'
  BY <1>5, <1>7, AssetAssumption DEF Once, Travelling
<1> QED
  BY <1>4, <1>6, <1>8 DEF IInv

\* A worker that finds nothing, or is told to stop, has nothing in its hands.
LEMMA LookStep ==
  ASSUME IInv, NEW w \in AssetWorker, Look(w)
  PROVE  IInv'
<1>1. Typed /\ Coherent /\ Once /\ Travelling
  BY DEF IInv
<1>2. /\ entry \in [Asset -> Entry] /\ jobs \in Seq(Asset) /\ hand \in [AssetWorker -> Hand]
      /\ hand[w].at = "looking" /\ UNCHANGED <<file, artifacts, raced, entry, shown, finished>>
  BY <1>1 DEF Typed, Look
<1>3. hand[w].asset = Nothing
  BY <1>2 DEF Hand
<1>4. Coherent'
  BY <1>1, <1>2 DEF Coherent, Honest
<1>5. CASE jobs' = jobs /\ \E place \in {"gone", "asleep"} : hand' = [hand EXCEPT ![w] = At(place)]
  <2>1. \A place \in {"gone", "asleep"} : At(place) \in Hand /\ At(place).asset = Nothing
    BY DEF At, Hand
  <2>2. hand' \in [AssetWorker -> Hand] /\ \A v \in AssetWorker : hand'[v].asset = hand[v].asset
    BY <1>2, <1>3, <1>5, <2>1
  <2>3. Typed'
    BY <1>1, <1>2, <1>5, <2>2 DEF Typed
  <2>4. Once' /\ Travelling'
    BY <1>1, <1>2, <1>5, <2>2, QuietStep
  <2> QED
    BY <1>4, <2>3, <2>4 DEF IInv
<1>6. CASE /\ jobs # <<>> /\ jobs' = Tail(jobs)
           /\ hand' = [hand EXCEPT ![w] = [At("marking") EXCEPT !.asset = Head(jobs)]]
  <2> DEFINE a == jobs[1]
             n == Len(jobs)
             h == [At("marking") EXCEPT !.asset = a]
  <2>1. /\ n \in Nat /\ n > 0 /\ DOMAIN jobs = 1 .. n /\ Head(jobs) = a /\ a \in Asset
        /\ jobs' \in Seq(Asset) /\ DOMAIN jobs' = 1 .. (n - 1)
        /\ \A i \in 1 .. (n - 1) : jobs'[i] = jobs[i + 1]
    BY <1>2, <1>6
  <2>2. h \in Hand /\ h.asset = a
    BY <2>1 DEF At, Hand
  <2> HIDE DEF h
  <2>3. /\ hand' \in [AssetWorker -> Hand] /\ hand'[w].asset = a
        /\ \A v \in AssetWorker : v # w => hand'[v] = hand[v]
    <3>1. hand' = [hand EXCEPT ![w] = h]
      BY <1>6, <2>1 DEF h
    <3> QED
      BY <1>2, <2>2, <3>1
  <2>4. Typed'
    BY <1>1, <1>2, <2>1, <2>3 DEF Typed
  <2>5. Waiting(a) /\ ~Done(a) /\ ~Held(a)
    BY <1>1, <2>1 DEF Waiting, Once
  <2>6. \A b \in Asset : Waiting(b)' <=> Waiting(b) /\ b # a
    <3> SUFFICES ASSUME NEW b \in Asset PROVE Waiting(b)' <=> Waiting(b) /\ b # a
      OBVIOUS
    <3>1. ASSUME Waiting(b)' PROVE Waiting(b) /\ b # a
      <4>1. PICK i \in 1 .. (n - 1) : jobs'[i] = b
        BY <2>1, <3>1 DEF Waiting
      <4>2. i + 1 \in 1 .. n /\ jobs[i + 1] = b /\ i + 1 # 1 /\ 1 \in 1 .. n
        BY <2>1, <4>1
      <4>3. b # a
        BY <1>1, <2>1, <4>2 DEF Once
      <4> QED
        BY <2>1, <4>2, <4>3 DEF Waiting
    <3>2. ASSUME Waiting(b), b # a PROVE Waiting(b)'
      <4>1. PICK i \in 1 .. n : jobs[i] = b
        BY <2>1, <3>2 DEF Waiting
      <4>2. i - 1 \in 1 .. (n - 1) /\ (i - 1) + 1 = i
        BY <2>1, <3>2, <4>1
      <4>3. jobs'[i - 1] = b
        BY <2>1, <4>1, <4>2
      <4> QED
        BY <2>1, <4>2, <4>3 DEF Waiting
    <3> QED
      BY <3>1, <3>2
  <2>7. \A b \in Asset : Held(b)' <=> Held(b) \/ b = a
    BY <1>3, <2>3, AssetAssumption DEF Held
  <2>8. \A b \in Asset : Done(b)' <=> Done(b)
    BY <1>2 DEF Done
  <2>9. Once'
    <3>1. ASSUME NEW i \in DOMAIN jobs', NEW j \in DOMAIN jobs', jobs'[i] = jobs'[j]
          PROVE  i = j
      <4>1. i + 1 \in 1 .. n /\ j + 1 \in 1 .. n /\ jobs[i + 1] = jobs[j + 1] /\ i \in Int /\ j \in Int
        BY <2>1, <3>1
      <4>2. i + 1 = j + 1
        BY <1>1, <2>1, <4>1 DEF Once
      <4> QED
        BY <4>1, <4>2
    <3>2. ASSUME NEW u \in AssetWorker, NEW v \in AssetWorker,
                 hand'[u].asset \in Asset, hand'[u].asset = hand'[v].asset
          PROVE  u = v
      BY <1>1, <2>3, <2>5, <3>2 DEF Once, Held
    <3>3. \A b \in Asset : ~(Waiting(b) /\ Done(b))' /\ ~(Waiting(b) /\ Held(b))' /\ ~(Done(b) /\ Held(b))'
      BY <1>1, <2>5, <2>6, <2>7, <2>8 DEF Once
    <3> QED
      BY <1>1, <1>2, <3>1, <3>2, <3>3 DEF Once
  <2>10. Travelling'
    BY <1>1, <1>2, <2>5, <2>6, <2>7, <2>8 DEF Travelling
  <2> QED
    BY <1>4, <2>4, <2>9, <2>10 DEF IInv
<1> QED
  BY <1>5, <1>6 DEF Look

\* What is decoded is of the content read, or of an artifact under that very
\* time; whether the time is the content's is what raced notes.
LEMMA DecodeStep ==
  ASSUME IInv, NEW w \in AssetWorker, NEW works \in BOOLEAN, Decode(w, works)
  PROVE  IInv'
<1> DEFINE a == hand[w].asset
           content == hand[w].read
           time == file[a].version
           hit == Hit(a, time)
           version == IF hit = {} THEN content.version ELSE (CHOOSE k \in hit : TRUE).version
           c == [asset |-> a, good |-> content.good \/ hit # {}, version |-> version, time |-> time]
           n == Len(finished)
<1>1. Typed /\ Coherent /\ Once /\ Travelling
  BY DEF IInv
<1>2. /\ hand[w].at = "dating" /\ finished' = Append(finished, c)
      /\ artifacts' = IF hit = {} THEN Stored(a, time, content, works) ELSE artifacts
      /\ raced' = IF time = content.version THEN raced ELSE raced \cup {<<a, time>>}
      /\ hand' = [hand EXCEPT ![w] = At("looking")]
      /\ UNCHANGED <<file, entry, shown, jobs>>
  BY DEF Decode
<1>3. /\ file \in [Asset -> File] /\ artifacts \subseteq Artifact /\ finished \in Seq(Completion)
      /\ hand \in [AssetWorker -> Hand]
  BY <1>1 DEF Typed
<1>4. a \in Asset /\ content \in File /\ hand[w] \in Hand
  BY <1>2, <1>3, HandIs
<1>5. time \in Nat /\ content.version \in Nat /\ content.good \in BOOLEAN
  BY <1>3, <1>4 DEF File
<1>6. hit \subseteq artifacts /\ \A k \in hit : k.key = <<a, time>> /\ k \in Artifact
  BY <1>3 DEF Hit, Kept, KeyOf
<1>7. hit # {} => (CHOOSE k \in hit : TRUE) \in hit
  OBVIOUS
<1> HIDE DEF hit
<1>8. version \in Nat
  <2>1. CASE hit = {}
    BY <1>5, <2>1
  <2>2. CASE hit # {}
    <3>1. (CHOOSE k \in hit : TRUE) \in Artifact
      BY <1>6, <1>7, <2>2
    <3>2. \A k \in Artifact : k.version \in Nat
      BY DEF Artifact
    <3> QED
      BY <2>2, <3>1, <3>2
  <2> QED
    BY <2>1, <2>2
<1>9. /\ version = time \/ <<a, time>> \in raced'
      /\ \A b, v, t : Honest(b, v, t) => v = t \/ <<b, t>> \in raced'
  <2>1. raced \subseteq raced'
    BY <1>2
  <2>2. version = time \/ <<a, time>> \in raced'
    <3>1. CASE hit = {}
      BY <1>2, <3>1
    <3>2. CASE hit # {}
      <4>1. PICK k \in hit : version = k.version
        BY <1>7, <3>2
      <4>2. k.key[1] = a /\ k.key[2] = time /\ Honest(k.key[1], k.version, k.key[2])
        BY <1>1, <1>6 DEF Coherent
      <4> QED
        BY <2>1, <4>1, <4>2 DEF Honest
    <3> QED
      BY <3>1, <3>2
  <2> QED
    BY <2>1, <2>2 DEF Honest
<1>10. c \in Completion /\ c.asset = a /\ c.version = version /\ c.time = time
  BY <1>4, <1>5, <1>8 DEF Completion
<1>11. artifacts' \subseteq Artifact
       /\ \A k \in artifacts' : k \in artifacts \/ (k.key = <<a, time>> /\ k.version = content.version)
  <2>1. CASE hit # {}
    BY <1>2, <1>3, <2>1
  <2>2. CASE hit = {}
    <3> DEFINE new == [key |-> KeyOf(a, time), version |-> content.version, whole |-> TRUE]
    <3>1. new \in Artifact /\ new.key = <<a, time>> /\ new.version = content.version
      BY <1>4, <1>5 DEF Artifact, KeyOf
    <3>2. artifacts' = Stored(a, time, content, works)
      BY <1>2, <2>2
    <3>3. artifacts' \subseteq artifacts \cup {new}
      BY <3>2 DEF Stored
    <3> QED
      BY <1>3, <3>1, <3>3
  <2> QED
    BY <2>1, <2>2
<1> HIDE DEF c, version, time, content, a
<1>12. /\ n \in Nat /\ finished' \in Seq(Completion)
       /\ DOMAIN finished = 1 .. n /\ DOMAIN finished' = 1 .. (n + 1) /\ finished'[n + 1] = c
       /\ \A i \in 1 .. n : finished'[i] = finished[i]
  BY <1>2, <1>3, <1>10
<1> HIDE DEF n
<1>13. At("looking") \in Hand /\ At("looking").asset = Nothing
  BY DEF At, Hand
<1>14. /\ hand' \in [AssetWorker -> Hand] /\ hand'[w].asset = Nothing
       /\ \A v \in AssetWorker : v # w => hand'[v] = hand[v]
  BY <1>2, <1>3, <1>13
<1>15. Typed'
  BY <1>1, <1>2, <1>11, <1>12, <1>14 DEF Typed
<1>16. Coherent'
  <2>1. \A b, v, t : Honest(b, v, t) => v = t \/ <<b, t>> \in raced'
    BY <1>9
  <2>2. version = time \/ <<a, time>> \in raced'
    BY <1>9
  <2>3. ASSUME NEW k \in artifacts'
        PROVE  k.version = k.key[2] \/ <<k.key[1], k.key[2]>> \in raced'
    <3>1. CASE k \in artifacts
      BY <1>1, <2>1, <3>1 DEF Coherent
    <3>2. CASE k.key = <<a, time>> /\ k.version = content.version
      BY <1>2, <3>2
    <3> QED
      BY <1>11, <3>1, <3>2
  <2>4. ASSUME NEW i \in DOMAIN finished', finished'[i].good
        PROVE  finished'[i].version = finished'[i].time \/ <<finished'[i].asset, finished'[i].time>> \in raced'
    <3>1. CASE i \in 1 .. n
      BY <1>1, <1>12, <2>1, <2>4, <3>1 DEF Coherent
    <3>2. CASE i = n + 1
      BY <1>10, <1>12, <2>2, <3>2
    <3> QED
      BY <1>12, <3>1, <3>2
  <2>5. \A b \in Asset : entry'[b].state = "decoded" =>
          entry'[b].payload = entry'[b].at \/ <<b, entry'[b].at>> \in raced'
    BY <1>1, <1>2, <2>1 DEF Coherent
  <2>6. \A b \in Asset : entry'[b].state = "ready" =>
          shown'[b] = entry'[b].at \/ <<b, entry'[b].at>> \in raced'
    BY <1>1, <1>2, <2>1 DEF Coherent
  <2> QED
    BY <2>3, <2>4, <2>5, <2>6 DEF Coherent, Honest
<1>17. Held(a) /\ ~Waiting(a) /\ ~Done(a) /\ hand[w].asset = a
  BY <1>1, <1>4 DEF Once, Held, a
<1>18. \A b \in Asset : Done(b)' <=> Done(b) \/ b = a
  <2> SUFFICES ASSUME NEW b \in Asset PROVE Done(b)' <=> Done(b) \/ b = a
    OBVIOUS
  <2>1. ASSUME Done(b) PROVE Done(b)'
    <3>1. PICK i \in 1 .. n : finished[i].asset = b
      BY <1>12, <2>1 DEF Done
    <3>2. i \in DOMAIN finished' /\ finished'[i].asset = b
      BY <1>12, <3>1
    <3> QED
      BY <3>2 DEF Done
  <2>2. ASSUME b = a PROVE Done(b)'
    <3>1. n + 1 \in DOMAIN finished' /\ finished'[n + 1].asset = b
      BY <1>10, <1>12, <2>2
    <3> QED
      BY <3>1 DEF Done
  <2>3. ASSUME Done(b)' PROVE Done(b) \/ b = a
    <3>1. PICK i \in DOMAIN finished' : finished'[i].asset = b
      BY <2>3 DEF Done
    <3>2. CASE i \in 1 .. n
      BY <1>12, <3>1, <3>2 DEF Done
    <3>3. CASE i = n + 1
      BY <1>10, <1>12, <3>1, <3>3
    <3> QED
      BY <1>12, <3>2, <3>3
  <2> QED
    BY <2>1, <2>2, <2>3
<1>19. \A b \in Asset : Held(b)' <=> Held(b) /\ b # a
  <2> SUFFICES ASSUME NEW b \in Asset PROVE Held(b)' <=> Held(b) /\ b # a
    OBVIOUS
  <2>1. ASSUME Held(b)' PROVE Held(b) /\ b # a
    <3>1. PICK v \in AssetWorker : hand'[v].asset = b
      BY <2>1 DEF Held
    <3>2. v # w /\ hand[v].asset = b
      BY <1>14, <3>1, AssetAssumption
    <3>3. b # a
      BY <1>1, <1>4, <1>17, <3>2 DEF Once
    <3> QED
      BY <3>2, <3>3 DEF Held
  <2>2. ASSUME Held(b), b # a PROVE Held(b)'
    <3>1. PICK v \in AssetWorker : hand[v].asset = b
      BY <2>2 DEF Held
    <3>2. v # w
      BY <1>17, <2>2, <3>1
    <3> QED
      BY <1>14, <3>1, <3>2 DEF Held
  <2> QED
    BY <2>1, <2>2
<1>20. \A b \in Asset : Waiting(b)' <=> Waiting(b)
  BY <1>2 DEF Waiting
<1>21. Once'
  <2>1. ASSUME NEW i \in DOMAIN finished', NEW j \in DOMAIN finished',
               finished'[i].asset = finished'[j].asset
        PROVE  i = j
    <3>1. \A k \in 1 .. n : finished'[k].asset # a /\ finished'[k] = finished[k]
      BY <1>12, <1>17 DEF Done
    <3>2. CASE i \in 1 .. n /\ j \in 1 .. n
      BY <1>1, <1>12, <2>1, <3>2 DEF Once
    <3>3. CASE ~(i \in 1 .. n /\ j \in 1 .. n)
      BY <1>10, <1>12, <2>1, <3>1, <3>3
    <3> QED
      BY <3>2, <3>3
  <2>2. ASSUME NEW u \in AssetWorker, NEW v \in AssetWorker,
               hand'[u].asset \in Asset, hand'[u].asset = hand'[v].asset
        PROVE  u = v
    <3>1. u # w /\ v # w
      BY <1>14, <2>2, AssetAssumption
    <3> QED
      BY <1>1, <1>14, <2>2, <3>1 DEF Once
  <2>3. \A b \in Asset : ~(Waiting(b) /\ Done(b))' /\ ~(Waiting(b) /\ Held(b))' /\ ~(Done(b) /\ Held(b))'
    BY <1>1, <1>17, <1>18, <1>19, <1>20 DEF Once
  <2> QED
    BY <1>1, <1>2, <2>1, <2>2, <2>3 DEF Once
<1>22. Travelling'
  BY <1>1, <1>2, <1>17, <1>18, <1>19, <1>20 DEF Travelling
<1> QED
  BY <1>15, <1>16, <1>21, <1>22 DEF IInv

\* Steps that move no asset: quitting, marking, reading, and what happens to the
\* files and artifacts outside the program.
LEMMA QuietSteps ==
  ASSUME IInv, \/ Quit
               \/ \E w \in AssetWorker : Mark(w) \/ ReadContent(w)
               \/ \E a \in Asset, good \in BOOLEAN : Write(a, good)
               \/ \E k \in artifacts : Spoil(k)
               \/ UNCHANGED assetVars
  PROVE  IInv'
<1>1. Typed /\ Coherent /\ Once /\ Travelling
  BY DEF IInv
<1>2. /\ file \in [Asset -> File] /\ artifacts \subseteq Artifact /\ entry \in [Asset -> Entry]
      /\ hand \in [AssetWorker -> Hand]
  BY <1>1 DEF Typed
<1>3. CASE Quit
  <2>1. UNCHANGED <<file, artifacts, raced, entry, shown, jobs, finished>> /\ hand' = NotifyAll
    BY <1>3 DEF Quit
  <2>2. hand' \in [AssetWorker -> Hand] /\ \A w \in AssetWorker : hand'[w].asset = hand[w].asset
    BY <1>2, <2>1, WokenKeep
  <2>3. Typed' /\ Coherent'
    BY <1>1, <2>1, <2>2 DEF Typed, Coherent, Honest
  <2> QED
    BY <1>1, <2>1, <2>2, <2>3, QuietStep DEF IInv
<1>4. ASSUME NEW w \in AssetWorker, Mark(w)
      PROVE  IInv'
  <2>1. /\ hand[w].at = "marking" /\ entry' = [entry EXCEPT ![hand[w].asset].state = "loading"]
        /\ hand' = [hand EXCEPT ![w].at = "reading"]
        /\ UNCHANGED <<file, artifacts, raced, shown, jobs, finished>>
    BY <1>4 DEF Mark
  <2>2. hand[w].asset \in Asset /\ Held(hand[w].asset)
    BY <1>2, <2>1, HandIs DEF Held
  <2>3. /\ entry' \in [Asset -> Entry] /\ entry'[hand[w].asset].state = "loading"
        /\ \A a \in Asset : a # hand[w].asset => entry'[a] = entry[a]
    BY <1>2, <2>1, <2>2 DEF Entry, States
  <2>4. hand' \in [AssetWorker -> Hand] /\ \A v \in AssetWorker : hand'[v].asset = hand[v].asset
    BY <1>2, <2>1 DEF Hand
  <2>5. Typed'
    BY <1>1, <2>1, <2>3, <2>4 DEF Typed
  <2>6. Coherent'
    BY <1>1, <2>1, <2>2, <2>3 DEF Coherent, Honest
  <2>7. \A a \in Asset : entry'[a].state \in {"queued", "loading"} <=> entry[a].state \in {"queued", "loading"}
    BY <1>1, <2>2, <2>3 DEF Travelling
  <2>8. Once' /\ Travelling'
    BY <1>1, <2>1, <2>4, <2>7, QuietStep
  <2> QED
    BY <2>5, <2>6, <2>8 DEF IInv
<1>5. ASSUME NEW w \in AssetWorker, ReadContent(w)
      PROVE  IInv'
  <2>1. /\ hand[w].at = "reading"
        /\ hand' = [hand EXCEPT ![w].at = "dating", ![w].read = file[hand[w].asset]]
        /\ UNCHANGED <<file, artifacts, raced, entry, shown, jobs, finished>>
    BY <1>5 DEF ReadContent
  <2>2. hand[w].asset \in Asset /\ file[hand[w].asset] \in File
    BY <1>2, <2>1, HandIs
  <2>3. hand' \in [AssetWorker -> Hand] /\ \A v \in AssetWorker : hand'[v].asset = hand[v].asset
    BY <1>2, <2>1, <2>2 DEF Hand
  <2>4. Typed' /\ Coherent'
    BY <1>1, <2>1, <2>3 DEF Typed, Coherent, Honest
  <2> QED
    BY <1>1, <2>1, <2>3, <2>4, QuietStep DEF IInv
<1>6. ASSUME NEW a \in Asset, NEW good \in BOOLEAN, Write(a, good)
      PROVE  IInv'
  <2>1. /\ file' = [file EXCEPT ![a] = [version |-> file[a].version + 1, good |-> good]]
        /\ UNCHANGED <<artifacts, raced, entry, shown, jobs, finished, hand>>
    BY <1>6 DEF Write
  <2>2. file' \in [Asset -> File]
    BY <1>2, <2>1 DEF File
  <2>3. Typed' /\ Coherent'
    BY <1>1, <2>1, <2>2 DEF Typed, Coherent, Honest
  <2> QED
    BY <1>1, <2>1, <2>3, QuietStep DEF IInv
<1>7. ASSUME NEW k \in artifacts, Spoil(k)
      PROVE  IInv'
  <2> DEFINE spoilt == [k EXCEPT !.whole = FALSE]
  <2>1. /\ artifacts' = (artifacts \ {k}) \cup {spoilt}
        /\ UNCHANGED <<file, raced, entry, shown, jobs, finished, hand>>
    BY <1>7 DEF Spoil
  <2>2. spoilt \in Artifact /\ spoilt.key = k.key /\ spoilt.version = k.version
    BY <1>2 DEF Artifact
  <2> HIDE DEF spoilt
  <2>3. Typed' /\ Coherent'
    BY <1>1, <2>1, <2>2 DEF Typed, Coherent, Honest
  <2> QED
    BY <1>1, <2>1, <2>3, QuietStep DEF IInv
<1>8. CASE UNCHANGED assetVars
  BY <1>8 DEF IInv, Typed, Coherent, Honest, Once, Travelling, Waiting, Done, Held, assetVars
<1> QED
  BY <1>3, <1>4, <1>5, <1>6, <1>7, <1>8

------------------------------------------------------------------------------
\* In the beginning nothing has been asked for.
LEMMA InitOfInvariant == AssetInit => IInv
<1> SUFFICES ASSUME AssetInit PROVE IInv
  OBVIOUS
<1>1. /\ file = [a \in Asset |-> [version |-> 0, good |-> TRUE]]
      /\ artifacts = {} /\ entry = [a \in Asset |-> Unloaded] /\ shown = [a \in Asset |-> Nothing]
      /\ jobs = <<>> /\ finished = <<>> /\ hand = [w \in AssetWorker |-> At("looking")]
  BY DEF AssetInit
<1>2. Unloaded \in Entry /\ Unloaded.state = "unloaded" /\ At("looking") \in Hand /\ At("looking").asset = Nothing
  BY DEF Unloaded, Entry, States, Time, At, Hand
<1>3. Typed
  <2>1. jobs \in Seq(Asset) /\ finished \in Seq(Completion)
    BY <1>1
  <2>2. file \in [Asset -> File]
    BY <1>1 DEF File
  <2>3. entry \in [Asset -> Entry] /\ shown \in [Asset -> Time] /\ hand \in [AssetWorker -> Hand]
    BY <1>1, <1>2 DEF Time
  <2> QED
    BY <1>1, <2>1, <2>2, <2>3 DEF Typed
<1>4. /\ \A a \in Asset : entry[a].state = "unloaded"
      /\ \A w \in AssetWorker : hand[w].asset = Nothing
      /\ DOMAIN jobs = {} /\ DOMAIN finished = {}
  BY <1>1, <1>2
<1>5. \A a \in Asset : ~Waiting(a) /\ ~Done(a) /\ ~Held(a)
  BY <1>4, AssetAssumption DEF Waiting, Done, Held
<1>6. Coherent /\ Once /\ Travelling
  BY <1>1, <1>4, <1>5, AssetAssumption DEF Coherent, Once, Travelling
<1> QED
  BY <1>3, <1>6 DEF IInv

\* No step of the program, its workers, or the world around it breaks the invariant.
LEMMA NextKeepsInvariant == IInv /\ [AssetNext]_assetVars => IInv'
<1> SUFFICES ASSUME IInv, [AssetNext]_assetVars PROVE IInv'
  OBVIOUS
<1>1. CASE Frame
  BY <1>1, PumpStep, FinaliseStep, ReloadStep DEF Frame
<1>2. CASE \E a \in Asset : Request(a)
  BY <1>2, RequestStep
<1>3. CASE Begin
  BY <1>3, BeginStep
<1>4. CASE \E w \in AssetWorker : Work(w)
  BY <1>4, LookStep, DecodeStep, QuietSteps DEF Work
<1>5. CASE \/ Quit
           \/ \E a \in Asset, good \in BOOLEAN : Write(a, good)
           \/ \E k \in artifacts : Spoil(k)
           \/ UNCHANGED assetVars
  BY <1>5, QuietSteps
<1> QED
  BY <1>1, <1>2, <1>3, <1>4, <1>5 DEF AssetNext

\* At most one index of each kind, of at most one kind, make the count.
LEMMA InvariantIsCoherent == IInv => AssetsCoherent
<1> SUFFICES ASSUME IInv PROVE AssetsCoherent
  OBVIOUS
<1>1. Coherent /\ Once /\ Travelling
  BY DEF IInv
<1>2. \A a \in Asset : entry[a].state = "ready" => shown[a] = entry[a].at \/ <<a, entry[a].at>> \in raced
  BY <1>1 DEF Coherent, Honest
<1>3. ASSUME NEW a \in Asset
      PROVE  Carried(a) = IF entry[a].state \in {"queued", "loading"} THEN 1 ELSE 0
  <2> DEFINE J == {i \in DOMAIN jobs : jobs[i] = a}
             F == {i \in DOMAIN finished : finished[i].asset = a}
             H == {w \in AssetWorker : hand[w].asset = a}
  <2>1. /\ IF Waiting(a) THEN \E i : J = {i} ELSE J = {}
        /\ IF Done(a) THEN \E i : F = {i} ELSE F = {}
        /\ IF Held(a) THEN \E w : H = {w} ELSE H = {}
    <3>1. ASSUME Waiting(a) PROVE \E i : J = {i}
      BY <1>1, <3>1 DEF Once, Waiting
    <3>2. ASSUME Done(a) PROVE \E i : F = {i}
      BY <1>1, <3>2 DEF Once, Done
    <3>3. ASSUME Held(a) PROVE \E w : H = {w}
      BY <1>1, <3>3 DEF Once, Held
    <3> QED
      BY <3>1, <3>2, <3>3 DEF Waiting, Done, Held
  <2>2. /\ Cardinality(J) = IF Waiting(a) THEN 1 ELSE 0
        /\ Cardinality(F) = IF Done(a) THEN 1 ELSE 0
        /\ Cardinality(H) = IF Held(a) THEN 1 ELSE 0
    <3> HIDE DEF J, F, H
    <3> QED
      BY <2>1, FS_EmptySet, FS_Singleton
  <2>3. ~(Waiting(a) /\ Done(a)) /\ ~(Waiting(a) /\ Held(a)) /\ ~(Done(a) /\ Held(a))
    BY <1>1 DEF Once
  <2>4. entry[a].state \in {"queued", "loading"} <=> Waiting(a) \/ Done(a) \/ Held(a)
    BY <1>1 DEF Travelling
  <2>5. Carried(a) = Cardinality(J) + Cardinality(F) + Cardinality(H)
    BY DEF Carried
  <2> HIDE DEF J, F, H
  <2> QED
    BY <2>2, <2>3, <2>4, <2>5
<1> QED
  BY <1>2, <1>3 DEF AssetsCoherent

\* Whatever is written, spoilt, requested, reloaded and refused, and however the
\* workers interleave: a ready texture is of the content its entry's time names,
\* or the file was written between the two reads; and an asset is in exactly one
\* place of queue, hands and completions while its entry says so.
THEOREM AssetsStayCoherent == AssetSpec => []AssetsCoherent
<1>1. AssetSpec => []IInv
  BY InitOfInvariant, NextKeepsInvariant, PTL DEF AssetSpec
<1> QED
  BY <1>1, InvariantIsCoherent, PTL

(* The graphics device.                                                    *)
\* The hypothesis of the theorem: fewer objects are made than a slot has
\* generations (2^32 - 1), so that no handle is given out twice.
Lasts == MaxMade + 1 < Generations

Slot == [value : Nat \cup {NoObject}, generation : Nat]
PoolOf == [slots : Seq(Slot), free : Seq(Nat)]

Purpose == [what : {"resource", "staging", "target"}, frame : Nat]
Settlement == {"open", "submitted", "cancelled"}
Ending == {"begun", "finished", "captured", "uncaptured", "abandoned"}

DeviceTyped ==
  /\ made \in Nat /\ made <= MaxMade
  /\ pool \in [Kind -> PoolOf]
  /\ commands \in Seq(Settlement)
  /\ open \in {NoObject, Shut} \cup OpenFrame
  /\ purpose \in Seq(Purpose) /\ Len(purpose) = made
  /\ ending \in Seq(Ending) /\ Len(ending) = Len(commands)

\* A slot had as many generations as it held objects, which were all made; what
\* is free holds nothing, and is free once.
Pooled ==
  \A k \in Kind :
    /\ \A i \in DOMAIN pool[k].slots :
         \/ pool[k].slots[i].value = NoObject /\ pool[k].slots[i].generation <= made + 1
         \/ pool[k].slots[i].value \in 1 .. made /\ pool[k].slots[i].generation <= made
    /\ \A n \in DOMAIN pool[k].free :
         pool[k].free[n] \in DOMAIN pool[k].slots /\ pool[k].slots[pool[k].free[n]].value = NoObject
    /\ \A n, m \in DOMAIN pool[k].free : pool[k].free[n] = pool[k].free[m] => n = m

\* A handle is of a generation its slot had; while it is that of today, the slot
\* holds what the handle was given out for.
Handed ==
  \A h \in DOMAIN issued :
    /\ h.kind \in Kind /\ h.generation \in Nat /\ issued[h] \in 1 .. made
    /\ h.index \in DOMAIN pool[h.kind].slots
    /\ h.generation <= pool[h.kind].slots[h.index].generation
    /\ h.generation = pool[h.kind].slots[h.index].generation =>
         pool[h.kind].slots[h.index].value = issued[h]

\* No object is in two slots.
Single ==
  \A k, l \in Kind : \A i \in DOMAIN pool[k].slots, j \in DOMAIN pool[l].slots :
    pool[k].slots[i].value = pool[l].slots[j].value /\ pool[k].slots[i].value # NoObject => k = l /\ i = j

\* Staging memory is of one buffer, which is in the pool.
Apart ==
  /\ \A b, c \in DOMAIN staging : staging[b] = staging[c] => b = c
  /\ \A b \in DOMAIN staging : BufferInPool(b)

\* Each object is held as what it was made for, and so in one place at most; a
\* target was made for a frame that there is or was.
Named ==
  /\ \A object \in InPool : purpose[object].what = "resource"
  /\ \A object \in Staged : object \in 1 .. made /\ purpose[object].what = "staging"
  /\ \A object \in PassTarget :
       object \in 1 .. made /\ purpose[object] = [what |-> "target", frame |-> open.commands]
  /\ \A object \in 1 .. made : purpose[object].what = "target" => purpose[object].frame \in DOMAIN ending

\* What is alive, if it is not held, is what the destructor left of a buffer or an
\* abandoned frame left of its capture.
Accounted ==
  \A object \in live :
    /\ purpose[object].what = "resource" => object \in InPool
    /\ purpose[object].what = "staging" => object \in Staged \/ open = Shut
    /\ purpose[object].what = "target" =>
         object \in PassTarget \/ ending[purpose[object].frame] = "abandoned"

Balanced ==
  ~misused /\ live \subseteq 1 .. made /\ InPool \cup Staged \cup PassTarget \subseteq live /\ Accounted

\* The one command buffer that is open and not of a failed capture is that of the
\* frame, and a frame has a texture to be captured from only while a capture is
\* wanted.
OneOpen ==
  /\ \A c \in DOMAIN commands :
       commands[c] = "open" => (open \in OpenFrame /\ open.commands = c) \/ ending[c] = "uncaptured"
  /\ open \in OpenFrame =>
       /\ open.commands \in DOMAIN commands /\ commands[open.commands] = "open"
       /\ ending[open.commands] = "begun"
       /\ open.target # NoTarget => capturing

DeviceInv == DeviceTyped /\ Pooled /\ Handed /\ Single /\ Apart /\ Named /\ Balanced /\ OneOpen

\* What a pool is made of.
LEMMA SlotsAre ==
  ASSUME DeviceTyped, NEW k \in Kind
  PROVE  /\ pool[k].slots \in Seq(Slot) /\ pool[k].free \in Seq(Nat)
         /\ \A i \in DOMAIN pool[k].slots : i \in Nat /\ pool[k].slots[i] \in Slot /\ pool[k].slots[i].generation \in Nat
<1>1. pool[k] \in PoolOf
  BY DEF DeviceTyped
<1>2. pool[k].slots \in Seq(Slot) /\ pool[k].free \in Seq(Nat)
  BY <1>1 DEF PoolOf
<1>3. \A i \in DOMAIN pool[k].slots : i \in Nat /\ pool[k].slots[i] \in Slot
  BY <1>2
<1>4. \A i \in DOMAIN pool[k].slots : pool[k].slots[i].generation \in Nat
  BY <1>3 DEF Slot
<1> QED
  BY <1>2, <1>3, <1>4

\* What a slot holds is in the pool, and was made.
LEMMA InPoolIs ==
  ASSUME DeviceTyped, Pooled
  PROVE  /\ \A k \in Kind : \A i \in DOMAIN pool[k].slots :
              pool[k].slots[i].value # NoObject => pool[k].slots[i].value \in InPool
         /\ \A object \in InPool :
              \E k \in Kind : \E i \in DOMAIN pool[k].slots : object = pool[k].slots[i].value
         /\ InPool \subseteq 1 .. made
<1>1. \A object : object \in InPool <=>
        object # NoObject /\ \E k \in Kind : \E i \in DOMAIN pool[k].slots : object = pool[k].slots[i].value
  BY DEF InPool
<1>2. InPool \subseteq 1 .. made
  BY <1>1 DEF Pooled
<1> QED
  BY <1>1, <1>2

\* A handle that finds something finds what it was given out for, alive.
LEMMA ResolvedIsHeld ==
  ASSUME DeviceInv, NEW h \in DOMAIN issued, Resolves(h)
  PROVE  /\ Resolved(h) = issued[h] /\ Resolved(h) \in InPool /\ Resolved(h) \in live
         /\ Resolved(h) = pool[h.kind].slots[h.index].value
         /\ h.kind \in Kind /\ h.index \in DOMAIN pool[h.kind].slots
<1>1. /\ h.kind \in Kind /\ h.index \in DOMAIN pool[h.kind].slots
      /\ h.generation = pool[h.kind].slots[h.index].generation
      /\ pool[h.kind].slots[h.index].value # NoObject
      /\ Resolved(h) = pool[h.kind].slots[h.index].value
      /\ pool[h.kind].slots[h.index].value = issued[h]
  BY DEF DeviceInv, Handed, Resolves, Resolved
<1>2. Resolved(h) \in InPool
  BY <1>1, InPoolIs DEF DeviceInv
<1>3. Resolved(h) \in live
  BY <1>2 DEF DeviceInv, Balanced
<1> QED
  BY <1>1, <1>2, <1>3

\* What inserting does to a pool p, giving q and the handle h: one slot holds the object, at the generation
\* of the handle; the slot was free, or is new.
Occupied(p, q, h, object) ==
  /\ q \in PoolOf /\ h.generation \in Nat
  /\ h.index \in DOMAIN q.slots /\ DOMAIN q.slots = DOMAIN p.slots \cup {h.index}
  /\ q.slots[h.index].value = object /\ q.slots[h.index].generation = h.generation
  /\ \A i \in DOMAIN p.slots : i # h.index => q.slots[i] = p.slots[i]
  /\ IF h.index \in DOMAIN p.slots
     THEN p.slots[h.index].value = NoObject /\ p.slots[h.index].generation = h.generation
     ELSE h.generation = 1
  /\ \A n \in DOMAIN q.free : n \in DOMAIN p.free /\ q.free[n] = p.free[n] /\ q.free[n] # h.index

\* HandlePool::insert.
LEMMA InsertedIs ==
  ASSUME DeviceInv, NEW kind \in Kind, NEW object \in Nat, NEW p, p = pool[kind],
         NEW q, q = Inserted(p, object), NEW h, h = InsertedAt(kind)
  PROVE  h.kind = kind /\ Occupied(p, q, h, object)
<1>1. p.slots \in Seq(Slot) /\ p.free \in Seq(Nat)
  BY DEF DeviceInv, DeviceTyped, PoolOf
<1>2. CASE p.free = <<>>
  <2>1. /\ q = [slots |-> Append(p.slots, [value |-> object, generation |-> 1]), free |-> <<>>]
        /\ h = [kind |-> kind, index |-> Len(p.slots) + 1, generation |-> 1]
    BY <1>2 DEF Inserted, InsertedAt
  <2>2. [value |-> object, generation |-> 1] \in Slot
    BY DEF Slot
  <2>3. /\ q.slots \in Seq(Slot) /\ Len(q.slots) = Len(p.slots) + 1
        /\ \A i \in 1 .. Len(p.slots) : q.slots[i] = p.slots[i]
        /\ q.slots[Len(p.slots) + 1] = [value |-> object, generation |-> 1]
    BY <1>1, <2>1, <2>2
  <2>4. DOMAIN p.slots = 1 .. Len(p.slots) /\ DOMAIN q.slots = 1 .. Len(q.slots) /\ Len(p.slots) \in Nat
    BY <1>1, <2>3
  <2>5. q.free \in Seq(Nat) /\ DOMAIN q.free = {}
    BY <2>1
  <2>6. q \in PoolOf
    BY <2>1, <2>3, <2>5 DEF PoolOf
  <2> QED
    BY <2>1, <2>3, <2>4, <2>5, <2>6 DEF Occupied
<1>3. CASE p.free # <<>>
  <2> DEFINE l == p.free[Len(p.free)]
  <2>1. /\ q = [slots |-> [p.slots EXCEPT ![l].value = object], free |-> SubSeq(p.free, 1, Len(p.free) - 1)]
        /\ h = [kind |-> kind, index |-> l, generation |-> p.slots[l].generation]
    BY <1>3 DEF Inserted, InsertedAt, Last, Front
  <2>2. Len(p.free) \in Nat \ {0} /\ DOMAIN p.free = 1 .. Len(p.free)
    BY <1>1, <1>3, EmptySeq
  <2>3. l \in DOMAIN p.slots /\ p.slots[l].value = NoObject
    BY <2>2 DEF DeviceInv, Pooled
  <2>4. p.slots[l] \in Slot
    BY <1>1, <2>3
  <2> HIDE DEF l
  <2>5. /\ q.slots \in Seq(Slot) /\ DOMAIN q.slots = DOMAIN p.slots
        /\ q.slots[l] = [p.slots[l] EXCEPT !.value = object]
        /\ \A i \in DOMAIN p.slots : i # l => q.slots[i] = p.slots[i]
    <3>1. [p.slots[l] EXCEPT !.value = object] \in Slot
      BY <2>4 DEF Slot
    <3>2. q.slots = [p.slots EXCEPT ![l] = [p.slots[l] EXCEPT !.value = object]]
      BY <2>1
    <3> QED
      BY <1>1, <2>3, <3>1, <3>2
  <2>6. q.slots[l].value = object /\ q.slots[l].generation = p.slots[l].generation
    BY <2>4, <2>5 DEF Slot
  <2>7. /\ q.free \in Seq(Nat) /\ DOMAIN q.free = 1 .. (Len(p.free) - 1)
        /\ \A n \in 1 .. (Len(p.free) - 1) : q.free[n] = p.free[n]
    <3>1. /\ SubSeq(p.free, 1, Len(p.free) - 1) \in Seq(Nat)
          /\ Len(SubSeq(p.free, 1, Len(p.free) - 1)) = Len(p.free) - 1
          /\ \A n \in 1 .. (Len(p.free) - 1) : SubSeq(p.free, 1, Len(p.free) - 1)[n] = p.free[n]
      BY <1>1, <2>2, SubSeqProperties
    <3> QED
      BY <2>1, <2>2, <3>1
  <2>8. \A n \in DOMAIN q.free : n \in DOMAIN p.free /\ q.free[n] = p.free[n] /\ q.free[n] # l
    <3> SUFFICES ASSUME NEW n \in DOMAIN q.free
                 PROVE  n \in DOMAIN p.free /\ q.free[n] = p.free[n] /\ q.free[n] # l
      OBVIOUS
    <3>0. n \in 1 .. (Len(p.free) - 1)
      BY <2>7
    <3>1. n \in 1 .. Len(p.free) /\ n # Len(p.free)
      BY <2>2, <3>0
    <3>3. n \in DOMAIN p.free /\ q.free[n] = p.free[n]
      BY <2>2, <2>7, <3>0, <3>1
    <3>2. Len(p.free) \in DOMAIN p.free
      BY <2>2
    <3> QED
      BY <3>1, <3>2, <3>3 DEF l, DeviceInv, Pooled
  <2>9. q \in PoolOf
    BY <2>1, <2>5, <2>7 DEF PoolOf
  <2>10. p.slots[l].generation \in Nat
    BY <2>4 DEF Slot
  <2> QED
    BY <2>1, <2>3, <2>5, <2>6, <2>8, <2>9, <2>10 DEF Occupied
<1> QED
  BY <1>2, <1>3

\* What removing does: the slot is empty, under its next generation, and free.
Emptied(p, q, i) ==
  /\ q \in PoolOf /\ DOMAIN q.slots = DOMAIN p.slots
  /\ q.slots[i].value = NoObject /\ q.slots[i].generation = p.slots[i].generation + 1
  /\ \A j \in DOMAIN p.slots : j # i => q.slots[j] = p.slots[j]
  /\ \A n \in DOMAIN q.free :
       \/ n \in DOMAIN p.free /\ q.free[n] = p.free[n] /\ q.free[n] # i
       \/ n = Len(p.free) + 1 /\ n \notin DOMAIN p.free /\ q.free[n] = i

\* HandlePool::destroy.
LEMMA RemovedIs ==
  ASSUME DeviceInv, Lasts, NEW kind \in Kind, NEW p, p = pool[kind], NEW i \in DOMAIN p.slots,
         p.slots[i].value # NoObject, NEW q, q = Removed(p, i)
  PROVE  Emptied(p, q, i)
<1>1. p.slots \in Seq(Slot) /\ p.free \in Seq(Nat)
  BY DEF DeviceInv, DeviceTyped, PoolOf
<1>2. p.slots[i] \in Slot /\ i \in Nat
  BY <1>1
<1>3. p.slots[i].generation \in Nat /\ p.slots[i].generation <= made
  BY <1>2 DEF DeviceInv, DeviceTyped, Pooled, Slot
<1>4. NextGeneration(p.slots[i].generation) = p.slots[i].generation + 1
  BY <1>3, LimitAssumption DEF NextGeneration, Lasts, DeviceInv, DeviceTyped
<1>5. q = [slots |-> [p.slots EXCEPT ![i] = [value |-> NoObject, generation |-> p.slots[i].generation + 1]],
           free |-> Append(p.free, i)]
  BY <1>4 DEF Removed
<1>6. [value |-> NoObject, generation |-> p.slots[i].generation + 1] \in Slot
  BY <1>3 DEF Slot
<1>7. /\ q.slots \in Seq(Slot) /\ DOMAIN q.slots = DOMAIN p.slots
      /\ q.slots[i] = [value |-> NoObject, generation |-> p.slots[i].generation + 1]
      /\ \A j \in DOMAIN p.slots : j # i => q.slots[j] = p.slots[j]
  BY <1>1, <1>5, <1>6
<1>8. /\ q.free \in Seq(Nat) /\ Len(q.free) = Len(p.free) + 1 /\ Len(p.free) \in Nat
      /\ DOMAIN q.free = 1 .. (Len(p.free) + 1) /\ DOMAIN p.free = 1 .. Len(p.free)
      /\ q.free[Len(p.free) + 1] = i
      /\ \A n \in 1 .. Len(p.free) : q.free[n] = p.free[n]
  <2>1. q.free = Append(p.free, i)
    BY <1>5
  <2> QED
    BY <1>1, <1>2, <2>1
<1>9. \A n \in DOMAIN p.free : p.free[n] # i
  BY DEF DeviceInv, Pooled
<1>10. q \in PoolOf
  BY <1>5, <1>7, <1>8 DEF PoolOf
<1>11. q.slots[i].value = NoObject /\ q.slots[i].generation = p.slots[i].generation + 1
  BY <1>7
<1>12. ASSUME NEW n \in DOMAIN q.free
       PROVE  \/ n \in DOMAIN p.free /\ q.free[n] = p.free[n] /\ q.free[n] # i
              \/ n = Len(p.free) + 1 /\ n \notin DOMAIN p.free /\ q.free[n] = i
  <2>1. n \in 1 .. (Len(p.free) + 1) /\ Len(p.free) \in Nat
    BY <1>8
  <2>2. n \in 1 .. Len(p.free) \/ (n = Len(p.free) + 1 /\ n \notin 1 .. Len(p.free))
    BY <2>1
  <2> QED
    BY <1>8, <1>9, <2>2
<1> QED
  BY <1>7, <1>10, <1>11, <1>12 DEF Emptied

\* While the slots and the handles stay, an object more may be made.
LEMMA PoolStays ==
  ASSUME DeviceInv, UNCHANGED <<pool, issued>>, made' \in Nat, made <= made', made' <= MaxMade
  PROVE  Pooled' /\ Handed' /\ Single' /\ InPool' = InPool
<1>0. made \in Nat /\ \A k \in Kind : \A i \in DOMAIN pool[k].slots : pool[k].slots[i].generation \in Nat
  BY SlotsAre DEF DeviceInv, DeviceTyped
<1>1. Pooled'
  BY <1>0 DEF DeviceInv, Pooled
<1>2. Handed'
  BY <1>0 DEF DeviceInv, Handed
<1>3. Single' /\ InPool' = InPool
  BY DEF DeviceInv, Single, InPool
<1> QED
  BY <1>1, <1>2, <1>3

\* What a buffer is streamed through is of a buffer that is an object.
LEMMA StagedIsHeld ==
  ASSUME DeviceInv, NEW b \in DOMAIN staging
  PROVE  b \in InPool /\ b # NoObject
<1>1. PICK i \in DOMAIN pool["buffer"].slots : pool["buffer"].slots[i].value = b /\ b # NoObject
  BY DEF DeviceInv, Apart, BufferInPool
<1> QED
  BY <1>1, KindAssumption, InPoolIs DEF DeviceInv

\* While the slots, the frame and what is staged stay, so do what they are held by.
LEMMA HeldStays ==
  ASSUME DeviceInv, UNCHANGED <<pool, issued, staging>>, made' \in Nat, made <= made', made' <= MaxMade
  PROVE  Pooled' /\ Handed' /\ Single' /\ Apart' /\ InPool' = InPool /\ Staged' = Staged
<1>1. Pooled' /\ Handed' /\ Single' /\ InPool' = InPool
  BY PoolStays
<1>2. Apart' /\ Staged' = Staged
  BY DEF DeviceInv, Apart, Staged, BufferInPool
<1> QED
  BY <1>1, <1>2

\* A step that neither makes nor gives back, and uses only what is alive.
LEMMA IdleStep ==
  ASSUME DeviceInv, UNCHANGED <<pool, issued, staging, open, made, live, commands, purpose, ending>>, ~misused',
         capturing => capturing'
  PROVE  DeviceInv'
<1>1. Pooled' /\ Handed' /\ Single' /\ Apart' /\ InPool' = InPool /\ Staged' = Staged
  BY HeldStays DEF DeviceInv, DeviceTyped
<1>2. DeviceTyped' /\ OneOpen'
  BY DEF DeviceInv, DeviceTyped, OneOpen
<1>3. PassTarget' = PassTarget
  BY DEF PassTarget
<1>4. Named' /\ Balanced'
  BY <1>1, <1>3 DEF DeviceInv, Named, Balanced, Accounted
<1> QED
  BY <1>1, <1>2, <1>4 DEF DeviceInv

\* Where nothing is made, what each object was made for stays; one that is made
\* comes after all the others.
LEMMA MakeIs ==
  ASSUME DeviceInv, made < MaxMade, NEW what \in {"resource", "staging", "target"}, NEW frame \in Nat,
         Make(what, frame)
  PROVE  /\ made \in Nat /\ made' = made + 1 /\ made' \in Nat /\ made' <= MaxMade /\ made + 1 \in 1 .. made'
         /\ live' = live \cup {made + 1} /\ 1 .. made' = 1 .. made \cup {made + 1}
         /\ made + 1 \notin 1 .. made /\ made + 1 # NoObject
         /\ purpose' \in Seq(Purpose) /\ Len(purpose') = made'
         /\ purpose'[made + 1] = [what |-> what, frame |-> frame]
         /\ \A object \in 1 .. made : purpose'[object] = purpose[object]
<1>1. made \in Nat /\ MaxMade \in Nat /\ purpose \in Seq(Purpose) /\ Len(purpose) = made
  BY LimitAssumption DEF DeviceInv, DeviceTyped
<1>2. /\ made' = made + 1 /\ live' = live \cup {made + 1}
      /\ purpose' = Append(purpose, [what |-> what, frame |-> frame])
  BY DEF Make
<1>3. [what |-> what, frame |-> frame] \in Purpose
  BY DEF Purpose
<1>4. /\ purpose' \in Seq(Purpose) /\ Len(purpose') = made + 1
      /\ purpose'[made + 1] = [what |-> what, frame |-> frame]
      /\ \A object \in 1 .. made : purpose'[object] = purpose[object]
  BY <1>1, <1>2, <1>3
<1>5. /\ made + 1 \in Nat /\ made + 1 <= MaxMade /\ made + 1 \notin 1 .. made
      /\ 1 .. (made + 1) = 1 .. made \cup {made + 1} /\ made + 1 # NoObject
  BY <1>1, NoObjectAssumption
<1> QED
  BY <1>1, <1>2, <1>4, <1>5

\* An object is made and put into a slot, and its handle is new.
LEMMA CreateStep ==
  ASSUME DeviceInv, NEW kind \in Kind, NEW outcome, CreateObject(kind, outcome)
  PROVE  DeviceInv'
<1>1. CASE outcome = "works"
  <2>0. PICK new, p, q, h :
          new = made + 1 /\ p = pool[kind] /\ q = Inserted(p, new) /\ h = InsertedAt(kind)
    OBVIOUS
  <2>1. made \in Nat /\ new \in Nat /\ made + 1 <= MaxMade /\ MaxMade \in Nat
    BY <2>0, LimitAssumption DEF DeviceInv, DeviceTyped, CreateObject
  <2>2. /\ q \in PoolOf /\ h.kind = kind /\ h.generation \in Nat
        /\ h.index \in DOMAIN q.slots /\ DOMAIN q.slots = DOMAIN p.slots \cup {h.index}
        /\ q.slots[h.index].value = made + 1 /\ q.slots[h.index].generation = h.generation
        /\ \A i \in DOMAIN p.slots : i # h.index => q.slots[i] = p.slots[i]
        /\ IF h.index \in DOMAIN p.slots
           THEN p.slots[h.index].value = NoObject /\ p.slots[h.index].generation = h.generation
           ELSE h.generation = 1
        /\ \A n \in DOMAIN q.free :
             n \in DOMAIN p.free /\ q.free[n] = p.free[n] /\ q.free[n] # h.index
    <3>1. h.kind = kind /\ Occupied(p, q, h, new)
      BY <2>0, <2>1, InsertedIs
    <3> QED
      BY <2>0, <3>1 DEF Occupied
  <2>3. h \notin DOMAIN issued
    BY <2>0, <2>2, NoObjectAssumption DEF DeviceInv, Handed
  <2>4. /\ made' = made + 1 /\ live' = live \cup {made + 1}
        /\ pool' = [pool EXCEPT ![kind] = q] /\ issued' = With(issued, h, made + 1)
        /\ UNCHANGED <<staging, open, capturing, commands, misused, ending>>
        /\ made < MaxMade /\ Make("resource", 0)
    BY <1>1, <2>0, <2>3 DEF CreateObject, Make, NoFrame
  <2>18. /\ made \in Nat /\ 1 .. made' = 1 .. made \cup {made + 1} /\ made + 1 \notin 1 .. made
         /\ purpose' \in Seq(Purpose) /\ Len(purpose') = made'
         /\ purpose'[made + 1].what = "resource"
         /\ \A object \in 1 .. made : purpose'[object] = purpose[object]
    <3>1. 0 \in Nat /\ "resource" \in {"resource", "staging", "target"}
      OBVIOUS
    <3>2. /\ made \in Nat /\ 1 .. made' = 1 .. made \cup {made + 1} /\ made + 1 \notin 1 .. made
          /\ purpose' \in Seq(Purpose) /\ Len(purpose') = made'
          /\ purpose'[made + 1] = [what |-> "resource", frame |-> 0]
          /\ \A object \in 1 .. made : purpose'[object] = purpose[object]
      BY <2>4, <3>1, MakeIs
    <3> QED
      BY <3>2
  <2>5. pool'[kind] = q /\ \A k \in Kind : k # kind => pool'[k] = pool[k]
    BY <2>4 DEF DeviceInv, DeviceTyped
  <2>6. DeviceTyped'
    BY <2>1, <2>2, <2>4, <2>18 DEF DeviceInv, DeviceTyped
  <2>7. Pooled'
    <3>1. ASSUME NEW k \in Kind, NEW i \in DOMAIN pool'[k].slots
          PROVE  \/ pool'[k].slots[i].value = NoObject /\ pool'[k].slots[i].generation <= made + 2
                 \/ pool'[k].slots[i].value \in 1 .. (made + 1) /\ pool'[k].slots[i].generation <= made + 1
      <4>1. CASE k = kind /\ i = h.index
        <5>1. h.generation <= made + 1
          BY <2>0, <2>1, <2>2 DEF DeviceInv, Pooled
        <5> QED
          BY <2>1, <2>2, <2>5, <4>1, <5>1
      <4>2. CASE ~(k = kind /\ i = h.index)
        <5>1. i \in DOMAIN pool[k].slots /\ pool'[k].slots[i] = pool[k].slots[i]
          BY <2>0, <2>2, <2>5, <4>2
        <5>2. pool[k].slots[i].generation \in Nat
          BY <5>1, SlotsAre DEF DeviceInv
        <5> QED
          BY <2>1, <5>1, <5>2 DEF DeviceInv, Pooled
      <4> QED
        BY <4>1, <4>2
    <3>2. ASSUME NEW k \in Kind, NEW n \in DOMAIN pool'[k].free
          PROVE  /\ n \in DOMAIN pool[k].free /\ pool'[k].free[n] = pool[k].free[n]
                 /\ pool'[k].free[n] \in DOMAIN pool'[k].slots
                 /\ pool'[k].slots[pool'[k].free[n]].value = NoObject
      <4>1. n \in DOMAIN pool[k].free /\ pool'[k].free[n] = pool[k].free[n]
        BY <2>0, <2>2, <2>5
      <4>2. pool[k].free[n] \in DOMAIN pool[k].slots /\ pool[k].slots[pool[k].free[n]].value = NoObject
        BY <4>1 DEF DeviceInv, Pooled
      <4> QED
        BY <2>0, <2>2, <2>5, <4>1, <4>2
    <3>3. \A k \in Kind : \A n, m \in DOMAIN pool'[k].free : pool'[k].free[n] = pool'[k].free[m] => n = m
      BY <3>2 DEF DeviceInv, Pooled
    <3>4. made' = made + 1 /\ made' + 1 = made + 2
      BY <2>1, <2>4
    <3> QED
      BY <3>1, <3>2, <3>3, <3>4 DEF Pooled
  <2>8. Handed'
    <3> SUFFICES ASSUME NEW g \in DOMAIN issued'
                 PROVE  /\ g.kind \in Kind /\ g.generation \in Nat /\ issued'[g] \in 1 .. (made + 1)
                        /\ g.index \in DOMAIN pool'[g.kind].slots
                        /\ g.generation <= pool'[g.kind].slots[g.index].generation
                        /\ g.generation = pool'[g.kind].slots[g.index].generation =>
                             pool'[g.kind].slots[g.index].value = issued'[g]
      BY <2>4 DEF Handed
    <3>1. CASE g = h
      <4>1. issued'[g] = made + 1
        BY <2>4, <3>1 DEF With
      <4> QED
        BY <2>1, <2>2, <2>5, <3>1, <4>1
    <3>2. CASE g # h
      <4>1. g \in DOMAIN issued /\ issued'[g] = issued[g]
        BY <2>4, <3>2 DEF With
      <4>2. /\ g.kind \in Kind /\ g.generation \in Nat /\ issued[g] \in 1 .. made
            /\ g.index \in DOMAIN pool[g.kind].slots
            /\ g.generation <= pool[g.kind].slots[g.index].generation
            /\ g.generation = pool[g.kind].slots[g.index].generation =>
                 pool[g.kind].slots[g.index].value = issued[g]
        BY <4>1 DEF DeviceInv, Handed
      <4>3. CASE g.kind = kind /\ g.index = h.index
        <5>1. g.generation # h.generation
          BY <2>0, <2>2, <4>2, <4>3, NoObjectAssumption
        <5> QED
          BY <2>0, <2>1, <2>2, <2>5, <4>1, <4>2, <4>3, <5>1
      <4>4. CASE ~(g.kind = kind /\ g.index = h.index)
        <5>1. /\ g.index \in DOMAIN pool'[g.kind].slots
              /\ pool'[g.kind].slots[g.index] = pool[g.kind].slots[g.index]
          BY <2>0, <2>2, <2>5, <4>2, <4>4
        <5> QED
          BY <2>1, <4>1, <4>2, <5>1
      <4> QED
        BY <4>3, <4>4
    <3> QED
      BY <3>1, <3>2
  <2>9. \A k \in Kind : \A i \in DOMAIN pool'[k].slots :
          IF k = kind /\ i = h.index THEN pool'[k].slots[i].value = made + 1
          ELSE /\ i \in DOMAIN pool[k].slots /\ pool'[k].slots[i].value = pool[k].slots[i].value
               /\ pool[k].slots[i].value # made + 1
    <3>1. \A k \in Kind : \A i \in DOMAIN pool[k].slots : pool[k].slots[i].value # made + 1
      BY <2>1, NoObjectAssumption DEF DeviceInv, Pooled
    <3> QED
      BY <2>0, <2>2, <2>5, <3>1
  <2>10. Single'
    BY <2>9 DEF DeviceInv, Single
  <2>11. InPool' = InPool \cup {made + 1}
    <3>1. \A object : object \in InPool' <=>
            object # NoObject /\ \E k \in Kind : \E i \in DOMAIN pool'[k].slots : object = pool'[k].slots[i].value
      BY DEF InPool
    <3>2. \A object : object \in InPool <=>
            object # NoObject /\ \E k \in Kind : \E i \in DOMAIN pool[k].slots : object = pool[k].slots[i].value
      BY DEF InPool
    <3>3. made + 1 # NoObject /\ h.index \in DOMAIN pool'[kind].slots
      BY <2>1, <2>2, <2>5, NoObjectAssumption
    <3>4. \A object \in InPool' : object \in InPool \cup {made + 1}
      BY <2>9, <3>1, <3>2
    <3>5. \A object \in InPool : object \in InPool'
      <4> SUFFICES ASSUME NEW object \in InPool PROVE object \in InPool'
        OBVIOUS
      <4>1. PICK k \in Kind : \E i \in DOMAIN pool[k].slots : object = pool[k].slots[i].value
        BY <3>2
      <4>2. PICK i \in DOMAIN pool[k].slots : object = pool[k].slots[i].value
        BY <4>1
      <4>3. object # NoObject
        BY <3>2
      <4>4. ~(k = kind /\ i = h.index)
        BY <2>0, <2>2, <4>2, <4>3
      <4>5. i \in DOMAIN pool'[k].slots
        BY <2>0, <2>2, <2>5
      <4> QED
        BY <2>9, <3>1, <4>2, <4>3, <4>4, <4>5
    <3>6. made + 1 \in InPool'
      BY <2>9, <3>1, <3>3
    <3> QED
      BY <3>4, <3>5, <3>6
  <2>12. Staged' = Staged /\ PassTarget' = PassTarget
    BY <2>4 DEF Staged, PassTarget
  <2>13. InPool \subseteq 1 .. made /\ Staged \subseteq 1 .. made /\ PassTarget \subseteq 1 .. made /\ live \subseteq 1 .. made
    BY InPoolIs DEF DeviceInv, Named, Balanced
  <2>14. Apart'
    <3>1. \A b \in DOMAIN staging : BufferInPool(b)'
      <4> SUFFICES ASSUME NEW b \in DOMAIN staging PROVE BufferInPool(b)'
        OBVIOUS
      <4>1. PICK i \in DOMAIN pool["buffer"].slots : pool["buffer"].slots[i].value = b /\ b # NoObject
        BY DEF DeviceInv, Apart, BufferInPool
      <4>3. ~("buffer" = kind /\ i = h.index)
        BY <2>0, <2>2, <4>1
      <4>4. i \in DOMAIN pool'["buffer"].slots
        BY <2>0, <2>2, <2>5, KindAssumption
      <4>5. pool'["buffer"].slots[i].value = b
        BY <2>9, <4>1, <4>3, <4>4, KindAssumption
      <4> QED
        BY <4>1, <4>4, <4>5 DEF BufferInPool
    <3> QED
      BY <2>4, <3>1 DEF DeviceInv, Apart
  <2>15. Named'
    BY <2>4, <2>11, <2>12, <2>13, <2>18 DEF DeviceInv, Named
  <2>16. Balanced'
    <3>1. live' \subseteq 1 .. made' /\ InPool' \cup Staged' \cup PassTarget' \subseteq live' /\ ~misused'
      BY <2>4, <2>11, <2>12, <2>13, <2>18 DEF DeviceInv, Balanced
    <3>2. Accounted'
      BY <2>4, <2>11, <2>12, <2>13, <2>18 DEF DeviceInv, Balanced, Accounted
    <3> QED
      BY <3>1, <3>2 DEF Balanced
  <2>17. OneOpen'
    BY <2>4 DEF DeviceInv, OneOpen
  <2> QED
    BY <2>6, <2>7, <2>8, <2>10, <2>14, <2>15, <2>16, <2>17 DEF DeviceInv
<1>2. CASE outcome # "works"
  <2>1. UNCHANGED <<pool, issued, staging, open, capturing, made, live, commands, misused, purpose, ending>>
    BY <1>2 DEF CreateObject, MakeNone
  <2>2. ~misused'
    BY <2>1 DEF DeviceInv, Balanced
  <2> QED
    BY <2>1, <2>2, IdleStep
<1> QED
  BY <1>1, <1>2

\* An object is taken out of its slot and given back, with the memory it was
\* streamed through.
LEMMA DestroyStep ==
  ASSUME DeviceInv, Lasts, NEW h \in DOMAIN issued, NEW kept, NEW objects, DestroyTo(h, kept, objects),
         \A b \in DOMAIN kept : b \in DOMAIN staging /\ kept[b] = staging[b],
         h.kind = "buffer" => Resolved(h) \notin DOMAIN kept,
         objects = {Resolved(h)} \cup {staging[b] : b \in DOMAIN staging \ DOMAIN kept}
  PROVE  DeviceInv'
<1>0. PICK kind, i, p, q, gone :
        /\ kind = h.kind /\ i = h.index /\ gone = Resolved(h)
        /\ p = pool[kind] /\ q = Removed(p, i)
  OBVIOUS
<1>1. /\ kind \in Kind /\ i \in DOMAIN p.slots
      /\ gone \in InPool /\ gone = p.slots[i].value /\ gone # NoObject
  <2>1. Resolves(h)
    BY DEF DestroyTo
  <2>2. gone \in InPool /\ gone = p.slots[i].value /\ kind \in Kind /\ i \in DOMAIN p.slots
    BY <1>0, <2>1, ResolvedIsHeld
  <2> QED
    BY <2>2 DEF InPool
<1>2. Emptied(p, q, i)
  BY <1>0, <1>1, RemovedIs
<1>3. /\ live' = live \ objects /\ pool' = [pool EXCEPT ![kind] = q] /\ staging' = kept
      /\ misused' = (misused \/ ~ \A object \in objects : MayRelease(object))
      /\ open # Shut /\ UNCHANGED <<issued, open, capturing, made, commands, purpose, ending>>
  BY <1>0 DEF DestroyTo
<1>4. pool'[kind] = q /\ \A k \in Kind : k # kind => pool'[k] = pool[k]
  BY <1>1, <1>3 DEF DeviceInv, DeviceTyped
<1>5. DeviceTyped'
  BY <1>1, <1>2, <1>3 DEF DeviceInv, DeviceTyped, Emptied
<1>6. made \in Nat /\ \A k \in Kind : \A j \in DOMAIN pool[k].slots : pool[k].slots[j].generation \in Nat
  BY SlotsAre DEF DeviceInv, DeviceTyped
<1>8. \A k \in Kind : DOMAIN pool'[k].slots = DOMAIN pool[k].slots
  BY <1>0, <1>2, <1>4 DEF Emptied
<1>7. \A k \in Kind : \A j \in DOMAIN pool'[k].slots :
        /\ j \in DOMAIN pool[k].slots
        /\ IF k = kind /\ j = i
           THEN /\ pool'[k].slots[j].value = NoObject
                /\ pool'[k].slots[j].generation = pool[k].slots[j].generation + 1
           ELSE pool'[k].slots[j] = pool[k].slots[j]
  <2> SUFFICES ASSUME NEW k \in Kind, NEW j \in DOMAIN pool[k].slots
               PROVE  IF k = kind /\ j = i
                      THEN /\ pool'[k].slots[j].value = NoObject
                           /\ pool'[k].slots[j].generation = pool[k].slots[j].generation + 1
                      ELSE pool'[k].slots[j] = pool[k].slots[j]
    BY <1>8
  <2>1. CASE k # kind
    BY <1>4, <2>1
  <2>2. CASE k = kind /\ j = i
    BY <1>0, <1>2, <1>4, <2>2 DEF Emptied
  <2>3. CASE k = kind /\ j # i
    BY <1>0, <1>2, <1>4, <2>3 DEF Emptied
  <2> QED
    BY <2>1, <2>2, <2>3
<1>9. Pooled'
  <2>1. ASSUME NEW k \in Kind, NEW j \in DOMAIN pool'[k].slots
        PROVE  \/ pool'[k].slots[j].value = NoObject /\ pool'[k].slots[j].generation <= made + 1
               \/ pool'[k].slots[j].value \in 1 .. made /\ pool'[k].slots[j].generation <= made
    <3>1. \/ pool[k].slots[j].value = NoObject /\ pool[k].slots[j].generation <= made + 1
          \/ pool[k].slots[j].value \in 1 .. made /\ pool[k].slots[j].generation <= made
      <4>1. j \in DOMAIN pool[k].slots
        BY <1>7
      <4> QED
        BY <4>1 DEF DeviceInv, Pooled
    <3>2. pool[k].slots[j].generation \in Nat
      BY <1>6, <1>7
    <3>3. CASE k = kind /\ j = i
      <4>1. pool[k].slots[j].value # NoObject
        BY <1>0, <1>1, <3>3
      <4>2. pool'[k].slots[j].value = NoObject /\ pool'[k].slots[j].generation = pool[k].slots[j].generation + 1
        BY <1>7, <3>3
      <4> QED
        BY <1>6, <3>1, <3>2, <4>1, <4>2
    <3>4. CASE ~(k = kind /\ j = i)
      <4>1. pool'[k].slots[j] = pool[k].slots[j]
        BY <1>7, <3>4
      <4> QED
        BY <3>1, <4>1
    <3> QED
      BY <3>3, <3>4
  <2>2. ASSUME NEW k \in Kind, NEW n \in DOMAIN pool'[k].free
        PROVE  /\ pool'[k].free[n] \in DOMAIN pool'[k].slots
               /\ pool'[k].slots[pool'[k].free[n]].value = NoObject
    <3>1. CASE k = kind /\ q.free[n] = i
      <4>1. pool'[k].free[n] = i /\ i \in DOMAIN pool'[k].slots
        BY <1>0, <1>1, <1>4, <1>8, <3>1
      <4> QED
        BY <1>7, <3>1, <4>1
    <3>2. CASE ~(k = kind /\ q.free[n] = i)
      <4>1. n \in DOMAIN pool[k].free /\ pool'[k].free[n] = pool[k].free[n]
        BY <1>0, <1>2, <1>4, <3>2 DEF Emptied
      <4>2. pool[k].free[n] \in DOMAIN pool[k].slots /\ pool[k].slots[pool[k].free[n]].value = NoObject
        BY <4>1 DEF DeviceInv, Pooled
      <4> QED
        BY <1>7, <1>8, <4>1, <4>2
    <3> QED
      BY <3>1, <3>2
  <2>3. ASSUME NEW k \in Kind, NEW n \in DOMAIN pool'[k].free, NEW m \in DOMAIN pool'[k].free,
               pool'[k].free[n] = pool'[k].free[m]
        PROVE  n = m
    <3>1. CASE k # kind
      BY <1>4, <2>3, <3>1 DEF DeviceInv, Pooled
    <3>2. CASE k = kind
      <4>1. n \in DOMAIN q.free /\ m \in DOMAIN q.free /\ q.free[n] = q.free[m]
        BY <1>4, <2>3, <3>2
      <4>2. CASE q.free[n] = i
        BY <1>2, <4>1, <4>2 DEF Emptied
      <4>3. CASE q.free[n] # i
        <5>1. n \in DOMAIN p.free /\ m \in DOMAIN p.free /\ p.free[n] = p.free[m]
          BY <1>2, <4>1, <4>3 DEF Emptied
        <5> QED
          BY <1>0, <1>1, <5>1 DEF DeviceInv, Pooled
      <4> QED
        BY <4>2, <4>3
    <3> QED
      BY <3>1, <3>2
  <2> QED
    BY <1>3, <2>1, <2>2, <2>3 DEF Pooled
<1>10. Handed'
  <2> SUFFICES ASSUME NEW g \in DOMAIN issued
               PROVE  /\ g.kind \in Kind /\ g.generation \in Nat /\ issued[g] \in 1 .. made
                      /\ g.index \in DOMAIN pool'[g.kind].slots
                      /\ g.generation <= pool'[g.kind].slots[g.index].generation
                      /\ g.generation = pool'[g.kind].slots[g.index].generation =>
                           pool'[g.kind].slots[g.index].value = issued[g]
    BY <1>3 DEF Handed
  <2>1. /\ g.kind \in Kind /\ g.generation \in Nat /\ issued[g] \in 1 .. made
        /\ g.index \in DOMAIN pool[g.kind].slots
        /\ g.generation <= pool[g.kind].slots[g.index].generation
        /\ g.generation = pool[g.kind].slots[g.index].generation =>
             pool[g.kind].slots[g.index].value = issued[g]
    BY DEF DeviceInv, Handed
  <2>2. g.index \in DOMAIN pool'[g.kind].slots
    BY <1>8, <2>1
  <2>3. CASE g.kind = kind /\ g.index = i
    <3>1. pool'[g.kind].slots[g.index].generation = pool[g.kind].slots[g.index].generation + 1
      BY <1>7, <2>1, <2>2, <2>3
    <3> QED
      BY <1>6, <2>1, <2>2, <3>1
  <2>4. CASE ~(g.kind = kind /\ g.index = i)
    <3>1. pool'[g.kind].slots[g.index] = pool[g.kind].slots[g.index]
      BY <1>7, <2>1, <2>2, <2>4
    <3> QED
      BY <2>1, <2>2, <3>1
  <2> QED
    BY <2>3, <2>4
<1>11. Single'
  BY <1>7 DEF DeviceInv, Single
<1>12. InPool' = InPool \ {gone}
  <2>1. \A object : object \in InPool' <=>
          object # NoObject /\ \E k \in Kind : \E j \in DOMAIN pool'[k].slots : object = pool'[k].slots[j].value
    BY DEF InPool
  <2>2. \A object : object \in InPool <=>
          object # NoObject /\ \E k \in Kind : \E j \in DOMAIN pool[k].slots : object = pool[k].slots[j].value
    BY DEF InPool
  <2>3. ASSUME NEW object \in InPool' PROVE object \in InPool /\ object # gone
    <3>1. PICK k \in Kind : object # NoObject /\ \E j \in DOMAIN pool'[k].slots : object = pool'[k].slots[j].value
      BY <2>1
    <3>2. PICK j \in DOMAIN pool'[k].slots : object = pool'[k].slots[j].value
      BY <3>1
    <3>3. ~(k = kind /\ j = i) /\ j \in DOMAIN pool[k].slots /\ object = pool[k].slots[j].value
      <4>1. ~(k = kind /\ j = i)
        BY <1>7, <3>1, <3>2
      <4> QED
        BY <1>7, <3>2, <4>1
    <3>4. object # gone
      <4>1. i \in DOMAIN pool[kind].slots /\ pool[kind].slots[i].value = gone /\ gone # NoObject
        BY <1>0, <1>1
      <4>2. \A l \in Kind : \A m \in DOMAIN pool[l].slots :
              pool[l].slots[m].value = gone => l = kind /\ m = i
        BY <1>1, <4>1 DEF DeviceInv, Single
      <4> QED
        BY <3>3, <4>2
    <3> QED
      BY <2>2, <3>1, <3>3, <3>4
  <2>4. ASSUME NEW object \in InPool, object # gone PROVE object \in InPool'
    <3>1. PICK k \in Kind : object # NoObject /\ \E j \in DOMAIN pool[k].slots : object = pool[k].slots[j].value
      BY <2>2
    <3>2. PICK j \in DOMAIN pool[k].slots : object = pool[k].slots[j].value
      BY <3>1
    <3>3. ~(k = kind /\ j = i)
      BY <1>0, <1>1, <2>4, <3>2
    <3>4. j \in DOMAIN pool'[k].slots /\ object = pool'[k].slots[j].value
      BY <1>7, <1>8, <3>2, <3>3
    <3> QED
      BY <2>1, <3>1, <3>4
  <2> QED
    BY <2>3, <2>4
<1>13. PassTarget' = PassTarget
  BY <1>3 DEF PassTarget
<1>14. /\ Staged' \subseteq Staged /\ Staged' \cap objects = {} /\ Staged \subseteq Staged' \cup objects
  <2>1. Staged' = {kept[b] : b \in DOMAIN kept}
    BY <1>3 DEF Staged
  <2>2. \A object \in Staged' : object \in Staged /\ object \notin objects
    <3> SUFFICES ASSUME NEW b \in DOMAIN kept PROVE kept[b] \in Staged /\ kept[b] \notin objects
      BY <2>1
    <3>1. b \in DOMAIN staging /\ kept[b] = staging[b] /\ kept[b] \in Staged
      BY DEF Staged
    <3>2. kept[b] # Resolved(h)
      BY <1>0, <1>1, <3>1 DEF DeviceInv, Named
    <3>3. \A c \in DOMAIN staging \ DOMAIN kept : staging[c] # kept[b]
      BY <3>1 DEF DeviceInv, Apart
    <3> QED
      BY <3>1, <3>2, <3>3
  <2>3. \A object \in Staged : object \in Staged' \cup objects
    BY <2>1 DEF Staged
  <2> QED
    BY <2>2, <2>3
<1>15. objects \subseteq {gone} \cup Staged /\ gone \in objects
  BY <1>0 DEF Staged
<1>16. objects \subseteq live
  BY <1>1, <1>15 DEF DeviceInv, Balanced
<1>17. ~misused'
  BY <1>3, <1>16 DEF DeviceInv, Balanced, MayRelease
<1>18. Apart'
  <2>1. \A b, c \in DOMAIN staging' : staging'[b] = staging'[c] => b = c
    BY <1>3 DEF DeviceInv, Apart
  <2>2. ASSUME NEW b \in DOMAIN kept PROVE BufferInPool(b)'
    <3>1. PICK j \in DOMAIN pool["buffer"].slots : pool["buffer"].slots[j].value = b /\ b # NoObject
      BY DEF DeviceInv, Apart, BufferInPool
    <3>2. ~("buffer" = kind /\ j = i)
      BY <1>0, <1>1, <3>1
    <3>3. j \in DOMAIN pool'["buffer"].slots /\ pool'["buffer"].slots[j].value = b
      BY <1>7, <1>8, <3>1, <3>2, KindAssumption
    <3> QED
      BY <3>1, <3>3 DEF BufferInPool
  <2> QED
    BY <1>3, <2>1, <2>2 DEF Apart
<1>21. Named'
  BY <1>3, <1>12, <1>13, <1>14 DEF DeviceInv, Named
<1>19. Balanced'
  <2>1. InPool' \cup Staged' \cup PassTarget' \subseteq live'
    <3>1. InPool \cap Staged = {} /\ InPool \cap PassTarget = {} /\ Staged \cap PassTarget = {}
      BY DEF DeviceInv, Named
    <3> QED
      BY <1>1, <1>3, <1>12, <1>13, <1>14, <1>15, <3>1 DEF DeviceInv, Balanced
  <2>2. live' \subseteq 1 .. made'
    BY <1>3 DEF DeviceInv, Balanced
  <2>3. Accounted'
    BY <1>3, <1>12, <1>13, <1>14, <1>15 DEF DeviceInv, Balanced, Accounted
  <2> QED
    BY <1>17, <2>1, <2>2, <2>3 DEF Balanced
<1>20. OneOpen'
  BY <1>3 DEF DeviceInv, OneOpen
<1> QED
  BY <1>5, <1>9, <1>10, <1>11, <1>18, <1>19, <1>20, <1>21 DEF DeviceInv

\* The handles of every kind; a buffer has memory to be streamed through.
LEMMA DestroySteps ==
  ASSUME DeviceInv, Lasts, NEW h \in DOMAIN issued,
         DestroyBuffer(h) \/ DestroyTexture(h) \/ DestroySampler(h) \/ DestroyShader(h) \/ DestroyPipeline(h)
  PROVE  DeviceInv'
<1>1. CASE DestroyBuffer(h)
  <2> DEFINE kept == Restrict(staging, DOMAIN staging \ {Resolved(h)})
             objects == {Resolved(h)} \cup StagingOf(Resolved(h))
  <2>1. DestroyTo(h, kept, objects)
    BY <1>1 DEF DestroyBuffer
  <2>2. DOMAIN kept = DOMAIN staging \ {Resolved(h)} /\ \A b \in DOMAIN kept : kept[b] = staging[b]
    BY DEF Restrict
  <2>3. /\ objects = {Resolved(h)} \cup {staging[b] : b \in DOMAIN staging \ DOMAIN kept}
        /\ Resolved(h) \notin DOMAIN kept
    BY <2>2 DEF StagingOf
  <2> HIDE DEF kept, objects
  <2> QED
    BY <2>1, <2>2, <2>3, DestroyStep
<1>2. CASE DestroyTexture(h) \/ DestroySampler(h) \/ DestroyShader(h) \/ DestroyPipeline(h)
  <2> DEFINE objects == {Resolved(h)}
  <2>1. DestroyTo(h, staging, objects)
    BY <1>2 DEF DestroyTexture, DestroySampler, DestroyShader, DestroyPipeline
  <2>2. objects = {Resolved(h)} \cup {staging[b] : b \in DOMAIN staging \ DOMAIN staging}
    OBVIOUS
  <2>3. h.kind # "buffer"
    BY <1>2 DEF DestroyTexture, DestroySampler, DestroyShader, DestroyPipeline
  <2> HIDE DEF objects
  <2> QED
    BY <2>1, <2>2, <2>3, DestroyStep
<1> QED
  BY <1>1, <1>2

\* The uploads, what a pass binds, and the wishes and answers kept beside a frame.
LEMMA IdleSteps ==
  ASSUME DeviceInv,
         \/ \E outcome \in Outcome : UploadBuffer(outcome) \/ UploadTexture(outcome) \/ RequestReadback(outcome)
         \/ RequestCapture \/ TakeCapture \/ Bind
         \/ \E t \in DOMAIN tickets : TakeReadback(t) \/ \E mapped \in BOOLEAN : ReadbackReady(t, mapped)
         \/ UNCHANGED deviceVars
  PROVE  DeviceInv'
<1>0. ~misused
  BY DEF DeviceInv, Balanced
<1>1. ASSUME NEW kind, NEW h \in Live(kind) PROVE Resolved(h) \in live
  BY ResolvedIsHeld DEF Live, Handles
<1>2. CASE \E outcome \in Outcome : UploadBuffer(outcome) \/ UploadTexture(outcome)
  <2>1. PICK kind, outcome : Upload(kind, outcome)
    BY <1>2 DEF UploadBuffer, UploadTexture
  <2>2. UNCHANGED <<pool, issued, staging, open, capturing, made, live, commands, purpose, ending>> /\ ~misused'
    BY <1>0, <1>1, <2>1 DEF Upload
  <2> QED
    BY <2>2, IdleStep
<1>3. CASE Bind
  <2>1. UNCHANGED <<pool, issued, staging, open, capturing, made, live, commands, purpose, ending>> /\ ~misused'
    BY <1>0, <1>3, ResolvedIsHeld DEF Bind
  <2> QED
    BY <2>1, IdleStep
<1>4. CASE \/ \E outcome \in Outcome : RequestReadback(outcome)
           \/ TakeCapture
           \/ \E t \in DOMAIN tickets : TakeReadback(t) \/ \E mapped \in BOOLEAN : ReadbackReady(t, mapped)
           \/ UNCHANGED deviceVars
  <2>1. UNCHANGED <<pool, issued, staging, open, capturing, made, live, commands, misused, purpose, ending>>
    BY <1>4 DEF RequestReadback, TakeCapture, TakeReadback, ReadbackReady, deviceVars
  <2> QED
    BY <1>0, <2>1, IdleStep
<1>5. CASE RequestCapture
  <2>1. UNCHANGED <<pool, issued, staging, open, made, live, commands, misused, purpose, ending>> /\ capturing'
    BY <1>5 DEF RequestCapture
  <2> QED
    BY <1>0, <2>1, IdleStep
<1> QED
  BY <1>2, <1>3, <1>4, <1>5

\* Memory to stream through is made for a buffer that has none.
LEMMA StreamStep ==
  ASSUME DeviceInv, NEW outcome, NEW staged \in BOOLEAN, StreamData(outcome, staged)
  PROVE  DeviceInv'
<1>1. PICK h, b :
        /\ h \in Live("buffer") /\ b = Resolved(h)
        /\ misused' = (misused \/ ~(StagingOf(b) \cup {b} \subseteq live))
        /\ IF StagingOf(b) = {} /\ staged
           THEN made < MaxMade /\ Make("staging", 0) /\ staging' = With(staging, b, made + 1)
           ELSE UNCHANGED <<made, live, purpose, staging>>
  BY DEF StreamData, MakeNone, NoFrame
<1>2. b \in live /\ BufferInPool(b)
  <2>1. /\ b \in live /\ b \in InPool /\ b = pool["buffer"].slots[h.index].value
        /\ h.index \in DOMAIN pool["buffer"].slots
    BY <1>1, ResolvedIsHeld DEF Live, Handles
  <2> QED
    BY <2>1 DEF InPool, BufferInPool
<1>3. StagingOf(b) \subseteq Staged
  BY DEF StagingOf, Staged
<1>4. ~misused'
  BY <1>1, <1>2, <1>3 DEF DeviceInv, Balanced
<1>5. UNCHANGED <<pool, issued, open, capturing, commands, ending>>
  BY DEF StreamData
<1>6. CASE StagingOf(b) = {} /\ staged
  <2>1. /\ made \in Nat /\ made' = made + 1 /\ made' \in Nat /\ made' <= MaxMade /\ made + 1 \in 1 .. made'
        /\ live' = live \cup {made + 1} /\ 1 .. made' = 1 .. made \cup {made + 1} /\ made + 1 \notin 1 .. made
        /\ purpose' \in Seq(Purpose) /\ Len(purpose') = made' /\ purpose'[made + 1].what = "staging"
        /\ \A object \in 1 .. made : purpose'[object] = purpose[object]
    <3>1. made < MaxMade /\ Make("staging", 0) /\ 0 \in Nat /\ "staging" \in {"resource", "staging", "target"}
      BY <1>1, <1>6
    <3>2. /\ made \in Nat /\ made' = made + 1 /\ made' \in Nat /\ made' <= MaxMade /\ made + 1 \in 1 .. made'
          /\ live' = live \cup {made + 1} /\ 1 .. made' = 1 .. made \cup {made + 1} /\ made + 1 \notin 1 .. made
          /\ purpose' \in Seq(Purpose) /\ Len(purpose') = made'
          /\ purpose'[made + 1] = [what |-> "staging", frame |-> 0]
          /\ \A object \in 1 .. made : purpose'[object] = purpose[object]
      BY <3>1, MakeIs
    <3> QED
      BY <3>2
  <2>2. Pooled' /\ Handed' /\ Single' /\ InPool' = InPool
    BY <1>5, <2>1, PoolStays
  <2>3. DeviceTyped' /\ OneOpen'
    BY <1>5, <2>1 DEF DeviceInv, DeviceTyped, OneOpen
  <2>4. b \notin DOMAIN staging
    BY <1>6 DEF StagingOf
  <2>5. /\ DOMAIN staging' = DOMAIN staging \cup {b} /\ staging'[b] = made + 1
        /\ \A c \in DOMAIN staging : staging'[c] = staging[c]
    BY <1>1, <1>6, <2>4 DEF With
  <2>6. Staged' = Staged \cup {made + 1}
    BY <2>5 DEF Staged
  <2>7. PassTarget' = PassTarget
    BY <1>5 DEF PassTarget
  <2>8. InPool \subseteq 1 .. made /\ Staged \subseteq 1 .. made /\ PassTarget \subseteq 1 .. made /\ live \subseteq 1 .. made
    BY InPoolIs DEF DeviceInv, Named, Balanced
  <2>9. Apart'
    <3>1. \A c \in DOMAIN staging : staging[c] \in Staged
      BY DEF Staged
    <3>2. \A c, d \in DOMAIN staging' : staging'[c] = staging'[d] => c = d
      BY <2>1, <2>5, <2>8, <3>1 DEF DeviceInv, Apart
    <3>3. \A c \in DOMAIN staging' : BufferInPool(c)'
      BY <1>2, <1>5, <2>5 DEF DeviceInv, Apart, BufferInPool
    <3> QED
      BY <3>2, <3>3 DEF Apart
  <2>10. Named'
    BY <1>5, <2>1, <2>2, <2>6, <2>7, <2>8 DEF DeviceInv, Named
  <2>11. Balanced'
    <3>1. live' \subseteq 1 .. made' /\ InPool' \cup Staged' \cup PassTarget' \subseteq live'
      BY <2>1, <2>2, <2>6, <2>7, <2>8 DEF DeviceInv, Balanced
    <3>2. Accounted'
      BY <1>5, <2>1, <2>2, <2>6, <2>7, <2>8 DEF DeviceInv, Balanced, Accounted
    <3> QED
      BY <1>4, <3>1, <3>2 DEF Balanced
  <2> QED
    BY <2>2, <2>3, <2>9, <2>10, <2>11 DEF DeviceInv
<1>7. CASE ~(StagingOf(b) = {} /\ staged)
  <2>1. UNCHANGED <<made, live, purpose, staging>>
    BY <1>1, <1>7
  <2> QED
    BY <1>4, <1>5, <2>1, IdleStep
<1> QED
  BY <1>6, <1>7

\* A frame begins with a command buffer of its own, when none is open.
LEMMA BeginFrameStep ==
  ASSUME DeviceInv, NEW outcome, NEW image \in BOOLEAN, BeginFrame(outcome, image)
  PROVE  DeviceInv'
<1>0. ~misused /\ open = NoObject /\ UNCHANGED <<pool, issued, staging, capturing, made, live, misused, purpose>>
  BY DEF BeginFrame, DeviceInv, Balanced
<1>1. CASE outcome = "works"
  <2> DEFINE frame == [commands |-> Len(commands) + 1, image |-> image, pass |-> FALSE, target |-> NoTarget]
  <2>1. commands' = Append(commands, "open") /\ ending' = Append(ending, "begun") /\ open' = frame
    BY <1>1 DEF BeginFrame
  <2>2. /\ commands \in Seq(Settlement) /\ ending \in Seq(Ending) /\ Len(ending) = Len(commands)
        /\ Len(commands) \in Nat /\ DOMAIN commands = 1 .. Len(commands) /\ DOMAIN ending = 1 .. Len(commands)
    BY DEF DeviceInv, DeviceTyped
  <2>3. frame \in OpenFrame /\ frame.target = NoObject /\ frame.commands = Len(commands) + 1
    BY <2>2 DEF OpenFrame, NoTarget
  <2>4. /\ commands' \in Seq(Settlement) /\ ending' \in Seq(Ending) /\ Len(ending') = Len(commands')
        /\ DOMAIN commands' = 1 .. (Len(commands) + 1) /\ DOMAIN ending' = 1 .. (Len(commands) + 1)
        /\ commands'[Len(commands) + 1] = "open" /\ ending'[Len(commands) + 1] = "begun"
        /\ \A c \in 1 .. Len(commands) : commands'[c] = commands[c] /\ ending'[c] = ending[c]
    <3>1. "open" \in Settlement /\ "begun" \in Ending
      BY DEF Settlement, Ending
    <3> QED
      BY <2>1, <2>2, <3>1
  <2> HIDE DEF frame
  <2>5. \A c \in DOMAIN commands : commands[c] = "open" => ending[c] = "uncaptured"
    BY <1>0, NoObjectAssumption DEF DeviceInv, OneOpen
  <2>6. OneOpen'
    <3>1. ASSUME NEW c \in DOMAIN commands', commands'[c] = "open"
          PROVE  c = Len(commands) + 1 \/ ending'[c] = "uncaptured"
      BY <2>2, <2>4, <2>5, <3>1
    <3>2. open'.commands = Len(commands) + 1 /\ open'.target = NoTarget /\ open' \in OpenFrame
      BY <2>1, <2>3 DEF NoTarget
    <3>3. Len(commands) + 1 \in DOMAIN commands'
      BY <2>2, <2>4
    <3> QED
      BY <2>4, <3>1, <3>2, <3>3 DEF OneOpen
  <2>7. PassTarget = {} /\ PassTarget' = {}
    BY <1>0, <2>1, <2>3 DEF PassTarget, NoTarget
  <2>8. Pooled' /\ Handed' /\ Single' /\ Apart' /\ InPool' = InPool /\ Staged' = Staged
    BY <1>0, HeldStays DEF DeviceInv, DeviceTyped
  <2>9. DeviceTyped'
    BY <1>0, <2>1, <2>3, <2>4 DEF DeviceInv, DeviceTyped
  <2>10. Named'
    <3>1. \A c \in DOMAIN ending : c \in DOMAIN ending'
      BY <2>2, <2>4
    <3> QED
      BY <1>0, <2>7, <2>8, <3>1 DEF DeviceInv, Named
  <2>11. Accounted'
    <3> SUFFICES ASSUME NEW object \in live
                 PROVE  /\ purpose[object].what = "resource" => object \in InPool'
                        /\ purpose[object].what = "staging" => object \in Staged'
                        /\ purpose[object].what = "target" => ending'[purpose[object].frame] = "abandoned"
      BY <1>0 DEF Accounted
    <3>1. object \in 1 .. made
      BY DEF DeviceInv, Balanced
    <3>2. purpose[object].what = "target" =>
            purpose[object].frame \in DOMAIN ending /\ ending[purpose[object].frame] = "abandoned"
      BY <2>7, <3>1 DEF DeviceInv, Named, Balanced, Accounted
    <3>3. purpose[object].what = "resource" => object \in InPool'
      BY <2>8 DEF DeviceInv, Balanced, Accounted
    <3>4. purpose[object].what = "staging" => object \in Staged'
      BY <1>0, <2>8, ShutAssumption DEF DeviceInv, Balanced, Accounted
    <3> QED
      BY <2>2, <2>4, <3>2, <3>3, <3>4
  <2>12. Balanced'
    BY <1>0, <2>7, <2>8, <2>11 DEF DeviceInv, Balanced
  <2> QED
    BY <2>6, <2>8, <2>9, <2>10, <2>12 DEF DeviceInv
<1>2. CASE outcome # "works"
  <2>1. UNCHANGED <<commands, ending, open>>
    BY <1>2 DEF BeginFrame
  <2> QED
    BY <1>0, <2>1, IdleStep
<1> QED
  BY <1>1, <1>2

\* A frame is none of the names for nothing.
LEMMA FrameIs ==
  ASSUME DeviceInv, open \notin {NoObject, Shut}
  PROVE  /\ open \in OpenFrame /\ open.commands \in Nat /\ open.image \in BOOLEAN /\ open.pass \in BOOLEAN
         /\ open.commands \in DOMAIN commands /\ commands[open.commands] = "open"
         /\ ending[open.commands] = "begun"
         /\ (open.target # NoTarget => capturing) /\ PassTarget = {open.target} \ {NoTarget}
<1>1. open \in OpenFrame /\ PassTarget = {open.target} \ {NoTarget}
  BY DEF DeviceInv, DeviceTyped, PassTarget
<1>2. open.commands \in Nat /\ open.image \in BOOLEAN /\ open.pass \in BOOLEAN
  BY <1>1 DEF OpenFrame
<1> QED
  BY <1>1, <1>2 DEF DeviceInv, OneOpen

\* The texture a frame is to be captured from is made once for it.
LEMMA BeginPassStep ==
  ASSUME DeviceInv, NEW offscreen \in BOOLEAN, NEW outcome, NEW target \in BOOLEAN,
         BeginPass(offscreen, outcome, target)
  PROVE  DeviceInv'
<1>0. /\ open \notin {NoObject, Shut} /\ (target => open.target = NoTarget /\ made < MaxMade /\ capturing)
      /\ open' = [open EXCEPT !.pass = outcome = "works", !.target = IF target THEN made + 1 ELSE @]
      /\ IF target THEN Make("target", open.commands) ELSE UNCHANGED <<made, live, purpose>>
      /\ UNCHANGED <<pool, issued, staging, capturing, commands, misused, ending>>
  BY DEF BeginPass, MakeNone
<1>1. /\ made \in Nat /\ made' \in Nat /\ made <= made' /\ made' <= MaxMade /\ MaxMade \in Nat
      /\ target => made' = made + 1
  BY <1>0, LimitAssumption DEF DeviceInv, DeviceTyped, Make
<1>2. Pooled' /\ Handed' /\ Single' /\ Apart' /\ InPool' = InPool /\ Staged' = Staged
  BY <1>0, <1>1, HeldStays
<1>3. /\ open \in OpenFrame /\ PassTarget = {open.target} \ {NoTarget}
      /\ open.commands \in Nat /\ open.commands \in DOMAIN commands
  BY <1>0, FrameIs
<1>4. /\ open' \in OpenFrame /\ open'.commands = open.commands
      /\ open'.target = IF target THEN made + 1 ELSE open.target
  BY <1>0, <1>1, <1>3 DEF OpenFrame
<1>5. OneOpen'
  BY <1>0, <1>3, <1>4 DEF DeviceInv, OneOpen
<1>6. open' \notin {NoObject, Shut}
  BY <1>4, NoObjectAssumption, ShutAssumption
<1>7. open # Shut /\ open' # Shut
  BY <1>0, <1>6
<1>8. CASE target
  <2>1. /\ live' = live \cup {made + 1} /\ 1 .. made' = 1 .. made \cup {made + 1} /\ made + 1 \notin 1 .. made
        /\ purpose' \in Seq(Purpose) /\ Len(purpose') = made'
        /\ purpose'[made + 1] = [what |-> "target", frame |-> open.commands]
        /\ \A object \in 1 .. made : purpose'[object] = purpose[object]
    BY <1>0, <1>3, <1>8, MakeIs
  <2>2. PassTarget = {} /\ PassTarget' = {made + 1}
    BY <1>0, <1>1, <1>3, <1>4, <1>6, <1>8, NoObjectAssumption DEF PassTarget, NoTarget
  <2>3. InPool \subseteq 1 .. made /\ Staged \subseteq 1 .. made /\ live \subseteq 1 .. made
    BY InPoolIs DEF DeviceInv, Named, Balanced
  <2>4. DeviceTyped'
    BY <1>0, <1>1, <1>4, <2>1 DEF DeviceInv, DeviceTyped
  <2>5. DOMAIN ending = DOMAIN commands
    BY DEF DeviceInv, DeviceTyped
  <2>6. Named'
    <3>1. \A object \in InPool : purpose'[object].what = "resource"
      BY <2>1, <2>3 DEF DeviceInv, Named
    <3>2. \A object \in Staged : object \in 1 .. made' /\ purpose'[object].what = "staging"
      BY <2>1, <2>3 DEF DeviceInv, Named
    <3>3. made + 1 \in 1 .. made' /\ purpose'[made + 1] = [what |-> "target", frame |-> open'.commands]
      BY <1>4, <2>1
    <3>4. ASSUME NEW object \in 1 .. made', purpose'[object].what = "target"
          PROVE  purpose'[object].frame \in DOMAIN ending'
      <4>1. CASE object = made + 1
        BY <1>0, <1>3, <2>1, <2>5, <4>1
      <4>2. CASE object # made + 1
        BY <1>0, <2>1, <3>4, <4>2 DEF DeviceInv, Named
      <4> QED
        BY <4>1, <4>2
    <3> QED
      BY <1>2, <2>2, <3>1, <3>2, <3>3, <3>4 DEF Named
  <2>7. Balanced'
    <3>1. live' \subseteq 1 .. made' /\ InPool' \cup Staged' \cup PassTarget' \subseteq live'
      BY <1>2, <2>1, <2>2, <2>3 DEF DeviceInv, Balanced
    <3>2. Accounted'
      <4> SUFFICES ASSUME NEW object \in live'
                   PROVE  /\ purpose'[object].what = "resource" => object \in InPool
                          /\ purpose'[object].what = "staging" => object \in Staged
                          /\ purpose'[object].what = "target" =>
                               object \in PassTarget' \/ ending[purpose'[object].frame] = "abandoned"
        BY <1>0, <1>2 DEF Accounted
      <4>1. CASE object = made + 1
        <5>1. purpose'[object].what = "target" /\ object \in PassTarget'
          BY <2>1, <2>2, <4>1
        <5> QED
          BY <5>1
      <4>2. CASE object # made + 1
        <5>1. object \in live /\ purpose'[object] = purpose[object]
          BY <2>1, <2>3, <4>2
        <5> QED
          BY <1>7, <2>2, <5>1 DEF DeviceInv, Balanced, Accounted
      <4> QED
        BY <4>1, <4>2
    <3> QED
      BY <1>0, <3>1, <3>2 DEF DeviceInv, Balanced
  <2> QED
    BY <1>2, <1>5, <2>4, <2>6, <2>7 DEF DeviceInv
<1>9. CASE ~target
  <2>1. PassTarget' = PassTarget
    BY <1>3, <1>4, <1>6, <1>9 DEF PassTarget
  <2>2. UNCHANGED <<made, live, purpose, ending>> /\ open'.commands = open.commands
    BY <1>0, <1>4, <1>9
  <2>3. DeviceTyped'
    BY <1>0, <1>4, <2>2 DEF DeviceInv, DeviceTyped
  <2>4. Named' /\ Balanced'
    BY <1>0, <1>2, <1>7, <2>1, <2>2 DEF DeviceInv, Named, Balanced, Accounted
  <2> QED
    BY <1>2, <1>5, <2>3, <2>4 DEF DeviceInv
<1> QED
  BY <1>8, <1>9

\* Only whether a pass is open changes.
LEMMA EndPassStep ==
  ASSUME DeviceInv, EndPass
  PROVE  DeviceInv'
<1>0. /\ open \notin {NoObject, Shut} /\ open' = [open EXCEPT !.pass = FALSE]
      /\ UNCHANGED <<pool, issued, staging, capturing, made, live, commands, misused, purpose, ending>>
  BY DEF EndPass
<1>1. open \in OpenFrame /\ PassTarget = {open.target} \ {NoTarget}
  BY <1>0, FrameIs
<1>2. open' \in OpenFrame /\ open'.commands = open.commands /\ open'.target = open.target
  BY <1>0, <1>1 DEF OpenFrame
<1>3. DeviceTyped' /\ OneOpen'
  BY <1>0, <1>1, <1>2 DEF DeviceInv, DeviceTyped, OneOpen
<1>4. PassTarget' = PassTarget
  BY <1>1, <1>2, NoObjectAssumption, ShutAssumption DEF PassTarget
<1>5. Pooled' /\ Handed' /\ Single' /\ Apart' /\ InPool' = InPool /\ Staged' = Staged
  BY <1>0, HeldStays DEF DeviceInv, DeviceTyped
<1>6. open # Shut /\ open' # Shut
  BY <1>0, <1>2, ShutAssumption
<1>7. Named' /\ Balanced'
  BY <1>0, <1>2, <1>4, <1>5, <1>6 DEF DeviceInv, Named, Balanced, Accounted
<1> QED
  BY <1>3, <1>5, <1>7 DEF DeviceInv

\* A frame ends: its command buffer is settled, or is of a capture that failed;
\* what it drew into is given back, or left if it is abandoned.
LEMMA FrameEnds ==
  ASSUME DeviceInv, open \notin {NoObject, Shut}, open' = NoObject, ~misused', NEW how \in Ending \ {"begun"},
         ending' = [ending EXCEPT ![open.commands] = how],
         \/ \E way \in {"submitted", "cancelled"} : commands' = [commands EXCEPT ![open.commands] = way]
         \/ commands' = commands /\ how = "uncaptured",
         \/ live' = live \ PassTarget
         \/ live' = live /\ how = "abandoned",
         UNCHANGED <<pool, issued, staging, made, purpose>>
  PROVE  DeviceInv'
<1>1. /\ open.commands \in DOMAIN commands /\ open \in OpenFrame /\ ending[open.commands] = "begun"
      /\ commands \in Seq(Settlement) /\ ending \in Seq(Ending) /\ Len(ending) = Len(commands)
      /\ DOMAIN ending = DOMAIN commands
  BY FrameIs DEF DeviceInv, DeviceTyped
<1>2. /\ ending' \in Seq(Ending) /\ Len(ending') = Len(ending) /\ DOMAIN ending' = DOMAIN ending
      /\ ending'[open.commands] = how
      /\ \A c \in DOMAIN ending : c # open.commands => ending'[c] = ending[c]
  BY <1>1
<1>3. /\ commands' \in Seq(Settlement) /\ Len(commands') = Len(commands) /\ DOMAIN commands' = DOMAIN commands
      /\ commands'[open.commands] = "open" => how = "uncaptured"
      /\ \A c \in DOMAIN commands : c # open.commands => commands'[c] = commands[c]
  BY <1>1 DEF Settlement
<1>4. \A c \in DOMAIN commands' : commands'[c] = "open" => ending'[c] = "uncaptured"
  BY <1>1, <1>2, <1>3 DEF DeviceInv, OneOpen
<1>5. DeviceTyped' /\ OneOpen'
  BY <1>1, <1>2, <1>3, <1>4, NoObjectAssumption DEF DeviceInv, DeviceTyped, OneOpen
<1>6. Pooled' /\ Handed' /\ Single' /\ Apart' /\ InPool' = InPool /\ Staged' = Staged
  BY HeldStays DEF DeviceInv, DeviceTyped
<1>7. PassTarget' = {}
  BY DEF PassTarget
<1>8. Named'
  BY <1>2, <1>6, <1>7 DEF DeviceInv, Named
<1>9. Accounted'
  <2> SUFFICES ASSUME NEW object \in live'
               PROVE  /\ purpose[object].what = "resource" => object \in InPool'
                      /\ purpose[object].what = "staging" => object \in Staged'
                      /\ purpose[object].what = "target" => ending'[purpose[object].frame] = "abandoned"
    BY DEF Accounted
  <2>1. object \in live /\ object \in 1 .. made
    BY DEF DeviceInv, Balanced
  <2>2. /\ purpose[object].what = "resource" => object \in InPool'
        /\ purpose[object].what = "staging" => object \in Staged'
    BY <1>6, <2>1 DEF DeviceInv, Balanced, Accounted
  <2>3. ASSUME purpose[object].what = "target" PROVE ending'[purpose[object].frame] = "abandoned"
    <3>1. CASE object \in PassTarget
      <4>1. purpose[object].frame = open.commands /\ how = "abandoned"
        BY <3>1 DEF DeviceInv, Named
      <4> QED
        BY <1>2, <4>1
    <3>2. CASE object \notin PassTarget
      <4>1. ending[purpose[object].frame] = "abandoned" /\ purpose[object].frame \in DOMAIN ending
        BY <2>1, <2>3, <3>2 DEF DeviceInv, Named, Balanced, Accounted
      <4> QED
        BY <1>1, <1>2, <4>1
    <3> QED
      BY <3>1, <3>2
  <2> QED
    BY <2>2, <2>3
<1>10. Balanced'
  <2>1. InPool \cap PassTarget = {} /\ Staged \cap PassTarget = {}
    BY DEF DeviceInv, Named
  <2>2. live' \subseteq 1 .. made' /\ InPool' \cup Staged' \cup PassTarget' \subseteq live'
    BY <1>6, <1>7, <2>1 DEF DeviceInv, Balanced
  <2> QED
    BY <1>9, <2>2 DEF Balanced
<1> QED
  BY <1>5, <1>6, <1>8, <1>10 DEF DeviceInv

\* Every way out of a frame is one that may be taken.
LEMMA FinishSteps ==
  ASSUME DeviceInv,
         \/ \E outcome \in Outcome : FinishFrame(outcome)
         \/ \E outcome \in Outcome : \E submitted \in BOOLEAN : EndCapture(outcome, submitted)
         \/ Abandon
  PROVE  DeviceInv'
<1>0. ~misused
  BY DEF DeviceInv, Balanced
<1>1. CASE \E outcome \in Outcome : FinishFrame(outcome)
  <2>1. PICK outcome : FinishFrame(outcome)
    BY <1>1
  <2>2. /\ open \notin {NoObject, Shut} /\ ~open.pass /\ open' = NoObject
        /\ misused' = (misused \/ ~MaySubmit(open))
        /\ commands' = [commands EXCEPT ![open.commands] = "submitted"]
        /\ ending' = [ending EXCEPT ![open.commands] = "finished"]
        /\ UNCHANGED <<pool, issued, staging, made, live, purpose>>
    BY <2>1 DEF FinishFrame
  <2>3. ~misused'
    BY <1>0, <2>2, FrameIs DEF MaySubmit
  <2>4. PassTarget = {}
    BY <2>1, <2>2, FrameIs DEF FinishFrame
  <2>5. "finished" \in Ending \ {"begun"} /\ live' = live \ PassTarget
    BY <2>2, <2>4 DEF Ending
  <2> QED
    BY <2>2, <2>3, <2>5, FrameEnds
<1>2. CASE \E outcome \in Outcome : \E submitted \in BOOLEAN : EndCapture(outcome, submitted)
  <2>1. PICK outcome, submitted : EndCapture(outcome, submitted)
    BY <1>2
  <2>2. PICK how \in Ending \ {"begun"} : how = IF submitted THEN "captured" ELSE "uncaptured"
    BY DEF Ending
  <2>3. /\ open \notin {NoObject, Shut} /\ ~open.pass /\ open' = NoObject /\ open.target # NoTarget
        /\ misused' = (misused \/ ~MaySubmit(open) \/ ~MayRelease(open.target))
        /\ commands' = IF submitted THEN [commands EXCEPT ![open.commands] = "submitted"] ELSE commands
        /\ ending' = [ending EXCEPT ![open.commands] = how]
        /\ live' = live \ {open.target}
        /\ UNCHANGED <<pool, issued, staging, made, purpose>>
    BY <2>1, <2>2 DEF EndCapture, Release
  <2>4. PassTarget = {open.target} /\ PassTarget \subseteq live
    BY <2>3, FrameIs DEF DeviceInv, Balanced
  <2>5. ~misused'
    BY <1>0, <2>3, <2>4, FrameIs DEF MaySubmit, MayRelease
  <2>6. \/ \E way \in {"submitted", "cancelled"} : commands' = [commands EXCEPT ![open.commands] = way]
        \/ commands' = commands /\ how = "uncaptured"
    BY <2>2, <2>3
  <2> QED
    BY <2>3, <2>4, <2>5, <2>6, FrameEnds
<1>3. CASE Abandon
  <2>1. PICK way \in {"submitted", "cancelled"} : way = Discard(open).ways
    BY DEF Discard
  <2>2. /\ open \notin {NoObject, Shut} /\ open' = NoObject
        /\ misused' = (misused \/ ~Discard(open).allowed)
        /\ commands' = [commands EXCEPT ![open.commands] = way]
        /\ ending' = [ending EXCEPT ![open.commands] = "abandoned"]
        /\ UNCHANGED <<pool, issued, staging, made, live, purpose>>
    BY <1>3, <2>1 DEF Abandon
  <2>3. Discard(open).allowed
    <3>1. [open EXCEPT !.pass = FALSE].commands = open.commands /\ ~[open EXCEPT !.pass = FALSE].pass
      BY <2>2, FrameIs DEF OpenFrame
    <3> QED
      BY <2>2, <3>1, FrameIs DEF Discard, MaySubmit, MayCancel
  <2>4. ~misused'
    BY <1>0, <2>2, <2>3
  <2>5. "abandoned" \in Ending \ {"begun"}
    BY DEF Ending
  <2> QED
    BY <2>2, <2>4, <2>5, FrameEnds
<1> QED
  BY <1>1, <1>2, <1>3

\* The device gives back what is in its pools; what buffers were streamed
\* through nobody holds any more.
LEMMA DestroyDeviceStep ==
  ASSUME DeviceInv, DestroyDevice
  PROVE  DeviceInv'
<1>0. /\ open = NoObject /\ open' = Shut /\ live' = live \ InPool
      /\ misused' = (misused \/ ~ \A object \in InPool : MayRelease(object))
      /\ pool' = NoResources /\ issued' = <<>> /\ staging' = <<>>
      /\ UNCHANGED <<made, commands, purpose, ending>>
  BY DEF DestroyDevice
<1>1. /\ \A k \in Kind : pool'[k].slots = <<>> /\ pool'[k].free = <<>>
      /\ pool' \in [Kind -> PoolOf]
  BY <1>0 DEF NoResources, PoolOf
<1>2. DOMAIN <<>> = {}
  OBVIOUS
<1>3. InPool' = {} /\ Staged' = {} /\ PassTarget' = {} /\ PassTarget = {}
  BY <1>0, <1>1, <1>2 DEF InPool, Staged, PassTarget
<1>4. Pooled' /\ Handed' /\ Single'
  BY <1>0, <1>1, <1>2 DEF Pooled, Handed, Single
<1>5. DeviceTyped' /\ OneOpen'
  BY <1>0, <1>1, NoObjectAssumption, ShutAssumption DEF DeviceInv, DeviceTyped, OneOpen
<1>6. InPool \subseteq live
  BY DEF DeviceInv, Balanced
<1>7. ~misused'
  BY <1>0, <1>6 DEF DeviceInv, Balanced, MayRelease
<1>8. Apart' /\ Named'
  BY <1>0, <1>2, <1>3 DEF DeviceInv, Apart, Named
<1>9. Balanced'
  BY <1>0, <1>3, <1>7 DEF DeviceInv, Balanced, Accounted
<1> QED
  BY <1>4, <1>5, <1>8, <1>9 DEF DeviceInv

\* A device begins with nothing.
LEMMA InitOfDevice == DeviceInit => DeviceInv
<1> SUFFICES ASSUME DeviceInit PROVE DeviceInv
  OBVIOUS
<1>0. /\ pool = NoResources /\ issued = <<>> /\ staging = <<>> /\ open = NoObject
      /\ made = 0 /\ live = {} /\ commands = <<>> /\ ~misused
      /\ purpose = <<>> /\ ending = <<>>
  BY DEF DeviceInit
<1>1. /\ \A k \in Kind : pool[k].slots = <<>> /\ pool[k].free = <<>>
      /\ pool \in [Kind -> PoolOf]
  BY <1>0 DEF NoResources, PoolOf
<1>2. DOMAIN <<>> = {}
  OBVIOUS
<1>3. InPool = {} /\ Staged = {} /\ PassTarget = {}
  BY <1>0, <1>1, <1>2 DEF InPool, Staged, PassTarget
<1>4. Pooled /\ Handed /\ Single
  BY <1>0, <1>1, <1>2 DEF Pooled, Handed, Single
<1>5. DeviceTyped /\ OneOpen
  BY <1>0, <1>1, <1>2, NoObjectAssumption, LimitAssumption DEF DeviceTyped, OneOpen
<1>6. Apart /\ Named /\ Balanced
  BY <1>0, <1>2, <1>3 DEF Apart, Named, Balanced, Accounted
<1> QED
  BY <1>4, <1>5, <1>6 DEF DeviceInv

\* No call of the device breaks the invariant.
LEMMA NextOfDevice == Lasts /\ DeviceInv /\ [DeviceNext]_deviceVars => DeviceInv'
<1> SUFFICES ASSUME Lasts, DeviceInv, [DeviceNext]_deviceVars PROVE DeviceInv'
  OBVIOUS
<1>1. CASE \E outcome \in Outcome :
             \/ CreateBuffer(outcome) \/ CreateTexture(outcome) \/ CreateSampler(outcome)
             \/ CreateShader(outcome) \/ CreatePipeline(outcome)
  <2>1. PICK outcome : \E kind \in Kind : CreateObject(kind, outcome)
    BY <1>1, KindAssumption DEF CreateBuffer, CreateTexture, CreateSampler, CreateShader, CreatePipeline
  <2> QED
    BY <2>1, CreateStep
<1>2. CASE \E outcome \in Outcome : \E staged \in BOOLEAN : StreamData(outcome, staged)
  BY <1>2, StreamStep
<1>3. CASE \E outcome \in Outcome : \E image \in BOOLEAN : BeginFrame(outcome, image)
  BY <1>3, BeginFrameStep
<1>4. CASE \E outcome \in Outcome : \E offscreen, target \in BOOLEAN : BeginPass(offscreen, outcome, target)
  BY <1>4, BeginPassStep
<1>5. CASE \/ \E outcome \in Outcome : FinishFrame(outcome)
           \/ \E outcome \in Outcome : \E submitted \in BOOLEAN : EndCapture(outcome, submitted)
           \/ Abandon
  BY <1>5, FinishSteps
<1>6. CASE \E h \in DOMAIN issued :
             DestroyBuffer(h) \/ DestroyTexture(h) \/ DestroySampler(h) \/ DestroyShader(h) \/ DestroyPipeline(h)
  BY <1>6, DestroySteps
<1>7. CASE EndPass
  BY <1>7, EndPassStep
<1>8. CASE DestroyDevice
  BY <1>8, DestroyDeviceStep
<1>9. CASE \/ \E outcome \in Outcome : UploadBuffer(outcome) \/ UploadTexture(outcome) \/ RequestReadback(outcome)
           \/ RequestCapture \/ TakeCapture \/ Bind
           \/ \E t \in DOMAIN tickets : TakeReadback(t) \/ \E mapped \in BOOLEAN : ReadbackReady(t, mapped)
           \/ UNCHANGED deviceVars
  BY <1>9, IdleSteps
<1> QED
  BY <1>1, <1>2, <1>3, <1>4, <1>5, <1>6, <1>7, <1>8, <1>9 DEF DeviceNext

\* The invariant is what the library was promised, and more.
LEMMA DeviceIsObeyed == DeviceInv => DriverObeyed
<1> SUFFICES ASSUME DeviceInv PROVE DriverObeyed
  OBVIOUS
<1>1. \A h \in DOMAIN issued : Resolved(h) \in {NoObject, issued[h]}
  BY ResolvedIsHeld DEF Resolved
<1>2. \A c \in DOMAIN commands :
        commands[c] = "open" => \/ open \notin {NoObject, Shut} /\ open.commands = c
                                \/ ending[c] = "uncaptured"
  BY NoObjectAssumption, ShutAssumption DEF DeviceInv, OneOpen
<1>3. ~misused /\ InPool \cup Staged \cup PassTarget \subseteq live /\ \A b \in DOMAIN staging : BufferInPool(b)
  BY DEF DeviceInv, Balanced, Apart
<1> QED
  BY <1>1, <1>2, <1>3 DEF DriverObeyed, DeviceInv, Balanced, Accounted

\* Whatever is made, destroyed twice, streamed, drawn and captured, and whatever
\* fails or is lost on the way: nothing is used or given back that is not alive;
\* a handle finds what it was given out for or nothing, as long as the generations
\* of a slot do not run out; and what is alive is held, but for the staging memory
\* the destructor leaves, the target of an abandoned frame and the command buffer
\* of a capture that failed before it was submitted, which nothing gives back.
THEOREM DriverIsObeyed == ASSUME Lasts PROVE DeviceSpec => []DriverObeyed
<1>1. DeviceInv /\ [DeviceNext]_deviceVars => DeviceInv'
  BY NextOfDevice
<1>2. DeviceSpec => []DeviceInv
  BY <1>1, InitOfDevice, PTL DEF DeviceSpec
<1> QED
  BY <1>2, DeviceIsObeyed, PTL

(* The quads.                                                              *)
Quad == (Texture \cup {NoTexture}) \X Nat
Draw == [texture : Texture \cup {NoTexture}, storage : Storage]
CopyCommand == [kind : {"copy"}, from : Storage, to : Storage]
FrameCommand == [kind : {"frame"}, draws : Seq(Draw), asked : Seq(Quad)]
Half == [active : Storage, holds : [Storage -> Seq(Nat)]]
Gpu == [staging : Half, buffer : Half, frame : Seq(Draw), asked : Seq(Quad),
        queue : Seq(CopyCommand \cup FrameCommand)]

BatchTyped ==
  /\ quads \in Seq(Nat) /\ bound \in Texture \cup {NoTexture}
  /\ drawing \in {"none", "pass", "refused"}
  /\ gpu \in Gpu /\ quadsMade \in Nat

IsCopy(g, i) == g.queue[i].kind = "copy"
IsFrame(g, i) == g.queue[i].kind = "frame"

\* What a storage of the buffer holds once the copies under way have arrived.
Will(g, s) ==
  IF \E c \in Copies(g) : c.to = s
  THEN g.staging.holds[(CHOOSE c \in Copies(g) : c.to = s).from]
  ELSE g.buffer.holds[s]

\* What draws paint by then.
Due(g, draws) ==
  FlattenSeq([i \in DOMAIN draws |-> Textured(draws[i].texture, Will(g, draws[i].storage))])

\* No two copies read or write the same storage; none writes what an earlier
\* frame draws; and a frame is due to paint what it was asked.
Disjoint(g) ==
  \A i, j \in DOMAIN g.queue : i # j /\ IsCopy(g, i) /\ IsCopy(g, j) =>
    g.queue[i].from # g.queue[j].from /\ g.queue[i].to # g.queue[j].to
Unharmed(g) ==
  \A i, j \in DOMAIN g.queue : i < j /\ IsFrame(g, i) /\ IsCopy(g, j) =>
    \A k \in DOMAIN g.queue[i].draws : g.queue[i].draws[k].storage # g.queue[j].to
Owed(g) ==
  \A i \in DOMAIN g.queue : IsFrame(g, i) => g.queue[i].asked = Due(g, g.queue[i].draws)
Queued(g) == g \in Gpu /\ Disjoint(g) /\ Unharmed(g) /\ Owed(g)

\* The frame that is recorded: the pending quads are what its draws lack.
Recording ==
  IF drawing = "pass" THEN gpu.asked = Due(gpu, gpu.frame) \o Textured(bound, quads)
  ELSE gpu.frame = <<>> /\ gpu.asked = <<>>

\* Storage is in use for a draw, and each draw had a quad of its own.
Within(g, n) ==
  \A side \in {"staging", "buffer"} :
    IsFiniteSet(InUse(g, side)) /\ Cardinality(InUse(g, side)) <= n

BatchInv ==
  /\ BatchTyped /\ Queued(gpu) /\ Recording
  /\ quadsMade \in 0..MaxQuads /\ Within(gpu, quadsMade - Len(quads))
  /\ painted = TRUE

\* There is storage left for one more draw.
Fits(g) ==
  \A side \in {"staging", "buffer"} :
    IsFiniteSet(InUse(g, side)) /\ Cardinality(InUse(g, side)) < MaxQuads

\* What the recursive definition of FlattenSeq asks, up to n, of the function it names.
JoinedUp(f, seqs, n) ==
  f = [i \in 1..n |-> IF i = 1 THEN seqs[i] ELSE f[i - 1] \o seqs[i]]

LEMMA FlattenIs ==
  ASSUME NEW seqs, Len(seqs) # 0
  PROVE  FlattenSeq(seqs) = (CHOOSE f : JoinedUp(f, seqs, Len(seqs)))[Len(seqs)]
BY Zenon DEF FlattenSeq, JoinedUp

LEMMA JoinsExist ==
  ASSUME NEW seqs
  PROVE  \A n \in Nat : \E f : JoinedUp(f, seqs, n)
<1> DEFINE Lacking == {n \in Nat : ~ \E f : JoinedUp(f, seqs, n)}
<1> SUFFICES ASSUME Lacking # {} PROVE FALSE
  OBVIOUS
<1>1. PICK n \in Lacking : \A m \in Lacking : n <= m
  <2> HIDE DEF Lacking
  <2> QED  BY LeastElement DEF Lacking
<1>2. CASE n = 0
  <2>1. JoinedUp([i \in 1..0 |-> i], seqs, 0)
    BY DEF JoinedUp
  <2> QED  BY <1>2, <2>1
<1>3. CASE n # 0
  <2>1. n \in Nat /\ n - 1 \in Nat /\ n - 1 \notin Lacking
    BY <1>1, <1>3
  <2>2. PICK f : JoinedUp(f, seqs, n - 1)
    BY <2>1
  <2> HIDE DEF Lacking
  <2> DEFINE g == [i \in 1..n |-> IF i = 1 THEN seqs[i] ELSE f[i - 1] \o seqs[i]]
  <2>3. \A i \in 1..n - 1 : f[i] = IF i = 1 THEN seqs[i] ELSE f[i - 1] \o seqs[i]
    BY <2>2 DEF JoinedUp
  <2>4. \A i \in 1..n : g[i] = IF i = 1 THEN seqs[i] ELSE f[i - 1] \o seqs[i]
    OBVIOUS
  <2> HIDE DEF g
  <2>5. \A i \in 1..n - 1 : i \in 1..n
    BY <2>1
  <2>6. \A i \in 1..n - 1 : g[i] = f[i]
    BY <2>3, <2>4, <2>5
  <2>7. \A i \in 1..n : i # 1 => i - 1 \in 1..n - 1
    BY <2>1
  <2>8. \A i \in 1..n : (IF i = 1 THEN seqs[i] ELSE f[i - 1] \o seqs[i])
                         = (IF i = 1 THEN seqs[i] ELSE g[i - 1] \o seqs[i])
    BY <2>6, <2>7
  <2>9. g = [i \in 1..n |-> IF i = 1 THEN seqs[i] ELSE g[i - 1] \o seqs[i]]
    <3>1. g = [i \in 1..n |-> IF i = 1 THEN seqs[i] ELSE f[i - 1] \o seqs[i]]
      BY DEF g
    <3> QED  BY <3>1, <2>8
  <2>10. JoinedUp(g, seqs, n)
    BY <2>9 DEF JoinedUp
  <2> QED  BY <1>1, <2>10 DEF Lacking
<1> QED  BY <1>2, <1>3

LEMMA FlattenStarts ==
  ASSUME NEW X, NEW seqs \in Seq(Seq(X)), Len(seqs) # 0
  PROVE  \E f : /\ FlattenSeq(seqs) = f[Len(seqs)]
                /\ \A i \in 1..Len(seqs) : f[i] = IF i = 1 THEN seqs[i] ELSE f[i - 1] \o seqs[i]
                /\ \A i \in 1..Len(seqs) : f[i] \in Seq(X)
<1>1. PICK f : f = (CHOOSE h : JoinedUp(h, seqs, Len(seqs)))
  OBVIOUS
<1>2. JoinedUp(f, seqs, Len(seqs))
  <2>1. \E h : JoinedUp(h, seqs, Len(seqs))
    BY JoinsExist, LenProperties
  <2> QED  BY <1>1, <2>1
<1>3. FlattenSeq(seqs) = f[Len(seqs)]
  BY <1>1, FlattenIs
<1>4. \A i \in 1..Len(seqs) : f[i] = IF i = 1 THEN seqs[i] ELSE f[i - 1] \o seqs[i]
  BY <1>2 DEF JoinedUp
<1>5. \A i \in 1..Len(seqs) : f[i] \in Seq(X)
  <2> DEFINE Odd == {i \in 1..Len(seqs) : f[i] \notin Seq(X)}
  <2> SUFFICES ASSUME Odd # {} PROVE FALSE
    OBVIOUS
  <2>1. PICK n \in Odd : \A m \in Odd : n <= m
    <3>1. Odd \in SUBSET Nat
      OBVIOUS
    <3> HIDE DEF Odd
    <3> QED  BY <3>1, LeastElement
  <2>2. /\ n \in 1..Len(seqs) /\ f[n] \notin Seq(X)
        /\ \A m \in 1..Len(seqs) : f[m] \notin Seq(X) => n <= m
    BY <2>1
  <2>3. Len(seqs) \in Nat /\ seqs[n] \in Seq(X)
    BY <2>2
  <2> HIDE DEF Odd
  <2>4. n # 1
    BY <1>4, <2>2, <2>3
  <2>5. n - 1 \in 1..Len(seqs) /\ ~ (n <= n - 1)
    BY <2>2, <2>3, <2>4
  <2>6. f[n - 1] \in Seq(X)
    BY <2>2, <2>5
  <2>7. f[n] = f[n - 1] \o seqs[n]
    BY <1>4, <2>2, <2>4
  <2>8. f[n] \in Seq(X)
    BY <2>3, <2>6, <2>7
  <2> QED  BY <2>2, <2>8
<1> QED  BY <1>3, <1>4, <1>5

LEMMA FlattenAppend ==
  ASSUME NEW X, NEW seqs \in Seq(Seq(X)), NEW s \in Seq(X)
  PROVE  /\ FlattenSeq(seqs) \in Seq(X)
         /\ FlattenSeq(Append(seqs, s)) = FlattenSeq(seqs) \o s
<1>0. PICK more : more = Append(seqs, s)
  OBVIOUS
<1>1. /\ more \in Seq(Seq(X)) /\ Len(more) = Len(seqs) + 1 /\ Len(more) # 0
      /\ more[Len(seqs) + 1] = s
      /\ \A i \in 1..Len(seqs) : more[i] = seqs[i]
      /\ Len(seqs) \in Nat
  BY <1>0
<1>2. CASE Len(seqs) = 0
  <2>1. seqs = <<>> /\ FlattenSeq(seqs) = <<>>
    BY <1>2 DEF FlattenSeq
  <2>2. PICK f : /\ FlattenSeq(more) = f[Len(more)]
                 /\ \A i \in 1..Len(more) : f[i] = IF i = 1 THEN more[i] ELSE f[i - 1] \o more[i]
                 /\ \A i \in 1..Len(more) : f[i] \in Seq(X)
    BY <1>1, FlattenStarts
  <2>3. FlattenSeq(more) = s
    BY <2>2, <1>1, <1>2
  <2>4. <<>> \o s = s /\ <<>> \in Seq(X)
    OBVIOUS
  <2> QED  BY <1>0, <2>1, <2>3, <2>4
<1>3. CASE Len(seqs) # 0
  <2>1. PICK f : /\ FlattenSeq(seqs) = f[Len(seqs)]
                 /\ \A i \in 1..Len(seqs) : f[i] = IF i = 1 THEN seqs[i] ELSE f[i - 1] \o seqs[i]
                 /\ \A i \in 1..Len(seqs) : f[i] \in Seq(X)
    BY <1>3, FlattenStarts
  <2>2. PICK g : /\ FlattenSeq(more) = g[Len(more)]
                 /\ \A i \in 1..Len(more) : g[i] = IF i = 1 THEN more[i] ELSE g[i - 1] \o more[i]
                 /\ \A i \in 1..Len(more) : g[i] \in Seq(X)
    BY <1>1, FlattenStarts
  <2>3. \A i \in 1..Len(seqs) : f[i] = g[i]
    <3> DEFINE Odd == {i \in 1..Len(seqs) : f[i] # g[i]}
    <3> SUFFICES ASSUME Odd # {} PROVE FALSE
      OBVIOUS
    <3>1. PICK n \in Odd : \A m \in Odd : n <= m
      <4>1. Odd \in SUBSET Nat
        OBVIOUS
      <4> HIDE DEF Odd
      <4> QED  BY <4>1, LeastElement
    <3>2. /\ n \in 1..Len(seqs) /\ f[n] # g[n]
          /\ \A m \in 1..Len(seqs) : f[m] # g[m] => n <= m
      BY <3>1
    <3> HIDE DEF Odd
    <3>3. n \in 1..Len(more) /\ more[n] = seqs[n]
      BY <3>2, <1>1
    <3>4. n # 1
      BY <2>1, <2>2, <3>2, <3>3
    <3>5. n - 1 \in 1..Len(seqs) /\ ~ (n <= n - 1)
      BY <1>1, <3>2, <3>4
    <3>6. f[n - 1] = g[n - 1]
      BY <3>2, <3>5
    <3>7. f[n] = f[n - 1] \o seqs[n] /\ g[n] = g[n - 1] \o more[n]
      BY <2>1, <2>2, <3>2, <3>3, <3>4
    <3> QED  BY <3>2, <3>3, <3>6, <3>7
  <2>4. g[Len(more)] = g[Len(seqs)] \o s
    <3>1. Len(more) \in 1..Len(more) /\ Len(more) # 1 /\ Len(more) - 1 = Len(seqs)
      BY <1>1, <1>3
    <3>2. more[Len(more)] = s
      BY <1>1
    <3> QED  BY <2>2, <3>1, <3>2
  <2>5. Len(seqs) \in 1..Len(seqs)
    BY <1>1, <1>3
  <2>6. FlattenSeq(more) = FlattenSeq(seqs) \o s
    BY <2>1, <2>2, <2>3, <2>4, <2>5
  <2> QED  BY <1>0, <2>1, <2>5, <2>6
<1> QED  BY <1>2, <1>3

\* The fields of a command by its kind.
LEMMA CommandsAre ==
  ASSUME NEW g \in Gpu, NEW i \in DOMAIN g.queue
  PROVE  /\ i \in 1..Len(g.queue)
         /\ IsCopy(g, i) <=> ~IsFrame(g, i)
         /\ IsCopy(g, i) => g.queue[i] \in CopyCommand /\ g.queue[i].from \in Storage /\ g.queue[i].to \in Storage
         /\ IsFrame(g, i) =>
              /\ g.queue[i] \in FrameCommand /\ g.queue[i].draws \in Seq(Draw)
              /\ g.queue[i].asked \in Seq(Quad)
              /\ \A k \in DOMAIN g.queue[i].draws : g.queue[i].draws[k].storage \in Storage
<1>1. g.queue \in Seq(CopyCommand \cup FrameCommand)
  BY DEF Gpu
<1>2. i \in 1..Len(g.queue) /\ g.queue[i] \in CopyCommand \cup FrameCommand
  BY <1>1
<1>3. IsCopy(g, i) <=> ~IsFrame(g, i)
  BY <1>2 DEF IsCopy, IsFrame, CopyCommand, FrameCommand
<1>4. ASSUME IsCopy(g, i)
      PROVE  g.queue[i] \in CopyCommand /\ g.queue[i].from \in Storage /\ g.queue[i].to \in Storage
  BY <1>2, <1>4 DEF IsCopy, CopyCommand, FrameCommand
<1>5. ASSUME IsFrame(g, i)
      PROVE  /\ g.queue[i] \in FrameCommand /\ g.queue[i].draws \in Seq(Draw)
             /\ g.queue[i].asked \in Seq(Quad)
  BY <1>2, <1>5 DEF IsFrame, CopyCommand, FrameCommand
<1>6. ASSUME IsFrame(g, i), NEW k \in DOMAIN g.queue[i].draws
      PROVE  g.queue[i].draws[k].storage \in Storage
  <2>1. g.queue[i].draws[k] \in Draw
    BY <1>5, <1>6
  <2> QED  BY <2>1 DEF Draw
<1> QED  BY <1>2, <1>3, <1>4, <1>5, <1>6

\* What is in use, by the places of the queue.
StagingUse(g, s) == \E i \in DOMAIN g.queue : IsCopy(g, i) /\ g.queue[i].from = s
CopiedTo(g, s) == \E i \in DOMAIN g.queue : IsCopy(g, i) /\ g.queue[i].to = s
DrawnBy(g, i, s) == \E k \in DOMAIN g.queue[i].draws : g.queue[i].draws[k].storage = s
DrawnLater(g, s) == \E k \in DOMAIN g.frame : g.frame[k].storage = s

LEMMA UsesAre ==
  ASSUME NEW g \in Gpu, NEW s
  PROVE  /\ s \in InUse(g, "staging") <=> StagingUse(g, s)
         /\ s \in InUse(g, "buffer") <=>
              \/ CopiedTo(g, s)
              \/ \E i \in DOMAIN g.queue : IsFrame(g, i) /\ DrawnBy(g, i, s)
              \/ DrawnLater(g, s)
<1>1. ToSet(g.queue) = {g.queue[i] : i \in DOMAIN g.queue}
  BY DEF ToSet
<1>2. \A c : c \in Copies(g) <=> \E i \in DOMAIN g.queue : c = g.queue[i] /\ IsCopy(g, i)
  BY <1>1 DEF Copies, IsCopy
<1>3. \A f : f \in Frames(g) <=> \E i \in DOMAIN g.queue : f = g.queue[i] /\ IsFrame(g, i)
  BY <1>1 DEF Frames, IsFrame
<1>4. s \in InUse(g, "staging") <=> \E c \in Copies(g) : c.from = s
  BY DEF InUse
<1>5. s \in InUse(g, "buffer") <=>
        \/ \E c \in Copies(g) : c.to = s
        \/ \E f \in Frames(g) : \E d \in ToSet(f.draws) : d.storage = s
        \/ \E d \in ToSet(g.frame) : d.storage = s
  BY DEF InUse
<1>6. (\E d \in ToSet(g.frame) : d.storage = s) <=> DrawnLater(g, s)
  BY DEF ToSet, DrawnLater
<1>7. \A f : (\E d \in ToSet(f.draws) : d.storage = s) <=> \E k \in DOMAIN f.draws : f.draws[k].storage = s
  BY DEF ToSet
<1>8. (\E f \in Frames(g) : \E d \in ToSet(f.draws) : d.storage = s) <=>
        \E i \in DOMAIN g.queue : IsFrame(g, i) /\ DrawnBy(g, i, s)
  BY <1>3, <1>7 DEF DrawnBy
<1>9. (\E c \in Copies(g) : c.to = s) <=> CopiedTo(g, s)
  BY <1>2 DEF CopiedTo
<1>10. (\E c \in Copies(g) : c.from = s) <=> StagingUse(g, s)
  BY <1>2 DEF StagingUse
<1> QED  BY <1>4, <1>5, <1>6, <1>8, <1>9, <1>10

\* Storage is in use, not anything else.
LEMMA UsesAreStorage ==
  ASSUME NEW g \in Gpu
  PROVE  InUse(g, "staging") \subseteq Storage /\ InUse(g, "buffer") \subseteq Storage
<1>1. \A s : StagingUse(g, s) \/ CopiedTo(g, s) => s \in Storage
  BY CommandsAre DEF StagingUse, CopiedTo
<1>2. \A s : (\E i \in DOMAIN g.queue : IsFrame(g, i) /\ DrawnBy(g, i, s)) => s \in Storage
  BY CommandsAre DEF DrawnBy
<1>3. \A s : DrawnLater(g, s) => s \in Storage
  <2>1. g.frame \in Seq(Draw)
    BY DEF Gpu
  <2>2. \A k \in DOMAIN g.frame : g.frame[k] \in Draw
    BY <2>1
  <2> QED  BY <2>2 DEF Draw, DrawnLater
<1> QED  BY <1>1, <1>2, <1>3, UsesAre

\* What a storage will hold is what the copy to it reads, and without one what
\* it holds now.
LEMMA WillIs ==
  ASSUME NEW g \in Gpu, Disjoint(g)
  PROVE  /\ \A i \in DOMAIN g.queue :
              IsCopy(g, i) => Will(g, g.queue[i].to) = g.staging.holds[g.queue[i].from]
         /\ \A s : ~CopiedTo(g, s) => Will(g, s) = g.buffer.holds[s]
         /\ \A s \in Storage : Will(g, s) \in Seq(Nat)
<1>1. ToSet(g.queue) = {g.queue[i] : i \in DOMAIN g.queue}
  BY DEF ToSet
<1>2. \A c : c \in Copies(g) <=> \E i \in DOMAIN g.queue : c = g.queue[i] /\ IsCopy(g, i)
  BY <1>1 DEF Copies, IsCopy
<1>3. ASSUME NEW i \in DOMAIN g.queue, IsCopy(g, i)
      PROVE  Will(g, g.queue[i].to) = g.staging.holds[g.queue[i].from]
  <2>1. g.queue[i] \in Copies(g)
    BY <1>2, <1>3
  <2>2. PICK c : c = CHOOSE e \in Copies(g) : e.to = g.queue[i].to
    OBVIOUS
  <2>3. c \in Copies(g) /\ c.to = g.queue[i].to
    BY <2>1, <2>2
  <2>4. PICK j \in DOMAIN g.queue : c = g.queue[j] /\ IsCopy(g, j)
    BY <1>2, <2>3
  <2>5. j = i
    BY <1>3, <2>3, <2>4 DEF Disjoint
  <2> QED  BY <2>1, <2>2, <2>4, <2>5 DEF Will
<1>4. ASSUME NEW s, ~CopiedTo(g, s)
      PROVE  Will(g, s) = g.buffer.holds[s]
  BY <1>2, <1>4 DEF CopiedTo, Will
<1>5. ASSUME NEW s \in Storage
      PROVE  Will(g, s) \in Seq(Nat)
  <2>1. \A r \in Storage : g.staging.holds[r] \in Seq(Nat) /\ g.buffer.holds[r] \in Seq(Nat)
    BY DEF Gpu, Half
  <2>2. CASE CopiedTo(g, s)
    BY <1>3, <2>1, <2>2, CommandsAre DEF CopiedTo
  <2>3. CASE ~CopiedTo(g, s)
    BY <1>4, <2>1, <2>3
  <2> QED  BY <2>2, <2>3
<1> QED  BY <1>3, <1>4, <1>5

\* Cycling finds storage that nothing in use is in.
LEMMA CycleIsFree ==
  ASSUME NEW g \in Gpu, NEW side \in {"staging", "buffer"},
         IsFiniteSet(InUse(g, side)), Cardinality(InUse(g, side)) < MaxQuads
  PROVE  Cycle(g, side) \in Storage \ InUse(g, side)
<1> DEFINE Free == Storage \ InUse(g, side)
<1>1. g[side].active \in Storage
  BY DEF Gpu, Half
<1>2. InUse(g, side) \in SUBSET Storage
  BY UsesAreStorage
<1>3. Free # {} /\ Free \in SUBSET Nat
  BY <1>2, StorageAssumption
<1>4. \E s \in Free : \A r \in Free : s <= r
  <2> HIDE DEF Free
  <2> QED  BY <1>3, LeastElement
<1>5. (CHOOSE s \in Free : \A r \in Free : s <= r) \in Free
  <2> HIDE DEF Free
  <2> QED  BY <1>4
<1> QED  BY <1>1, <1>5 DEF Cycle

\* Draws paint the same wherever their storage will hold the same.
LEMMA DueStays ==
  ASSUME NEW g, NEW h, NEW draws,
         \A k \in DOMAIN draws : Will(g, draws[k].storage) = Will(h, draws[k].storage)
  PROVE  Due(g, draws) = Due(h, draws)
<1>1. [i \in DOMAIN draws |-> Textured(draws[i].texture, Will(g, draws[i].storage))]
        = [i \in DOMAIN draws |-> Textured(draws[i].texture, Will(h, draws[i].storage))]
  OBVIOUS
<1> QED  BY <1>1 DEF Due

LEMMA TexturedIs ==
  ASSUME NEW t \in Texture \cup {NoTexture}, NEW data \in Seq(Nat)
  PROVE  Textured(t, data) \in Seq(Quad) /\ Len(Textured(t, data)) = Len(data)
<1>1. Len(data) \in Nat /\ DOMAIN data = 1..Len(data) /\ \A k \in 1..Len(data) : data[k] \in Nat
  OBVIOUS
<1>2. \A k \in 1..Len(data) : <<t, data[k]>> \in Quad
  BY <1>1 DEF Quad
<1>3. Textured(t, data) = [k \in 1..Len(data) |-> <<t, data[k]>>]
  BY <1>1 DEF Textured
<1> QED  BY <1>1, <1>2, <1>3

\* One more draw paints its quads after the others'.
LEMMA DueGrows ==
  ASSUME NEW g \in Gpu, Disjoint(g), NEW draws \in Seq(Draw), NEW d \in Draw
  PROVE  /\ Due(g, draws) \in Seq(Quad)
         /\ Due(g, Append(draws, d)) = Due(g, draws) \o Textured(d.texture, Will(g, d.storage))
<1> DEFINE painting(e) == Textured(e.texture, Will(g, e.storage))
<1>1. \A e \in Draw : painting(e) \in Seq(Quad)
  BY WillIs, TexturedIs DEF Draw
<1> HIDE DEF painting
<1>2. PICK paint : paint = [i \in DOMAIN draws |-> painting(draws[i])]
  OBVIOUS
<1>3. PICK more : more = Append(draws, d)
  OBVIOUS
<1>4. PICK both : both = [i \in DOMAIN more |-> painting(more[i])]
  OBVIOUS
<1>5. paint \in Seq(Seq(Quad))
  <2>1. DOMAIN draws = 1..Len(draws) /\ Len(draws) \in Nat /\ \A i \in DOMAIN draws : draws[i] \in Draw
    OBVIOUS
  <2>2. \A i \in 1..Len(draws) : painting(draws[i]) \in Seq(Quad)
    BY <1>1, <2>1
  <2>3. PICK S : S = Seq(Quad)
    OBVIOUS
  <2>4. [i \in 1..Len(draws) |-> painting(draws[i])] \in Seq(S)
    BY <2>1, <2>2, <2>3
  <2> QED  BY <1>2, <2>1, <2>3, <2>4
<1>6. both = Append(paint, painting(d))
  <2>1. Len(draws) \in Nat /\ DOMAIN draws = 1..Len(draws) /\ Len(paint) = Len(draws)
    BY <1>2
  <2>2. /\ DOMAIN more = 1..Len(draws) + 1 /\ more[Len(draws) + 1] = d
        /\ \A i \in 1..Len(draws) : more[i] = draws[i]
    BY <1>3
  <2>3. PICK longer : longer = Append(paint, painting(d))
    OBVIOUS
  <2>4. /\ longer \in Seq(Seq(Quad)) /\ Len(longer) = Len(draws) + 1
        /\ longer[Len(draws) + 1] = painting(d)
        /\ \A i \in 1..Len(draws) : longer[i] = paint[i]
    <3>1. PICK S : S = Seq(Quad)
      OBVIOUS
    <3>2. paint \in Seq(S) /\ painting(d) \in S
      BY <1>1, <1>5, <3>1
    <3> QED  BY <2>1, <2>3, <3>1, <3>2
  <2>5. longer = [i \in 1..Len(draws) + 1 |-> longer[i]]
    BY <2>4
  <2>6. \A i \in 1..Len(draws) + 1 : i # Len(draws) + 1 => i \in 1..Len(draws)
    BY <2>1
  <2>7. \A i \in 1..Len(draws) + 1 : painting(more[i]) = longer[i]
    BY <1>2, <2>1, <2>2, <2>4, <2>6
  <2> QED  BY <1>4, <2>2, <2>3, <2>5, <2>7
<1>7. /\ FlattenSeq(paint) \in Seq(Quad)
      /\ FlattenSeq(both) = FlattenSeq(paint) \o painting(d)
  BY <1>1, <1>5, <1>6, FlattenAppend
<1>8. Due(g, draws) = FlattenSeq(paint)
  BY <1>2 DEF Due, painting
<1>9. Due(g, more) = FlattenSeq(both)
  BY <1>4 DEF Due, painting
<1> QED  BY <1>3, <1>7, <1>8, <1>9 DEF painting

LEMMA DueOfNothing ==
  ASSUME NEW g
  PROVE  Due(g, <<>>) = <<>>
<1>1. [i \in DOMAIN <<>> |-> Textured(<<>>[i].texture, Will(g, <<>>[i].storage))] = <<>>
  OBVIOUS
<1>2. FlattenSeq(<<>>) = <<>>
  BY DEF FlattenSeq
<1> QED  BY <1>1, <1>2 DEF Due

\* What is in the queue and the storages is all that matters to it.
LEMMA QueuedStays ==
  ASSUME NEW g, Queued(g), NEW h \in Gpu,
         h.queue = g.queue, h.staging = g.staging, h.buffer = g.buffer
  PROVE  /\ Queued(h)
         /\ \A draws : Due(h, draws) = Due(g, draws)
         /\ InUse(h, "staging") = InUse(g, "staging")
         /\ h.frame = g.frame => InUse(h, "buffer") = InUse(g, "buffer")
<1>1. Copies(h) = Copies(g) /\ Frames(h) = Frames(g)
  BY DEF Copies, Frames
<1>2. \A s : Will(h, s) = Will(g, s)
  BY <1>1 DEF Will
<1>3. \A draws : Due(h, draws) = Due(g, draws)
  BY <1>2, DueStays
<1>4. Disjoint(h) /\ Unharmed(h)
  BY DEF Queued, Disjoint, Unharmed, IsCopy, IsFrame
<1>5. Owed(h)
  BY <1>3 DEF Queued, Owed, IsFrame
<1>6. InUse(h, "staging") = InUse(g, "staging")
  BY <1>1 DEF InUse
<1>7. h.frame = g.frame => InUse(h, "buffer") = InUse(g, "buffer")
  BY <1>1 DEF InUse
<1> QED  BY <1>3, <1>4, <1>5, <1>6, <1>7 DEF Queued

\* Streaming the contents of a draw: to storage that nothing uses, through
\* memory that nothing uses, so that what was due stays due.
LEMMA StreamIs ==
  ASSUME NEW g, Queued(g), Fits(g), NEW data \in Seq(Nat),
         NEW h, h = StreamBuffer(g, data)
  PROVE  /\ Queued(h)
         /\ h.buffer.active \in Storage
         /\ Will(h, h.buffer.active) = data
         /\ h.frame = g.frame /\ h.asked = g.asked
         /\ \A s \in InUse(g, "buffer") : Will(h, s) = Will(g, s)
         /\ \E s \in Storage : InUse(h, "staging") \subseteq InUse(g, "staging") \cup {s}
         /\ InUse(h, "buffer") \subseteq InUse(g, "buffer") \cup {h.buffer.active}
<1> USE DEF Queued
<1>1. PICK from : from = Cycle(g, "staging")
  OBVIOUS
<1>2. PICK to : to = Cycle(g, "buffer")
  OBVIOUS
<1>3. from \in Storage \ InUse(g, "staging") /\ to \in Storage \ InUse(g, "buffer")
  BY <1>1, <1>2, CycleIsFree DEF Fits
<1>4. /\ g.staging.holds \in [Storage -> Seq(Nat)]
      /\ g.queue \in Seq(CopyCommand \cup FrameCommand)
      /\ Copy(from, to) \in CopyCommand
  BY <1>3 DEF Gpu, Half, Copy, CopyCommand
<1>5. /\ h.staging = [active |-> from, holds |-> [g.staging.holds EXCEPT ![from] = data]]
      /\ h.buffer = [g.buffer EXCEPT !.active = to]
      /\ h.queue = Append(g.queue, Copy(from, to))
      /\ h.frame = g.frame /\ h.asked = g.asked
  BY <1>1, <1>2 DEF StreamBuffer, Gpu
<1>6. h \in Gpu
  <2>1. h = [g EXCEPT !.staging = h.staging, !.buffer = h.buffer, !.queue = h.queue]
    BY <1>1, <1>2 DEF StreamBuffer, Gpu
  <2>2. h.staging \in Half
    BY <1>3, <1>4, <1>5 DEF Half
  <2>3. h.buffer \in Half
    BY <1>3, <1>5 DEF Gpu, Half
  <2>4. h.queue \in Seq(CopyCommand \cup FrameCommand)
    BY <1>4, <1>5
  <2> QED  BY <2>1, <2>2, <2>3, <2>4 DEF Gpu
<1>7. h.buffer.active = to /\ h.buffer.holds = g.buffer.holds
  BY <1>5 DEF Gpu, Half
<1>8. /\ h.staging.holds[from] = data
      /\ \A s \in Storage : s # from => h.staging.holds[s] = g.staging.holds[s]
  BY <1>3, <1>4, <1>5
<1> DEFINE n == Len(g.queue)
<1>9. /\ n \in Nat /\ DOMAIN g.queue = 1..n /\ DOMAIN h.queue = 1..n + 1
      /\ h.queue[n + 1] = Copy(from, to)
      /\ \A i \in 1..n : h.queue[i] = g.queue[i]
  BY <1>4, <1>5
<1> HIDE DEF n
<1>10. /\ \A i \in 1..n : (IsCopy(h, i) <=> IsCopy(g, i)) /\ (IsFrame(h, i) <=> IsFrame(g, i))
       /\ IsCopy(h, n + 1) /\ ~IsFrame(h, n + 1)
       /\ h.queue[n + 1].from = from /\ h.queue[n + 1].to = to
  BY <1>9 DEF IsCopy, IsFrame, Copy
<1>11. /\ \A i \in 1..n : IsCopy(g, i) => g.queue[i].from # from /\ g.queue[i].to # to
       /\ \A i \in 1..n : IsFrame(g, i) => ~DrawnBy(g, i, to)
  BY <1>3, <1>9, UsesAre DEF StagingUse, CopiedTo
<1>12. Disjoint(h)
  BY <1>9, <1>10, <1>11 DEF Disjoint
<1>13. Unharmed(h)
  <2> SUFFICES ASSUME NEW i \in 1..n + 1, NEW j \in 1..n + 1, i < j, IsFrame(h, i), IsCopy(h, j),
                      NEW k \in DOMAIN h.queue[i].draws
               PROVE  h.queue[i].draws[k].storage # h.queue[j].to
    BY <1>9 DEF Unharmed
  <2>1. i \in 1..n /\ IsFrame(g, i) /\ h.queue[i] = g.queue[i]
    BY <1>9, <1>10
  <2>2. CASE j = n + 1
    BY <2>1, <2>2, <1>10, <1>11 DEF DrawnBy
  <2>3. CASE j # n + 1
    <3>1. j \in 1..n /\ IsCopy(g, j) /\ h.queue[j] = g.queue[j]
      BY <2>3, <1>9, <1>10
    <3>2. i \in DOMAIN g.queue /\ j \in DOMAIN g.queue /\ k \in DOMAIN g.queue[i].draws
      BY <2>1, <3>1, <1>9
    <3>3. Unharmed(g)
      OBVIOUS
    <3>4. g.queue[i].draws[k].storage # g.queue[j].to
      BY <2>1, <3>1, <3>2, <3>3 DEF Unharmed
    <3> QED  BY <2>1, <3>1, <3>4
  <2> QED  BY <2>2, <2>3
<1>14. Will(h, to) = data
  <2>1. n + 1 \in DOMAIN h.queue
    BY <1>9
  <2> QED  BY <2>1, <1>6, <1>8, <1>10, <1>12, WillIs
<1>15. \A s \in Storage : s # to => Will(h, s) = Will(g, s)
  <2> SUFFICES ASSUME NEW s \in Storage, s # to PROVE Will(h, s) = Will(g, s)
    OBVIOUS
  <2>1. CASE CopiedTo(g, s)
    <3>1. PICK i \in 1..n : IsCopy(g, i) /\ g.queue[i].to = s
      BY <2>1, <1>9 DEF CopiedTo
    <3>2. Will(g, s) = g.staging.holds[g.queue[i].from]
      BY <3>1, <1>9, WillIs
    <3>3. Will(h, s) = h.staging.holds[h.queue[i].from]
      <4>1. i \in DOMAIN h.queue /\ IsCopy(h, i) /\ h.queue[i].to = s
        BY <3>1, <1>9, <1>10
      <4> QED  BY <4>1, <1>6, <1>12, WillIs
    <3>4. g.queue[i].from \in Storage /\ g.queue[i].from # from /\ h.queue[i].from = g.queue[i].from
      BY <3>1, <1>9, <1>11, CommandsAre
    <3> QED  BY <3>2, <3>3, <3>4, <1>8
  <2>2. CASE ~CopiedTo(g, s)
    <3>1. ~CopiedTo(h, s)
      <4> SUFFICES ASSUME NEW i \in 1..n + 1, IsCopy(h, i), h.queue[i].to = s PROVE FALSE
        BY <1>9 DEF CopiedTo
      <4>1. i # n + 1
        BY <1>10
      <4>2. i \in 1..n
        BY <4>1, <1>9
      <4> QED  BY <4>2, <2>2, <1>9, <1>10 DEF CopiedTo
    <3> QED  BY <2>2, <3>1, <1>6, <1>7, <1>12, WillIs
  <2> QED  BY <2>1, <2>2
<1>16. \A s \in InUse(g, "buffer") : Will(h, s) = Will(g, s)
  BY <1>3, <1>15, UsesAreStorage
<1>17. Owed(h)
  <2> SUFFICES ASSUME NEW i \in 1..n + 1, IsFrame(h, i)
               PROVE  h.queue[i].asked = Due(h, h.queue[i].draws)
    BY <1>9 DEF Owed
  <2>1. i \in 1..n /\ IsFrame(g, i) /\ h.queue[i] = g.queue[i]
    BY <1>9, <1>10
  <2>2. \A k \in DOMAIN g.queue[i].draws : g.queue[i].draws[k].storage \in InUse(g, "buffer")
    BY <2>1, <1>9, UsesAre DEF DrawnBy
  <2>3. Due(h, g.queue[i].draws) = Due(g, g.queue[i].draws)
    BY <2>2, <1>16, DueStays
  <2> QED  BY <2>1, <2>3, <1>9 DEF Owed
<1>18. InUse(h, "staging") \subseteq InUse(g, "staging") \cup {from}
  <2> SUFFICES ASSUME NEW s, StagingUse(h, s), s # from PROVE s \in InUse(g, "staging")
    BY <1>6, UsesAre
  <2>1. PICK i \in 1..n + 1 : IsCopy(h, i) /\ h.queue[i].from = s
    BY <1>9 DEF StagingUse
  <2>2. i \in 1..n
    BY <2>1, <1>9, <1>10
  <2>3. StagingUse(g, s)
    BY <2>1, <2>2, <1>9, <1>10 DEF StagingUse
  <2> QED  BY <2>3, UsesAre
<1>19. InUse(h, "buffer") \subseteq InUse(g, "buffer") \cup {to}
  <2> SUFFICES ASSUME NEW s \in InUse(h, "buffer"), s # to PROVE s \in InUse(g, "buffer")
    OBVIOUS
  <2>1. CASE CopiedTo(h, s)
    <3>1. PICK i \in 1..n + 1 : IsCopy(h, i) /\ h.queue[i].to = s
      BY <2>1, <1>9 DEF CopiedTo
    <3>2. i \in 1..n
      BY <3>1, <1>9, <1>10
    <3>3. CopiedTo(g, s)
      BY <3>1, <3>2, <1>9, <1>10 DEF CopiedTo
    <3> QED  BY <3>3, UsesAre
  <2>2. ASSUME NEW i \in DOMAIN h.queue, IsFrame(h, i), DrawnBy(h, i, s)
        PROVE  s \in InUse(g, "buffer")
    <3>1. i \in DOMAIN g.queue /\ IsFrame(g, i) /\ h.queue[i] = g.queue[i]
      BY <2>2, <1>9, <1>10
    <3>2. DrawnBy(g, i, s)
      BY <2>2, <3>1 DEF DrawnBy
    <3> QED  BY <3>1, <3>2, UsesAre
  <2>3. CASE DrawnLater(h, s)
    <3>1. DrawnLater(g, s)
      BY <2>3, <1>5 DEF DrawnLater
    <3> QED  BY <3>1, UsesAre
  <2> QED  BY <2>1, <2>2, <2>3, <1>6, UsesAre
<1> QED
  BY <1>3, <1>5, <1>6, <1>7, <1>12, <1>13, <1>14, <1>16, <1>17, <1>18, <1>19

\* The queue moves up by one: what was apart stays so, and less is in use.
LEMMA TakenIs ==
  ASSUME NEW g, Queued(g), g.queue # <<>>, NEW h \in Gpu,
         h.queue = Tail(g.queue), h.frame = g.frame
  PROVE  /\ 1 \in DOMAIN g.queue
         /\ \A i \in DOMAIN h.queue : i + 1 \in DOMAIN g.queue /\ h.queue[i] = g.queue[i + 1]
         /\ \A i \in DOMAIN g.queue : i # 1 => i - 1 \in DOMAIN h.queue /\ h.queue[i - 1] = g.queue[i]
         /\ Disjoint(h) /\ Unharmed(h)
         /\ InUse(h, "staging") \subseteq InUse(g, "staging")
         /\ InUse(h, "buffer") \subseteq InUse(g, "buffer")
<1>0. g \in Gpu /\ Disjoint(g) /\ Unharmed(g) /\ Owed(g)
  BY DEF Queued
<1>1. g.queue \in Seq(CopyCommand \cup FrameCommand)
  BY <1>0 DEF Gpu
<1>2. PICK n \in Nat : n = Len(g.queue)
  BY <1>0, <1>1
<1>3. /\ DOMAIN g.queue = 1..n /\ DOMAIN h.queue = 1..n - 1 /\ n # 0
      /\ \A i \in 1..n - 1 : i + 1 \in 1..n /\ h.queue[i] = g.queue[i + 1]
  BY <1>0, <1>1, <1>2
<1>4. 1 \in DOMAIN g.queue
  BY <1>0, <1>3
<1>5. \A i \in DOMAIN g.queue : i # 1 => i - 1 \in DOMAIN h.queue /\ h.queue[i - 1] = g.queue[i]
  BY <1>0, <1>3
<1>6. \A i \in 1..n - 1 : (IsCopy(h, i) <=> IsCopy(g, i + 1)) /\ (IsFrame(h, i) <=> IsFrame(g, i + 1))
  BY <1>0, <1>3 DEF IsCopy, IsFrame
<1>7. Disjoint(h)
  <2> SUFFICES ASSUME NEW i \in 1..n - 1, NEW j \in 1..n - 1, i # j, IsCopy(h, i), IsCopy(h, j)
               PROVE  h.queue[i].from # h.queue[j].from /\ h.queue[i].to # h.queue[j].to
    BY <1>0, <1>3 DEF Disjoint
  <2>1. i + 1 \in 1..n /\ j + 1 \in 1..n /\ i + 1 # j + 1
    BY <1>0, <1>3
  <2> QED  BY <1>0, <2>1, <1>3, <1>6 DEF Disjoint
<1>8. Unharmed(h)
  <2> SUFFICES ASSUME NEW i \in 1..n - 1, NEW j \in 1..n - 1, i < j, IsFrame(h, i), IsCopy(h, j),
                      NEW k \in DOMAIN h.queue[i].draws
               PROVE  h.queue[i].draws[k].storage # h.queue[j].to
    BY <1>0, <1>3 DEF Unharmed
  <2>1. i + 1 \in 1..n /\ j + 1 \in 1..n /\ i + 1 < j + 1
    BY <1>0, <1>3
  <2> QED  BY <1>0, <2>1, <1>3, <1>6 DEF Unharmed
<1>9. ASSUME NEW s, StagingUse(h, s) PROVE StagingUse(g, s)
  BY <1>0, <1>9, <1>3, <1>6 DEF StagingUse
<1>10. ASSUME NEW s, CopiedTo(h, s) PROVE CopiedTo(g, s)
  BY <1>0, <1>10, <1>3, <1>6 DEF CopiedTo
<1>11. ASSUME NEW s, NEW i \in DOMAIN h.queue, IsFrame(h, i), DrawnBy(h, i, s)
       PROVE  i + 1 \in DOMAIN g.queue /\ IsFrame(g, i + 1) /\ DrawnBy(g, i + 1, s)
  BY <1>0, <1>11, <1>3, <1>6 DEF DrawnBy
<1>12. ASSUME NEW s, DrawnLater(h, s) PROVE DrawnLater(g, s)
  BY <1>0, <1>12 DEF DrawnLater
<1>13. InUse(h, "staging") \subseteq InUse(g, "staging")
  BY <1>0, <1>9, UsesAre
<1>14. InUse(h, "buffer") \subseteq InUse(g, "buffer")
  BY <1>0, <1>10, <1>11, <1>12, UsesAre
<1> QED  BY <1>0, <1>3, <1>4, <1>5, <1>7, <1>8, <1>13, <1>14

\* What is owed to the frames that remain, when storages will hold the same.
LEMMA OwedAfter ==
  ASSUME NEW g, Queued(g), g.queue # <<>>, NEW h \in Gpu,
         h.queue = Tail(g.queue), h.frame = g.frame,
         \A s \in Storage : Will(h, s) = Will(g, s)
  PROVE  Queued(h) /\ Due(h, h.frame) = Due(g, g.frame)
<1>1. g \in Gpu
  BY DEF Queued
<1>2. \A k \in DOMAIN g.frame : g.frame[k].storage \in Storage
  <2>1. g.frame \in Seq(Draw)
    BY <1>1 DEF Gpu
  <2>2. \A k \in DOMAIN g.frame : g.frame[k] \in Draw
    BY <2>1
  <2> QED  BY <2>2 DEF Draw
<1>3. Due(h, h.frame) = Due(g, g.frame)
  BY <1>2, DueStays
<1>4. Owed(h)
  <2> SUFFICES ASSUME NEW i \in DOMAIN h.queue, IsFrame(h, i)
               PROVE  h.queue[i].asked = Due(h, h.queue[i].draws)
    BY DEF Owed
  <2>1. i + 1 \in DOMAIN g.queue /\ h.queue[i] = g.queue[i + 1] /\ IsFrame(g, i + 1)
    <3>1. i + 1 \in DOMAIN g.queue /\ h.queue[i] = g.queue[i + 1]
      BY TakenIs
    <3> QED  BY <3>1 DEF IsFrame
  <2>2. \A k \in DOMAIN g.queue[i + 1].draws : g.queue[i + 1].draws[k].storage \in Storage
    BY <1>1, <2>1, CommandsAre
  <2>3. Due(h, g.queue[i + 1].draws) = Due(g, g.queue[i + 1].draws)
    BY <2>2, DueStays
  <2> QED  BY <2>1, <2>3 DEF Queued, Owed
<1>5. Disjoint(h) /\ Unharmed(h)
  BY TakenIs
<1> QED  BY <1>3, <1>4, <1>5 DEF Queued

\* A copy that is executed: what was to come has come.
LEMMA CopyExecuted ==
  ASSUME NEW g, Queued(g), g.queue # <<>>, IsCopy(g, 1), NEW h \in Gpu,
         h.queue = Tail(g.queue), h.staging = g.staging, h.frame = g.frame,
         h.buffer.holds[g.queue[1].to] = g.staging.holds[g.queue[1].from],
         \A s \in Storage : s # g.queue[1].to => h.buffer.holds[s] = g.buffer.holds[s]
  PROVE  Queued(h) /\ Due(h, h.frame) = Due(g, g.frame)
<1>0. g \in Gpu /\ Disjoint(g)
  BY DEF Queued
<1>1. 1 \in DOMAIN g.queue
  BY TakenIs
<1>2. PICK c : c = g.queue[1]
  OBVIOUS
<1>3. /\ h.buffer.holds[c.to] = g.staging.holds[c.from]
      /\ \A s \in Storage : s # c.to => h.buffer.holds[s] = g.buffer.holds[s]
  BY <1>2
<1>4. /\ Disjoint(h)
      /\ \A i \in DOMAIN h.queue : i + 1 \in DOMAIN g.queue /\ h.queue[i] = g.queue[i + 1]
      /\ \A i \in DOMAIN g.queue : i # 1 => i - 1 \in DOMAIN h.queue /\ h.queue[i - 1] = g.queue[i]
  BY TakenIs
<1>5. ASSUME NEW s \in Storage PROVE Will(h, s) = Will(g, s)
  <2>1. CASE CopiedTo(h, s)
    <3>1. PICK i \in DOMAIN h.queue : IsCopy(h, i) /\ h.queue[i].to = s
      BY <1>0, <2>1 DEF CopiedTo
    <3>2. i + 1 \in DOMAIN g.queue /\ h.queue[i] = g.queue[i + 1]
      BY <1>4
    <3>3. IsCopy(g, i + 1)
      BY <1>0, <3>1, <3>2 DEF IsCopy
    <3>4. Will(h, s) = h.staging.holds[h.queue[i].from]
      BY <1>0, <3>1, <1>4, WillIs
    <3>5. Will(g, s) = g.staging.holds[g.queue[i + 1].from]
      BY <1>0, <3>1, <3>2, <3>3, WillIs
    <3> QED  BY <1>0, <3>2, <3>4, <3>5
  <2>2. CASE ~CopiedTo(h, s)
    <3>1. Will(h, s) = h.buffer.holds[s]
      BY <1>0, <2>2, <1>4, WillIs
    <3>2. CASE s = c.to
      <4>1. Will(g, s) = g.staging.holds[c.from]
        BY <1>0, <3>2, <1>1, <1>2, WillIs
      <4> QED  BY <1>0, <3>1, <3>2, <4>1, <1>3
    <3>3. CASE s # c.to
      <4>1. ~CopiedTo(g, s)
        <5> SUFFICES ASSUME NEW i \in DOMAIN g.queue, IsCopy(g, i), g.queue[i].to = s
                     PROVE  FALSE
          BY <1>0 DEF CopiedTo
        <5>1. i # 1
          BY <1>0, <3>3, <1>2
        <5>2. i - 1 \in DOMAIN h.queue /\ h.queue[i - 1] = g.queue[i]
          BY <5>1, <1>4
        <5>3. IsCopy(h, i - 1)
          BY <1>0, <5>2 DEF IsCopy
        <5> QED  BY <1>0, <5>2, <5>3, <2>2 DEF CopiedTo
      <4>2. Will(g, s) = g.buffer.holds[s]
        BY <1>0, <4>1, WillIs
      <4> QED  BY <1>0, <3>1, <3>3, <4>2, <1>3
    <3> QED  BY <1>0, <3>2, <3>3
  <2> QED  BY <1>0, <2>1, <2>2
<1> QED  BY <1>0, <1>5, OwedAfter

\* A frame that is executed: its storages hold what they were to, so it paints
\* what it was asked.
LEMMA FrameExecuted ==
  ASSUME NEW g, Queued(g), g.queue # <<>>, IsFrame(g, 1), NEW h \in Gpu,
         h.queue = Tail(g.queue), h.staging = g.staging, h.buffer = g.buffer, h.frame = g.frame
  PROVE  /\ Queued(h) /\ Due(h, h.frame) = Due(g, g.frame)
         /\ Pixels(g, g.queue[1].draws) = g.queue[1].asked
<1>0. g \in Gpu /\ Disjoint(g) /\ Unharmed(g) /\ Owed(g)
  BY DEF Queued
<1>1. 1 \in DOMAIN g.queue /\ g.queue \in Seq(CopyCommand \cup FrameCommand)
  BY <1>0, TakenIs DEF Gpu
<1>2. /\ Disjoint(h)
      /\ \A i \in DOMAIN h.queue : i + 1 \in DOMAIN g.queue /\ h.queue[i] = g.queue[i + 1]
      /\ \A i \in DOMAIN g.queue : i # 1 => i - 1 \in DOMAIN h.queue /\ h.queue[i - 1] = g.queue[i]
  BY TakenIs
<1>3. ASSUME NEW s \in Storage PROVE Will(h, s) = Will(g, s)
  <2>1. CASE CopiedTo(h, s)
    <3>1. PICK i \in DOMAIN h.queue : IsCopy(h, i) /\ h.queue[i].to = s
      BY <1>0, <2>1 DEF CopiedTo
    <3>2. i + 1 \in DOMAIN g.queue /\ h.queue[i] = g.queue[i + 1]
      BY <1>2
    <3>3. IsCopy(g, i + 1)
      BY <1>0, <3>1, <3>2 DEF IsCopy
    <3>4. Will(h, s) = h.staging.holds[h.queue[i].from]
      BY <1>0, <3>1, <1>2, WillIs
    <3>5. Will(g, s) = g.staging.holds[g.queue[i + 1].from]
      BY <1>0, <3>1, <3>2, <3>3, WillIs
    <3> QED  BY <1>0, <3>2, <3>4, <3>5
  <2>2. CASE ~CopiedTo(h, s)
    <3>1. ~CopiedTo(g, s)
      <4> SUFFICES ASSUME NEW i \in DOMAIN g.queue, IsCopy(g, i), g.queue[i].to = s
                   PROVE  FALSE
        BY <1>0 DEF CopiedTo
      <4>1. i # 1
        BY <1>0, <1>1, CommandsAre
      <4>2. i - 1 \in DOMAIN h.queue /\ h.queue[i - 1] = g.queue[i]
        BY <4>1, <1>2
      <4>3. IsCopy(h, i - 1)
        BY <1>0, <4>2 DEF IsCopy
      <4> QED  BY <1>0, <4>2, <4>3, <2>2 DEF CopiedTo
    <3> QED  BY <1>0, <2>2, <3>1, <1>2, WillIs
  <2> QED  BY <1>0, <2>1, <2>2
<1>4. Pixels(g, g.queue[1].draws) = g.queue[1].asked
  <2>1. PICK draws : draws = g.queue[1].draws
    OBVIOUS
  <2>2. ASSUME NEW k \in DOMAIN draws
        PROVE  Will(g, draws[k].storage) = g.buffer.holds[draws[k].storage]
    <3>1. ~CopiedTo(g, draws[k].storage)
      <4> SUFFICES ASSUME NEW j \in DOMAIN g.queue, IsCopy(g, j), g.queue[j].to = draws[k].storage
                   PROVE  FALSE
        BY <1>0 DEF CopiedTo
      <4>1. 1 < j
        <5>1. j # 1
          BY <1>0, <1>1, CommandsAre
        <5>2. j \in 1..Len(g.queue) /\ Len(g.queue) \in Nat
          BY <1>0, <1>1
        <5> QED  BY <1>0, <5>1, <5>2
      <4> QED  BY <1>0, <4>1, <2>1, <1>1 DEF Unharmed
    <3> QED  BY <1>0, <3>1, WillIs
  <2>3. [i \in DOMAIN draws |-> Textured(draws[i].texture, Will(g, draws[i].storage))]
          = [i \in DOMAIN draws |-> Textured(draws[i].texture, g.buffer.holds[draws[i].storage])]
    BY <1>0, <2>2
  <2>4. Due(g, draws) = Pixels(g, draws)
    BY <1>0, <2>3 DEF Due, Pixels
  <2> QED  BY <1>0, <2>1, <2>4, <1>1 DEF Owed
<1> QED  BY <1>3, <1>4, OwedAfter

\* Storage that goes out of use, or one more that comes into it.
LEMMA UseShrinks ==
  ASSUME NEW U, IsFiniteSet(U), NEW V, V \subseteq U
  PROVE  IsFiniteSet(V) /\ Cardinality(V) <= Cardinality(U) /\ Cardinality(V) \in Nat
BY FS_Subset, FS_CardinalityType

LEMMA UseGrows ==
  ASSUME NEW U, IsFiniteSet(U), NEW s, NEW V, V \subseteq U \cup {s}
  PROVE  IsFiniteSet(V) /\ Cardinality(V) <= Cardinality(U) + 1 /\ Cardinality(V) \in Nat
<1>1. /\ IsFiniteSet(U \cup {s})
      /\ Cardinality(U \cup {s}) <= Cardinality(U) + 1
      /\ Cardinality(U) \in Nat
  <2>1. Cardinality(U) \in Nat
    BY FS_CardinalityType
  <2>2. /\ IsFiniteSet(U \cup {s})
        /\ Cardinality(U \cup {s}) = IF s \in U THEN Cardinality(U) ELSE Cardinality(U) + 1
    BY FS_AddElement
  <2> QED  BY <2>1, <2>2
<1>2. IsFiniteSet(V) /\ Cardinality(V) <= Cardinality(U \cup {s}) /\ Cardinality(V) \in Nat
  BY <1>1, UseShrinks
<1>3. Cardinality(U \cup {s}) \in Nat
  BY <1>1, FS_CardinalityType
<1> QED  BY <1>1, <1>2, <1>3

\* A bound on what is in use holds wherever less is, and under a larger bound.
LEMMA WithinStays ==
  ASSUME NEW g, NEW h, NEW m \in Int, NEW n \in Int, m <= n, Within(g, m),
         InUse(h, "staging") \subseteq InUse(g, "staging"),
         InUse(h, "buffer") \subseteq InUse(g, "buffer")
  PROVE  Within(h, n)
<1> SUFFICES ASSUME NEW side \in {"staging", "buffer"}
             PROVE  IsFiniteSet(InUse(h, side)) /\ Cardinality(InUse(h, side)) <= n
  BY DEF Within
<1>1. IsFiniteSet(InUse(g, side)) /\ Cardinality(InUse(g, side)) <= m /\ InUse(h, side) \subseteq InUse(g, side)
  BY DEF Within
<1>2. IsFiniteSet(InUse(h, side)) /\ Cardinality(InUse(h, side)) <= Cardinality(InUse(g, side))
      /\ Cardinality(InUse(h, side)) \in Nat
  BY <1>1, UseShrinks
<1>3. Cardinality(InUse(g, side)) \in Nat
  BY <1>1, FS_CardinalityType
<1> QED  BY <1>1, <1>2, <1>3

\* Appending nothing; and taking off again what was appended.
LEMMA Joining ==
  ASSUME NEW X, NEW s \in Seq(X), NEW t \in Seq(X)
  PROVE  /\ t = <<>> => s \o t = s
         /\ SubSeq(s \o t, 1, Len(s \o t) - Len(t)) = s
<1>1. Len(s) \in Nat /\ Len(t) \in Nat /\ Len(s \o t) = Len(s) + Len(t) /\ s \o t \in Seq(X)
  OBVIOUS
<1>2. \A i \in 1..Len(s) : (s \o t)[i] = s[i]
  OBVIOUS
<1>3. PICK r : r = SubSeq(s \o t, 1, Len(s))
  OBVIOUS
<1>4. r = [i \in 1..Len(s) |-> (s \o t)[i]]
  <2>1. PICK u : u = s \o t
    OBVIOUS
  <2>2. u \in Seq(X) /\ Len(s) \in 0..Len(u)
    BY <1>1, <2>1
  <2>3. SubSeq(u, 1, Len(s)) = [i \in 1..Len(s) |-> u[i]]
    BY <1>1, <2>2
  <2> QED  BY <1>3, <2>1, <2>3
<1>5. s = [i \in 1..Len(s) |-> s[i]]
  OBVIOUS
<1>6. r = s
  BY <1>2, <1>4, <1>5
<1>7. Len(s \o t) - Len(t) = Len(s)
  BY <1>1
<1>8. t = <<>> => s \o t = s
  OBVIOUS
<1> QED  BY <1>3, <1>6, <1>7, <1>8

\* A flush, whether it draws, drops its quads or has nothing to do.
LEMMA FlushIs ==
  ASSUME BatchInv, NEW ok \in BOOLEAN, NEW g, g = Flushed(gpu, ok)
  PROVE  /\ Queued(g)
         /\ drawing = "pass" => g.asked = Due(g, g.frame) /\ AfterFlush = <<>>
         /\ drawing # "pass" => g = gpu /\ AfterFlush = quads
         /\ AfterFlush \in Seq(Nat)
         /\ Within(g, quadsMade - Len(AfterFlush))
<1>1. /\ Queued(gpu) /\ gpu \in Gpu /\ quads \in Seq(Nat) /\ bound \in Texture \cup {NoTexture}
      /\ Within(gpu, quadsMade - Len(quads)) /\ Disjoint(gpu)
      /\ quadsMade \in 0..MaxQuads /\ Len(quads) \in Nat /\ quadsMade \in Int
  BY BoundAssumption DEF BatchInv, BatchTyped, Queued
<1>2. drawing = "pass" => AfterFlush = <<>>
  BY DEF AfterFlush
<1>3. drawing # "pass" => AfterFlush = quads
  BY DEF AfterFlush
<1>4. Len(<<>>) = 0 /\ <<>> \in Seq(Nat)
  OBVIOUS
<1>5. drawing = "pass" => gpu.asked = Due(gpu, gpu.frame) \o Textured(bound, quads)
  BY DEF BatchInv, Recording
<1>6. /\ Due(gpu, gpu.frame) \in Seq(Quad)
      /\ Textured(bound, quads) \in Seq(Quad) /\ Len(Textured(bound, quads)) = Len(quads)
  <2>1. Due(gpu, gpu.frame) \in Seq(Quad)
    <3>1. gpu.frame \in Seq(Draw)
      BY <1>1 DEF Gpu
    <3>2. PICK d : d = [texture |-> NoTexture, storage |-> 1]
      OBVIOUS
    <3>3. d \in Draw
      BY <3>2, StorageAssumption DEF Draw
    <3> QED  BY <1>1, <3>1, <3>3, DueGrows
  <2> QED  BY <1>1, <2>1, TexturedIs
<1>7. CASE drawing # "pass"
  <2>1. g = gpu
    BY <1>7 DEF Flushed
  <2> QED  BY <1>1, <1>3, <1>7, <2>1
<1>8. CASE drawing = "pass" /\ quads = <<>>
  <2>1. g = gpu
    BY <1>8 DEF Flushed
  <2>2. Textured(bound, quads) = <<>>
    BY <1>8 DEF Textured
  <2>3. gpu.asked = Due(gpu, gpu.frame)
    BY <1>5, <1>6, <1>8, <2>2, Joining
  <2> QED  BY <1>1, <1>2, <1>4, <1>8, <2>1, <2>3
<1>9. CASE drawing = "pass" /\ quads # <<>> /\ ~ok
  <2>1. g = [gpu EXCEPT !.asked = SubSeq(@, 1, Len(@) - Len(quads))]
    BY <1>9 DEF Flushed
  <2>2. g = [gpu EXCEPT !.asked = Due(gpu, gpu.frame)]
    <3>1. SubSeq(gpu.asked, 1, Len(gpu.asked) - Len(quads)) = Due(gpu, gpu.frame)
      <4>1. PICK s \in Seq(Quad) : s = Due(gpu, gpu.frame)
        BY <1>6
      <4>2. PICK t \in Seq(Quad) : t = Textured(bound, quads) /\ Len(t) = Len(quads)
        BY <1>6
      <4>3. gpu.asked = s \o t
        BY <1>5, <1>9, <4>1, <4>2
      <4>4. SubSeq(s \o t, 1, Len(s \o t) - Len(t)) = s
        BY Joining
      <4> QED  BY <4>1, <4>2, <4>3, <4>4
    <3> QED  BY <2>1, <3>1
  <2>3. /\ g \in Gpu /\ g.asked = Due(gpu, gpu.frame) /\ g.frame = gpu.frame
        /\ g.queue = gpu.queue /\ g.staging = gpu.staging /\ g.buffer = gpu.buffer
    BY <2>2, <1>1, <1>6 DEF Gpu
  <2>4. /\ Queued(g) /\ Due(g, g.frame) = Due(gpu, gpu.frame)
        /\ InUse(g, "staging") = InUse(gpu, "staging") /\ InUse(g, "buffer") = InUse(gpu, "buffer")
    BY <2>3, <1>1, QueuedStays
  <2>5. Within(g, quadsMade - 0)
    <3>1. quadsMade - Len(quads) \in Int /\ quadsMade - 0 \in Int /\ quadsMade - Len(quads) <= quadsMade - 0
      BY <1>1
    <3> QED  BY <1>1, <2>4, <3>1, WithinStays
  <2> QED  BY <1>2, <1>4, <1>9, <2>3, <2>4, <2>5
<1>10. CASE drawing = "pass" /\ quads # <<>> /\ ok
  <2>1. PICK h : h = StreamBuffer(gpu, quads)
    OBVIOUS
  <2>2. PICK d : d = [texture |-> bound, storage |-> h.buffer.active]
    OBVIOUS
  <2>3. g = [h EXCEPT !.frame = Append(@, d)]
    BY <1>10, <2>1, <2>2 DEF Flushed
  <2>4. Len(quads) >= 1
    BY <1>1, <1>10
  <2>5. Fits(gpu)
    <3> SUFFICES ASSUME NEW side \in {"staging", "buffer"}
                 PROVE  IsFiniteSet(InUse(gpu, side)) /\ Cardinality(InUse(gpu, side)) < MaxQuads
      BY DEF Fits
    <3>1. IsFiniteSet(InUse(gpu, side)) /\ Cardinality(InUse(gpu, side)) <= quadsMade - Len(quads)
      BY <1>1 DEF Within
    <3>2. Cardinality(InUse(gpu, side)) \in Nat
      BY <3>1, FS_CardinalityType
    <3> QED  BY <1>1, <2>4, <3>1, <3>2, BoundAssumption
  <2>6. /\ Queued(h) /\ h.buffer.active \in Storage
        /\ Will(h, h.buffer.active) = quads
        /\ h.frame = gpu.frame /\ h.asked = gpu.asked
        /\ \A s \in InUse(gpu, "buffer") : Will(h, s) = Will(gpu, s)
        /\ \E s \in Storage : InUse(h, "staging") \subseteq InUse(gpu, "staging") \cup {s}
        /\ InUse(h, "buffer") \subseteq InUse(gpu, "buffer") \cup {h.buffer.active}
    BY <1>1, <2>1, <2>5, StreamIs
  <2>7. d \in Draw /\ d.texture = bound /\ d.storage = h.buffer.active
    BY <1>1, <2>2, <2>6 DEF Draw
  <2>8. h \in Gpu /\ Disjoint(h) /\ h.frame \in Seq(Draw)
    BY <2>6 DEF Queued, Gpu
  <2>9. /\ g \in Gpu /\ g.frame = Append(h.frame, d) /\ g.asked = h.asked
        /\ g.queue = h.queue /\ g.staging = h.staging /\ g.buffer = h.buffer
    <3>1. Append(h.frame, d) \in Seq(Draw)
      BY <2>7, <2>8
    <3> QED  BY <2>3, <2>8, <3>1 DEF Gpu
  <2>10. /\ Queued(g) /\ Due(g, g.frame) = Due(h, g.frame)
         /\ InUse(g, "staging") = InUse(h, "staging")
    BY <2>6, <2>9, QueuedStays
  <2>11. Due(h, gpu.frame) = Due(gpu, gpu.frame)
    <3>1. \A k \in DOMAIN gpu.frame : gpu.frame[k].storage \in InUse(gpu, "buffer")
      BY <1>1, UsesAre DEF DrawnLater
    <3> QED  BY <3>1, <2>6, DueStays
  <2>12. g.asked = Due(g, g.frame)
    <3>1. Due(h, Append(h.frame, d)) = Due(h, h.frame) \o Textured(bound, quads)
      BY <2>6, <2>7, <2>8, DueGrows
    <3> QED  BY <1>5, <1>10, <2>6, <2>9, <2>10, <2>11, <3>1
  <2>13. InUse(g, "buffer") \subseteq InUse(gpu, "buffer") \cup {h.buffer.active}
    <3> SUFFICES ASSUME NEW s \in InUse(g, "buffer"), s # d.storage PROVE s \in InUse(h, "buffer")
      BY <2>6, <2>7
    <3>1. CASE DrawnLater(g, s)
      <4>1. PICK k \in DOMAIN g.frame : g.frame[k].storage = s
        BY <3>1 DEF DrawnLater
      <4>2. k \in DOMAIN h.frame /\ g.frame[k] = h.frame[k]
        <5>1. /\ Len(h.frame) \in Nat /\ DOMAIN h.frame = 1..Len(h.frame)
              /\ DOMAIN g.frame = 1..Len(h.frame) + 1 /\ g.frame[Len(h.frame) + 1] = d
              /\ \A i \in 1..Len(h.frame) : g.frame[i] = h.frame[i]
          BY <2>7, <2>8, <2>9
        <5> QED  BY <5>1, <4>1
      <4> QED  BY <4>1, <4>2, <2>8, UsesAre DEF DrawnLater
    <3>2. CASE CopiedTo(g, s)
      <4>1. CopiedTo(h, s)
        BY <3>2, <2>9 DEF CopiedTo, IsCopy
      <4> QED  BY <4>1, <2>8, UsesAre
    <3>3. ASSUME NEW i \in DOMAIN g.queue, IsFrame(g, i), DrawnBy(g, i, s)
          PROVE  s \in InUse(h, "buffer")
      <4>1. i \in DOMAIN h.queue /\ IsFrame(h, i) /\ DrawnBy(h, i, s)
        BY <3>3, <2>9 DEF IsFrame, DrawnBy
      <4> QED  BY <4>1, <2>8, UsesAre
    <3> QED  BY <3>1, <3>2, <3>3, <2>9, UsesAre
  <2>14. Within(g, quadsMade - 0)
    <3> SUFFICES ASSUME NEW side \in {"staging", "buffer"}
                 PROVE  IsFiniteSet(InUse(g, side)) /\ Cardinality(InUse(g, side)) <= quadsMade - 0
      BY DEF Within
    <3>1. PICK s : InUse(g, side) \subseteq InUse(gpu, side) \cup {s}
      BY <2>6, <2>10, <2>13
    <3>2. IsFiniteSet(InUse(gpu, side)) /\ Cardinality(InUse(gpu, side)) <= quadsMade - Len(quads)
      BY <1>1 DEF Within
    <3>3. /\ IsFiniteSet(InUse(g, side)) /\ Cardinality(InUse(g, side)) <= Cardinality(InUse(gpu, side)) + 1
          /\ Cardinality(InUse(g, side)) \in Nat
      BY <3>1, <3>2, UseGrows
    <3>4. Cardinality(InUse(gpu, side)) \in Nat
      BY <3>2, FS_CardinalityType
    <3> QED  BY <1>1, <2>4, <3>2, <3>3, <3>4
  <2> QED  BY <1>2, <1>4, <1>10, <2>10, <2>12, <2>14
<1> QED  BY <1>7, <1>8, <1>9, <1>10

\* Begin: an empty frame owes nothing.
LEMMA BeginBatchStep ==
  ASSUME BatchInv, NEW matches \in BOOLEAN, BeginBatch(matches)
  PROVE  BatchInv'
<1>1. /\ drawing = "none" /\ drawing' \in {"pass", "refused"} /\ quads' = <<>>
      /\ bound' = NoTexture \/ bound' = bound
      /\ gpu' = [gpu EXCEPT !.frame = <<>>, !.asked = <<>>]
      /\ painted' = painted /\ quadsMade' = quadsMade
  BY DEF BeginBatch
<1>2. /\ Queued(gpu) /\ gpu \in Gpu /\ gpu.frame = <<>> /\ quads \in Seq(Nat)
      /\ Within(gpu, quadsMade - Len(quads)) /\ quadsMade \in Nat /\ painted = TRUE
      /\ quadsMade \in 0..MaxQuads /\ bound \in Texture \cup {NoTexture}
  BY <1>1 DEF BatchInv, BatchTyped, Recording
<1>3. /\ gpu' \in Gpu /\ gpu'.frame = <<>> /\ gpu'.asked = <<>>
      /\ gpu'.queue = gpu.queue /\ gpu'.staging = gpu.staging /\ gpu'.buffer = gpu.buffer
  <2>1. <<>> \in Seq(Draw) /\ <<>> \in Seq(Quad)
    OBVIOUS
  <2>2. PICK g \in Gpu : g = gpu
    BY <1>2
  <2>3. [g EXCEPT !.frame = <<>>, !.asked = <<>>] \in Gpu
    BY <2>1 DEF Gpu
  <2>4. \A h : h = [g EXCEPT !.frame = <<>>, !.asked = <<>>] =>
          /\ h.frame = <<>> /\ h.asked = <<>>
          /\ h.queue = g.queue /\ h.staging = g.staging /\ h.buffer = g.buffer
    BY DEF Gpu
  <2> QED  BY <1>1, <2>2, <2>3, <2>4
<1>4. /\ Queued(gpu')
      /\ InUse(gpu', "staging") = InUse(gpu, "staging") /\ InUse(gpu', "buffer") = InUse(gpu, "buffer")
  BY <1>2, <1>3, QueuedStays
<1>5. BatchTyped'
  BY <1>1, <1>2, <1>3 DEF BatchTyped
<1>6. Recording'
  <2>1. Due(gpu', gpu'.frame) = <<>> /\ Textured(bound', quads') = <<>>
    BY <1>1, <1>3, DueOfNothing DEF Textured
  <2> QED  BY <1>3, <2>1 DEF Recording
<1>7. Within(gpu', quadsMade' - Len(quads'))
  <2>1. /\ Len(quads') = 0 /\ quadsMade - Len(quads) \in Int /\ quadsMade' - Len(quads') \in Int
        /\ quadsMade - Len(quads) <= quadsMade' - Len(quads')
    BY <1>1, <1>2
  <2> QED  BY <1>2, <1>4, <2>1, WithinStays
<1> QED  BY <1>1, <1>2, <1>4, <1>5, <1>6, <1>7 DEF BatchInv

\* What is pending is drawn with the texture that it was given under.
LEMMA SetTextureStep ==
  ASSUME BatchInv, NEW t \in Texture, NEW ok \in BOOLEAN, SetTexture(t, ok)
  PROVE  BatchInv'
<1>1. /\ drawing # "none" /\ gpu' = Flushed(gpu, ok) /\ quads' = AfterFlush /\ bound' = t
      /\ drawing' = drawing /\ painted' = painted /\ quadsMade' = quadsMade
  BY DEF SetTexture
<1>2. BatchTyped /\ Recording /\ painted = TRUE /\ quadsMade \in 0..MaxQuads
  BY DEF BatchInv
<1>3. /\ Queued(gpu')
      /\ drawing = "pass" => gpu'.asked = Due(gpu', gpu'.frame) /\ AfterFlush = <<>>
      /\ drawing # "pass" => gpu' = gpu
      /\ AfterFlush \in Seq(Nat) /\ Within(gpu', quadsMade - Len(AfterFlush))
  BY <1>1, FlushIs
<1>4. BatchTyped'
  BY <1>1, <1>2, <1>3 DEF BatchTyped, Queued
<1>5. Recording'
  <2>1. CASE drawing = "pass"
    <3>1. Textured(bound', quads') = <<>>
      BY <1>1, <1>3, <2>1 DEF Textured
    <3>2. gpu'.asked \in Seq(Quad)
      BY <1>3 DEF Queued, Gpu
    <3>3. gpu'.asked \o <<>> = gpu'.asked
      BY <3>2
    <3> QED  BY <1>1, <1>3, <2>1, <3>1, <3>3 DEF Recording
  <2>2. CASE drawing # "pass"
    BY <1>1, <1>2, <1>3, <2>2 DEF Recording
  <2> QED  BY <2>1, <2>2
<1> QED  BY <1>1, <1>2, <1>3, <1>4, <1>5 DEF BatchInv

\* A quad is asked for when it is pending, or drawn nowhere.
LEMMA AddQuadStep ==
  ASSUME BatchInv, NEW ok \in BOOLEAN, AddQuad(ok)
  PROVE  BatchInv'
<1> DEFINE full == Len(quads) >= BatchCapacity
           g == IF full THEN Flushed(gpu, ok) ELSE gpu
           left == IF full THEN AfterFlush ELSE quads
           n == quadsMade + 1
<1>1. /\ drawing # "none" /\ n <= MaxQuads /\ quads' = Append(left, n)
      /\ gpu' = IF drawing = "pass" THEN [g EXCEPT !.asked = Append(@, <<bound, n>>)] ELSE g
      /\ quadsMade' = n /\ bound' = bound /\ drawing' = drawing /\ painted' = painted
  BY DEF AddQuad
<1>2. /\ BatchTyped /\ Recording /\ painted = TRUE /\ quadsMade \in 0..MaxQuads /\ Queued(gpu)
      /\ Within(gpu, quadsMade - Len(quads)) /\ quads \in Seq(Nat)
      /\ bound \in Texture \cup {NoTexture} /\ quadsMade \in Nat /\ n \in Nat
  BY DEF BatchInv, BatchTyped
<1>3. /\ Queued(g) /\ left \in Seq(Nat) /\ Within(g, quadsMade - Len(left))
      /\ drawing = "pass" => g.asked = Due(g, g.frame) \o Textured(bound, left)
      /\ drawing # "pass" => g = gpu
  <2>1. CASE full
    <3>1. PICK h : h = Flushed(gpu, ok)
      OBVIOUS
    <3>2. /\ Queued(h) /\ AfterFlush \in Seq(Nat) /\ Within(h, quadsMade - Len(AfterFlush))
          /\ drawing = "pass" => h.asked = Due(h, h.frame) /\ AfterFlush = <<>>
          /\ drawing # "pass" => h = gpu
      BY <3>1, FlushIs
    <3>3. ASSUME drawing = "pass" PROVE h.asked = Due(h, h.frame) \o Textured(bound, AfterFlush)
      <4>1. Textured(bound, AfterFlush) = <<>>
        BY <3>2, <3>3 DEF Textured
      <4>2. h.asked \in Seq(Quad)
        BY <3>2 DEF Queued, Gpu
      <4>3. h.asked \o <<>> = h.asked
        BY <4>2
      <4> QED  BY <3>2, <3>3, <4>1, <4>3
    <3> QED  BY <2>1, <3>1, <3>2, <3>3
  <2>2. CASE ~full
    BY <2>2, <1>2 DEF Recording
  <2> QED  BY <2>1, <2>2
<1> HIDE DEF full, g, left
<1>4. g \in Gpu /\ g.asked \in Seq(Quad)
  BY <1>3 DEF Queued, Gpu
<1>5. PICK q : q = <<bound, n>>
  OBVIOUS
<1>6. q \in Quad
  BY <1>2, <1>5 DEF Quad
<1>7. /\ gpu' \in Gpu /\ gpu'.frame = g.frame
      /\ gpu'.queue = g.queue /\ gpu'.staging = g.staging /\ gpu'.buffer = g.buffer
      /\ drawing = "pass" => gpu'.asked = Append(g.asked, q)
  <2>1. CASE drawing = "pass"
    <3>1. PICK asked \in Seq(Quad) : asked = Append(g.asked, q)
      <4>1. \A s \in Seq(Quad) : Append(s, q) \in Seq(Quad)
        BY <1>6
      <4>2. Append(g.asked, q) \in Seq(Quad)
        BY <4>1, <1>4
      <4> QED  BY <4>2
    <3>2. gpu' = [g EXCEPT !.asked = asked]
      BY <1>1, <1>5, <2>1, <3>1
    <3>3. \A h : h = [g EXCEPT !.asked = asked] =>
            /\ h \in Gpu /\ h.asked = asked /\ h.frame = g.frame
            /\ h.queue = g.queue /\ h.staging = g.staging /\ h.buffer = g.buffer
      BY <1>4 DEF Gpu
    <3> QED  BY <3>1, <3>2, <3>3
  <2>2. CASE drawing # "pass"
    BY <1>1, <1>4, <2>2
  <2> QED  BY <2>1, <2>2
<1>8. /\ Queued(gpu') /\ Due(gpu', gpu'.frame) = Due(g, g.frame)
      /\ InUse(gpu', "staging") = InUse(g, "staging") /\ InUse(gpu', "buffer") = InUse(g, "buffer")
  BY <1>3, <1>7, QueuedStays
<1>9. quads' \in Seq(Nat) /\ Len(quads') = Len(left) + 1 /\ Len(left) \in Nat
  BY <1>1, <1>2, <1>3
<1>10. BatchTyped'
  BY <1>1, <1>2, <1>7, <1>9 DEF BatchTyped
<1>11. Recording'
  <2>1. CASE drawing = "pass"
    <3>1. Textured(bound, quads') = Append(Textured(bound, left), q)
      <4>1. PICK t : t = Textured(bound, left)
        OBVIOUS
      <4>2. t = [k \in 1..Len(left) |-> <<bound, left[k]>>] /\ Len(left) \in Nat
        BY <4>1, <1>3 DEF Textured
      <4>3. t \in Seq(Quad) /\ Len(t) = Len(left)
        BY <4>1, <1>2, <1>3, TexturedIs
      <4>4. PICK longer : longer = Append(t, q)
        OBVIOUS
      <4>5. /\ longer \in Seq(Quad) /\ DOMAIN longer = 1..Len(left) + 1
            /\ longer[Len(left) + 1] = q /\ \A k \in 1..Len(left) : longer[k] = t[k]
        BY <4>3, <4>4, <1>6
      <4>6. /\ DOMAIN quads' = 1..Len(left) + 1 /\ quads'[Len(left) + 1] = n
            /\ \A k \in 1..Len(left) : quads'[k] = left[k]
        BY <1>1, <1>2, <1>3
      <4>7. \A k \in 1..Len(left) + 1 : k # Len(left) + 1 => k \in 1..Len(left)
        BY <4>2
      <4>8. \A k \in 1..Len(left) + 1 : longer[k] = <<bound, quads'[k]>>
        BY <4>2, <4>5, <4>6, <4>7, <1>5
      <4>9. longer = [k \in 1..Len(left) + 1 |-> longer[k]]
        BY <4>5
      <4> QED  BY <4>1, <4>4, <4>6, <4>8, <4>9 DEF Textured
    <3>2. \A s, t \in Seq(Quad) : Append(s \o t, q) = s \o Append(t, q)
      BY <1>6
    <3>3. Due(g, g.frame) \in Seq(Quad) /\ Textured(bound, left) \in Seq(Quad)
      <4>1. Disjoint(g) /\ g.frame \in Seq(Draw)
        BY <1>3, <1>4 DEF Queued, Gpu
      <4>2. PICK d : d = [texture |-> NoTexture, storage |-> 1]
        OBVIOUS
      <4>3. d \in Draw
        BY <4>2, StorageAssumption DEF Draw
      <4>4. Due(g, g.frame) \in Seq(Quad)
        BY <1>4, <4>1, <4>3, DueGrows
      <4> QED  BY <4>4, <1>2, <1>3, TexturedIs
    <3>4. Append(g.asked, q) = Due(g, g.frame) \o Append(Textured(bound, left), q)
      BY <1>3, <2>1, <3>2, <3>3
    <3> QED  BY <1>1, <1>7, <1>8, <2>1, <3>1, <3>4 DEF Recording
  <2>2. CASE drawing # "pass"
    BY <1>1, <1>2, <1>3, <2>2 DEF Recording
  <2> QED  BY <2>1, <2>2
<1>12. Within(gpu', quadsMade' - Len(quads'))
  <2>1. /\ quadsMade - Len(left) \in Int /\ quadsMade' - Len(quads') \in Int
        /\ quadsMade - Len(left) <= quadsMade' - Len(quads')
    BY <1>1, <1>2, <1>9
  <2> QED  BY <1>3, <1>8, <2>1, WithinStays
<1>13. quadsMade' \in 0..MaxQuads
  BY <1>1, <1>2, BoundAssumption
<1> QED  BY <1>1, <1>2, <1>8, <1>10, <1>11, <1>12, <1>13 DEF BatchInv

\* End: the frame is submitted with what its draws will paint.
LEMMA EndBatchStep ==
  ASSUME BatchInv, NEW ok \in BOOLEAN, EndBatch(ok)
  PROVE  BatchInv'
<1>1. PICK g : g = Flushed(gpu, ok)
  OBVIOUS
<1>2. PICK c : c = Present(g.frame, g.asked)
  OBVIOUS
<1>3. /\ gpu' = [g EXCEPT !.queue = Append(@, c), !.frame = <<>>, !.asked = <<>>]
      /\ drawing # "none" /\ quads' = AfterFlush /\ drawing' = "none"
      /\ bound' = bound /\ painted' = painted /\ quadsMade' = quadsMade
  BY <1>1, <1>2 DEF EndBatch
<1>4. BatchTyped /\ Recording /\ painted = TRUE /\ quadsMade \in 0..MaxQuads
  BY DEF BatchInv
<1>5. /\ Queued(g)
      /\ drawing = "pass" => g.asked = Due(g, g.frame)
      /\ drawing # "pass" => g = gpu
      /\ AfterFlush \in Seq(Nat) /\ Within(g, quadsMade - Len(AfterFlush))
  BY <1>1, FlushIs
<1>6. /\ g \in Gpu /\ g.frame \in Seq(Draw) /\ g.asked \in Seq(Quad)
      /\ g.queue \in Seq(CopyCommand \cup FrameCommand) /\ Disjoint(g) /\ Unharmed(g) /\ Owed(g)
  BY <1>5 DEF Queued, Gpu
<1>7. g.asked = Due(g, g.frame)
  <2>1. CASE drawing = "pass"
    BY <1>5, <2>1
  <2>2. CASE drawing # "pass"
    BY <1>4, <1>5, <2>2, DueOfNothing DEF Recording
  <2> QED  BY <2>1, <2>2
<1>8. /\ c \in FrameCommand /\ c.kind = "frame" /\ c.draws = g.frame /\ c.asked = g.asked
  BY <1>2, <1>6 DEF Present, FrameCommand
<1>9. PICK h : h = [g EXCEPT !.queue = Append(@, c), !.frame = <<>>, !.asked = <<>>]
  OBVIOUS
<1>10. /\ h \in Gpu /\ h.queue = Append(g.queue, c) /\ h.frame = <<>> /\ h.asked = <<>>
       /\ h.staging = g.staging /\ h.buffer = g.buffer
  <2>1. /\ Append(g.queue, c) \in Seq(CopyCommand \cup FrameCommand)
        /\ <<>> \in Seq(Draw) /\ <<>> \in Seq(Quad)
    BY <1>6, <1>8
  <2>2. PICK q : q = Append(g.queue, c)
    OBVIOUS
  <2>3. h = [g EXCEPT !.queue = q, !.frame = <<>>, !.asked = <<>>]
    BY <1>9, <2>2
  <2> QED  BY <1>6, <2>1, <2>2, <2>3 DEF Gpu
<1> DEFINE n == Len(g.queue)
<1>11. /\ n \in Nat /\ DOMAIN g.queue = 1..n /\ DOMAIN h.queue = 1..n + 1
       /\ h.queue[n + 1] = c /\ \A i \in 1..n : h.queue[i] = g.queue[i]
  BY <1>6, <1>8, <1>10
<1> HIDE DEF n
<1>12. /\ \A i \in 1..n : (IsCopy(h, i) <=> IsCopy(g, i)) /\ (IsFrame(h, i) <=> IsFrame(g, i))
       /\ ~IsCopy(h, n + 1) /\ IsFrame(h, n + 1)
       /\ \A i \in 1..n + 1 : i # n + 1 => i \in 1..n
  BY <1>8, <1>11 DEF IsCopy, IsFrame
<1>13. Disjoint(h)
  BY <1>6, <1>11, <1>12 DEF Disjoint
<1>14. Unharmed(h)
  <2> SUFFICES ASSUME NEW i \in 1..n + 1, NEW j \in 1..n + 1, i < j, IsFrame(h, i), IsCopy(h, j),
                      NEW k \in DOMAIN h.queue[i].draws
               PROVE  h.queue[i].draws[k].storage # h.queue[j].to
    BY <1>11 DEF Unharmed
  <2>1. i \in 1..n /\ j \in 1..n
    BY <1>11, <1>12
  <2> QED  BY <2>1, <1>6, <1>11, <1>12 DEF Unharmed
<1>15. \A s : Will(h, s) = Will(g, s)
  <2>1. \A x : x \in Copies(h) <=> x \in Copies(g)
    <3>1. /\ ToSet(g.queue) = {g.queue[i] : i \in 1..n}
          /\ ToSet(h.queue) = {h.queue[i] : i \in 1..n + 1}
      BY <1>11 DEF ToSet
    <3>2. \A x : x \in ToSet(h.queue) <=> x \in ToSet(g.queue) \/ x = c
      <4>1. \A i \in 1..n : i \in 1..n + 1
        BY <1>11
      <4>2. n + 1 \in 1..n + 1
        BY <1>11
      <4> QED  BY <3>1, <1>11, <1>12, <4>1, <4>2
    <3> QED  BY <3>2, <1>8 DEF Copies
  <2>2. Copies(h) = Copies(g)
    BY <2>1
  <2> QED  BY <2>2, <1>10 DEF Will
<1>16. \A draws : Due(h, draws) = Due(g, draws)
  BY <1>15, DueStays
<1>17. Owed(h)
  <2> SUFFICES ASSUME NEW i \in 1..n + 1, IsFrame(h, i)
               PROVE  h.queue[i].asked = Due(h, h.queue[i].draws)
    BY <1>11 DEF Owed
  <2>1. CASE i = n + 1
    BY <2>1, <1>7, <1>8, <1>11, <1>16
  <2>2. CASE i # n + 1
    BY <2>2, <1>6, <1>11, <1>12, <1>16 DEF Owed
  <2> QED  BY <2>1, <2>2
<1>18. InUse(h, "staging") \subseteq InUse(g, "staging")
  <2> SUFFICES ASSUME NEW s, StagingUse(h, s) PROVE StagingUse(g, s)
    BY <1>6, <1>10, UsesAre
  <2> QED  BY <1>11, <1>12 DEF StagingUse
<1>19. InUse(h, "buffer") \subseteq InUse(g, "buffer")
  <2> SUFFICES ASSUME NEW s \in InUse(h, "buffer") PROVE s \in InUse(g, "buffer")
    OBVIOUS
  <2>1. CASE CopiedTo(h, s)
    <3>1. CopiedTo(g, s)
      BY <2>1, <1>11, <1>12 DEF CopiedTo
    <3> QED  BY <3>1, <1>6, UsesAre
  <2>2. ASSUME NEW i \in DOMAIN h.queue, IsFrame(h, i), DrawnBy(h, i, s)
        PROVE  s \in InUse(g, "buffer")
    <3>1. CASE i = n + 1
      <4>1. DrawnLater(g, s)
        BY <2>2, <3>1, <1>8, <1>11 DEF DrawnBy, DrawnLater
      <4> QED  BY <4>1, <1>6, UsesAre
    <3>2. CASE i # n + 1
      <4>1. i \in DOMAIN g.queue /\ IsFrame(g, i) /\ DrawnBy(g, i, s)
        BY <2>2, <3>2, <1>11, <1>12 DEF DrawnBy
      <4> QED  BY <4>1, <1>6, UsesAre
    <3> QED  BY <3>1, <3>2
  <2>3. ~DrawnLater(h, s)
    BY <1>10 DEF DrawnLater
  <2> QED  BY <2>1, <2>2, <2>3, <1>10, UsesAre
<1>20. Queued(h)
  BY <1>10, <1>13, <1>14, <1>17 DEF Queued
<1>21. Within(h, quadsMade - Len(AfterFlush))
  <2>1. quadsMade - Len(AfterFlush) \in Int
    BY <1>4, <1>5 DEF BatchTyped
  <2> QED  BY <1>5, <1>18, <1>19, <2>1, WithinStays
<1>22. gpu' = h
  BY <1>3, <1>9
<1>23. BatchTyped'
  BY <1>3, <1>4, <1>5, <1>10, <1>22 DEF BatchTyped
<1>24. Recording'
  BY <1>3, <1>10, <1>22 DEF Recording
<1> QED  BY <1>3, <1>4, <1>20, <1>21, <1>22, <1>23, <1>24 DEF BatchInv

\* The processor takes a copy or a frame.
LEMMA ExecuteStep ==
  ASSUME BatchInv, Execute
  PROVE  BatchInv'
<1>1. /\ BatchTyped /\ Queued(gpu) /\ Recording /\ painted = TRUE /\ quadsMade \in 0..MaxQuads
      /\ Within(gpu, quadsMade - Len(quads)) /\ gpu \in Gpu /\ quads \in Seq(Nat) /\ quadsMade \in Nat
  BY DEF BatchInv, BatchTyped
<1>2. /\ gpu.queue # <<>>
      /\ quads' = quads /\ bound' = bound /\ drawing' = drawing /\ quadsMade' = quadsMade
  BY DEF Execute
<1>3. PICK c : c = gpu.queue[1]
  OBVIOUS
<1>4. /\ gpu.queue \in Seq(CopyCommand \cup FrameCommand) /\ 1 \in DOMAIN gpu.queue
      /\ Head(gpu.queue) = c /\ Tail(gpu.queue) \in Seq(CopyCommand \cup FrameCommand)
  BY <1>1, <1>2, <1>3 DEF Gpu
<1>5. /\ Queued(gpu') /\ gpu'.frame = gpu.frame /\ gpu'.asked = gpu.asked
      /\ gpu'.queue = Tail(gpu.queue) /\ Due(gpu', gpu'.frame) = Due(gpu, gpu.frame)
      /\ painted' = TRUE
  <2>1. CASE c.kind = "copy"
    <3>1. /\ gpu' = [gpu EXCEPT !.queue = Tail(@), !.buffer.holds[c.to] = gpu.staging.holds[c.from]]
          /\ painted' = painted
      BY <2>1, <1>4 DEF Execute
    <3>2. IsCopy(gpu, 1) /\ c.from \in Storage /\ c.to \in Storage
      <4>1. IsCopy(gpu, 1)
        BY <2>1, <1>3 DEF IsCopy
      <4> QED  BY <4>1, <1>1, <1>3, <1>4, CommandsAre
    <3>3. PICK v \in Seq(Nat) : v = gpu.staging.holds[c.from]
      BY <3>2, <1>1 DEF Gpu, Half
    <3>4. PICK q \in Seq(CopyCommand \cup FrameCommand) : q = Tail(gpu.queue)
      BY <1>4
    <3>5. PICK b : b = [gpu.buffer EXCEPT !.holds[c.to] = v]
      OBVIOUS
    <3>6. gpu.buffer \in Half /\ gpu.buffer.holds \in [Storage -> Seq(Nat)]
      BY <1>1 DEF Gpu, Half
    <3>7. b \in Half
      BY <3>2, <3>3, <3>5, <3>6 DEF Half
    <3>8. b.holds[c.to] = v /\ \A s \in Storage : s # c.to => b.holds[s] = gpu.buffer.holds[s]
      BY <3>2, <3>5, <3>6 DEF Half
    <3>9. gpu' = [gpu EXCEPT !.queue = q, !.buffer = b]
      BY <3>1, <3>3, <3>4, <3>5, <1>1 DEF Gpu
    <3>10. /\ gpu' \in Gpu /\ gpu'.queue = q /\ gpu'.buffer = b /\ gpu'.staging = gpu.staging
           /\ gpu'.frame = gpu.frame /\ gpu'.asked = gpu.asked
      BY <3>7, <3>9, <1>1 DEF Gpu
    <3>11. Queued(gpu') /\ Due(gpu', gpu'.frame) = Due(gpu, gpu.frame)
      BY <1>1, <1>2, <1>3, <3>2, <3>3, <3>4, <3>8, <3>10, CopyExecuted
    <3> QED  BY <1>1, <3>1, <3>4, <3>10, <3>11
  <2>2. CASE c.kind # "copy"
    <3>1. gpu' = [gpu EXCEPT !.queue = Tail(@)] /\ painted' = (painted /\ Pixels(gpu, c.draws) = c.asked)
      BY <2>2, <1>4 DEF Execute
    <3>2. IsFrame(gpu, 1)
      <4>1. ~IsCopy(gpu, 1)
        BY <2>2, <1>3 DEF IsCopy
      <4> QED  BY <4>1, <1>1, <1>4, CommandsAre
    <3>3. /\ gpu' \in Gpu /\ gpu'.queue = Tail(gpu.queue) /\ gpu'.buffer = gpu.buffer
          /\ gpu'.staging = gpu.staging /\ gpu'.frame = gpu.frame /\ gpu'.asked = gpu.asked
      <4>1. PICK q \in Seq(CopyCommand \cup FrameCommand) : q = Tail(gpu.queue)
        BY <1>4
      <4>2. gpu' = [gpu EXCEPT !.queue = q]
        BY <3>1, <4>1
      <4> QED  BY <1>1, <4>1, <4>2 DEF Gpu
    <3>4. /\ Queued(gpu') /\ Due(gpu', gpu'.frame) = Due(gpu, gpu.frame)
          /\ Pixels(gpu, c.draws) = c.asked
      BY <1>1, <1>2, <1>3, <3>2, <3>3, FrameExecuted
    <3> QED  BY <1>1, <3>1, <3>3, <3>4
  <2> QED  BY <2>1, <2>2
<1>6. gpu' \in Gpu
  BY <1>5 DEF Queued
<1>7. BatchTyped'
  BY <1>1, <1>2, <1>6 DEF BatchTyped
<1>8. Recording'
  BY <1>1, <1>2, <1>5 DEF Recording
<1>9. Within(gpu', quadsMade' - Len(quads'))
  <2>1. InUse(gpu', "staging") \subseteq InUse(gpu, "staging") /\ InUse(gpu', "buffer") \subseteq InUse(gpu, "buffer")
    BY <1>1, <1>2, <1>5, <1>6, TakenIs
  <2>2. quadsMade - Len(quads) \in Int
    BY <1>1
  <2> QED  BY <1>1, <1>2, <2>1, <2>2, WithinStays
<1> QED  BY <1>1, <1>2, <1>5, <1>7, <1>8, <1>9 DEF BatchInv

LEMMA InitOfBatch == BatchInit => BatchInv
<1> SUFFICES ASSUME BatchInit PROVE BatchInv
  OBVIOUS
<1>1. PICK half : half = [active |-> 1, holds |-> [s \in Storage |-> <<>>]]
  OBVIOUS
<1>2. /\ quads = <<>> /\ bound = NoTexture /\ drawing = "none" /\ painted = TRUE /\ quadsMade = 0
      /\ gpu = [staging |-> half, buffer |-> half, frame |-> <<>>, asked |-> <<>>, queue |-> <<>>]
  BY <1>1 DEF BatchInit
<1>3. half \in Half
  <2>1. [s \in Storage |-> <<>>] \in [Storage -> Seq(Nat)]
    OBVIOUS
  <2> QED  BY <1>1, <2>1, StorageAssumption DEF Half
<1>4. /\ gpu \in Gpu /\ gpu.queue = <<>> /\ gpu.frame = <<>> /\ gpu.asked = <<>>
  BY <1>2, <1>3 DEF Gpu
<1>5. DOMAIN gpu.queue = {} /\ DOMAIN gpu.frame = {}
  BY <1>4
<1>6. Queued(gpu)
  BY <1>4, <1>5 DEF Queued, Disjoint, Unharmed, Owed
<1>7. InUse(gpu, "staging") = {} /\ InUse(gpu, "buffer") = {}
  BY <1>4, <1>5, UsesAre DEF StagingUse, CopiedTo, DrawnLater
<1>8. Within(gpu, quadsMade - Len(quads))
  <2>1. IsFiniteSet({}) /\ Cardinality({}) = 0
    BY FS_EmptySet
  <2>2. quadsMade - Len(quads) = 0
    <3>1. Len(<<>>) = 0
      OBVIOUS
    <3>2. Len(quads) = 0 /\ quadsMade = 0
      BY <1>2, <3>1, Zenon
    <3> QED  BY <3>2
  <2>3. ASSUME NEW side \in {"staging", "buffer"}
        PROVE  IsFiniteSet(InUse(gpu, side)) /\ Cardinality(InUse(gpu, side)) <= quadsMade - Len(quads)
    BY <1>7, <2>1, <2>2
  <2> QED  BY <2>3 DEF Within
<1>9. BatchTyped /\ Recording
  BY <1>2, <1>4 DEF BatchTyped, Recording
<1>10. quadsMade \in 0..MaxQuads
  BY <1>2, BoundAssumption
<1> QED  BY <1>2, <1>6, <1>8, <1>9, <1>10 DEF BatchInv

LEMMA NextOfBatch == BatchInv /\ [BatchNext]_batchVars => BatchInv'
<1> SUFFICES ASSUME BatchInv, [BatchNext]_batchVars PROVE BatchInv'
  OBVIOUS
<1>1. ASSUME NEW matches \in BOOLEAN, BeginBatch(matches) PROVE BatchInv'
  BY <1>1, BeginBatchStep
<1>2. ASSUME NEW t \in Texture, NEW ok \in BOOLEAN, SetTexture(t, ok) PROVE BatchInv'
  BY <1>2, SetTextureStep
<1>3. ASSUME NEW ok \in BOOLEAN, AddQuad(ok) PROVE BatchInv'
  BY <1>3, AddQuadStep
<1>4. ASSUME NEW ok \in BOOLEAN, EndBatch(ok) PROVE BatchInv'
  BY <1>4, EndBatchStep
<1>5. CASE Execute
  BY <1>5, ExecuteStep
<1>6. CASE UNCHANGED batchVars
  BY <1>6 DEF batchVars, BatchInv, BatchTyped, Recording
<1> QED  BY <1>1, <1>2, <1>3, <1>4, <1>5, <1>6 DEF BatchNext

(* PAINTSWHATWASASKED.  Every frame that is executed paints the quads that   *)
(* QuadBatch was given for it, with their textures and in their order, and  *)
(* whatever frames still wait in the queue; an upload that fails takes the  *)
(* quads it was of out of the frame, and no others.                         *)
THEOREM PaintsAsAsked == BatchSpec => []PaintsWhatWasAsked
<1>1. BatchInv => PaintsWhatWasAsked
  BY DEF BatchInv, PaintsWhatWasAsked
<1> QED  BY <1>1, InitOfBatch, NextOfBatch, PTL DEF BatchSpec

------------------------------------------------------------------------------
(* The sound.                                                              *)
ClipOf == [asset : ClipAsset \cup {NoClip}, number : Nat, frames : Nat]
VoiceOf == [clip : ClipOf, handle : Nat, cursor : Nat, loop : BOOLEAN]

\* Where a sound that is repeated is after x frames.
Turn(x, frames) == x % frames

HeardOf == Nat \X Nat \X Nat

\* What was heard of a clip is the clip from its beginning, again and again, each
\* frame where it stands when those that were missed before it are passed over.
Plays(clip, heard, most) ==
  \A i \in DOMAIN heard :
    /\ heard[i][3] \in 0..most
    /\ heard[i] = <<clip.number, Turn(heard[i][3] + i - 1, clip.frames), heard[i][3]>>

\* The cursor is where a voice stands, in the clip or in one of its turns, after
\* at frames of it.
Follows(voice, at) ==
  /\ voice.clip.frames = 0 => at = 0
  /\ ~voice.loop => voice.cursor = at /\ voice.cursor <= voice.clip.frames
  /\ voice.loop /\ voice.clip.frames > 0 =>
       \A k \in Nat : Turn(voice.cursor + k, voice.clip.frames) = Turn(at + k, voice.clip.frames)

\* Of a mixing, within an update or between two; no voice has missed more than
\* most frames.
MixesWithin(s, most) ==
  /\ s = [voices |-> s.voices, sound |-> s.sound, missed |-> s.missed, refusals |-> s.refusals,
          queued |-> s.queued, broken |-> s.broken]
  /\ DOMAIN s.sound = DOMAIN started /\ DOMAIN s.missed = DOMAIN started
  /\ DOMAIN s.voices \subseteq DOMAIN started
  /\ \A v \in DOMAIN started :
       /\ s.missed[v] \in Nat /\ s.missed[v] <= most
       /\ s.sound[v] \in Seq(HeardOf) /\ Plays(started[v], s.sound[v], s.missed[v])
  /\ \A v \in DOMAIN s.voices :
       /\ s.voices[v] \in VoiceOf /\ s.voices[v].clip = started[v]
       /\ Follows(s.voices[v], s.missed[v] + Len(s.sound[v]))
  /\ \A v \in DOMAIN started \ (DOMAIN s.voices \cup stopped) :
       s.missed[v] + Len(s.sound[v]) = started[v].frames
  /\ s.refusals \in Nat /\ s.queued \in Nat /\ s.queued <= QueueMax

\* A refused block costs a voice no more frames than a block has.
Mixes(s) == MixesWithin(s, BlockFrames * s.refusals)

\* A clip that an asset owns is the one its cache names.
NamesAgree ==
  /\ clipsMade \in Nat /\ DOMAIN clipPool \subseteq 1 .. clipsMade
  /\ \A h \in DOMAIN clipPool : clipPool[h] \in ClipOf
  /\ resolved \in [ClipAsset -> Nat \cup {NoClip}]
  /\ \A h \in DOMAIN clipPool : clipPool[h].asset # NoClip => resolved[clipPool[h].asset] = h

AudioInv ==
  /\ \E n \in Nat : DOMAIN started = 1 .. n
  /\ \A v \in DOMAIN started : started[v] \in ClipOf
  /\ Mixes(Mixing) /\ NamesAgree

------------------------------------------------------------------------------
\* Division leaves one remainder.
LEMMA Division ==
  ASSUME NEW f \in Nat \ {0}, NEW x \in Nat
  PROVE  x % f \in Nat /\ x % f < f /\ \E a \in Nat : x = f * a + (x % f)
<1>1. /\ x % f \in Nat /\ x % f < f
      /\ x \div f \in Int /\ x = f * (x \div f) + (x % f)
  OBVIOUS
<1>2. x \div f >= 0
  <2> SUFFICES ASSUME x \div f < 0 PROVE FALSE
    BY <1>1
  <2>1. PICK a \in Int : a = x \div f
    BY <1>1
  <2>2. PICK r \in Nat : r = x % f
    BY <1>1
  <2>3. a <= -1 /\ r < f /\ x = f * a + r
    BY <1>1, <2>1, <2>2
  <2>4. f * a <= f * (-1)
    BY <2>3
  <2> QED  BY <2>3, <2>4
<1>3. PICK a \in Nat : a = x \div f
  BY <1>1, <1>2
<1>4. x = f * a + (x % f)
  BY <1>1, <1>3
<1> QED  BY <1>1, <1>4

LEMMA Remainder ==
  ASSUME NEW f \in Nat \ {0}, NEW a \in Nat, NEW r \in Nat, r < f
  PROVE  (f * a + r) % f = r
<1>1. PICK x \in Nat : x = f * a + r
  <2>1. f * a \in Nat
    OBVIOUS
  <2> QED  BY <2>1
<1>2. PICK b \in Nat : x = f * b + (x % f)
  BY Division
<1>3. PICK t \in Nat : t = x % f /\ t < f
  BY Division
<1>4. f * a + r = f * b + t
  BY <1>1, <1>2, <1>3
<1>5. CASE a > b
  <2>1. f * a >= f * (b + 1) /\ f * (b + 1) = f * b + f
    BY <1>5
  <2>2. f * a \in Nat /\ f * b \in Nat
    OBVIOUS
  <2> QED  BY <2>1, <2>2, <1>3, <1>4
<1>6. CASE b > a
  <2>1. f * b >= f * (a + 1) /\ f * (a + 1) = f * a + f
    BY <1>6
  <2>2. f * a \in Nat /\ f * b \in Nat
    OBVIOUS
  <2> QED  BY <2>1, <2>2, <1>3, <1>4
<1>7. CASE a = b
  <2>1. f * a \in Nat /\ f * a = f * b
    BY <1>7
  <2>2. t = r
    BY <1>4, <2>1
  <2> QED  BY <1>1, <1>3, <2>2
<1> QED  BY <1>5, <1>6, <1>7

\* A remainder stands for its number under a further addition.
LEMMA RemainderAdds ==
  ASSUME NEW f \in Nat \ {0}, NEW x \in Nat, NEW k \in Nat
  PROVE  ((x % f) + k) % f = (x + k) % f
<1>1. PICK r \in Nat : r = x % f /\ r < f
  BY Division
<1>2. PICK a \in Nat : x = f * a + r
  BY <1>1, Division
<1>3. r + k \in Nat
  OBVIOUS
<1>4. PICK t \in Nat : t = (r + k) % f /\ t < f
  BY <1>3, Division
<1>5. PICK b \in Nat : r + k = f * b + t
  BY <1>3, <1>4, Division
<1>6. x + k = f * (a + b) + t
  <2>1. f * (a + b) = f * a + f * b /\ f * a \in Nat /\ f * b \in Nat
    OBVIOUS
  <2> QED  BY <2>1, <1>2, <1>5
<1>7. a + b \in Nat
  OBVIOUS
<1>8. (f * (a + b) + t) % f = t
  BY <1>7, <1>4, Remainder
<1> QED  BY <1>1, <1>4, <1>6, <1>8

LEMMA TurnIs ==
  ASSUME NEW f \in Nat \ {0}, NEW x \in Nat
  PROVE  /\ Turn(x, f) \in Nat
         /\ x < f => Turn(x, f) = x
         /\ \A k \in Nat : Turn(Turn(x, f) + k, f) = Turn(x + k, f)
<1>1. Turn(x, f) \in Nat
  BY Division DEF Turn
<1>2. ASSUME x < f PROVE Turn(x, f) = x
  <2>1. (f * 0 + x) % f = x
    BY <1>2, Remainder
  <2>2. f * 0 + x = x
    OBVIOUS
  <2> QED  BY <2>1, <2>2 DEF Turn
<1>3. ASSUME NEW k \in Nat PROVE Turn(Turn(x, f) + k, f) = Turn(x + k, f)
  BY RemainderAdds DEF Turn
<1> QED  BY <1>1, <1>2, <1>3

------------------------------------------------------------------------------
AtCursor(voice, cursor) == [voice EXCEPT !.cursor = cursor]

\* Frames of a clip, in order, after at of them.
FramesFrom(clip, at, mixed) ==
  /\ mixed \in Seq(Nat \X Nat)
  /\ \A i \in 1..Len(mixed) : mixed[i] = <<clip.number, Turn(at + i - 1, clip.frames)>>

\* What a voice mixes after at frames goes on where it was, and so does its cursor;
\* a voice that does not go on is at the end.
GoesOn(voice, at, frames, mix) ==
  /\ FramesFrom(voice.clip, at, mix.mixed) /\ Len(mix.mixed) <= frames
  /\ AtCursor(voice, mix.cursor) \in VoiceOf /\ AtCursor(voice, mix.cursor).clip = voice.clip
  /\ Follows(AtCursor(voice, mix.cursor), at + Len(mix.mixed))
  /\ ~mix.goes => at + Len(mix.mixed) = voice.clip.frames

LEMMA MixVoiceIs ==
  ASSUME NEW voice \in VoiceOf, NEW at \in Nat, NEW frames \in Nat \ {0}, Follows(voice, at)
  PROVE  GoesOn(voice, at, frames, MixVoice(voice, frames))
<1>0. PICK mix, after : mix = MixVoice(voice, frames) /\ after = AtCursor(voice, mix.cursor)
  OBVIOUS
<1>1. PICK f \in Nat, c \in Nat, l \in Nat, n \in Nat :
         f = voice.clip.frames /\ c = voice.cursor /\ l = at /\ n = voice.clip.number
  <2>1. voice.clip \in ClipOf /\ voice.cursor \in Nat
    BY DEF VoiceOf
  <2>2. voice.clip.frames \in Nat /\ voice.clip.number \in Nat
    BY <2>1 DEF ClipOf
  <2> QED  BY <2>1, <2>2
<1>2. /\ f = 0 => l = 0
      /\ ~voice.loop => c = l /\ c <= f
      /\ voice.loop /\ f > 0 => \A k \in Nat : Turn(c + k, f) = Turn(l + k, f)
  BY <1>1 DEF Follows
<1>4. voice.loop \in BOOLEAN
  BY DEF VoiceOf
<1>5. PICK m \in Nat :
        /\ m = (IF f = 0 THEN 0 ELSE IF voice.loop THEN frames ELSE Least(frames, f - c))
        /\ m <= frames /\ (~voice.loop => m <= f - c)
  <2>1. CASE voice.loop
    BY <2>1
  <2>2. CASE ~voice.loop
    <3>1. PICK e \in Nat : e = f - c
      BY <1>2, <2>2
    <3>2. Least(frames, e) \in Nat /\ Least(frames, e) <= frames /\ Least(frames, e) <= e
      BY DEF Least
    <3> QED  BY <1>2, <2>2, <3>1, <3>2
  <2> QED  BY <2>1, <2>2
<1>6. m \in 0..frames /\ (~voice.loop => m <= f - c)
  BY <1>5
<1> DEFINE frame(i) == IF voice.loop THEN Turn(c + i - 1, f) ELSE c + i - 1
<1>8. /\ mix.mixed = [i \in 1..m |-> <<n, frame(i)>>]
      /\ mix.cursor = IF m = 0 THEN c ELSE frame(m) + 1
      /\ mix.goes <=> f > 0 /\ m = frames
  BY <1>0, <1>1, <1>5 DEF MixVoice, Source, Turn
<1> HIDE DEF frame
<1>9. ASSUME f > 0, NEW i \in 1..m
      PROVE  frame(i) \in Nat /\ frame(i) = Turn(l + i - 1, f) /\ l + i - 1 \in Nat
  <2>1. i - 1 \in Nat /\ l + i - 1 = l + (i - 1) /\ c + i - 1 = c + (i - 1) /\ l + (i - 1) \in Nat
    BY <1>1, <1>6
  <2>2. CASE voice.loop
    <3>1. Turn(c + (i - 1), f) = Turn(l + (i - 1), f)
      <4>1. PICK k \in Nat : k = i - 1
        BY <2>1
      <4>2. Turn(c + k, f) = Turn(l + k, f)
        BY <1>2, <1>9, <2>2, Zenon
      <4> QED  BY <4>1, <4>2, Zenon
    <3>2. Turn(l + (i - 1), f) \in Nat
      <4>1. f \in Nat \ {0}
        BY <1>9
      <4> QED  BY <2>1, <4>1, TurnIs
    <3> QED  BY <2>1, <2>2, <3>1, <3>2 DEF frame
  <2>3. CASE ~voice.loop
    <3>1. c = l /\ l + (i - 1) < f
      <4>1. c = l /\ m <= f - c
        BY <1>2, <1>5, <2>3
      <4>2. i - 1 < m
        BY <1>5
      <4> QED  BY <4>1, <4>2
    <3>2. PICK x \in Nat : x = l + (i - 1) /\ x < f
      BY <2>1, <3>1
    <3>3. f \in Nat \ {0}
      BY <3>2
    <3>4. Turn(x, f) = x
      BY <3>2, <3>3, TurnIs
    <3> QED  BY <2>1, <2>3, <3>1, <3>2, <3>3, <3>4 DEF frame
  <2> QED  BY <2>2, <2>3
<1>10. m > 0 => f > 0
  BY <1>1, <1>5
<1>11. mix.mixed \in Seq(Nat \X Nat) /\ Len(mix.mixed) = m
  <2>1. \A i \in 1..m : f > 0 /\ <<n, frame(i)>> \in Nat \X Nat
    <3> SUFFICES ASSUME NEW i \in 1..m PROVE f > 0 /\ <<n, frame(i)>> \in Nat \X Nat
      OBVIOUS
    <3>1. f > 0
      BY <1>10
    <3>2. frame(i) \in Nat
      BY <1>9, <3>1
    <3> QED  BY <3>1, <3>2
  <2>2. m \in Nat
    OBVIOUS
  <2>3. \A i \in 1..m : mix.mixed[i] \in Nat \X Nat
    BY <1>8, <2>1
  <2> QED  BY <1>8, <2>2, <2>3
<1>12. \A i \in 1..m : mix.mixed[i] = <<n, Turn(l + i - 1, f)>>
  <2> SUFFICES ASSUME NEW i \in 1..m PROVE mix.mixed[i] = <<n, Turn(l + i - 1, f)>>
    OBVIOUS
  <2>1. f > 0
    BY <1>10
  <2>2. frame(i) = Turn(l + i - 1, f)
    BY <1>9, <2>1, Zenon
  <2>3. mix.mixed[i] = <<n, frame(i)>>
    BY <1>8, Zenon
  <2> QED  BY <2>2, <2>3, Zenon
<1>13. PICK to \in Nat : /\ to = mix.cursor
                         /\ m = 0 => to = c
                         /\ m > 0 => to = frame(m) + 1
  <2>1. CASE m = 0
    BY <1>8, <2>1
  <2>2. CASE m # 0
    <3>1. m \in 1..m /\ f > 0 /\ m > 0
      BY <1>10, <2>2
    <3>2. frame(m) \in Nat
      BY <1>9, <3>1
    <3>3. frame(m) + 1 \in Nat /\ mix.cursor = frame(m) + 1
      BY <1>8, <2>2, <3>2
    <3> QED  BY <2>2, <3>3
  <2> QED  BY <2>1, <2>2
<1>14. /\ after \in VoiceOf /\ after.clip = voice.clip /\ after.loop = voice.loop
       /\ after.cursor = to
  <2>1. after = [voice EXCEPT !.cursor = to]
    BY <1>0, <1>13 DEF AtCursor
  <2> QED  BY <2>1 DEF VoiceOf
<1>15. Follows(after, l + m)
  <2>1. f = 0 => l + m = 0
    BY <1>2, <1>5
  <2>2. ~voice.loop => to = l + m /\ to <= f
    <3> SUFFICES ASSUME ~voice.loop PROVE to = l + m /\ to <= f
      OBVIOUS
    <3>1. frame(m) = c + m - 1
      BY DEF frame
    <3>2. c = l /\ c <= f /\ m <= f - c
      BY <1>2, <1>5
    <3> QED  BY <1>13, <3>1, <3>2
  <2>3. ASSUME voice.loop, f > 0, NEW k \in Nat
        PROVE  Turn(to + k, f) = Turn((l + m) + k, f)
    <3>1. CASE m = 0
      <4>1. to = c /\ l + m = l
        BY <1>13, <3>1
      <4> QED  BY <1>2, <2>3, <4>1
    <3>2. CASE m # 0
      <4>1. m \in 1..m /\ m > 0
        BY <3>2
      <4>2. PICK x \in Nat : x = l + m - 1 /\ frame(m) = Turn(x, f)
        BY <1>9, <2>3, <4>1
      <4>3. Turn(Turn(x, f) + (k + 1), f) = Turn(x + (k + 1), f)
        <5>1. f \in Nat \ {0} /\ k + 1 \in Nat
          BY <2>3
        <5> QED  BY <5>1, TurnIs
      <4>4. to + k = Turn(x, f) + (k + 1)
        <5>1. PICK y \in Nat : y = frame(m) /\ y = Turn(x, f)
          BY <1>9, <2>3, <4>1, <4>2
        <5>2. to = y + 1
          BY <1>13, <4>1, <5>1
        <5>3. to + k = y + (k + 1)
          BY <5>2
        <5> QED  BY <5>1, <5>3
      <4>5. (l + m) + k = x + (k + 1)
        BY <4>2
      <4> QED  BY <4>3, <4>4, <4>5
    <3> QED  BY <3>1, <3>2
  <2>4. after.clip.frames = f
    BY <1>1, <1>14
  <2> QED  BY <1>14, <2>1, <2>2, <2>3, <2>4, Zenon DEF Follows
<1>16. ~mix.goes => l + m = f
  <2> SUFFICES ASSUME ~mix.goes PROVE l + m = f
    OBVIOUS
  <2>1. CASE f = 0
    BY <1>2, <1>5, <2>1
  <2>2. CASE f # 0
    <3>1. f > 0 /\ m # frames
      BY <1>1, <1>8, <2>2
    <3>2. ~voice.loop /\ m = Least(frames, f - c)
      BY <1>5, <3>1
    <3>3. m = f - c
      BY <3>1, <3>2 DEF Least
    <3> QED  BY <1>1, <1>2, <3>2, <3>3
  <2> QED  BY <2>1, <2>2
<1>17. GoesOn(voice, at, frames, mix)
  BY <1>0, <1>1, <1>5, <1>11, <1>12, <1>14, <1>15, <1>16, Zenon DEF GoesOn, FramesFrom
<1> QED  BY <1>0, <1>17, Zenon

\* What is mixed after all that was heard or missed is heard as it should be.
HeardIs(heard, length, clip, before) ==
  heard \in Seq(HeardOf) /\ Len(heard) = length /\ Plays(clip, heard, before)

LEMMA HeardGoesOn ==
  ASSUME NEW clip \in ClipOf, NEW heard \in Seq(HeardOf), NEW before \in Nat,
         Plays(clip, heard, before), NEW at, at = before + Len(heard),
         NEW mixed, FramesFrom(clip, at, mixed)
  PROVE  HeardIs(heard \o HeardAfter(mixed, before), Len(heard) + Len(mixed), clip, before)
<1>0. PICK more : more = heard \o HeardAfter(mixed, before)
  OBVIOUS
<1>1. PICK l \in Nat, m \in Nat, n \in Nat, f \in Nat :
        l = Len(heard) /\ m = Len(mixed) /\ n = clip.number /\ f = clip.frames
  <2>1. Len(heard) \in Nat
    OBVIOUS
  <2>2. Len(mixed) \in Nat
    BY DEF FramesFrom
  <2> QED  BY <2>1, <2>2 DEF ClipOf
<1>2. PICK tail : tail = HeardAfter(mixed, before)
  OBVIOUS
<1>3. \A i \in 1..m : mixed[i] = <<n, Turn(before + l + i - 1, f)>> /\ mixed[i] \in Nat \X Nat
  <2>1. mixed \in Seq(Nat \X Nat)
    BY DEF FramesFrom
  <2>2. \A i \in 1..m : mixed[i] \in Nat \X Nat
    BY <1>1, <2>1
  <2> QED  BY <1>1, <2>2, Zenon DEF FramesFrom
<1>4. tail = [i \in 1..m |-> <<mixed[i][1], mixed[i][2], before>>]
  BY <1>1, <1>2 DEF HeardAfter, FramesFrom
<1>5. tail \in Seq(HeardOf) /\ Len(tail) = m
  <2>1. \A i \in 1..m : <<mixed[i][1], mixed[i][2], before>> \in HeardOf
    BY <1>3 DEF HeardOf
  <2> QED  BY <1>4, <2>1
<1>6. \A i \in 1..m : tail[i] = <<n, Turn(before + l + i - 1, f), before>>
  BY <1>3, <1>4
<1>7. more = heard \o tail
  BY <1>0, <1>2
<1>8. more \in Seq(HeardOf) /\ Len(more) = l + m
  <2>1. more \in Seq(HeardOf)
    BY <1>5, <1>7
  <2>2. Len(more) = Len(heard) + Len(tail)
    BY <1>5, <1>7, ConcatProperties
  <2> QED  BY <1>1, <1>5, <2>1, <2>2
<1>9. ASSUME NEW i \in 1 .. l + m
      PROVE  /\ more[i][3] \in 0..before
             /\ more[i] = <<n, Turn(more[i][3] + i - 1, f), more[i][3]>>
  <2>1. CASE i \in 1..l
    <3>1. i \in 1 .. Len(heard) + Len(tail) /\ i <= Len(heard) /\ i \in DOMAIN heard
      BY <1>1, <1>5, <2>1
    <3>2. more[i] = heard[i]
      BY <1>5, <1>7, <3>1
    <3>3. heard[i][3] \in 0..before /\ heard[i] = <<n, Turn(heard[i][3] + i - 1, f), heard[i][3]>>
      BY <1>1, <3>1, Zenon DEF Plays
    <3> QED  BY <3>2, <3>3, Zenon
  <2>2. CASE i \notin 1..l
    <3>1. PICK k \in 1..m : k = i - l
      <4>1. i - l \in 1..m
        BY <2>2
      <4> QED  BY <4>1
    <3>2. i \in 1 .. Len(heard) + Len(tail) /\ ~ (i <= Len(heard)) /\ i - Len(heard) = k
      BY <1>1, <1>5, <2>2, <3>1
    <3>3. more[i] = tail[k]
      BY <1>5, <1>7, <3>2
    <3>4. before + l + k - 1 = before + i - 1
      BY <1>1, <3>1
    <3>5. more[i] = <<n, Turn(before + i - 1, f), before>>
      BY <1>6, <3>1, <3>3, <3>4
    <3> QED  BY <3>5
  <2> QED  BY <2>1, <2>2
<1>10. Plays(clip, more, before)
  <2>1. DOMAIN more = 1 .. l + m
    BY <1>8
  <2> QED  BY <1>1, <1>9, <2>1 DEF Plays
<1> QED  BY <1>0, <1>1, <1>8, <1>10 DEF HeardIs

ClipsStarted == \A v \in DOMAIN started : started[v] \in ClipOf

\* A block that is taken is heard; one that is not is missed.
BlockIsMixed(t, s, most, frames, taken) ==
  /\ MixesWithin(t, IF taken THEN most ELSE most + frames)
  /\ t.queued = s.queued /\ t.refusals = s.refusals

LEMMA MixIntoBlockMixes ==
  ASSUME NEW most \in Nat, NEW s, MixesWithin(s, most), ClipsStarted,
         NEW frames \in Nat \ {0}, NEW taken \in BOOLEAN
  PROVE  BlockIsMixed(MixIntoBlock(s, frames, taken), s, most, frames, taken)
<1>0. PICK t : t = MixIntoBlock(s, frames, taken)
  OBVIOUS
<1> DEFINE mix == [v \in DOMAIN s.voices |-> MixVoice(s.voices[v], frames)]
           wide == IF taken THEN most ELSE most + frames
<1>1. /\ t = [voices |-> t.voices, sound |-> t.sound, missed |-> t.missed, refusals |-> t.refusals,
              queued |-> t.queued, broken |-> t.broken]
      /\ t.queued = s.queued /\ t.refusals = s.refusals
      /\ t.voices = [v \in DOMAIN s.voices \ Retired(mix) |->
                       [s.voices[v] EXCEPT !.cursor = mix[v].cursor]]
      /\ t.sound = [v \in DOMAIN s.sound |->
                      IF taken /\ v \in DOMAIN mix
                      THEN s.sound[v] \o HeardAfter(mix[v].mixed, s.missed[v]) ELSE s.sound[v]]
      /\ t.missed = [v \in DOMAIN s.missed |->
                       IF ~taken /\ v \in DOMAIN mix
                       THEN s.missed[v] + Len(mix[v].mixed) ELSE s.missed[v]]
  BY <1>0 DEF MixIntoBlock, MixesWithin
<1>2. DOMAIN mix = DOMAIN s.voices /\ \A v \in DOMAIN s.voices : mix[v] = MixVoice(s.voices[v], frames)
  OBVIOUS
<1>3. \A v \in Retired(mix) : v \in DOMAIN mix /\ ~mix[v].goes
  BY DEF Retired
<1> HIDE DEF mix
<1>4. /\ DOMAIN s.sound = DOMAIN started /\ DOMAIN s.missed = DOMAIN started
      /\ DOMAIN s.voices \subseteq DOMAIN started
  BY DEF MixesWithin
<1>5. /\ DOMAIN t.voices \subseteq DOMAIN s.voices
      /\ \A v \in DOMAIN t.voices : t.voices[v] = AtCursor(s.voices[v], mix[v].cursor)
      /\ \A v \in DOMAIN s.voices \ DOMAIN t.voices : ~mix[v].goes
  BY <1>1, <1>2, <1>3 DEF AtCursor
<1>6. /\ DOMAIN t.sound = DOMAIN started /\ DOMAIN t.missed = DOMAIN started
      /\ \A v \in DOMAIN started : t.sound[v] = IF taken /\ v \in DOMAIN s.voices
                                                THEN s.sound[v] \o HeardAfter(mix[v].mixed, s.missed[v])
                                                ELSE s.sound[v]
      /\ \A v \in DOMAIN started : t.missed[v] = IF ~taken /\ v \in DOMAIN s.voices
                                                 THEN s.missed[v] + Len(mix[v].mixed) ELSE s.missed[v]
  BY <1>1, <1>2, <1>4
<1>7. ASSUME NEW v \in DOMAIN s.voices
      PROVE  /\ t.missed[v] \in Nat /\ t.missed[v] <= wide
             /\ t.sound[v] \in Seq(HeardOf) /\ Plays(started[v], t.sound[v], t.missed[v])
             /\ v \in DOMAIN t.voices =>
                  /\ t.voices[v] \in VoiceOf /\ t.voices[v].clip = started[v]
                  /\ Follows(t.voices[v], t.missed[v] + Len(t.sound[v]))
             /\ v \notin DOMAIN t.voices => t.missed[v] + Len(t.sound[v]) = started[v].frames
  <2>1. v \in DOMAIN started /\ started[v] \in ClipOf
    BY <1>4 DEF ClipsStarted
  <2>2. PICK heard \in Seq(HeardOf), before \in Nat, mixed \in {mix[v].mixed} :
          heard = s.sound[v] /\ before = s.missed[v] /\ mixed = mix[v].mixed
    BY <2>1 DEF MixesWithin
  <2>3. before <= most /\ Plays(started[v], heard, before)
    BY <2>1, <2>2 DEF MixesWithin
  <2>4. PICK voice \in VoiceOf : voice = s.voices[v] /\ voice.clip = started[v]
    BY DEF MixesWithin
  <2>5. PICK at \in Nat, l \in Nat : at = before + l /\ l = Len(heard)
    <3>1. Len(heard) \in Nat
      OBVIOUS
    <3>2. before + Len(heard) \in Nat
      BY <3>1
    <3> QED  BY <3>1, <3>2
  <2>6. Follows(voice, at)
    BY <2>2, <2>4, <2>5 DEF MixesWithin
  <2>7. GoesOn(voice, at, frames, mix[v])
    BY <1>2, <2>4, <2>6, MixVoiceIs
  <2>8. /\ FramesFrom(started[v], at, mixed) /\ Len(mixed) <= frames
        /\ AtCursor(voice, mix[v].cursor) \in VoiceOf /\ AtCursor(voice, mix[v].cursor).clip = started[v]
        /\ Follows(AtCursor(voice, mix[v].cursor), at + Len(mixed))
        /\ ~mix[v].goes => at + Len(mixed) = started[v].frames
    BY <2>2, <2>4, <2>7, Zenon DEF GoesOn
  <2>9. PICK m \in Nat : m = Len(mixed) /\ m <= frames
    BY <2>8 DEF FramesFrom
  <2>10. /\ t.missed[v] \in Nat /\ t.missed[v] <= wide
         /\ t.sound[v] \in Seq(HeardOf) /\ Plays(started[v], t.sound[v], t.missed[v])
         /\ t.missed[v] + Len(t.sound[v]) = at + m
    <3>1. CASE taken
      <4>1. PICK more : more = heard \o HeardAfter(mixed, before)
        OBVIOUS
      <4>2. more \in Seq(HeardOf) /\ Len(more) = l + m /\ Plays(started[v], more, before)
        <5>1. at = before + Len(heard)
          BY <2>5
        <5>2. HeardIs(heard \o HeardAfter(mixed, before), Len(heard) + Len(mixed), started[v], before)
          BY <2>1, <2>3, <2>8, <5>1, HeardGoesOn, Zenon
        <5> QED  BY <2>5, <2>9, <4>1, <5>2 DEF HeardIs
      <4>3. t.sound[v] = more /\ t.missed[v] = before
        BY <1>6, <2>1, <2>2, <3>1, <4>1
      <4>4. before + (l + m) = at + m /\ before <= wide
        BY <2>3, <2>5, <3>1
      <4> QED  BY <4>2, <4>3, <4>4
    <3>2. CASE ~taken
      <4>1. t.sound[v] = heard /\ t.missed[v] = before + m
        BY <1>6, <2>1, <2>2, <2>9, <3>2
      <4>2. before + m \in Nat /\ before + m <= wide /\ (before + m) + l = at + m
        BY <2>3, <2>5, <2>9, <3>2
      <4>3. Plays(started[v], heard, before + m)
        <5>1. \A x : x \in 0..before => x \in 0 .. before + m
          OBVIOUS
        <5> QED  BY <2>3, <5>1 DEF Plays
      <4> QED  BY <2>5, <4>1, <4>2, <4>3
    <3> QED  BY <3>1, <3>2
  <2>11. v \in DOMAIN t.voices => t.voices[v] = AtCursor(voice, mix[v].cursor)
    BY <1>5, <2>4
  <2>12. v \notin DOMAIN t.voices => ~mix[v].goes
    BY <1>5
  <2> QED  BY <2>8, <2>9, <2>10, <2>11, <2>12, Zenon
<1>8. ASSUME NEW v \in DOMAIN started, v \notin DOMAIN s.voices
      PROVE  /\ t.missed[v] \in Nat /\ t.missed[v] <= wide
             /\ t.sound[v] \in Seq(HeardOf) /\ Plays(started[v], t.sound[v], t.missed[v])
             /\ v \notin stopped => t.missed[v] + Len(t.sound[v]) = started[v].frames
  <2>1. t.missed[v] = s.missed[v] /\ t.sound[v] = s.sound[v]
    BY <1>6, <1>8
  <2>2. /\ s.missed[v] \in Nat /\ s.missed[v] <= most
        /\ s.sound[v] \in Seq(HeardOf) /\ Plays(started[v], s.sound[v], s.missed[v])
        /\ v \notin stopped => s.missed[v] + Len(s.sound[v]) = started[v].frames
    BY <1>8 DEF MixesWithin
  <2>3. s.missed[v] <= wide
    BY <2>2
  <2> QED  BY <2>1, <2>2, <2>3
<1> HIDE DEF wide
<1>9. \A v \in DOMAIN started :
        /\ t.missed[v] \in Nat /\ t.missed[v] <= wide
        /\ t.sound[v] \in Seq(HeardOf) /\ Plays(started[v], t.sound[v], t.missed[v])
  BY <1>7, <1>8, Zenon
<1>10. \A v \in DOMAIN t.voices :
         /\ t.voices[v] \in VoiceOf /\ t.voices[v].clip = started[v]
         /\ Follows(t.voices[v], t.missed[v] + Len(t.sound[v]))
  BY <1>5, <1>7
<1>11. \A v \in DOMAIN started \ (DOMAIN t.voices \cup stopped) :
         t.missed[v] + Len(t.sound[v]) = started[v].frames
  BY <1>7, <1>8
<1>12. t.refusals \in Nat /\ t.queued \in Nat /\ t.queued <= QueueMax
  BY <1>1 DEF MixesWithin
<1>13. DOMAIN t.voices \subseteq DOMAIN started
  BY <1>4, <1>5
<1>14. MixesWithin(t, wide)
  BY <1>1, <1>6, <1>9, <1>10, <1>11, <1>12, <1>13, Zenon DEF MixesWithin
<1> QED  BY <1>0, <1>1, <1>14 DEF wide, BlockIsMixed

------------------------------------------------------------------------------
LEMMA PassMixes ==
  ASSUME NEW s, Mixes(s), ClipsStarted, NEW refused \in BOOLEAN
  PROVE  Mixes(Pass(s, refused))
<1>1. PICK room \in Nat : room = (IF QueueMax > s.queued THEN QueueMax - s.queued ELSE 0)
                          /\ s.queued + room <= QueueMax
  BY AudioAssumption DEF Mixes, MixesWithin
<1>2. PICK frames \in Nat : frames = Least(BlockFrames, room) /\ frames <= room /\ frames <= BlockFrames
  BY AudioAssumption DEF Least
<1>3. PICK taken, mixed :
        taken \in BOOLEAN /\ (taken <=> ~refused) /\ mixed = MixIntoBlock(s, frames, taken)
  <2>1. PICK taken \in BOOLEAN : taken <=> ~refused
    OBVIOUS
  <2> QED  BY <2>1
<1>4. Pass(s, refused) = IF s.broken \/ s.queued >= Target \/ frames = 0 THEN s
                         ELSE IF refused THEN [mixed EXCEPT !.broken = TRUE, !.refusals = @ + 1]
                         ELSE [mixed EXCEPT !.queued = @ + frames]
  <2>1. mixed = MixIntoBlock(s, frames, ~refused)
    <3>1. CASE refused
      BY <1>3, <3>1
    <3>2. CASE ~refused
      BY <1>3, <3>2
    <3> QED  BY <3>1, <3>2
  <2> QED  BY <1>1, <1>2, <2>1, Zenon DEF Pass
<1>5. CASE s.broken \/ s.queued >= Target \/ frames = 0
  BY <1>4, <1>5, Zenon
<1>6. CASE ~ (s.broken \/ s.queued >= Target \/ frames = 0)
  <2>1. frames \in Nat \ {0}
    BY <1>6
  <2>2. PICK most \in Nat, r \in Nat : most = BlockFrames * r /\ r = s.refusals /\ MixesWithin(s, most)
    <3>1. PICK r \in Nat, b \in Nat : r = s.refusals /\ b = BlockFrames
      BY AudioAssumption DEF Mixes, MixesWithin
    <3>2. b * r \in Nat
      OBVIOUS
    <3>3. MixesWithin(s, b * r)
      BY <3>1 DEF Mixes
    <3> QED  BY <3>1, <3>2, <3>3
  <2>3. PICK wide : wide = IF taken THEN most ELSE most + frames
    OBVIOUS
  <2>4. MixesWithin(mixed, wide) /\ mixed.queued = s.queued /\ mixed.refusals = r
    <3>1. BlockIsMixed(MixIntoBlock(s, frames, taken), s, most, frames, taken)
      BY <1>3, <2>1, <2>2, MixIntoBlockMixes, Zenon
    <3> QED  BY <1>3, <2>2, <2>3, <3>1, Zenon DEF BlockIsMixed
  <2>5. mixed.queued + frames \in Nat /\ mixed.queued + frames <= QueueMax
    BY <1>1, <1>2, <2>4, AudioAssumption DEF MixesWithin
  <2>6. ASSUME refused, NEW t, t = [mixed EXCEPT !.broken = TRUE, !.refusals = @ + 1]
        PROVE  Mixes(t)
    <3>1. /\ t.voices = mixed.voices /\ t.sound = mixed.sound /\ t.missed = mixed.missed
          /\ t.queued = mixed.queued /\ t.refusals = r + 1
          /\ t = [voices |-> t.voices, sound |-> t.sound, missed |-> t.missed, refusals |-> t.refusals,
                  queued |-> t.queued, broken |-> t.broken]
      BY <2>4, <2>6 DEF MixesWithin
    <3>2. PICK b \in Nat : b = BlockFrames /\ frames <= b
      BY <1>2, AudioAssumption
    <3>3. b * (r + 1) = b * r + b /\ b * r \in Nat
      OBVIOUS
    <3>4. PICK allowed \in Nat : allowed = BlockFrames * t.refusals /\ wide <= allowed
      BY <1>3, <2>2, <2>3, <2>6, <3>1, <3>2, <3>3
    <3>5. wide \in Nat
      BY <2>2, <2>3
    <3>6. \A v \in DOMAIN started : t.missed[v] \in Nat /\ t.missed[v] <= allowed
      BY <2>4, <3>1, <3>4, <3>5 DEF MixesWithin
    <3>7. t.refusals \in Nat
      BY <3>1
    <3>8. MixesWithin(t, allowed)
      BY <2>4, <3>1, <3>6, <3>7, Zenon DEF MixesWithin
    <3> QED  BY <3>4, <3>8 DEF Mixes
  <2>7. ASSUME ~refused, NEW t, t = [mixed EXCEPT !.queued = @ + frames]
        PROVE  Mixes(t)
    <3>1. /\ t.voices = mixed.voices /\ t.sound = mixed.sound /\ t.missed = mixed.missed
          /\ t.queued = mixed.queued + frames /\ t.refusals = r
          /\ t = [voices |-> t.voices, sound |-> t.sound, missed |-> t.missed, refusals |-> t.refusals,
                  queued |-> t.queued, broken |-> t.broken]
      BY <2>4, <2>7 DEF MixesWithin
    <3>2. wide = BlockFrames * t.refusals
      BY <1>3, <2>2, <2>3, <2>7, <3>1
    <3>3. MixesWithin(t, wide)
      BY <2>2, <2>4, <2>5, <3>1, Zenon DEF MixesWithin
    <3> QED  BY <3>2, <3>3 DEF Mixes
  <2> QED  BY <1>4, <1>6, <2>6, <2>7, Zenon
<1> QED  BY <1>5, <1>6

\* What the recursive definitions ask, up to n, of the functions they name.
PassedUp(g, s, refusing, n) ==
  g = [i \in 0..n |-> IF i = 0 THEN s ELSE Pass(g[i - 1], i = refusing)]
BlockedUp(g, s, wanted, n) ==
  g = [i \in 0..n |-> IF i = 0 THEN s ELSE Block(g[i - 1], wanted - (i - 1) * BlockFrames)]

LEMMA PassesExist ==
  ASSUME NEW s, NEW refusing
  PROVE  \A n \in Nat : \E g : PassedUp(g, s, refusing, n)
<1> DEFINE Lacking == {n \in Nat : ~ \E g : PassedUp(g, s, refusing, n)}
<1> SUFFICES ASSUME Lacking # {} PROVE FALSE
  OBVIOUS
<1>1. PICK n \in Lacking : \A m \in Lacking : n <= m
  <2> HIDE DEF Lacking
  <2> QED  BY LeastElement DEF Lacking
<1>2. CASE n = 0
  <2>1. PassedUp([i \in 0..0 |-> s], s, refusing, 0)
    BY DEF PassedUp
  <2> QED  BY <1>2, <2>1
<1>3. CASE n # 0
  <2>1. n \in Nat /\ n - 1 \in Nat /\ n - 1 \notin Lacking
    BY <1>1, <1>3
  <2>2. PICK f : PassedUp(f, s, refusing, n - 1)
    BY <2>1
  <2> HIDE DEF Lacking
  <2> DEFINE next(h, i) == IF i = 0 THEN s ELSE Pass(h[i - 1], i = refusing)
             g == [i \in 0..n |-> next(f, i)]
  <2>3. \A i \in 0 .. n - 1 : f[i] = next(f, i)
    BY <2>2 DEF PassedUp
  <2>4. \A i \in 0..n : g[i] = next(f, i)
    OBVIOUS
  <2>5. \A i \in 0..n : i = 0 \/ i - 1 \in 0 .. n - 1
    BY <2>1
  <2>6. \A i \in 0 .. n - 1 : i \in 0..n
    BY <2>1
  <2> HIDE DEF g
  <2>7. \A i \in 0 .. n - 1 : g[i] = f[i]
    <3> HIDE DEF next
    <3> QED  BY <2>3, <2>4, <2>6
  <2>8. \A i \in 0..n : next(f, i) = next(g, i)
    BY <2>5, <2>7
  <2>9. g = [i \in 0..n |-> next(g, i)]
    <3> HIDE DEF next
    <3> QED  BY <2>8 DEF g
  <2>10. PassedUp(g, s, refusing, n)
    BY <2>9 DEF PassedUp
  <2> QED  BY <1>1, <2>10 DEF Lacking
<1> QED  BY <1>2, <1>3

LEMMA FilledMixes ==
  ASSUME NEW s, Mixes(s), ClipsStarted, NEW refusing
  PROVE  Mixes(Filled(s, refusing))
<1>0. Passes \in Nat
  BY AudioAssumption
<1>1. PICK g : g = (CHOOSE h : PassedUp(h, s, refusing, Passes))
  OBVIOUS
<1>2. PassedUp(g, s, refusing, Passes)
  <2>1. \E h : PassedUp(h, s, refusing, Passes)
    BY <1>0, PassesExist
  <2> QED  BY <1>1, <2>1
<1>3. Filled(s, refusing) = g[Passes]
  BY <1>1, Zenon DEF Filled, PassedUp
<1>4. \A i \in 0..Passes : g[i] = IF i = 0 THEN s ELSE Pass(g[i - 1], i = refusing)
  BY <1>2 DEF PassedUp
<1>5. \A i \in 0..Passes : Mixes(g[i])
  <2> DEFINE Odd == {i \in 0..Passes : ~Mixes(g[i])}
  <2> SUFFICES ASSUME Odd # {} PROVE FALSE
    OBVIOUS
  <2>1. PICK i \in Odd : \A m \in Odd : i <= m
    <3>1. Odd \in SUBSET Nat
      BY <1>0
    <3> HIDE DEF Odd
    <3> QED  BY <3>1, LeastElement
  <2>2. i \in 0..Passes /\ ~Mixes(g[i])
    BY <2>1
  <2>3. i # 0
    BY <1>4, <2>2
  <2>4. i - 1 \in 0..Passes /\ ~ (i <= i - 1)
    BY <1>0, <2>2, <2>3
  <2>5. Mixes(g[i - 1])
    BY <2>1, <2>4
  <2>6. g[i] = Pass(g[i - 1], i = refusing)
    BY <1>4, <2>2, <2>3
  <2>7. (i = refusing) \in BOOLEAN
    OBVIOUS
  <2> QED  BY <2>2, <2>5, <2>6, <2>7, PassMixes
<1> QED  BY <1>0, <1>3, <1>5

LEMMA BlockMixes ==
  ASSUME NEW s, Mixes(s), ClipsStarted, NEW remaining \in Int
  PROVE  Mixes(Block(s, remaining))
<1>1. CASE remaining <= 0
  BY <1>1 DEF Block
<1>2. CASE ~ (remaining <= 0)
  <2>1. PICK frames \in Nat \ {0} : frames = Least(remaining, BlockFrames)
    BY <1>2, AudioAssumption DEF Least
  <2>2. PICK t : t = Block(s, remaining) /\ t = MixIntoBlock(s, frames, TRUE)
    BY <1>2, <2>1 DEF Block
  <2>3. PICK most \in Nat : most = BlockFrames * s.refusals /\ MixesWithin(s, most)
    <3>1. PICK r \in Nat, b \in Nat : r = s.refusals /\ b = BlockFrames
      BY AudioAssumption DEF Mixes, MixesWithin
    <3>2. b * r \in Nat
      OBVIOUS
    <3>3. MixesWithin(s, b * r)
      BY <3>1 DEF Mixes
    <3> QED  BY <3>1, <3>2, <3>3
  <2>4. MixesWithin(t, most) /\ t.refusals = s.refusals
    <3>1. BlockIsMixed(MixIntoBlock(s, frames, TRUE), s, most, frames, TRUE)
      BY <2>3, MixIntoBlockMixes
    <3> QED  BY <2>2, <3>1 DEF BlockIsMixed
  <2> QED  BY <2>2, <2>3, <2>4 DEF Mixes
<1> QED  BY <1>1, <1>2

LEMMA BlocksExist ==
  ASSUME NEW s, NEW wanted
  PROVE  \A n \in Nat : \E g : BlockedUp(g, s, wanted, n)
<1> DEFINE Lacking == {n \in Nat : ~ \E g : BlockedUp(g, s, wanted, n)}
<1> SUFFICES ASSUME Lacking # {} PROVE FALSE
  OBVIOUS
<1>1. PICK n \in Lacking : \A m \in Lacking : n <= m
  <2> HIDE DEF Lacking
  <2> QED  BY LeastElement DEF Lacking
<1>2. CASE n = 0
  <2>1. BlockedUp([i \in 0..0 |-> s], s, wanted, 0)
    BY DEF BlockedUp
  <2> QED  BY <1>2, <2>1
<1>3. CASE n # 0
  <2>1. n \in Nat /\ n - 1 \in Nat /\ n - 1 \notin Lacking
    BY <1>1, <1>3
  <2>2. PICK f : BlockedUp(f, s, wanted, n - 1)
    BY <2>1
  <2> HIDE DEF Lacking
  <2> DEFINE next(h, i) == IF i = 0 THEN s ELSE Block(h[i - 1], wanted - (i - 1) * BlockFrames)
             g == [i \in 0..n |-> next(f, i)]
  <2>3. \A i \in 0 .. n - 1 : f[i] = next(f, i)
    BY <2>2 DEF BlockedUp
  <2>4. \A i \in 0..n : g[i] = next(f, i)
    OBVIOUS
  <2>5. \A i \in 0..n : i = 0 \/ i - 1 \in 0 .. n - 1
    BY <2>1
  <2>6. \A i \in 0 .. n - 1 : i \in 0..n
    BY <2>1
  <2> HIDE DEF g
  <2>7. \A i \in 0 .. n - 1 : g[i] = f[i]
    <3> HIDE DEF next
    <3> QED  BY <2>3, <2>4, <2>6
  <2>8. \A i \in 0..n : next(f, i) = next(g, i)
    BY <2>5, <2>7
  <2>9. g = [i \in 0..n |-> next(g, i)]
    <3> HIDE DEF next
    <3> QED  BY <2>8 DEF g
  <2>10. BlockedUp(g, s, wanted, n)
    BY <2>9 DEF BlockedUp
  <2> QED  BY <1>1, <2>10 DEF Lacking
<1> QED  BY <1>2, <1>3

LEMMA AdvancedMixes ==
  ASSUME NEW s, Mixes(s), ClipsStarted, NEW wanted \in Nat
  PROVE  Mixes(AdvancedBy(s, wanted))
<1>1. PICK g : g = (CHOOSE h : BlockedUp(h, s, wanted, wanted))
  OBVIOUS
<1>2. BlockedUp(g, s, wanted, wanted)
  <2>1. \E h : BlockedUp(h, s, wanted, wanted)
    BY BlocksExist
  <2> QED  BY <1>1, <2>1
<1>3. AdvancedBy(s, wanted) = g[wanted]
  BY <1>1, Zenon DEF AdvancedBy, BlockedUp
<1>4. \A i \in 0..wanted :
        g[i] = IF i = 0 THEN s ELSE Block(g[i - 1], wanted - (i - 1) * BlockFrames)
  BY <1>2 DEF BlockedUp
<1>5. \A i \in 0..wanted : Mixes(g[i])
  <2> DEFINE Odd == {i \in 0..wanted : ~Mixes(g[i])}
  <2> SUFFICES ASSUME Odd # {} PROVE FALSE
    OBVIOUS
  <2>1. PICK i \in Odd : \A m \in Odd : i <= m
    <3>1. Odd \in SUBSET Nat
      OBVIOUS
    <3> HIDE DEF Odd
    <3> QED  BY <3>1, LeastElement
  <2>2. i \in 0..wanted /\ ~Mixes(g[i])
    BY <2>1
  <2>3. i # 0
    BY <1>4, <2>2
  <2>4. i - 1 \in 0..wanted /\ ~ (i <= i - 1)
    BY <2>2, <2>3
  <2>5. Mixes(g[i - 1])
    BY <2>1, <2>4
  <2>6. PICK left \in Int : left = wanted - (i - 1) * BlockFrames
    <3>1. i - 1 \in Int /\ BlockFrames \in Int
      BY <2>4, AudioAssumption
    <3> QED  BY <3>1
  <2>7. g[i] = Block(g[i - 1], left)
    BY <1>4, <2>2, <2>3, <2>6
  <2> QED  BY <2>2, <2>5, <2>7, BlockMixes
<1>6. wanted \in 0..wanted
  OBVIOUS
<1> QED  BY <1>3, <1>5, <1>6

------------------------------------------------------------------------------
\* The mixing stands where its three parts and what it is told of stand.
LEMMA MixingStays ==
  ASSUME Mixes(Mixing), UNCHANGED <<voices, sound, missed, refusals, started, stopped>>,
         queued' \in Nat, queued' <= QueueMax
  PROVE  Mixes(Mixing)'
BY DEF Mixes, MixesWithin, Mixing

LEMMA MixingIs ==
  /\ Mixing.voices = voices /\ Mixing.sound = sound /\ Mixing.queued = queued
  /\ Mixing.missed = missed /\ Mixing.refusals = refusals
  /\ Mixing = [voices |-> Mixing.voices, sound |-> Mixing.sound, missed |-> Mixing.missed,
               refusals |-> Mixing.refusals, queued |-> Mixing.queued, broken |-> Mixing.broken]
BY DEF Mixing

\* Some of the clips there are; and those with a new one, n.
SomeOf(clips) ==
  DOMAIN clips \subseteq DOMAIN clipPool /\ \A h \in DOMAIN clips : clips[h] = clipPool[h]
WithOne(created, clips, n, asset) ==
  /\ n \in Nat /\ DOMAIN created = DOMAIN clips \cup {n} /\ DOMAIN created \subseteq 1 .. n
  /\ \A h \in DOMAIN clips : h # n /\ created[h] = clipPool[h]
  /\ created[n].asset = asset
  /\ \A h \in DOMAIN created : created[h] \in ClipOf

LEMMA CreatedIs ==
  ASSUME NamesAgree, NEW frames \in Nat, NEW asset \in ClipAsset \cup {NoClip}, NEW clips, SomeOf(clips)
  PROVE  WithOne(CreateClip(clips, frames, asset), clips, clipsMade + 1, asset)
<1>0. PICK created : created = CreateClip(clips, frames, asset)
  OBVIOUS
<1>1. PICK n \in Nat : n = clipsMade + 1
  BY DEF NamesAgree
<1>2. PICK clip : clip = [asset |-> asset, number |-> n, frames |-> frames]
  OBVIOUS
<1>3. created = [k \in DOMAIN clips \cup {n} |-> IF k = n THEN clip ELSE clips[k]]
  BY <1>0, <1>1, <1>2 DEF CreateClip, Inserting
<1>4. DOMAIN clips \subseteq 1 .. n - 1
  BY <1>1 DEF NamesAgree, SomeOf
<1>5. n \notin DOMAIN clips /\ n \in 1..n /\ 1 .. n - 1 \subseteq 1..n
  BY <1>1, <1>4 DEF NamesAgree
<1>6. DOMAIN created = DOMAIN clips \cup {n} /\ created[n] = clip
  BY <1>3
<1>7. \A h \in DOMAIN clips : h # n /\ created[h] = clipPool[h]
  BY <1>3, <1>5 DEF SomeOf
<1>8. clip \in ClipOf
  BY <1>2 DEF ClipOf
<1>9. \A h \in DOMAIN created : created[h] \in ClipOf
  BY <1>6, <1>7, <1>8 DEF NamesAgree, SomeOf
<1>10. clip.asset = asset
  BY <1>2
<1>11. WithOne(created, clips, n, asset)
  BY <1>4, <1>5, <1>6, <1>7, <1>9, <1>10 DEF WithOne
<1> QED  BY <1>0, <1>1, <1>11, Zenon

LEMMA DestroyedIs ==
  ASSUME NEW map, NEW h
  PROVE  /\ DOMAIN Destroyed(map, h) = DOMAIN map \ {h}
         /\ \A k \in DOMAIN map \ {h} : Destroyed(map, h)[k] = map[k]
BY DEF Destroyed, Restrict

LEMMA ClipsStep ==
  ASSUME AudioInv,
         \/ \E f \in ClipFrames : MakeClip(f) \/ \E a \in ClipAsset : FinalisePending(a, f)
         \/ \E h \in 1 .. clipsMade : DestroyClip(h)
  PROVE  AudioInv'
<1>1. UNCHANGED <<voices, queued, started, sound, missed, refusals, stopped>>
  BY DEF MakeClip, FinalisePending, DestroyClip
<1>2. Mixes(Mixing)'
  BY <1>1, MixingStays DEF AudioInv, Mixes, MixesWithin, Mixing
<1>3. CASE \E f \in ClipFrames : MakeClip(f)
  <2>1. PICK f \in ClipFrames : MakeClip(f)
    BY <1>3
  <2>2. /\ clipsMade' = clipsMade + 1 /\ clipPool' = CreateClip(clipPool, f, NoClip) /\ resolved' = resolved
        /\ f \in Nat /\ NamesAgree
    BY <2>1, AudioAssumption DEF MakeClip, AudioInv
  <2>3. /\ clipsMade' \in Nat /\ DOMAIN clipPool' = DOMAIN clipPool \cup {clipsMade'}
        /\ DOMAIN clipPool' \subseteq 1 .. clipsMade'
        /\ \A h \in DOMAIN clipPool : h # clipsMade' /\ clipPool'[h] = clipPool[h]
        /\ clipPool'[clipsMade'].asset = NoClip
        /\ \A h \in DOMAIN clipPool' : clipPool'[h] \in ClipOf
    <3>1. SomeOf(clipPool)
      BY DEF SomeOf
    <3>2. WithOne(clipPool', clipPool, clipsMade', NoClip)
      BY <2>2, <3>1, CreatedIs
    <3> QED  BY <3>2 DEF WithOne
  <2>4. NamesAgree'
    <3>1. \A h \in DOMAIN clipPool' : clipPool'[h].asset # NoClip => resolved'[clipPool'[h].asset] = h
      BY <2>2, <2>3 DEF NamesAgree
    <3> QED  BY <2>2, <2>3, <3>1 DEF NamesAgree
  <2> QED  BY <1>1, <1>2, <2>4 DEF AudioInv
<1>4. CASE \E f \in ClipFrames, a \in ClipAsset : FinalisePending(a, f)
  <2>1. PICK f \in ClipFrames, a \in ClipAsset : FinalisePending(a, f)
    BY <1>4
  <2>2. PICK clips : clips = Destroyed(clipPool, resolved[a])
    OBVIOUS
  <2>3. /\ clipsMade' = clipsMade + 1 /\ clipPool' = CreateClip(clips, f, a)
        /\ resolved' = [resolved EXCEPT ![a] = clipsMade + 1]
        /\ f \in Nat /\ NamesAgree /\ a # NoClip
    BY <2>1, <2>2, AudioAssumption DEF FinalisePending, AudioInv
  <2>4. /\ DOMAIN clips = DOMAIN clipPool \ {resolved[a]}
        /\ \A h \in DOMAIN clips : clips[h] = clipPool[h]
    BY <2>2, DestroyedIs
  <2>5. /\ clipsMade' \in Nat /\ DOMAIN clipPool' = DOMAIN clips \cup {clipsMade'}
        /\ DOMAIN clipPool' \subseteq 1 .. clipsMade'
        /\ \A h \in DOMAIN clips : h # clipsMade' /\ clipPool'[h] = clipPool[h]
        /\ clipPool'[clipsMade'].asset = a
        /\ \A h \in DOMAIN clipPool' : clipPool'[h] \in ClipOf
    <3>1. SomeOf(clips)
      BY <2>4 DEF SomeOf
    <3>2. WithOne(clipPool', clips, clipsMade', a)
      BY <2>3, <3>1, CreatedIs
    <3> QED  BY <2>4, <3>2 DEF WithOne
  <2>6. /\ resolved' \in [ClipAsset -> Nat \cup {NoClip}] /\ resolved'[a] = clipsMade'
        /\ \A b \in ClipAsset : b # a => resolved'[b] = resolved[b]
    BY <2>3, <2>5 DEF NamesAgree
  <2>7. ASSUME NEW h \in DOMAIN clipPool', clipPool'[h].asset # NoClip
        PROVE  resolved'[clipPool'[h].asset] = h
    <3>1. CASE h = clipsMade'
      BY <2>5, <2>6, <3>1
    <3>2. CASE h # clipsMade'
      <4>1. h \in DOMAIN clips /\ h \in DOMAIN clipPool /\ clipPool'[h] = clipPool[h] /\ h # resolved[a]
        BY <2>4, <2>5, <3>2
      <4>2. clipPool[h] \in ClipOf /\ resolved[clipPool[h].asset] = h
        BY <2>3, <2>7, <4>1 DEF NamesAgree
      <4>3. clipPool[h].asset \in ClipAsset /\ clipPool[h].asset # a
        BY <2>7, <4>1, <4>2 DEF ClipOf
      <4> QED  BY <2>6, <4>1, <4>2, <4>3
    <3> QED  BY <3>1, <3>2
  <2>8. NamesAgree'
    BY <2>5, <2>6, <2>7, Zenon DEF NamesAgree
  <2> QED  BY <1>1, <1>2, <2>8 DEF AudioInv
<1>5. CASE \E h \in 1 .. clipsMade : DestroyClip(h)
  <2>1. PICK h \in 1 .. clipsMade : DestroyClip(h)
    BY <1>5
  <2>2. clipPool' = Destroyed(clipPool, h) /\ resolved' = resolved /\ clipsMade' = clipsMade /\ NamesAgree
    BY <2>1 DEF DestroyClip, AudioInv
  <2>3. /\ DOMAIN clipPool' \subseteq DOMAIN clipPool
        /\ \A k \in DOMAIN clipPool' : clipPool'[k] = clipPool[k]
    BY <2>2, DestroyedIs
  <2>4. NamesAgree'
    BY <2>2, <2>3 DEF NamesAgree
  <2> QED  BY <1>1, <1>2, <2>4 DEF AudioInv
<1> QED  BY <1>3, <1>4, <1>5

LEMMA PlayStep ==
  ASSUME AudioInv, NEW h, NEW loop \in BOOLEAN, Play(h, loop)
  PROVE  AudioInv'
<1>1. PICK n \in Nat : DOMAIN started = 1..n
  BY DEF AudioInv
<1>2. Cardinality(DOMAIN started) = n
  BY <1>1, FS_Interval
<1>3. PICK v \in Nat : v = n + 1
  OBVIOUS
<1>4. PICK voice : voice = [clip |-> clipPool[h], handle |-> h, cursor |-> 0, loop |-> loop]
  OBVIOUS
<1>5. /\ voices' = Inserting(voices, v, voice) /\ started' = Inserting(started, v, clipPool[h])
      /\ sound' = Inserting(sound, v, <<>>) /\ missed' = Inserting(missed, v, 0) /\ h \in DOMAIN clipPool
      /\ UNCHANGED <<clipPool, resolved, queued, clipsMade, refusals, stopped>>
  BY <1>2, <1>3, <1>4 DEF Play
<1>6. v \notin DOMAIN started /\ 1..n \cup {v} = 1..v
  BY <1>1, <1>3
<1>7. /\ Mixes(Mixing) /\ DOMAIN sound = DOMAIN started /\ DOMAIN missed = DOMAIN started
      /\ DOMAIN voices \subseteq DOMAIN started
  BY MixingIs DEF AudioInv, Mixes, MixesWithin
<1>8. /\ DOMAIN voices' = DOMAIN voices \cup {v} /\ voices'[v] = voice
      /\ \A w \in DOMAIN voices : w # v /\ voices'[w] = voices[w]
  BY <1>5, <1>6, <1>7 DEF Inserting
<1>9. /\ DOMAIN started' = DOMAIN started \cup {v} /\ started'[v] = clipPool[h]
      /\ \A w \in DOMAIN started : w # v /\ started'[w] = started[w]
  BY <1>5, <1>6 DEF Inserting
<1>10. /\ DOMAIN sound' = DOMAIN started \cup {v} /\ sound'[v] = <<>>
       /\ DOMAIN missed' = DOMAIN started \cup {v} /\ missed'[v] = 0
       /\ \A w \in DOMAIN started : w # v /\ sound'[w] = sound[w] /\ missed'[w] = missed[w]
  BY <1>5, <1>6, <1>7 DEF Inserting
<1>11. clipPool[h] \in ClipOf /\ h \in Nat
  BY <1>5 DEF AudioInv, NamesAgree
<1>12. voice \in VoiceOf /\ voice.clip = clipPool[h] /\ Follows(voice, 0)
  <2>1. voice \in VoiceOf /\ voice.clip = clipPool[h] /\ voice.cursor = 0
    BY <1>4, <1>11 DEF VoiceOf
  <2>2. clipPool[h].frames \in Nat /\ 0 <= clipPool[h].frames
    BY <1>11 DEF ClipOf
  <2> QED  BY <2>1, <2>2, Zenon DEF Follows
<1>13. <<>> \in Seq(HeardOf) /\ Plays(clipPool[h], <<>>, 0) /\ Len(<<>>) = 0
  BY DEF Plays
<1>14. Mixes(Mixing)'
  <2>1. /\ DOMAIN sound' = DOMAIN started' /\ DOMAIN missed' = DOMAIN started'
        /\ DOMAIN voices' \subseteq DOMAIN started'
        /\ queued' \in Nat /\ queued' <= QueueMax /\ refusals \in Nat /\ refusals' = refusals
    BY <1>5, <1>7, <1>8, <1>9, <1>10, MixingIs DEF Mixes, MixesWithin
  <2>2. PICK most \in Nat : most = BlockFrames * refusals /\ most = BlockFrames * refusals'
    BY <2>1, AudioAssumption
  <2>3. ASSUME NEW w \in DOMAIN started'
        PROVE  /\ missed'[w] \in Nat /\ missed'[w] <= most
               /\ sound'[w] \in Seq(HeardOf) /\ Plays(started'[w], sound'[w], missed'[w])
               /\ w \in DOMAIN voices' => /\ voices'[w] \in VoiceOf /\ voices'[w].clip = started'[w]
                                          /\ Follows(voices'[w], missed'[w] + Len(sound'[w]))
               /\ w \notin DOMAIN voices' \cup stopped' => missed'[w] + Len(sound'[w]) = started'[w].frames
    <3>1. CASE w = v
      <4>1. w \in DOMAIN voices' /\ 0 \in Nat /\ 0 <= most /\ 0 + 0 = 0
        BY <1>8, <3>1
      <4> QED  BY <1>8, <1>9, <1>10, <1>12, <1>13, <3>1, <4>1, Zenon
    <3>2. CASE w # v
      <4>1. /\ w \in DOMAIN started /\ sound'[w] = sound[w] /\ missed'[w] = missed[w]
            /\ started'[w] = started[w]
            /\ w \in DOMAIN voices' <=> w \in DOMAIN voices
            /\ w \in DOMAIN voices => voices'[w] = voices[w]
        BY <1>7, <1>8, <1>9, <1>10, <3>2
      <4>2. /\ missed[w] \in Nat /\ missed[w] <= most
            /\ sound[w] \in Seq(HeardOf) /\ Plays(started[w], sound[w], missed[w])
            /\ w \in DOMAIN voices => /\ voices[w] \in VoiceOf /\ voices[w].clip = started[w]
                                      /\ Follows(voices[w], missed[w] + Len(sound[w]))
            /\ w \notin DOMAIN voices \cup stopped => missed[w] + Len(sound[w]) = started[w].frames
        BY <1>7, <2>2, <4>1, MixingIs DEF Mixes, MixesWithin
      <4> QED  BY <1>5, <4>1, <4>2
    <3> QED  BY <3>1, <3>2
  <2>4. /\ Mixing'.voices = voices' /\ Mixing'.sound = sound' /\ Mixing'.missed = missed'
        /\ Mixing'.refusals = refusals' /\ Mixing'.queued = queued'
        /\ Mixing' = [voices |-> Mixing'.voices, sound |-> Mixing'.sound, missed |-> Mixing'.missed,
                      refusals |-> Mixing'.refusals, queued |-> Mixing'.queued, broken |-> Mixing'.broken]
    BY DEF Mixing
  <2> QED  BY <2>1, <2>2, <2>3, <2>4 DEF Mixes, MixesWithin
<1>15. \A w \in DOMAIN started' : started'[w] \in ClipOf
  BY <1>9, <1>11 DEF AudioInv
<1>16. NamesAgree'
  BY <1>5 DEF AudioInv, NamesAgree
<1>17. DOMAIN started' = 1..v
  BY <1>1, <1>6, <1>9
<1> QED  BY <1>14, <1>15, <1>16, <1>17 DEF AudioInv

LEMMA StopStep ==
  ASSUME AudioInv, StopAll \/ \E v \in DOMAIN voices : Stop(v)
  PROVE  AudioInv'
<1>1. PICK gone : /\ voices' = [w \in DOMAIN voices \ gone |-> voices[w]] /\ stopped' = stopped \cup gone
                  /\ gone \subseteq DOMAIN voices
  <2>1. CASE StopAll
    <3>1. DOMAIN voices' = {} /\ DOMAIN voices \ DOMAIN voices = {}
      BY <2>1 DEF StopAll
    <3>2. voices' = [w \in DOMAIN voices \ DOMAIN voices |-> voices[w]]
      BY <2>1, <3>1 DEF StopAll
    <3> QED  BY <2>1, <3>2 DEF StopAll
  <2>2. CASE \E v \in DOMAIN voices : Stop(v)
    <3>1. PICK v \in DOMAIN voices : Stop(v)
      BY <2>2
    <3>2. PICK one : one = {v}
      OBVIOUS
    <3>3. voices' = [w \in DOMAIN voices \ one |-> voices[w]] /\ stopped' = stopped \cup one
      BY <3>1, <3>2, Zenon DEF Stop, Destroyed, Restrict
    <3>4. one \subseteq DOMAIN voices
      BY <3>1, <3>2
    <3> QED  BY <3>3, <3>4
  <2> QED  BY <2>1, <2>2
<1>2. UNCHANGED <<clipPool, resolved, queued, clipsMade, started, sound, missed, refusals>>
  BY DEF StopAll, Stop
<1>3. /\ DOMAIN voices' = DOMAIN voices \ gone
      /\ \A w \in DOMAIN voices' : w \in DOMAIN voices /\ voices'[w] = voices[w]
  BY <1>1
<1>4. Mixes(Mixing)
  BY DEF AudioInv
<1>5. PICK most : most = BlockFrames * refusals
  OBVIOUS
<1>6. Mixes(Mixing)'
  <2>1. /\ DOMAIN sound = DOMAIN started /\ DOMAIN missed = DOMAIN started
        /\ DOMAIN voices \subseteq DOMAIN started
        /\ refusals \in Nat /\ queued \in Nat /\ queued <= QueueMax
        /\ \A v \in DOMAIN started :
             /\ missed[v] \in Nat /\ missed[v] <= most
             /\ sound[v] \in Seq(HeardOf) /\ Plays(started[v], sound[v], missed[v])
        /\ \A v \in DOMAIN voices : /\ voices[v] \in VoiceOf /\ voices[v].clip = started[v]
                                    /\ Follows(voices[v], missed[v] + Len(sound[v]))
        /\ \A v \in DOMAIN started \ (DOMAIN voices \cup stopped) :
             missed[v] + Len(sound[v]) = started[v].frames
    BY <1>4, <1>5, MixingIs DEF Mixes, MixesWithin
  <2>2. \A v \in DOMAIN voices' : /\ voices'[v] \in VoiceOf /\ voices'[v].clip = started[v]
                                  /\ Follows(voices'[v], missed[v] + Len(sound[v]))
    BY <1>3, <2>1
  <2>3. \A v \in DOMAIN started \ (DOMAIN voices' \cup stopped') :
          missed[v] + Len(sound[v]) = started[v].frames
    BY <1>1, <1>3, <2>1
  <2>4. DOMAIN voices' \subseteq DOMAIN started
    BY <1>3, <2>1
  <2>5. /\ Mixing'.voices = voices' /\ Mixing'.sound = sound' /\ Mixing'.missed = missed'
        /\ Mixing'.refusals = refusals' /\ Mixing'.queued = queued'
        /\ Mixing' = [voices |-> Mixing'.voices, sound |-> Mixing'.sound, missed |-> Mixing'.missed,
                      refusals |-> Mixing'.refusals, queued |-> Mixing'.queued, broken |-> Mixing'.broken]
    BY DEF Mixing
  <2> QED  BY <1>2, <1>5, <2>1, <2>2, <2>3, <2>4, <2>5, Zenon DEF Mixes, MixesWithin
<1> QED  BY <1>2, <1>6 DEF AudioInv, NamesAgree

LEMMA UpdateStep ==
  ASSUME AudioInv, Update
  PROVE  AudioInv'
<1>1. PICK s : Mixes(s) /\ Mixed(s)
  <2>1. Mixes(Mixing) /\ ClipsStarted
    BY DEF AudioInv, ClipsStarted
  <2>2. CASE ~null
    <3>1. PICK refusing : Mixed(Filled(Mixing, refusing))
      BY <2>2, Zenon DEF Update
    <3>2. Mixes(Filled(Mixing, refusing))
      BY <2>1, FilledMixes
    <3> QED  BY <3>1, <3>2, Zenon
  <2>3. CASE ~ ~null
    <3>1. PICK elapsed \in {0, 1, QueueMax + 1} :
            Mixed(AdvancedBy(Mixing, IF advanced THEN Least(elapsed, QueueMax) ELSE 0))
      BY <2>3, Zenon DEF Update
    <3>2. QueueMax \in Nat /\ elapsed \in Nat
      BY AudioAssumption
    <3>3. PICK wanted \in Nat : wanted = IF advanced THEN Least(elapsed, QueueMax) ELSE 0
      BY <3>2 DEF Least
    <3>4. Mixes(AdvancedBy(Mixing, wanted))
      BY <2>1, AdvancedMixes
    <3> QED  BY <3>1, <3>3, <3>4, Zenon
  <2> QED  BY <2>2, <2>3
<1>2. UNCHANGED <<clipPool, resolved, clipsMade, started, stopped>>
  BY DEF Update
<1>3. Mixes(Mixing)'
  <2>1. /\ Mixing'.voices = s.voices /\ Mixing'.sound = s.sound /\ Mixing'.missed = s.missed
        /\ Mixing'.refusals = s.refusals /\ Mixing'.queued = s.queued
        /\ Mixing' = [voices |-> Mixing'.voices, sound |-> Mixing'.sound, missed |-> Mixing'.missed,
                      refusals |-> Mixing'.refusals, queued |-> Mixing'.queued, broken |-> Mixing'.broken]
    BY <1>1 DEF Mixing, Mixed
  <2>2. started' = started /\ stopped' = stopped
    BY <1>2
  <2> QED  BY <1>1, <2>1, <2>2, Zenon DEF Mixes, MixesWithin
<1> QED  BY <1>2, <1>3 DEF AudioInv, NamesAgree

LEMMA DrainStep ==
  ASSUME AudioInv, Drain
  PROVE  AudioInv'
<1>1. queued \in Nat /\ queued <= QueueMax /\ Mixes(Mixing)
  BY MixingIs DEF AudioInv, Mixes, MixesWithin
<1>2. queued' \in Nat /\ queued' <= QueueMax
  BY <1>1, AudioAssumption DEF Drain
<1>3. UNCHANGED <<clipPool, resolved, voices, clipsMade, started, sound, missed, refusals, stopped>>
  BY DEF Drain
<1>4. Mixes(Mixing)'
  BY <1>1, <1>2, <1>3, MixingStays
<1> QED  BY <1>3, <1>4 DEF AudioInv, NamesAgree

LEMMA InitOfAudio == AudioInit => AudioInv
<1> SUFFICES ASSUME AudioInit PROVE AudioInv
  OBVIOUS
<1>1. /\ DOMAIN started = {} /\ DOMAIN sound = {} /\ DOMAIN missed = {} /\ DOMAIN voices = {}
      /\ DOMAIN clipPool = {}
  BY DEF AudioInit
<1>2. DOMAIN started = 1..0
  BY <1>1
<1>3. Mixes(Mixing)
  <2>1. queued \in Nat /\ queued <= QueueMax /\ refusals \in Nat
    BY AudioAssumption DEF AudioInit
  <2> QED  BY <1>1, <2>1, MixingIs DEF Mixes, MixesWithin
<1>4. NamesAgree
  BY <1>1 DEF AudioInit, NamesAgree
<1> QED  BY <1>1, <1>2, <1>3, <1>4 DEF AudioInv

LEMMA NextOfAudio == AudioInv /\ [AudioNext]_audioVars => AudioInv'
<1> SUFFICES ASSUME AudioInv, [AudioNext]_audioVars PROVE AudioInv'
  OBVIOUS
<1>1. CASE \/ \E f \in ClipFrames : MakeClip(f) \/ \E a \in ClipAsset : FinalisePending(a, f)
           \/ \E h \in 1 .. clipsMade : DestroyClip(h)
  BY <1>1, ClipsStep
<1>2. CASE \E h \in 1 .. clipsMade, loop \in BOOLEAN : Play(h, loop)
  BY <1>2, PlayStep
<1>3. CASE StopAll \/ \E v \in DOMAIN voices : Stop(v)
  BY <1>3, StopStep
<1>4. CASE Update
  BY <1>4, UpdateStep
<1>5. CASE Drain
  BY <1>5, DrainStep
<1>6. CASE UNCHANGED audioVars
  BY <1>6 DEF audioVars, AudioInv, Mixes, MixesWithin, Mixing, NamesAgree
<1> QED  BY <1>1, <1>2, <1>3, <1>4, <1>5, <1>6, Zenon DEF AudioNext

LEMMA AudioSounds == AudioInv => SoundsThrough
<1> SUFFICES ASSUME AudioInv PROVE SoundsThrough
  OBVIOUS
<1>1. Mixes(Mixing) /\ NamesAgree
  BY DEF AudioInv
<1>2. ASSUME NEW v \in DOMAIN started
      PROVE  /\ missed[v] \in Nat /\ sound[v] \in Seq(HeardOf) /\ Plays(started[v], sound[v], missed[v])
             /\ v \notin DOMAIN voices \cup stopped => missed[v] + Len(sound[v]) = started[v].frames
             /\ missed[v] <= BlockFrames * refusals
  BY <1>1, MixingIs DEF Mixes, MixesWithin
<1>3. ASSUME NEW v \in DOMAIN started, NEW i \in DOMAIN sound[v]
      PROVE  LET before == sound[v][i][3]
             IN  /\ before \in 0 .. missed[v]
                 /\ sound[v][i] = <<started[v].number, (before + i - 1) % started[v].frames, before>>
  BY <1>2 DEF Plays, Turn
<1>4. queued <= QueueMax
  BY <1>1, MixingIs DEF Mixes, MixesWithin
<1>5. \A h \in DOMAIN clipPool : clipPool[h].asset # NoClip => resolved[clipPool[h].asset] = h
  BY <1>1 DEF NamesAgree
<1> QED  BY <1>2, <1>3, <1>4, <1>5 DEF SoundsThrough

\* What is heard of a voice is its clip from the beginning, in order, with nothing
\* passed over but the frames of blocks that the stream refused, exactly those and no
\* more than a block for a refusal; so it is heard whole, to its end unless it is
\* stopped, where nothing was refused.  That holds whatever clips are destroyed, made
\* or reloaded meanwhile.  The stream never holds too much, and no clip of an asset
\* is left that its cache does not name (Device::update, AudioAssets).
THEOREM EverySoundIsWhole == AudioSpec => []SoundsThrough
<1>1. AudioSpec => []AudioInv
  BY InitOfAudio, NextOfAudio, PTL DEF AudioSpec
<1> QED  BY <1>1, AudioSounds, PTL
==============================================================================
