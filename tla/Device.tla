------------------------------- MODULE Device -------------------------------
(***************************************************************************)
(* The graphics device (engine/rhi): pools of resources behind handles     *)
(* (core/handle.hpp), one frame at a time, captures and readbacks, and a   *)
(* device that may be lost.  The library below is what the code relies on: *)
(* objects it made and has not been given back, command buffers that must  *)
(* be submitted or, only without a swapchain image, cancelled.             *)
(***************************************************************************)
EXTENDS Integers, Sequences, FiniteSets, SequencesExt, Functions

CONSTANTS Kind,          \* of resource: each has a pool of its own
          Generations,   \* how many a slot has before they begin again (2^32)
          MaxReadbacks,  \* kMaxPendingReadbacks
          MaxMade,       \* bound: resources and command buffers ever made
          NoObject,      \* no resource, no frame
          Shut           \* no frame ever again

VARIABLES pool,       \* of each kind, its slots and the free ones
          issued,     \* auxiliary: what each handle was given out for
          staging,    \* the memory a buffer is streamed through, by buffer
          tickets,    \* readbacks asked for and not taken
          open,       \* the frame, or none
          capturing,  \* capture_requested
          captured,   \* a capture waits to be taken
          lost,       \* DeviceHealth
          made,       \* the library: objects made,
          live,       \* objects not given back,
          commands,   \* command buffers, and
          misused,    \* whether it was called as it may not be
          purpose,    \* auxiliary: what each object was made for, and
          ending      \* how each frame, by its command buffer, was left

\* What is open of a frame; none of the names for nothing is an object or a frame.
OpenFrame == [commands : Nat, image : BOOLEAN, pass : BOOLEAN, target : Nat \cup {NoObject}]

ASSUME KindAssumption == {"buffer", "texture", "sampler", "shader", "pipeline"} \subseteq Kind
ASSUME NoObjectAssumption == NoObject \notin Nat \cup OpenFrame
ASSUME ShutAssumption == Shut \notin OpenFrame /\ Shut # NoObject
ASSUME LimitAssumption == Generations \in Nat /\ MaxMade \in Nat

deviceVars == <<pool, issued, staging, tickets, open, capturing, captured,
                lost, made, live, commands, misused, purpose, ending>>

(* The library (SDL_gpu).                                                  *)
\* What a call comes to: it works, it fails, it fails as the device is lost.
Outcome == {"works", "fails", "lost"}

\* DeviceHealth::record_failure: once lost, lost for good.
Health(outcome) == lost' = (lost \/ outcome = "lost")

Release(objects, object) == objects \ {object}

\* One object more: a resource, the staging memory of a buffer, or the target a
\* frame is captured from.
Make(what, frame) ==
  /\ made' = made + 1 /\ live' = live \cup {made + 1}
  /\ purpose' = Append(purpose, [what |-> what, frame |-> frame])
MakeNone == UNCHANGED <<made, live, purpose>>
NoFrame == 0

\* f with v at x.
With(f, x, v) == [y \in DOMAIN f \cup {x} |-> IF y = x THEN v ELSE f[y]]

\* Only what is alive is given back, and a command buffer is settled once.
MayRelease(object) == object \in live
MayCancel(f) == commands[f.commands] = "open" /\ ~f.image
MaySubmit(f) == commands[f.commands] = "open" /\ ~f.pass

(* HandlePool: a slot is used again, under its next generation.            *)
NextGeneration(g) == IF g + 1 = Generations THEN 1 ELSE g + 1

Resolves(h) ==
  LET slots == pool[h.kind].slots
  IN  h.index \in DOMAIN slots /\ slots[h.index].generation = h.generation /\ slots[h.index].value # NoObject
Resolved(h) == IF Resolves(h) THEN pool[h.kind].slots[h.index].value ELSE NoObject

Inserted(p, value) ==
  IF p.free # <<>>
  THEN [slots |-> [p.slots EXCEPT ![Last(p.free)].value = value], free |-> Front(p.free)]
  ELSE [slots |-> Append(p.slots, [value |-> value, generation |-> 1]), free |-> <<>>]

InsertedAt(kind) ==
  LET p == pool[kind]
  IN  IF p.free # <<>>
      THEN [kind |-> kind, index |-> Last(p.free), generation |-> p.slots[Last(p.free)].generation]
      ELSE [kind |-> kind, index |-> Len(p.slots) + 1, generation |-> 1]

\* Mutant: a slot that is freed keeps its generation.
RemovedAsIs(p, i) ==
  [slots |-> [p.slots EXCEPT ![i].value = NoObject], free |-> Append(p.free, i)]

Removed(p, i) ==
  [slots |-> [p.slots EXCEPT ![i] = [value |-> NoObject, generation |-> NextGeneration(@.generation)]],
   free |-> Append(p.free, i)]

(* Resources (resources.cpp, textures.cpp).                                *)
Handles(kind) == {h \in DOMAIN issued : h.kind = kind}
Live(kind) == {h \in Handles(kind) : Resolves(h)}

CreateObject(kind, outcome) ==
  /\ open # Shut /\ ~lost /\ made < MaxMade
  /\ Health(outcome)
  /\ IF outcome = "works"
     THEN /\ Make("resource", NoFrame)
          /\ pool' = [pool EXCEPT ![kind] = Inserted(@, made + 1)]
          /\ issued' = LET h == InsertedAt(kind)
                       IN  IF h \in DOMAIN issued THEN issued ELSE With(issued, h, made + 1)
     ELSE MakeNone /\ UNCHANGED <<pool, issued>>
  /\ UNCHANGED <<staging, tickets, open, capturing, captured, commands, misused, ending>>

CreateBuffer(outcome) == CreateObject("buffer", outcome)
CreateTexture(outcome) == CreateObject("texture", outcome)
CreateSampler(outcome) == CreateObject("sampler", outcome)
CreateShader(outcome) == CreateObject("shader", outcome)
\* One shader may be both the vertex and the fragment shader.
CreatePipeline(outcome) == Live("shader") # {} /\ CreateObject("pipeline", outcome)

\* By any handle ever given out: one that is stale does nothing.
DestroyTo(h, kept, objects) ==
  /\ open # Shut /\ Resolves(h)
  /\ misused' = (misused \/ ~ \A object \in objects : MayRelease(object))
  /\ live' = live \ objects
  /\ pool' = [pool EXCEPT ![h.kind] = Removed(@, h.index)]
  /\ staging' = kept
  /\ UNCHANGED <<issued, tickets, open, capturing, captured, lost, made,
                 commands, purpose, ending>>

DestroyTexture(h) == h.kind = "texture" /\ DestroyTo(h, staging, {Resolved(h)})
DestroySampler(h) == h.kind = "sampler" /\ DestroyTo(h, staging, {Resolved(h)})
DestroyShader(h) == h.kind = "shader" /\ DestroyTo(h, staging, {Resolved(h)})
DestroyPipeline(h) == h.kind = "pipeline" /\ DestroyTo(h, staging, {Resolved(h)})

StagingOf(b) == {staging[b] : x \in {b} \cap DOMAIN staging}

DestroyBuffer(h) ==
  /\ h.kind = "buffer"
  /\ LET b == Resolved(h)
     IN  DestroyTo(h, Restrict(staging, DOMAIN staging \ {b}), {b} \cup StagingOf(b))

\* Through memory made for the one upload, and given back on every way out.
Upload(kind, outcome) ==
  /\ open # Shut /\ ~lost
  /\ \E h \in Live(kind) : misused' = (misused \/ Resolved(h) \notin live)
  /\ Health(outcome)
  /\ UNCHANGED <<pool, issued, staging, tickets, open, capturing, captured,
                 made, live, commands, purpose, ending>>
UploadBuffer(outcome) == Upload("buffer", outcome)
UploadTexture(outcome) == Upload("texture", outcome)

\* Staging memory is made at the first call, if it can be, and kept for the
\* next ones, however the copy goes.
StreamData(outcome, staged) ==
  /\ open # Shut /\ ~lost
  /\ \E h \in Live("buffer") :
       LET b == Resolved(h)
       IN  /\ misused' = (misused \/ ~(StagingOf(b) \cup {b} \subseteq live))
           /\ IF StagingOf(b) = {} /\ staged
              THEN made < MaxMade /\ Make("staging", NoFrame) /\ staging' = With(staging, b, made + 1)
              ELSE MakeNone /\ UNCHANGED staging
           /\ StagingOf(b) # {} \/ outcome = "works" => staged
  /\ Health(outcome)
  /\ UNCHANGED <<pool, issued, tickets, open, capturing, captured, commands, ending>>

(* Frames (device.cpp).                                                    *)
NoTarget == NoObject

BeginFrame(outcome, image) ==
  /\ open = NoObject /\ ~lost /\ Len(commands) < MaxMade
  /\ Health(outcome)
  /\ IF outcome = "works"
     THEN /\ commands' = Append(commands, "open")
          /\ ending' = Append(ending, "begun")
          /\ open' = [commands |-> Len(commands) + 1, image |-> image, pass |-> FALSE, target |-> NoTarget]
     ELSE UNCHANGED <<commands, ending, open>>
  /\ UNCHANGED <<pool, issued, staging, tickets, capturing, captured, made,
                 live, misused, purpose>>

RequestCapture ==
  /\ open # Shut /\ ~capturing /\ capturing' = TRUE
  /\ UNCHANGED <<pool, issued, staging, tickets, open, captured, lost, made,
                 live, commands, misused, purpose, ending>>

TakeCapture ==
  /\ captured /\ captured' = FALSE
  /\ UNCHANGED <<pool, issued, staging, tickets, open, capturing, lost, made,
                 live, commands, misused, purpose, ending>>

\* A pass names a texture of its own, or draws where the frame is shown: into a
\* texture made for it when the frame is to be captured.
BeginPass(offscreen, outcome, target) ==
  LET wanted == ~offscreen /\ capturing /\ open.target = NoTarget
  IN  /\ open \notin {NoObject, Shut} /\ ~open.pass
      /\ IF offscreen THEN Live("texture") # {} ELSE open.image
      /\ target => wanted /\ made < MaxMade
      /\ Health(outcome)
      /\ open' = [open EXCEPT !.pass = outcome = "works", !.target = IF target THEN made + 1 ELSE @]
      /\ IF target THEN Make("target", open.commands) ELSE MakeNone
      /\ UNCHANGED <<pool, issued, staging, tickets, capturing, captured,
                     commands, misused, ending>>

\* What a pass binds, by any handle ever given out: one that is stale binds
\* nothing, and the pass draws on with what was bound before.
Bind ==
  /\ open \notin {NoObject, Shut} /\ open.pass
  /\ \E h \in DOMAIN issued :
       h.kind # "shader" /\ misused' = (misused \/ (Resolves(h) /\ Resolved(h) \notin live))
  /\ UNCHANGED <<pool, issued, staging, tickets, open, capturing, captured,
                 lost, made, live, commands, purpose, ending>>

EndPass ==
  /\ open \notin {NoObject, Shut} /\ open.pass
  /\ open' = [open EXCEPT !.pass = FALSE]
  /\ UNCHANGED <<pool, issued, staging, tickets, capturing, captured,
                 lost, made, live, commands, misused, purpose, ending>>

\* end_frame of a frame that is not captured; a wish that cannot be met is dropped.
FinishFrame(outcome) ==
  /\ open \notin {NoObject, Shut} /\ ~open.pass /\ (capturing => open.target = NoTarget)
  /\ misused' = (misused \/ ~MaySubmit(open))
  /\ commands' = [commands EXCEPT ![open.commands] = "submitted"]
  /\ ending' = [ending EXCEPT ![open.commands] = "finished"]
  /\ capturing' = FALSE
  /\ open' = NoObject
  /\ Health(outcome)
  /\ UNCHANGED <<pool, issued, staging, tickets, captured, made, live, purpose>>

\* capture_texture submits, waits and copies out.  If it fails before, the
\* command buffer stays open: it is neither submitted nor cancelled, as the frame
\* is marked submitted before the call.  The wish stands.
EndCapture(outcome, submitted) ==
  /\ open \notin {NoObject, Shut} /\ ~open.pass /\ capturing /\ open.target # NoTarget
  /\ outcome = "works" => submitted
  /\ misused' = (misused \/ ~MaySubmit(open) \/ ~MayRelease(open.target))
  /\ commands' = IF submitted THEN [commands EXCEPT ![open.commands] = "submitted"] ELSE commands
  /\ ending' = [ending EXCEPT ![open.commands] = IF submitted THEN "captured" ELSE "uncaptured"]
  /\ live' = Release(live, open.target)
  /\ IF outcome = "works" THEN captured' = TRUE /\ capturing' = FALSE ELSE UNCHANGED <<captured, capturing>>
  /\ open' = NoObject
  /\ Health(outcome)
  /\ UNCHANGED <<pool, issued, staging, tickets, made, purpose>>

\* A frame with an image must be submitted to give it back.
Discard(f) ==
  IF f.image THEN [ways |-> "submitted", allowed |-> MaySubmit([f EXCEPT !.pass = FALSE])]
  ELSE [ways |-> "cancelled", allowed |-> MayCancel(f)]

\* An error on the way drops the frame, after its pass (~Frame, discard_frame).
\* The texture it was to be captured from is not given back.
Abandon ==
  LET way == Discard(open)
  IN  /\ open \notin {NoObject, Shut}
      /\ misused' = (misused \/ ~way.allowed)
      /\ commands' = [commands EXCEPT ![open.commands] = way.ways]
      /\ ending' = [ending EXCEPT ![open.commands] = "abandoned"]
      /\ open' = NoObject
      /\ UNCHANGED <<pool, issued, staging, tickets, capturing, captured, lost,
                     made, live, purpose>>

(* Readbacks: asked for with a fence, polled, taken once.                  *)
RequestReadback(outcome) ==
  LET t == CHOOSE n \in 1 .. MaxReadbacks : n \notin DOMAIN tickets
  IN  /\ open # Shut /\ ~lost /\ Cardinality(DOMAIN tickets) < MaxReadbacks
      /\ Live("texture") # {}
      /\ Health(outcome)
      /\ tickets' = IF outcome = "works" THEN With(tickets, t, "flying") ELSE tickets
      /\ UNCHANGED <<pool, issued, staging, open, capturing, captured, made,
                     live, commands, misused, purpose, ending>>

\* The fence has signalled, and is released with the staging memory; pixels
\* that cannot be mapped then are not to be had again.
ReadbackReady(t, mapped) ==
  /\ t \in DOMAIN tickets /\ tickets[t] = "flying"
  /\ tickets' = [tickets EXCEPT ![t] = IF mapped THEN "ready" ELSE "stuck"]
  /\ UNCHANGED <<pool, issued, staging, open, capturing, captured,
                 lost, made, live, commands, misused, purpose, ending>>

TakeReadback(t) ==
  /\ t \in DOMAIN tickets /\ tickets[t] = "ready"
  /\ tickets' = Restrict(tickets, DOMAIN tickets \ {t})
  /\ UNCHANGED <<pool, issued, staging, open, capturing, captured,
                 lost, made, live, commands, misused, purpose, ending>>

NoResources == [kind \in Kind |-> [slots |-> <<>>, free |-> <<>>]]

InPool ==
  (UNION {{pool[kind].slots[i].value : i \in DOMAIN pool[kind].slots} : kind \in Kind}) \ {NoObject}

\* Destroying the device gives back what the application did not; the memory its
\* buffers were streamed through is forgotten.
DestroyDevice ==
  /\ open = NoObject
  /\ misused' = (misused \/ ~ \A object \in InPool : MayRelease(object))
  /\ live' = live \ InPool
  /\ pool' = NoResources /\ issued' = <<>> /\ tickets' = <<>>
  /\ staging' = <<>>
  /\ open' = Shut
  /\ UNCHANGED <<capturing, captured, lost, made, commands, purpose, ending>>

DeviceInit ==
  /\ pool = NoResources /\ issued = <<>> /\ staging = <<>> /\ tickets = <<>>
  /\ open = NoObject /\ capturing = FALSE /\ captured = FALSE /\ lost = FALSE
  /\ made = 0 /\ live = {} /\ commands = <<>> /\ misused = FALSE
  /\ purpose = <<>> /\ ending = <<>>

DeviceNext ==
  \/ \E outcome \in Outcome :
       \/ CreateBuffer(outcome) \/ CreateTexture(outcome) \/ CreateSampler(outcome)
       \/ CreateShader(outcome) \/ CreatePipeline(outcome)
       \/ UploadBuffer(outcome) \/ UploadTexture(outcome)
       \/ \E staged \in BOOLEAN : StreamData(outcome, staged)
       \/ \E image \in BOOLEAN : BeginFrame(outcome, image)
       \/ \E offscreen, target \in BOOLEAN : BeginPass(offscreen, outcome, target)
       \/ FinishFrame(outcome)
       \/ \E submitted \in BOOLEAN : EndCapture(outcome, submitted)
       \/ RequestReadback(outcome)
  \/ \E h \in DOMAIN issued :
       \/ DestroyBuffer(h) \/ DestroyTexture(h) \/ DestroySampler(h) \/ DestroyShader(h) \/ DestroyPipeline(h)
  \/ RequestCapture \/ TakeCapture \/ Bind \/ EndPass \/ Abandon
  \/ \E t \in DOMAIN tickets : TakeReadback(t) \/ \E mapped \in BOOLEAN : ReadbackReady(t, mapped)
  \/ DestroyDevice

DeviceSpec == DeviceInit /\ [][DeviceNext]_deviceVars

\* What somebody holds: a slot, a buffer that is streamed, the frame.
BufferInPool(b) ==
  b # NoObject /\ \E i \in DOMAIN pool["buffer"].slots : pool["buffer"].slots[i].value = b
Staged == {staging[b] : b \in DOMAIN staging}
PassTarget == IF open \in {NoObject, Shut} THEN {} ELSE {open.target} \ {NoTarget}

\* The library is never given what is not alive, so nothing is given back twice;
\* a handle finds what it was given out for or nothing; and what is held is alive.
\* A resource is alive only while it is in a pool.  Staging memory is alive only
\* while a buffer in the pool has it, until the device is destroyed, which leaves
\* it behind; a target, only while its frame is open, unless that frame was
\* abandoned, which leaves it too.  And a command buffer that is not settled is of
\* the open frame, or of one whose capture failed before it was submitted.  Those
\* three remainders are what the code forgets, against what device.hpp says of it
\* (README, section 5); there is no other, whatever fails and in whatever order
\* (Device, HandlePool).
DriverObeyed ==
  /\ ~misused
  /\ \A h \in DOMAIN issued : Resolved(h) \in {NoObject, issued[h]}
  /\ InPool \cup Staged \cup PassTarget \subseteq live
  /\ \A b \in DOMAIN staging : BufferInPool(b)
  /\ \A object \in live :
       /\ purpose[object].what = "resource" => object \in InPool
       /\ purpose[object].what = "staging" => object \in Staged \/ open = Shut
       /\ purpose[object].what = "target" =>
            object \in PassTarget \/ ending[purpose[object].frame] = "abandoned"
  /\ \A c \in DOMAIN commands :
       commands[c] = "open" =>
         \/ open \notin {NoObject, Shut} /\ open.commands = c
         \/ ending[c] = "uncaptured"
==============================================================================
