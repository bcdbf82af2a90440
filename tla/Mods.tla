-------------------------------- MODULE Mods --------------------------------
(***************************************************************************)
(* A mod under lockstep (engine/script): one runtime for the process with  *)
(* one memory budget, an instance of the same module beside every peer's   *)
(* simulation, polled once before each tick.  A mod's commands are never   *)
(* sent: every peer must come to the same ones by itself.                  *)
(*                                                                         *)
(* The module is any deterministic program: what it does next depends on   *)
(* what it was told so far and nothing else, and is decided when first     *)
(* asked for.  WAMR is what the code relies on.                            *)
(***************************************************************************)
EXTENDS Integers, Sequences, FiniteSets, SequencesExt

CONSTANTS ModPeer,      \* the simulations of one process
          ModDelay,     \* input_delay
          ModBudget,    \* RuntimeConfig::budget_bytes, in pages
          MaxPages,     \* max_linear_memory_bytes, in pages
          MaxOrders,    \* bound: what an export asks before it ends
          MaxCommands,  \* max_commands_per_tick
          MaxSaid,      \* max_messages_per_tick
          MaxQueued,    \* max_queued_messages
          ModPending,   \* kMaxPending
          MaxModTick,   \* bound: ticks
          MaxRuntimes,  \* bound: runtimes of one process
          NoOne, NoMaximum

ASSUME ModAssumption ==
  /\ IsFiniteSet(ModPeer)
  /\ ModDelay \in Nat \ {0} /\ ModBudget \in Nat /\ MaxPages \in Nat
  /\ MaxCommands \in Nat /\ MaxSaid \in Nat
  /\ NoMaximum \notin Nat

VARIABLES wasm,     \* the module: its imports, exports and memory
          guest,    \* what it does after what it was told, as far as asked
          outside,  \* the commands of the players, by tick
          natives,  \* the import table and the copies WAMR was given
          runtime,  \* the live runtime, its budget spent
          host,     \* ModHost of each peer
          peer,     \* its simulation
          call      \* the call in flight, HostCall

modVars == <<wasm, guest, outside, natives, runtime, host, peer, call>>

(* The import table (kImports), the clock last.                            *)
Imports == <<"tick", "submit", "random", "log", "view", "say", "clock">>
SafeCount == Len(Imports) - 1
Entry(names, n) == IF n \in ToSet(names) THEN <<n>> ELSE <<>>
Sorted(names) ==
  Entry(names, "clock") \o Entry(names, "log") \o Entry(names, "random") \o Entry(names, "say")
    \o Entry(names, "submit") \o Entry(names, "tick") \o Entry(names, "view")
Chosen(table, debug) == IF debug THEN table ELSE SubSeq(table, 1, SafeCount)

\* Mutant: WAMR is handed the table, and sorts it where it stands.
RegisterTheTable(n, debug) ==
  LET sorted == Sorted(Chosen(n.table, debug))
  IN  [table |-> sorted \o SubSeq(n.table, Len(sorted) + 1, Len(n.table)),
       safe |-> IF debug THEN n.safe ELSE sorted, all |-> IF debug THEN sorted ELSE n.all]

\* register_host_imports: WAMR sorts what it is handed, a fresh copy.
Register(n, debug) ==
  IF debug THEN [n EXCEPT !.all = Sorted(Chosen(n.table, debug))]
           ELSE [n EXCEPT !.safe = Sorted(Chosen(n.table, debug))]

Offered(n, debug) == ToSet(IF debug THEN n.all ELSE n.safe)
Permitted(n, debug) == ToSet(Chosen(n.table, debug))   \* host_import_names

(* Memory, counted over the process (runtime.cpp).                         *)
Affords(pages) == runtime.used + pages <= ModBudget

CreateRuntime(debug) ==
  /\ ~runtime.alive /\ runtime.count < MaxRuntimes
  /\ natives' = Register(natives, debug)
  /\ runtime' = [alive |-> TRUE, debug |-> debug, used |-> 0, count |-> runtime.count + 1]
  /\ UNCHANGED <<wasm, guest, outside, host, peer, call>>

DestroyRuntime ==
  /\ runtime.alive /\ ~ \E p \in ModPeer : host[p].state \in {"running", "disabled"}
  /\ runtime' = [runtime EXCEPT !.alive = FALSE, !.used = 0]
  /\ UNCHANGED <<wasm, guest, outside, natives, host, peer, call>>

\* Mod::load: everything the module asks for is offered, everything the host
\* calls is exported, and its memory has a maximum within the limit.
Acceptable ==
  /\ wasm.imports \subseteq Permitted(natives, runtime.debug)
  /\ wasm.complete
  /\ wasm.initial <= MaxPages /\ wasm.maximum # NoMaximum
  /\ wasm.maximum <= MaxPages

(* A call in flight.                                                       *)
Call == [peer : ModPeer, export : {"init", "tick"}, orders : Nat, commands : Int,
         messages : Int, draws : Nat]

NewCall(p, export) ==
  [peer |-> p, export |-> export, orders |-> 0, commands |-> MaxCommands,
   messages |-> MaxSaid, draws |-> 0]

ASSUME NoOneAssumption == NoOne \notin Call

\* attach_mod: load, then mod_init, which runs with no context.  Of the runtimes
\* a process makes in turn, the last is given mods.
Attach(p) ==
  /\ runtime.alive /\ runtime.count = MaxRuntimes /\ call = NoOne /\ host[p].state = "none"
  /\ ~ \E q \in ModPeer : host[q].state \in {"refused", "closed"}
  /\ IF Acceptable /\ Affords(wasm.initial)
     THEN /\ host' = [host EXCEPT ![p] = [@ EXCEPT !.state = "running", !.pages = wasm.initial]]
          /\ runtime' = [runtime EXCEPT !.used = @ + wasm.initial]
          /\ call' = NewCall(p, "init")
     ELSE /\ host' = [host EXCEPT ![p].state = "refused"]
          /\ UNCHANGED <<runtime, call>>
  /\ UNCHANGED <<wasm, guest, outside, natives, peer>>

\* The run begins when every peer has its mod.
Begun == \A p \in ModPeer : host[p].state \in {"running", "disabled"}

\* poll: a disabled mod is not there.
Poll(p) ==
  /\ Begun /\ call = NoOne /\ peer[p].at = "starting" /\ peer[p].tick < MaxModTick
  /\ IF host[p].state = "running"
     THEN /\ call' = NewCall(p, "tick")
          /\ host' = [host EXCEPT ![p].memory = Append(@, peer[p].tick)]
          /\ UNCHANGED peer
     ELSE /\ peer' = [peer EXCEPT ![p].at = "polled"]
          /\ UNCHANGED <<call, host>>
  /\ UNCHANGED <<wasm, guest, outside, natives, runtime>>

\* What the call comes back with: every import refuses a call without context.
Context(c) == c.export = "tick"

\* Mutant: each peer draws from a stream of its own.
SeedByPeer(p) == p

\* attach_mod gives every peer the seed of the run.
ModSeed(p) == 0

SubmitAnswer(c, sim) ==
  IF c.commands = 0 THEN "exhausted"
  ELSE IF Cardinality(sim.pending) >= ModPending THEN "refused" ELSE "ok"

SayAnswer(c, mod) == IF c.messages = 0 \/ Len(mod.queue) >= MaxQueued THEN "exhausted" ELSE "ok"

\* memory.grow copies: the new block is counted before the old one is given back.
GrowAnswer(mod) == IF mod.pages < wasm.maximum /\ Affords(mod.pages + 1) THEN "ok" ELSE "refused"

Answer(p, order) ==
  CASE order = "grow" -> GrowAnswer(host[p])
    [] order # "grow" /\ ~Context(call) -> "refused"
    [] order = "submit" /\ Context(call) -> SubmitAnswer(call, peer[p])
    [] order = "say" /\ Context(call) -> SayAnswer(call, host[p])
    [] order = "random" /\ Context(call) -> <<ModSeed(p), peer[p].tick, call.draws>>
    [] order = "view" /\ Context(call) ->
         IF peer[p].painted = <<>> THEN "blank" ELSE Last(peer[p].painted)
    [] order = "clock" /\ Context(call) -> p

\* What the module may ask: what it imports, and to grow if its memory can.
Asks == wasm.imports \cup (IF wasm.maximum # NoMaximum /\ wasm.maximum > wasm.initial THEN {"grow"} ELSE {})

\* The order the module gives: the one it always gives after what it was told.
Order(p, order) ==
  /\ call # NoOne /\ call.peer = p
  /\ IF host[p].memory \in DOMAIN guest THEN order = guest[host[p].memory] ELSE TRUE
  /\ guest' = [m \in DOMAIN guest \cup {host[p].memory} |->
                 IF m = host[p].memory THEN order ELSE guest[m]]

\* What an answer changes: the mod, the simulation, and what is left of the call.
Told(mod, tick, order, answer) ==
  [mod EXCEPT !.memory = Append(@, answer),
              !.pages = IF order = "grow" /\ answer = "ok" THEN @ + 1 ELSE @,
              !.queue = IF order = "say" /\ answer = "ok" THEN Append(@, tick) ELSE @]

Queued(sim, order, answer) ==
  IF order = "submit" /\ answer = "ok"
  THEN [sim EXCEPT !.pending = @ \cup {[target |-> sim.tick + ModDelay, number |-> sim.next]},
                   !.next = @ + 1]
  ELSE sim

Spent(c, order, answer) ==
  [c EXCEPT !.orders = @ + 1,
            !.commands = IF order = "submit" /\ answer = "ok" THEN @ - 1 ELSE @,
            !.messages = IF order = "say" /\ Context(c) /\ @ > 0 THEN @ - 1 ELSE @,
            !.draws = IF order = "random" /\ Context(c) THEN @ + 1 ELSE @]

Import(p, order) ==
  /\ Order(p, order) /\ order \in Asks /\ call.orders < MaxOrders
  /\ LET answer == Answer(p, order)
     IN  /\ host' = [host EXCEPT ![p] = Told(@, peer[p].tick, order, answer)]
         /\ peer' = [peer EXCEPT ![p] = Queued(@, order, answer)]
         /\ runtime' = [runtime EXCEPT !.used = IF order = "grow" /\ answer = "ok" THEN @ + 1 ELSE @]
         /\ call' = Spent(call, order, answer)
         /\ UNCHANGED <<wasm, outside, natives>>

\* After mod_init the peer waits; after mod_tick what was said is taken.
Rested(mod, c, state) ==
  LET disabled == state # "running"
  IN  [mod EXCEPT !.state = state,
                  !.pages = IF disabled THEN 0 ELSE @,
                  !.memory = IF disabled THEN <<>> ELSE @,
                  !.queue = IF Context(c) THEN <<>> ELSE @]

Heard(sim, mod, c) ==
  IF Context(c) THEN [sim EXCEPT !.at = "polled", !.heard = @ \o mod.queue] ELSE sim

CallOver(p, state) ==
  /\ host' = [host EXCEPT ![p] = Rested(@, call, state)]
  /\ peer' = [peer EXCEPT ![p] = Heard(@, host[p], call)]
  /\ runtime' = [runtime EXCEPT !.used = IF state # "running" THEN @ - host[p].pages ELSE @]
  /\ call' = NoOne
  /\ UNCHANGED <<wasm, outside, natives>>

Return(p) == Order(p, "return") /\ CallOver(p, "running")

\* A trap, the instruction limit among them, disables the mod for good and gives
\* its memory back; in mod_init, as a result that is not zero, it ends the run.
Trap(p) == Order(p, "trap") /\ CallOver(p, IF call.export = "init" THEN "refused" ELSE "disabled")

\* The tick: the players' commands and what the mod submitted for it.
Due(sim) == {c \in sim.pending : c.target = sim.tick}

Painted(due, players) ==
  LET mine == SetToSortSeq(due, LAMBDA a, b : a.number < b.number)
  IN  (IF players THEN <<"player">> ELSE <<>>) \o [i \in DOMAIN mine |-> "mod"]

Ticked(sim, players) ==
  [sim EXCEPT !.painted = @ \o Painted(Due(sim), players), !.pending = @ \ Due(sim),
              !.tick = @ + 1, !.at = "starting"]

Tick(p) ==
  /\ peer[p].at = "polled"
  /\ peer' = [peer EXCEPT ![p] = Ticked(@, outside[@.tick])]
  /\ UNCHANGED <<wasm, guest, outside, natives, runtime, host, call>>

\* The run is over: the host goes, and its instance with it.
Close(p) ==
  /\ host[p].state \in {"running", "disabled"} /\ call = NoOne
  /\ peer[p].tick = MaxModTick \/ \E q \in ModPeer : host[q].state \in {"refused", "closed"}
  /\ host' = [host EXCEPT ![p] = [@ EXCEPT !.state = "closed", !.pages = 0, !.memory = <<>>]]
  /\ runtime' = [runtime EXCEPT !.used = @ - host[p].pages]
  /\ UNCHANGED <<wasm, guest, outside, natives, peer, call>>

\* Modules the runtime takes, and ones it does not.
Module(imports, pages) == [imports |-> imports, complete |-> TRUE, initial |-> 1, maximum |-> pages]
Modules ==
  LET good == {Module({"submit", "view"}, 1), Module({"random", "submit"}, 1),
               Module({"say"}, MaxPages), Module({"clock"}, 1)}
  IN  good \cup {Module({"submit", "foreign"}, 1)}
           \cup {[m EXCEPT !.complete = FALSE] : m \in good}
           \cup {[m EXCEPT !.initial = MaxPages + 1, !.maximum = MaxPages + 1] : m \in good}
           \cup {[m EXCEPT !.maximum = top] : m \in good, top \in {NoMaximum, MaxPages + 1}}

ModInit ==
  /\ wasm \in Modules
  /\ guest = <<>> /\ outside = [t \in 0 .. MaxModTick - 1 |-> t % 2 = 0]
  /\ natives = [table |-> Imports, safe |-> <<>>, all |-> <<>>]
  /\ runtime = [alive |-> FALSE, debug |-> FALSE, used |-> 0, count |-> 0]
  /\ host = [p \in ModPeer |-> [state |-> "none", pages |-> 0, memory |-> <<>>, queue |-> <<>>]]
  /\ peer = [p \in ModPeer |-> [at |-> "starting", tick |-> 0, next |-> 0,
                                pending |-> {}, painted |-> <<>>, heard |-> <<>>]]
  /\ call = NoOne

ModNext ==
  \/ \E debug \in BOOLEAN : CreateRuntime(debug)
  \/ DestroyRuntime
  \/ \E p \in ModPeer :
       \/ Attach(p) \/ Poll(p) \/ Return(p) \/ Trap(p) \/ Tick(p) \/ Close(p)
       \/ \E order \in Asks : Import(p, order)

ModSpec == ModInit /\ [][ModNext]_modVars

\* A peer between ticks whose mod is not in a call.
Level(p) == peer[p].at = "starting" /\ call = NoOne /\ host[p].state \in {"running", "disabled"}

\* Peers that are as far have the same world, the same commands under way, and
\* a mod that knows the same and has said the same, whatever the module does and
\* in whatever order they run (ModHost::poll).  Not of a module that reads the clock.
PeersAgreeOnMods ==
  \A p, q \in ModPeer :
    "clock" \notin wasm.imports /\ Level(p) /\ Level(q) /\ peer[p].tick = peer[q].tick =>
      peer[p] = peer[q] /\ host[p] = host[q]

\* The pages of the instances.
Pages == UNION {{p} \X (1 .. host[p].pages) : p \in ModPeer}

\* A runtime offers what the loader permits, and the clock only when asked to,
\* whatever runtimes were there before; and its budget is spent by the instances
\* that live (register_host_imports, counted_malloc, Mod::disable).
RuntimeKept ==
  /\ runtime.alive =>
       /\ Offered(natives, runtime.debug) = Permitted(natives, runtime.debug)
       /\ "clock" \in Offered(natives, runtime.debug) <=> runtime.debug
  /\ runtime.used = Cardinality(Pages)
==============================================================================
