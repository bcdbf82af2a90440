------------------------------ MODULE Platform ------------------------------
(***************************************************************************)
(* The input of the applications (engine/platform): once a frame pump      *)
(* empties the window system's queue into a list of events, which say what *)
(* changed, and an InputState, which says what is true.  Gamepads come and *)
(* go, take a slot while there is one, and give it up to another.          *)
(***************************************************************************)
EXTENDS Integers, Sequences, FiniteSets, SequencesExt, FiniteSetsExt, Functions

CONSTANTS Key,          \* keys and mouse buttons
          Slots,        \* kMaxGamepads
          MaxPads,      \* bound: the gamepads ever plugged in
          DeadZone,     \* below it a stick is at rest
          TextCapacity, \* TextInput::kCapacity
          MaxReports,   \* bound: how often the window system reports something
          NoPad

ASSUME PlatformAssumption == Slots \in Nat \ {0} /\ MaxPads \in Nat /\ MaxReports \in Nat

VARIABLES reports, \* external: the window system's queue
          held,    \* external: the keys and mouse buttons that are down
          pad,     \* external: the gamepads, as the window system knows them
          control, \* InputState of keys and mouse buttons
          handle,  \* m_gamepad_handle, m_gamepad_instance
          slot,    \* InputState of the slots
          events,  \* what pump returned
          typed,   \* auxiliary: the text the last pump took
          told,    \* bound: how often the window system reported
          closed

platformVars == <<reports, held, pad, control, handle, slot, events, typed, told, closed>>

\* A text is bytes that start or continue a character; what is typed is
\* characters of one, four and two bytes.
Typed == {<<"start", "start", "continue", "continue", "continue", "start", "continue">>}

Pad == 1 .. MaxPads
Slot == 1 .. Slots
Up == [down |-> FALSE, pressed |-> FALSE, released |-> FALSE]
Centred == [connected |-> FALSE, axis |-> 0] @@ Up
Event(of, what) == [of |-> of, what |-> what]

------------------------------------------------------------------------------
(* The window system.  It reports a gamepad only while it is open.         *)
Report(r) == ~closed /\ told < MaxReports /\ told' = told + 1 /\ reports' = Append(reports, r)
             /\ UNCHANGED <<control, handle, slot, events, typed, closed>>

\* A key or a mouse button goes down, is repeated while it is down, or goes up.
Hold(c) ==
  /\ \/ c \notin held /\ held' = held \cup {c} /\ Report(Event("down", c))
     \/ c \in held /\ held' = held \ {c} /\ Report(Event("up", c))
     \/ c \in held /\ UNCHANGED held /\ Report(Event("repeat", c))
  /\ UNCHANGED pad

Plug(i) ==
  /\ pad[i].at = "unseen" /\ \A j \in 1 .. i - 1 : pad[j].at # "unseen"
  /\ pad' = [pad EXCEPT ![i].at = "plugged"]
  /\ Report(Event("added", i)) /\ UNCHANGED held

Unplug(i) ==
  /\ pad[i].at = "plugged"
  /\ pad' = [pad EXCEPT ![i].at = "gone"]
  /\ Report(Event("removed", i)) /\ UNCHANGED held

Handle(i) ==
  /\ pad[i].at = "plugged" /\ pad[i].open
  /\ \/ pad' = [pad EXCEPT ![i].down = ~@] /\ Report(Event(IF pad[i].down THEN "pad up" ELSE "pad down", i))
     \/ \E v \in {0, DeadZone + 1} \ {pad[i].axis} :
          pad' = [pad EXCEPT ![i].axis = v] /\ Report(Event("axis", <<i, v>>))
  /\ UNCHANGED held

Type ==
  \E text \in Typed :
    Report(Event("text", text)) /\ UNCHANGED <<held, pad>>

------------------------------------------------------------------------------
(* The input state.                                                        *)
\* Only a change is an edge; a repeat is none.
Set(state, down) ==
  [state EXCEPT !.down = down,
                !.pressed = @ \/ (down /\ ~state.down),
                !.released = @ \/ (~down /\ state.down)]

PluggedAsItWas(state, connected) == [state EXCEPT !.connected = connected]

\* A fresh slot, either way.
Plugged(state, connected) == [Centred EXCEPT !.connected = connected]

Normalised(raw) == IF raw <= DeadZone THEN 0 ELSE raw - DeadZone

\* Held state persists across frames; edges do not.
FrameBegun(state) == [state EXCEPT !.pressed = FALSE, !.released = FALSE]

------------------------------------------------------------------------------
(* Platform::pump.                                                         *)
SlotOf(p, i) == {s \in Slot : p.handle[s] = i}

OnKey(p, c, down, event) ==
  [p EXCEPT !.control[c] = Set(@, down), !.events = Append(@, Event(event, c))]

OnAdded(p, i) ==
  LET free == {s \in Slot : p.handle[s] = NoPad}
      s == Min(free)
  IN  IF free = {} \/ p.pad[i].at # "plugged" \/ i \in p.stubborn THEN p
      ELSE [p EXCEPT !.handle[s] = i, !.pad[i].open = TRUE, !.slot[s] = Plugged(@, TRUE),
                     !.events = Append(@, Event("connected", s))]

OnRemoved(p, i) ==
  LET s == Min(SlotOf(p, i))
  IN  IF SlotOf(p, i) = {} THEN p
      ELSE [p EXCEPT !.handle[s] = NoPad, !.pad[i].open = FALSE, !.slot[s] = Plugged(@, FALSE),
                     !.events = Append(@, Event("disconnected", s))]

OnPadButton(p, i, down) ==
  LET s == Min(SlotOf(p, i))
  IN  IF SlotOf(p, i) = {} THEN p
      ELSE [p EXCEPT !.slot[s] = Set(@, down),
                     !.events = Append(@, Event(IF down THEN "pad pressed" ELSE "pad released", s))]

OnPadAxis(p, i, raw) ==
  LET s == Min(SlotOf(p, i))
  IN  IF SlotOf(p, i) = {} THEN p ELSE [p EXCEPT !.slot[s].axis = Normalised(raw)]

\* The longest prefix that fits and ends where a character does.
PrefixLength(text) ==
  IF Len(text) <= TextCapacity THEN Len(text)
  ELSE Max({0} \cup {n \in 1 .. TextCapacity : text[n + 1] # "continue"})

\* The text in as many events as it takes.
OnText(p, text) ==
  LET piece[from \in 0 .. Len(text)] ==
        LET rest == SubSeq(text, from + 1, Len(text))
            n == PrefixLength(rest)
            take == IF n = 0 THEN Min({Len(rest), TextCapacity}) ELSE n
        IN  IF rest = <<>> THEN <<>> ELSE <<Event("input", SubSeq(rest, 1, take))>> \o piece[from + take]
  IN  [p EXCEPT !.events = @ \o piece[0]]

Handled(p, r) ==
  CASE r.of = "down" -> OnKey(p, r.what, TRUE, "pressed")
    [] r.of = "repeat" -> OnKey(p, r.what, TRUE, "repeated")
    [] r.of = "up" -> OnKey(p, r.what, FALSE, "released")
    [] r.of = "added" -> OnAdded(p, r.what)
    [] r.of = "removed" -> OnRemoved(p, r.what)
    [] r.of = "pad down" -> OnPadButton(p, r.what, TRUE)
    [] r.of = "pad up" -> OnPadButton(p, r.what, FALSE)
    [] r.of = "axis" -> OnPadAxis(p, r.what[1], r.what[2])
    [] r.of = "text" -> OnText(p, r.what)

\* Some gamepads cannot be opened.
PumpEvents ==
  \E stubborn \in SUBSET {i \in Pad : ~pad[i].open} :
    LET before == [control |-> [c \in Key |-> FrameBegun(control[c])], handle |-> handle,
                   slot |-> [s \in Slot |-> FrameBegun(slot[s])], events |-> <<>>, pad |-> pad,
                   stubborn |-> stubborn]
        after == FoldLeft(Handled, before, reports)
    IN  /\ ~closed /\ reports # <<>>
        /\ control' = after.control /\ handle' = after.handle /\ slot' = after.slot
        /\ events' = after.events /\ pad' = after.pad
        /\ reports' = <<>>
        /\ typed' = FlattenSeq([k \in DOMAIN reports |->
                                   IF reports[k].of = "text" THEN reports[k].what ELSE <<>>])
        /\ UNCHANGED <<held, told, closed>>

\* The platform is destroyed, and what it opened is closed.
CloseWindow ==
  /\ ~closed /\ closed' = TRUE
  /\ pad' = [i \in Pad |-> IF i \in Range(handle) THEN [pad[i] EXCEPT !.open = FALSE] ELSE pad[i]]
  /\ handle' = [s \in Slot |-> NoPad]
  /\ UNCHANGED <<reports, held, control, slot, events, typed, told>>

PlatformInit ==
  /\ reports = <<>> /\ held = {} /\ events = <<>> /\ typed = <<>> /\ told = 0 /\ closed = FALSE
  /\ pad = [i \in Pad |-> [at |-> "unseen", open |-> FALSE, down |-> FALSE, axis |-> 0]]
  /\ control = [c \in Key |-> Up]
  /\ handle = [s \in Slot |-> NoPad] /\ slot = [s \in Slot |-> Centred]

PlatformNext ==
  \/ \E c \in Key : Hold(c)
  \/ \E i \in Pad : Plug(i) \/ Unplug(i) \/ Handle(i)
  \/ Type \/ PumpEvents \/ CloseWindow

PlatformSpec == PlatformInit /\ [][PlatformNext]_platformVars
==============================================================================
