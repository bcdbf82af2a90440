-------------------------------- MODULE Wire --------------------------------
(***************************************************************************)
(* What is written down and read by somebody else: the messages peers send *)
(* (engine/net message.cpp), recordings (replay.cpp), saves (save.cpp) and *)
(* the tables inside them (apps/lab tables.cpp).  What is written can be   *)
(* damaged, cut short or run together before it is read.                   *)
(*                                                                         *)
(* A field of fixed width is one word, whatever its width, so that a size  *)
(* in bytes is a size in words.  Writers are written field by field, as in *)
(* the code; readers are layouts that Read interprets.                     *)
(***************************************************************************)
EXTENDS Integers, Sequences, FiniteSets, SequencesExt, Functions, TLC

CONSTANTS MaxItems,   \* kMaxPeers, kMaxCommandsPerTurn, kMaxReplayCommands, kMaxRows and their like
          MaxText,    \* kMaxBuildIdBytes, kMaxByeDetailBytes, kMaxPayload
          MaxWords,   \* kMaxMessageBytes
          Limit,      \* kOwnerCount, kColorCount, kPopulationCap, kMaxChunkSize
          MaxHarm,    \* bound: what happens to a document on its way
          NoDocument

ASSUME WireAssumption == MaxItems \in Nat /\ MaxText \in Nat /\ MaxWords \in Nat /\ MaxHarm \in Nat

VARIABLES document, \* what somebody wants to write down
          words,    \* what was written, as it is now
          harm,     \* bound: what happened to it since
          received  \* what was read, or Refused

wireVars == <<document, words, harm, received>>

Word == 0 .. 9
NetMagic == 9
ReplayMagic == 8
SaveMagic == 7
ProtocolVersion == 3
FormatVersion == 1
AlgorithmVersion == 2
TypeCode == [hello |-> 1, welcome |-> 2, turn |-> 3, check |-> 4, bye |-> 5, finish |-> 6, drop |-> 7]
Messages == DOMAIN TypeCode
ByeReasons == 1 .. 5

------------------------------------------------------------------------------
(* Writing (SaveWriter).                                                   *)
WrittenText(text) == <<Len(text)>> \o text
WrittenList(written) == <<Len(written)>> \o FlattenSeq(written)

WrittenCommand(c) == <<c.target, c.source, c.sequence, c.type>> \o WrittenText(c.payload)
WrittenHash(h) == <<h.system, h.hash>>
WrittenCommands(list) == WrittenList([i \in DOMAIN list |-> WrittenCommand(list[i])])
WrittenHashes(list) == WrittenList([i \in DOMAIN list |-> WrittenHash(list[i])])
WrittenCheckpoint(c) == <<c.tick, c.hash>> \o WrittenHashes(c.systems)
WrittenColumn(rows, name) == [i \in DOMAIN rows |-> rows[i][name]]

WrittenHeader(type) == <<NetMagic, ProtocolVersion, TypeCode[type]>>

\* Every cell's region, then every cell's owner, then every cell's colour.
WrittenTable(name, t) ==
  CASE name = "grid" -> <<t.width, t.height, t.chunk, t.seed>>
    [] name = "cells" ->
         <<Len(t)>> \o WrittenColumn(t, "region") \o WrittenColumn(t, "owner") \o WrittenColumn(t, "colour")
    [] name \in {"population", "chunks"} -> WrittenText(t)
    [] name = "adjacency" -> WrittenText(t.first) \o WrittenText(t.neighbour)

\* The tables a world has, in the order of their identifiers.
TableNames == <<"grid", "cells", "population", "chunks", "adjacency">>
WrittenTables(tables) == [i \in DOMAIN TableNames |-> WrittenTable(TableNames[i], tables[TableNames[i]])]

\* Weaker than the hash of the code, and told apart by every single word.
HashOf(tables) == FoldLeft(LAMBDA h, w : (31 * h + w) % 1009, 1, FlattenSeq(WrittenTables(tables)))

\* A table's words are preceded by how many they are.
WrittenSections(tables) ==
  LET sections == WrittenTables(tables)
      section(i) == <<i>> \o WrittenText(sections[i])
  IN  WrittenList([i \in DOMAIN sections |-> section(i)])

Written(d) ==
  CASE d.kind = "hello" ->
         WrittenHeader("hello") \o <<d.hash_version, d.save_version, d.replay_version>> \o WrittenText(d.build)
           \o <<d.golden, d.golden_all, d.seed, d.start, d.initial, d.rate, d.delay>>
    [] d.kind = "welcome" ->
         WrittenHeader("welcome") \o <<d.assigned>> \o WrittenText(d.peers)
           \o <<d.seed, d.start, d.initial, d.delay>>
    [] d.kind = "turn" ->
         WrittenHeader("turn") \o <<d.tick, d.source>> \o WrittenCommands(d.commands)
    [] d.kind = "check" ->
         WrittenHeader("check") \o <<d.tick, d.source, d.hash>> \o WrittenHashes(d.systems)
    [] d.kind = "bye" -> WrittenHeader("bye") \o <<d.reason>> \o WrittenText(d.detail)
    [] d.kind = "finish" -> WrittenHeader("finish") \o <<d.last>>
    [] d.kind = "drop" -> WrittenHeader("drop") \o <<d.source, d.turns>>
    [] d.kind = "replay" ->
         <<ReplayMagic, FormatVersion, AlgorithmVersion, d.seed, d.first, d.count, d.initial>>
           \o WrittenCommands(d.commands)
           \o WrittenList([i \in DOMAIN d.checkpoints |-> WrittenCheckpoint(d.checkpoints[i])])
    [] d.kind = "save" ->
         <<SaveMagic, FormatVersion, AlgorithmVersion, d.tick, d.seed, HashOf(d.tables)>>
           \o WrittenSections(d.tables)
           \o WrittenList([i \in DOMAIN d.next |-> <<d.next[i].source, d.next[i].number>>])

Increasing(list) == \A i \in 2 .. Len(list) : list[i - 1] < list[i]

\* What a writer refuses to write down, for a reader would refuse to read it.
WithinLimits(d) ==
  CASE d.kind = "hello" -> Len(d.build) <= MaxText
    [] d.kind = "welcome" -> Len(d.peers) <= MaxItems /\ Increasing(d.peers)
    [] d.kind = "turn" ->
         Len(d.commands) <= MaxItems /\ \A i \in DOMAIN d.commands : Len(d.commands[i].payload) <= MaxText
    [] d.kind = "check" -> Len(d.systems) <= MaxItems
    [] d.kind = "bye" -> Len(d.detail) <= MaxText
    [] d.kind = "replay" ->
         /\ Len(d.commands) <= MaxItems /\ Len(d.checkpoints) <= MaxItems
         /\ \A i \in DOMAIN d.checkpoints : Len(d.checkpoints[i].systems) <= MaxItems
    [] OTHER -> TRUE

\* Within every limit, a message can still be too long.
Writable(d) == WithinLimits(d) /\ (d.kind \in Messages => Len(Written(d)) <= MaxWords)

------------------------------------------------------------------------------
(* Reading (SaveReader).                                                   *)
Refused == [ok |-> FALSE, value |-> NoDocument, rest |-> <<>>]
Took(value, rest) == [ok |-> TRUE, value |-> value, rest |-> rest]

\* What a document is made of: one word, a count and as many items of at least
\* so many words, or named parts one after the other.
Number(within) == [of |-> "number", within |-> within]
Listed(most, size, item) == [of |-> "list", most |-> most, size |-> size, item |-> item]
Parts(names, layouts) == [of |-> "parts", names |-> names, layouts |-> layouts]
Free == Number(Nat)
Free4 == <<Free, Free, Free, Free>>
TextOf(most) == Listed(most, 1, Free)

TakeNumber(within, from) ==
  IF from # <<>> /\ Head(from) \in within THEN Took(Head(from), Tail(from)) ELSE Refused

\* A count is believed when it is within its limit and what is left can hold it.
TakeCount(most, size, from) ==
  LET count == TakeNumber(0 .. most, from)
  IN  IF count.ok /\ count.value * size <= Len(count.rest) THEN count ELSE Refused

RECURSIVE Read(_, _)
ReadOn(layouts, from, Add(_, _, _)) ==
  FoldLeftDomain(LAMBDA got, i :
                   IF ~got.ok THEN Refused
                   ELSE LET next == Read(layouts[i], got.rest)
                        IN  IF next.ok THEN Took(Add(got.value, i, next.value), next.rest) ELSE Refused,
                 from, layouts)

Read(layout, from) ==
  CASE layout.of = "number" -> TakeNumber(layout.within, from)
    [] layout.of = "list" ->
         LET count == TakeCount(layout.most, layout.size, from)
         IN  IF ~count.ok THEN Refused
             ELSE ReadOn([i \in 1 .. count.value |-> layout.item], Took(<<>>, count.rest),
                         LAMBDA v, i, e : Append(v, e))
    [] layout.of = "parts" ->
         ReadOn(layout.layouts, Took([n \in {} |-> 0], from), LAMBDA v, i, e : (layout.names[i] :> e) @@ v)

EndedAnyhow(rest) == TRUE

\* Nothing may be left over.
Ended(rest) == rest = <<>>

CommandLayout == Parts(<<"target", "source", "sequence", "type", "payload">>, Append(Free4, TextOf(MaxText)))
HashLayout == Parts(<<"system", "hash">>, <<Free, Free>>)
HashesLayout == Listed(MaxItems, 2, HashLayout)

HelloLayout ==
  Parts(<<"hash_version", "save_version", "replay_version", "build",
          "golden", "golden_all", "seed", "start", "initial", "rate", "delay">>,
        <<Free, Free, Free, TextOf(MaxText)>> \o Free4 \o <<Free, Free, Free>>)
WelcomeLayout ==
  Parts(<<"assigned", "peers", "seed", "start", "initial", "delay">>, <<Free, TextOf(MaxItems)>> \o Free4)
TurnLayout == Parts(<<"tick", "source", "commands">>, <<Free, Free, Listed(MaxItems, 5, CommandLayout)>>)
CheckLayout == Parts(<<"tick", "source", "hash", "systems">>, <<Free, Free, Free, HashesLayout>>)
ByeLayout == Parts(<<"reason", "detail">>, <<Number(ByeReasons), TextOf(MaxText)>>)
FinishLayout == Parts(<<"last">>, <<Free>>)
DropLayout == Parts(<<"source", "turns">>, <<Number(0 .. MaxItems - 1), Free>>)

BodyLayout ==
  [hello |-> HelloLayout, welcome |-> WelcomeLayout, turn |-> TurnLayout, check |-> CheckLayout,
   bye |-> ByeLayout, finish |-> FinishLayout, drop |-> DropLayout]

\* The kind of a message is read before its body, and says how the body is read.
HeaderLayout ==
  Parts(<<"magic", "version", "type">>,
        <<Number({NetMagic}), Number({ProtocolVersion}), Number({TypeCode[t] : t \in Messages})>>)

Decoded(from) ==
  LET header == Read(HeaderLayout, from)
      type == CHOOSE t \in Messages : TypeCode[t] = header.value.type
      body == Read(BodyLayout[type], header.rest)
  IN  IF Len(from) <= MaxWords /\ header.ok /\ body.ok /\ Ended(body.rest)
           /\ (type = "welcome" => Increasing(body.value.peers))
      THEN Took(("kind" :> type) @@ body.value, <<>>) ELSE Refused

ReplayLayout ==
  Parts(<<"magic", "format", "algorithm", "seed", "first", "count", "initial", "commands", "checkpoints">>,
        <<Number({ReplayMagic}), Number({FormatVersion}), Number({AlgorithmVersion})>> \o Free4
          \o <<Listed(MaxItems, 5, CommandLayout),
               Listed(MaxItems, 3, Parts(<<"tick", "hash", "systems">>, <<Free, Free, HashesLayout>>))>>)

ReplayRead(from) ==
  LET read == Read(ReplayLayout, from)
  IN  IF read.ok /\ Ended(read.rest)
      THEN Took(("kind" :> "replay")
                  @@ Restrict(read.value, DOMAIN read.value \ {"magic", "format", "algorithm"}), <<>>)
      ELSE Refused

------------------------------------------------------------------------------
(* The tables of a save.                                                   *)
\* The columns come one after the other, each as long as the count says.
ReadCells(from) ==
  LET count == TakeCount(MaxItems, 3, from)
      rows == count.value
      region(i) == count.rest[i]
      owner(i) == count.rest[rows + i]
      colour(i) == count.rest[2 * rows + i]
  IN  IF ~count.ok THEN Refused
      ELSE IF (\E i \in 1 .. rows : owner(i) >= Limit \/ colour(i) >= Limit) THEN Refused
      ELSE Took([i \in 1 .. rows |-> [region |-> region(i), owner |-> owner(i), colour |-> colour(i)]],
                SubSeq(count.rest, 3 * rows + 1, Len(count.rest)))

\* A grid is a whole number of chunks, none of them too large, and not too many cells.
GridFits(g) ==
  /\ g.width > 0 /\ g.height > 0 /\ g.chunk \in 1 .. Limit
  /\ g.width % g.chunk = 0 /\ g.height % g.chunk = 0
  /\ g.width * g.height <= MaxItems

ReadGrid(from) ==
  LET read == Read(Parts(<<"width", "height", "chunk", "seed">>, Free4), from)
  IN  IF read.ok /\ GridFits(read.value) THEN read ELSE Refused

\* Where each cell's neighbours begin, and the neighbours of all cells.
Adjoining(a) ==
  /\ a.first # <<>> /\ a.first[1] = 0
  /\ \A i \in 2 .. Len(a.first) : a.first[i - 1] <= a.first[i]
  /\ Last(a.first) = Len(a.neighbour)
  /\ \A i \in DOMAIN a.neighbour : a.neighbour[i] < Len(a.first) - 1

ReadAdjacency(from) ==
  LET read == Read(Parts(<<"first", "neighbour">>, <<TextOf(MaxItems + 1), TextOf(8 * MaxItems)>>), from)
  IN  IF read.ok THEN IF Adjoining(read.value) THEN read ELSE Refused ELSE Refused

ReadTable(name, from) ==
  CASE name = "grid" -> ReadGrid(from)
    [] name = "cells" -> ReadCells(from)
    [] name = "population" -> Read(Listed(MaxItems, 1, Number(0 .. Limit)), from)
    [] name = "chunks" -> Read(Listed(MaxItems, 1, Number(0 .. Limit - 1)), from)
    [] name = "adjacency" -> ReadAdjacency(from)

SaveLayout(length) ==
  Parts(<<"magic", "format", "algorithm", "tick", "seed", "hash", "sections", "next">>,
        <<Number({SaveMagic}), Number({FormatVersion}), Number({AlgorithmVersion}), Free, Free, Free,
          Listed(Len(TableNames), 2, Parts(<<"id", "words">>, <<Number(DOMAIN TableNames), TextOf(length)>>)),
          Listed(MaxItems, 2, Parts(<<"source", "number">>, <<Free, Free>>))>>)

\* Every section is found first, then read, and in the end what was read is
\* compared with the hash of what was saved.
SaveRead(from) ==
  LET read == Read(SaveLayout(Len(from)), from)
      v == read.value
      located == /\ read.ok /\ Ended(read.rest)
                 /\ Len(v.sections) = Len(TableNames)
                 /\ Cardinality({v.sections[i].id : i \in DOMAIN v.sections}) = Len(v.sections)
      section(i) == CHOOSE s \in Range(v.sections) : s.id = i
      table == [i \in DOMAIN TableNames |-> ReadTable(TableNames[i], section(i).words)]
      tables == [n \in Range(TableNames) |-> table[CHOOSE i \in DOMAIN TableNames : TableNames[i] = n].value]
  IN  IF ~located THEN Refused
      ELSE IF (\E i \in DOMAIN table : ~table[i].ok \/ ~Ended(table[i].rest)) THEN Refused
      ELSE IF HashOf(tables) # v.hash THEN Refused
      ELSE Took([kind |-> "save", tick |-> v.tick, seed |-> v.seed, tables |-> tables, next |-> v.next], <<>>)

Received(kind, from) ==
  CASE kind \in Messages -> Decoded(from)
    [] kind = "replay" -> ReplayRead(from)
    [] kind = "save" -> SaveRead(from)

------------------------------------------------------------------------------
(* What is written: each field has a number of its own, and lists and text *)
(* are empty, full and too long.                                           *)
Texts(most) == {[i \in 1 .. n |-> i] : n \in 0 .. most}
SeqsOf(S, most) == UNION {[1 .. n -> S] : n \in 0 .. most}
CommandOf(payload) == [target |-> 4, source |-> 1, sequence |-> 5, type |-> 0, payload |-> payload]
HashesOf == {[i \in 1 .. n |-> [system |-> i, hash |-> i + 5]] : n \in 0 .. MaxItems + 1}
TurnsOf == SeqsOf({CommandOf(t) : t \in Texts(MaxText + 1)}, MaxItems + 1)

CellOf(k) == [region |-> k, owner |-> Limit - 1, colour |-> 0]
TablesOf(w) ==
  [grid |-> [width |-> w, height |-> 1, chunk |-> 1, seed |-> 4],
   cells |-> [i \in 1 .. w |-> CellOf(i)], population |-> [i \in 1 .. w |-> Limit],
   chunks |-> [i \in 1 .. w |-> i - 1],
   adjacency |-> IF w = 1 THEN [first |-> <<0, 0>>, neighbour |-> <<>>]
                 ELSE [first |-> <<0, 1, 2>>, neighbour |-> <<1, 0>>]]

Documents ==
  {[kind |-> "hello", hash_version |-> 2, save_version |-> 1, replay_version |-> 3, build |-> t,
    golden |-> 4, golden_all |-> 9, seed |-> 5, start |-> 6, initial |-> 7, rate |-> 8, delay |-> 0]
     : t \in Texts(MaxText + 1)}
  \cup {[kind |-> "welcome", assigned |-> 1, peers |-> p, seed |-> 5, start |-> 6, initial |-> 7, delay |-> 2]
         : p \in SeqsOf(0 .. 2, MaxItems + 1)}
  \cup {[kind |-> "turn", tick |-> 6, source |-> 1, commands |-> c] : c \in TurnsOf}
  \cup {[kind |-> "check", tick |-> 6, source |-> 1, hash |-> 7, systems |-> s] : s \in HashesOf}
  \cup {[kind |-> "bye", reason |-> r, detail |-> t] : r \in ByeReasons, t \in Texts(MaxText + 1)}
  \cup {[kind |-> "finish", last |-> 6]}
  \cup {[kind |-> "drop", source |-> s, turns |-> 6] : s \in 0 .. MaxItems - 1}
  \cup {[kind |-> "replay", seed |-> 5, first |-> 0, count |-> 6, initial |-> 7, commands |-> c,
         checkpoints |-> [i \in 1 .. n |-> [tick |-> i, hash |-> 7, systems |-> s]]]
         : c \in SeqsOf({CommandOf(<<>>), CommandOf(<<1>>)}, MaxItems + 1),
           n \in 0 .. MaxItems + 1, s \in HashesOf}
  \cup {[kind |-> "save", tick |-> 6, seed |-> 5, tables |-> TablesOf(w), next |-> n]
         : w \in 1 .. MaxItems, n \in SeqsOf({[source |-> 1, number |-> 3]}, 1)}

Post ==
  /\ document = NoDocument
  /\ document' \in {d \in Documents : Writable(d)}
  /\ words' = Written(document')
  /\ UNCHANGED <<harm, received>>

\* What happens to a document on its way, or on a disk.
OnItsWay == document # NoDocument /\ received = NoDocument /\ harm < MaxHarm /\ harm' = harm + 1
            /\ UNCHANGED <<document, received>>
Garble == OnItsWay /\ \E i \in DOMAIN words, w \in Word : words' = [words EXCEPT ![i] = w]
CutShort == OnItsWay /\ \E n \in 0 .. Len(words) - 1 : words' = SubSeq(words, 1, n)
RunTogether == OnItsWay /\ \E w \in Word : words' = words \o <<w>> \/ words' = words \o words

Receive ==
  /\ document # NoDocument /\ received = NoDocument
  /\ received' = Received(document.kind, words)
  /\ UNCHANGED <<document, words, harm>>

WireInit == document = NoDocument /\ words = <<>> /\ harm = 0 /\ received = NoDocument
WireNext == Post \/ Garble \/ CutShort \/ RunTogether \/ Receive
WireSpec == WireInit /\ [][WireNext]_wireVars
==============================================================================
