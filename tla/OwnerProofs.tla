-------------------------------- MODULE OwnerProofs --------------------------------
(***************************************************************************)
(* Theorems about what the owner orders: HumanKnowledge and ArchivePurge,   *)
(* for any number of commands, Memories and versions; and about what         *)
(* MCMemories puts side by side.                                            *)
(***************************************************************************)
EXTENDS MCMemories, VaultProofs

(***************************************************************************)
(* HumanKnowledge.  Identifiers are handed out in order and each command has  *)
(* its own, so what a command writes is a new Memory; what a resolution did    *)
(* before it settles is still there when it does, whoever else ran meanwhile. *)
(***************************************************************************)
Commands ==
    [pc: {"idle", "started", "archive", "archiving", "write", "complete", "settle",
          "revise", "revising", "keep", "raised"},
     id: Identifiers \cup {NoIdentifier}, text: 0..MaxText, document: BOOLEAN,
     resolves: BOOLEAN, replaces: Identifiers \cup {NoIdentifier}, read: KnowledgeRecord]

HumanColumns ==
    /\ owned \in [Identifiers -> KnowledgeRecord]
    /\ assertions \in [Identifiers -> {"absent", "pending", "conflict", "completed"}]
    /\ human \in [Humans -> Commands]
    /\ overtaken \subseteq Humans

InOrder == \E n \in Nat : Asserted = 1..n

\* The identifiers that the commands in progress were given.
GivenOut ==
    /\ \A h \in Humans : human[h].id # NoIdentifier => human[h].id \in Asserted
    /\ \A g, h \in Humans : human[g].id # NoIdentifier /\ human[g].id = human[h].id => g = h
    /\ Present \subseteq Asserted

\* What a command has behind it.
CommandSoFar(h) ==
    LET command == human[h] IN
    /\ command.pc \in {"started", "raised", "archive", "archiving", "write", "complete",
                       "settle"} => command.id # NoIdentifier
    /\ command.pc \in {"started", "raised", "archive", "archiving", "write"} =>
         command.id \notin Present
    /\ command.pc \in {"archive", "archiving", "revise", "revising"} =>
         /\ command.replaces # NoIdentifier
         /\ command.read.state # "absent"
         /\ command.read.resolves = owned[command.replaces].resolves
         /\ command.read.predecessor = owned[command.replaces].predecessor
    /\ command.replaces \in Present \cup {NoIdentifier}
    /\ command.pc = "raised" => ~command.resolves
    /\ command.pc \in {"revise", "revising"} => command.id = NoIdentifier
    /\ command.resolves \/ command.pc = "keep" => conflict.state # "none"
    /\ command.resolves => command.replaces \in conflict.about \cup {NoIdentifier}
    /\ command.pc \in {"complete", "settle"} =>
         /\ command.id \in Present
         /\ owned[command.id].resolves = command.resolves
         /\ owned[command.id].predecessor = command.replaces
    /\ command.pc = "settle" => command.resolves /\ assertions[command.id] = "completed"

SoFar == \A h \in Humans : CommandSoFar(h)

HumanInv ==
    /\ HumanTypeOK /\ InOrder /\ GivenOut /\ SoFar
    /\ conflict.about \subseteq Present /\ SettledIsWritten

\* A command that is about to rename its file compared it with what it had read, unless
\* the file was changed since; a text it revises is older than its own.
ComparedTexts ==
    \A h \in Humans :
        /\ human[h].pc \in {"archiving", "revising"} =>
             h \in overtaken \/ owned[human[h].replaces] = human[h].read
        /\ human[h].pc \in {"revise", "revising"} => human[h].read.text < human[h].text

TextsInv ==
    /\ \A i \in Identifiers : owned[i].state = "absent" => owned[i].text = 0
    /\ ComparedTexts

\* With one command at a time: the Memory that a successor replaces is archived when the
\* successor is written.
OneCommand ==
    /\ \A g, h \in Humans : human[g].pc # "idle" /\ human[h].pc # "idle" => g = h
    /\ \A h \in Humans : human[h].pc = "write" /\ human[h].replaces # NoIdentifier =>
         owned[human[h].replaces].state = "archived"

LEMMA HumanTypes == HumanTypeOK => HumanColumns
BY DEF HumanTypeOK, HumanColumns, Commands

LEMMA HumanConstants ==
  /\ LastKnowledge \in Nat /\ MaxText \in Nat /\ MaxCalls \in Nat /\ NoIdentifier \notin Identifiers
  /\ Unwritten \in KnowledgeRecord /\ AtRest \in Commands
  /\ Unwritten.state = "absent" /\ AtRest.pc = "idle" /\ AtRest.id = NoIdentifier
  /\ ~AtRest.resolves /\ AtRest.replaces = NoIdentifier /\ Identifiers \subseteq Nat \ {0}
  /\ NoIdentifier = 0 /\ 1..MaxText \subseteq 0..MaxText
<1>1. 0 \in 0..MaxText /\ NoIdentifier \notin Identifiers /\ Identifiers \subseteq Nat \ {0}
  BY HumanAssumption DEF Identifiers, NoIdentifier
<1>2. Unwritten \in KnowledgeRecord
  BY <1>1 DEF Unwritten, KnowledgeRecord
<1>3. AtRest \in Commands
  BY <1>1, <1>2 DEF AtRest, Commands
<1>4. 1..MaxText \subseteq 0..MaxText
  BY HumanAssumption
<1> QED BY <1>1, <1>2, <1>3, <1>4, HumanAssumption DEF Unwritten, AtRest, NoIdentifier

\* The new text is a text, newer than every other.
LEMMA TextIsNew ==
  ASSUME HumanColumns
  PROVE  NewText \in 1..(MaxText + 1) /\ \A i \in Identifiers : owned[i].text < NewText
<1>1. /\ \A i \in Identifiers : owned[i].text \in 0..MaxText
      /\ \A h \in Humans : human[h].text \in 0..MaxText
  BY DEF HumanColumns, KnowledgeRecord, Commands
<1>2. \A u \in Texts : u \in 0..MaxText
  BY <1>1 DEF Texts
<1>3. MaxText + 1 \in 1..(MaxText + 1) /\ MaxText + 1 \notin Texts
      /\ \A u \in Texts : u < MaxText + 1
  BY <1>2, HumanConstants
<1>4. \E t \in 1..(MaxText + 1) : t \notin Texts /\ \A u \in Texts : u < t
  BY <1>3
<1>5. NewText \in 1..(MaxText + 1) /\ \A u \in Texts : u < NewText
  BY <1>4 DEF NewText
<1> QED BY <1>5 DEF Texts

\* The next identifier was never handed out.
LEMMA IdentifierIsNew ==
  ASSUME InOrder
  PROVE  /\ Cardinality(Asserted) + 1 \notin Asserted
         /\ \E n \in Nat : Asserted \cup {Cardinality(Asserted) + 1} = 1..n
<1>1. PICK n \in Nat : Asserted = 1..n
  BY DEF InOrder
<1>2. Cardinality(1..n) = n
  BY <1>1, FS_Interval
<1>3. Cardinality(Asserted) + 1 = n + 1
  BY <1>1, <1>2
<1>4. n + 1 \notin 1..n /\ (1..n) \cup {n + 1} = 1..(n + 1) /\ n + 1 \in Nat
  BY <1>1
<1> QED BY <1>1, <1>3, <1>4

\* Nothing written, nothing running.
LEMMA HumanStarts == HumanInit => HumanInv /\ TextsInv /\ OneCommand
<1> SUFFICES ASSUME HumanInit PROVE HumanInv /\ TextsInv /\ OneCommand
  OBVIOUS
<1>1. HumanTypeOK
  BY HumanConstants DEF HumanInit, HumanTypeOK, Commands
<1>2. Asserted = 1..0
  BY DEF HumanInit, Asserted
<1>3. Present = {}
  BY HumanConstants DEF HumanInit, Present
<1>4. \A h \in Humans : human[h] = AtRest
  BY DEF HumanInit
<1>5. InOrder /\ GivenOut
  BY <1>2, <1>3, <1>4, HumanConstants DEF InOrder, GivenOut
<1>6. SoFar
  BY <1>4, HumanConstants DEF SoFar, CommandSoFar
<1>7. conflict.about \subseteq Present /\ SettledIsWritten
  BY DEF HumanInit, SettledIsWritten
<1>8. OneCommand
  BY <1>4, HumanConstants DEF OneCommand
<1>9. TextsInv
  BY <1>4, HumanConstants DEF HumanInit, TextsInv, ComparedTexts, Unwritten
<1> QED BY <1>1, <1>5, <1>6, <1>7, <1>8, <1>9 DEF HumanInv

\* A step keeps what is written: the Memories that are there, and their provenance.
LeftAlone == \A i \in Present : /\ i \in Present'
                           /\ owned'[i].resolves = owned[i].resolves
                           /\ owned'[i].predecessor = owned[i].predecessor

\* The conflict is never another one, and names Memories that are there.
SameConflict ==
  /\ conflict.state # "none" => conflict'.state # "none" /\ conflict'.about = conflict.about
  /\ conflict'.about \subseteq Present'

LEMMA ConflictStays ==
  ASSUME HumanInv, LeftAlone, conflict'.about = conflict.about,
         conflict.state # "none" => conflict'.state # "none"
  PROVE  SameConflict
BY DEF HumanInv, LeftAlone, SameConflict

\* Another command's step changes nothing that a command has behind it.
LEMMA OthersSoFar ==
  ASSUME HumanInv, NEW mine, NEW g \in Humans, human'[g] = human[g],
         human[g].id = NoIdentifier \/ human[g].id # mine,
         LeftAlone, Present' \subseteq Present \cup {mine},
         \A i \in Identifiers \ {mine} : assertions'[i] = assertions[i],
         SameConflict
  PROVE  CommandSoFar(g)'
<1>1. CommandSoFar(g) /\ human[g].id \in Identifiers \cup {NoIdentifier}
  BY HumanTypes DEF HumanInv, SoFar, HumanColumns, Commands
<1> DEFINE command == human[g]
<1>2. human[g].id # NoIdentifier =>
        /\ human[g].id \notin Present => human[g].id \notin Present'
        /\ assertions'[human[g].id] = assertions[human[g].id]
  BY <1>1
<1>3. /\ command.pc \in {"started", "raised", "archive", "archiving", "write", "complete",
                         "settle"} => command.id # NoIdentifier
      /\ command.pc \in {"started", "raised", "archive", "archiving", "write"} =>
           command.id \notin Present'
      /\ command.pc \in {"archive", "archiving", "revise", "revising"} =>
           /\ command.replaces # NoIdentifier
           /\ command.read.state # "absent"
           /\ command.read.resolves = owned'[command.replaces].resolves
           /\ command.read.predecessor = owned'[command.replaces].predecessor
      /\ command.replaces \in Present' \cup {NoIdentifier}
      /\ command.pc = "raised" => ~command.resolves
      /\ command.pc \in {"revise", "revising"} => command.id = NoIdentifier
  BY <1>1, <1>2 DEF CommandSoFar, LeftAlone
<1>4. /\ command.resolves \/ command.pc = "keep" => conflict'.state # "none"
      /\ command.resolves => command.replaces \in conflict'.about \cup {NoIdentifier}
  BY <1>1 DEF CommandSoFar, SameConflict
<1>5. /\ command.pc \in {"complete", "settle"} =>
           /\ command.id \in Present'
           /\ owned'[command.id].resolves = command.resolves
           /\ owned'[command.id].predecessor = command.replaces
      /\ command.pc = "settle" => command.resolves /\ assertions'[command.id] = "completed"
  BY <1>1, <1>2 DEF CommandSoFar, LeftAlone
<1> HIDE DEF command
<1>6. human'[g] = command
  BY DEF command
<1> QED BY <1>3, <1>4, <1>5, <1>6 DEF CommandSoFar

\* What a settled conflict says stays true.
LEMMA SettledStays ==
  ASSUME HumanInv, LeftAlone,
         \A i \in Present : assertions[i] = "completed" => assertions'[i] = "completed",
         conflict'.state \in {"adopted_new", "distinguished"} => conflict' = conflict
  PROVE  SettledIsWritten'
<1>1. SettledIsWritten
  BY DEF HumanInv
<1>2. CASE conflict'.state = "adopted_new"
  <2>1. PICK i \in Present : owned[i].resolves /\ owned[i].predecessor \in conflict.about
                             /\ assertions[i] = "completed"
    BY <1>1, <1>2 DEF SettledIsWritten
  <2>2. i \in Present' /\ owned'[i].resolves /\ owned'[i].predecessor \in conflict'.about
        /\ assertions'[i] = "completed"
    BY <1>2, <2>1 DEF LeftAlone
  <2> QED BY <1>2, <2>2 DEF SettledIsWritten
<1>3. CASE conflict'.state = "distinguished"
  <2>1. PICK i \in Present : owned[i].resolves /\ owned[i].predecessor = NoIdentifier
                             /\ assertions[i] = "completed"
    BY <1>1, <1>3 DEF SettledIsWritten
  <2>2. i \in Present' /\ owned'[i].resolves /\ owned'[i].predecessor = NoIdentifier
        /\ assertions'[i] = "completed"
    BY <1>3, <2>1 DEF LeftAlone
  <2> QED BY <1>3, <2>2 DEF SettledIsWritten
<1> QED BY <1>2, <1>3 DEF SettledIsWritten

\* A step of one command, on its own identifier or on the next one.
LEMMA CommandStep ==
  ASSUME HumanInv, HumanTypeOK', NEW h \in Humans, NEW c \in Commands, Moves(h, c),
         NEW mine \in Identifiers \cup {NoIdentifier}, c.id \in {NoIdentifier, mine},
         \/ /\ mine = human[h].id
            /\ \/ UNCHANGED assertions
               \/ /\ mine # NoIdentifier
                  /\ \E v \in {"conflict", "completed"} :
                       assertions' = [assertions EXCEPT ![mine] = v]
         \/ /\ mine = Cardinality(Asserted) + 1 /\ mine \in Identifiers
            /\ assertions' = [assertions EXCEPT ![mine] = "pending"],
         LeftAlone, Present' \subseteq Present \cup ({human[h].id} \ {NoIdentifier}),
         SameConflict, CommandSoFar(h)', SettledIsWritten'
  PROVE  HumanInv'
<1>1. HumanColumns /\ InOrder /\ GivenOut
  BY HumanTypes DEF HumanInv
<1>2. \A i \in Identifiers \ {mine} : assertions'[i] = assertions[i]
  BY <1>1 DEF HumanColumns
<1>3. human'[h] = c /\ \A g \in Humans : g # h => human'[g] = human[g]
  BY <1>1 DEF HumanColumns, Moves
<1>4. Asserted \subseteq Identifiers
  BY DEF Asserted
<1>5. CASE mine = human[h].id
  <2>1. human[h].id # NoIdentifier => human[h].id \in Asserted
    BY <1>1 DEF GivenOut
  <2>2. Asserted' = Asserted
    <3>1. CASE UNCHANGED assertions
      BY <3>1 DEF Asserted
    <3>2. ASSUME mine # NoIdentifier, NEW v \in {"conflict", "completed", "pending"},
                 assertions' = [assertions EXCEPT ![mine] = v]
          PROVE  Asserted' = Asserted
      BY <1>1, <1>5, <2>1, <3>2 DEF Asserted, HumanColumns
    <3> QED BY <1>5, <3>1, <3>2, HumanConstants
  <2>3. GivenOut'
    BY <1>1, <1>3, <1>5, <2>1, <2>2 DEF GivenOut
  <2>4. \A g \in Humans : g # h => CommandSoFar(g)'
    BY <1>1, <1>2, <1>3, <1>5, OthersSoFar DEF GivenOut
  <2> QED BY <1>1, <2>2, <2>3, <2>4 DEF HumanInv, InOrder, SoFar, SameConflict
<1>6. CASE mine # human[h].id
  <2>1. /\ mine = Cardinality(Asserted) + 1 /\ mine \in Identifiers
        /\ assertions' = [assertions EXCEPT ![mine] = "pending"]
    BY <1>6
  <2>2. mine \notin Asserted /\ \E n \in Nat : Asserted \cup {mine} = 1..n
    BY <1>1, <2>1, IdentifierIsNew
  <2>3. Asserted' = Asserted \cup {mine}
    BY <1>1, <2>1 DEF Asserted, HumanColumns
  <2>4. human[h].id \in Asserted \cup {NoIdentifier}
    BY <1>1 DEF GivenOut
  <2>5. GivenOut'
    BY <1>1, <1>3, <2>1, <2>2, <2>3, <2>4, HumanConstants DEF GivenOut
  <2>6. \A g \in Humans : g # h => CommandSoFar(g)'
    <3> SUFFICES ASSUME NEW g \in Humans, g # h PROVE CommandSoFar(g)'
      OBVIOUS
    <3>1. human[g].id # NoIdentifier => human[g].id # human[h].id /\ human[g].id # mine
      BY <1>1, <2>2 DEF GivenOut
    <3>2. CommandSoFar(g) /\ human[g].id \in Identifiers \cup {NoIdentifier}
      BY <1>1 DEF HumanInv, SoFar, HumanColumns, Commands
    <3>3. human[g].id # NoIdentifier =>
            /\ human[g].id \notin Present => human[g].id \notin Present'
            /\ assertions'[human[g].id] = assertions[human[g].id]
      BY <1>2, <3>1, <3>2
    <3> QED BY <1>3, <3>2, <3>3 DEF CommandSoFar, LeftAlone, SameConflict
  <2> QED BY <2>2, <2>3, <2>5, <2>6 DEF HumanInv, InOrder, SoFar, SameConflict
<1> QED BY <1>5, <1>6

\* Neither a Memory nor its provenance changes when no file is written.
LEMMA UnwrittenKept ==
  ASSUME UNCHANGED owned
  PROVE  LeftAlone /\ Present' = Present
BY DEF LeftAlone, Present

\* A Memory rewritten with its provenance, or with what the file was read to hold.
LEMMA RewrittenKept ==
  ASSUME HumanColumns, NEW i \in Identifiers, NEW k \in KnowledgeRecord,
         owned' = [owned EXCEPT ![i] = k], owned[i].state # "absent", k.state # "absent",
         k.resolves = owned[i].resolves, k.predecessor = owned[i].predecessor
  PROVE  /\ LeftAlone /\ Present' = Present
         /\ owned' \in [Identifiers -> KnowledgeRecord]
BY DEF LeftAlone, Present, HumanColumns

\* A step that settles no conflict leaves the settled ones true.
LEMMA CompletedStays ==
  ASSUME HumanInv, NEW h \in Humans, LeftAlone,
         conflict'.state \in {"adopted_new", "distinguished"} => conflict' = conflict,
         \/ UNCHANGED assertions
         \/ assertions' = [assertions EXCEPT ![human[h].id] = "completed"]
         \/ \E i \in Identifiers \ Present : \E v \in {"pending", "conflict"} :
              assertions' = [assertions EXCEPT ![i] = v]
  PROVE  SettledIsWritten'
<1>1. \A i \in Present : assertions[i] = "completed" => assertions'[i] = "completed"
  BY HumanTypes DEF HumanInv, HumanColumns, Present
<1> QED BY <1>1, SettledStays

\* The commands that begin take the next identifier, for which nothing is written.
LEMMA CommandBegins ==
  ASSUME HumanInv, NEW h \in Humans, NEW c \in Commands, Begins(h, c), human[h].pc = "idle",
         UNCHANGED <<owned, conflict, assessment>>,
         c.replaces \in conflict.about \cup {NoIdentifier},
         c.resolves => conflict.state # "none"
  PROVE  HumanInv'
<1> DEFINE id == Cardinality(Asserted) + 1
           d == [c EXCEPT !.pc = "started", !.id = id, !.text = NewText]
<1>1. /\ id \in Identifiers /\ assertions' = [assertions EXCEPT ![id] = "pending"]
      /\ Moves(h, d) /\ NewText \in 0..MaxText /\ UNCHANGED overtaken
  BY HumanConstants DEF Begins
<1>2. d \in Commands /\ d.pc = "started" /\ d.id = id /\ d.resolves = c.resolves
      /\ d.replaces = c.replaces
  BY <1>1 DEF Commands
<1>3. HumanColumns /\ GivenOut /\ id \notin Asserted
  BY HumanTypes, IdentifierIsNew DEF HumanInv
<1>4. id \notin Present
  BY <1>3 DEF GivenOut
<1> HIDE DEF id, d
<1>5. HumanTypeOK'
  BY <1>1, <1>2, <1>3 DEF HumanInv, HumanTypeOK, HumanColumns, Commands, Moves
<1>6. human'[h] = d
  BY <1>1, <1>3 DEF Moves, HumanColumns
<1>7. LeftAlone /\ Present' = Present
  BY UnwrittenKept
<1>8. CommandSoFar(h)'
  BY <1>1, <1>2, <1>4, <1>6, <1>7, HumanConstants DEF CommandSoFar, HumanInv
<1>9. SettledIsWritten'
  BY <1>1, <1>4, <1>7, CompletedStays
<1> QED BY <1>1, <1>2, <1>5, <1>7, <1>8, <1>9, ConflictStays, CommandStep DEF id

\* A command that only goes on, with nothing written.
LEMMA CommandGoesOn ==
  ASSUME HumanInv, NEW h \in Humans, NEW c \in Commands, Moves(h, c),
         c.id \in {NoIdentifier, human[h].id},
         UNCHANGED <<owned, assertions, conflict, assessment>>, overtaken' \subseteq Humans,
         CommandSoFar(h)'
  PROVE  HumanInv'
<1>1. HumanTypeOK'
  BY HumanTypes DEF HumanInv, HumanTypeOK, HumanColumns, Commands, Moves
<1>2. LeftAlone /\ Present' = Present
  BY UnwrittenKept
<1>3. SettledIsWritten'
  BY <1>2, CompletedStays
<1>4. human[h].id \in Identifiers \cup {NoIdentifier}
  BY HumanTypes DEF HumanInv, HumanColumns, Commands
<1> QED BY <1>1, <1>2, <1>3, <1>4, ConflictStays, CommandStep

\* A command at rest has nothing behind it.
LEMMA RestSoFar ==
  ASSUME NEW h \in Humans, human'[h] = AtRest
  PROVE  CommandSoFar(h)'
BY HumanConstants DEF CommandSoFar

\* The command of a human becomes what it moves to.
LEMMA MovedTo ==
  ASSUME HumanColumns, NEW h \in Humans, NEW c, Moves(h, c)
  PROVE  human'[h] = c
BY DEF HumanColumns, Moves

\* Steps that read, refuse or give up.
LEMMA ReadingSteps ==
  ASSUME HumanInv, NEW h \in Humans,
         \/ ReadPredecessor(h) \/ CompareContent(h) \/ RefuseWrite(h) \/ BeginKeep(h)
         \/ CommandDies(h)
  PROVE  HumanInv'
<1>0. HumanColumns /\ CommandSoFar(h) /\ human[h] \in Commands
  BY HumanTypes DEF HumanInv, SoFar, HumanColumns
<1>1. /\ UNCHANGED <<owned, assertions, conflict, assessment>> /\ Present' = Present
      /\ overtaken' \subseteq Humans
  BY <1>0 DEF ReadPredecessor, CompareContent, RefuseWrite, BeginKeep, CommandDies, Present,
              HumanColumns
<1>2. CASE RefuseWrite(h) \/ CommandDies(h)
  <2>1. Moves(h, AtRest)
    BY <1>2 DEF RefuseWrite, CommandDies
  <2> QED BY <1>0, <1>1, <2>1, MovedTo, RestSoFar, CommandGoesOn, HumanConstants
<1>3. CASE BeginKeep(h)
  <2> DEFINE c == [AtRest EXCEPT !.pc = "keep"]
  <2>1. c \in Commands /\ c.pc = "keep" /\ c.id = NoIdentifier /\ ~c.resolves
        /\ c.replaces = NoIdentifier
    BY HumanConstants DEF Commands
  <2>2. Moves(h, c) /\ conflict.state # "none"
    BY <1>3 DEF BeginKeep
  <2> HIDE DEF c
  <2>3. CommandSoFar(h)'
    BY <1>0, <1>1, <2>1, <2>2, MovedTo DEF CommandSoFar
  <2> QED BY <1>1, <2>1, <2>2, <2>3, CommandGoesOn
<1>4. CASE ReadPredecessor(h)
  <2>1. human[h].pc = "started"
    BY <1>4 DEF ReadPredecessor
  <2>2. CASE human[h].replaces = NoIdentifier
    <3> DEFINE c == [human[h] EXCEPT !.pc = "write"]
    <3>1. /\ c \in Commands /\ c.pc = "write" /\ c.id = human[h].id
          /\ c.resolves = human[h].resolves /\ c.replaces = human[h].replaces
      BY <1>0 DEF Commands
    <3>2. Moves(h, c)
      BY <1>4, <2>2 DEF ReadPredecessor
    <3> HIDE DEF c
    <3>3. CommandSoFar(h)'
      BY <1>0, <1>1, <2>1, <3>1, <3>2, MovedTo DEF CommandSoFar
    <3> QED BY <1>1, <3>1, <3>2, <3>3, CommandGoesOn
  <2>3. CASE human[h].replaces # NoIdentifier
    <3> DEFINE c == [human[h] EXCEPT !.pc = "archive", !.read = owned[human[h].replaces]]
    <3>1. human[h].replaces \in Identifiers /\ owned[human[h].replaces] \in KnowledgeRecord
      BY <1>0, <2>3 DEF Commands, HumanColumns
    <3>2. /\ c \in Commands /\ c.pc = "archive" /\ c.id = human[h].id
          /\ c.resolves = human[h].resolves /\ c.replaces = human[h].replaces
          /\ c.read = owned[human[h].replaces]
      BY <1>0, <3>1 DEF Commands
    <3>3. Moves(h, c) /\ owned[human[h].replaces].state # "absent"
      BY <1>0, <1>4, <2>3 DEF ReadPredecessor, CommandSoFar, Present
    <3> HIDE DEF c
    <3>4. CommandSoFar(h)'
      BY <1>0, <1>1, <2>1, <2>3, <3>1, <3>2, <3>3, MovedTo DEF CommandSoFar
    <3> QED BY <1>1, <3>2, <3>3, <3>4, CommandGoesOn
  <2> QED BY <2>2, <2>3
<1>5. CASE CompareContent(h)
  <2> DEFINE c == [human[h] EXCEPT !.pc = IF human[h].pc = "archive" THEN "archiving"
                                          ELSE "revising"]
  <2>1. human[h].pc \in {"archive", "revise"} /\ Moves(h, c)
    BY <1>0, <1>5 DEF CompareContent, Commands
  <2>2. /\ c \in Commands /\ c.id = human[h].id /\ c.resolves = human[h].resolves
        /\ c.replaces = human[h].replaces /\ c.read = human[h].read
        /\ c.pc = IF human[h].pc = "archive" THEN "archiving" ELSE "revising"
    BY <1>0 DEF Commands
  <2> HIDE DEF c
  <2>3. CommandSoFar(h)'
    BY <1>0, <1>1, <2>1, <2>2, MovedTo DEF CommandSoFar
  <2> QED BY <1>1, <2>1, <2>2, <2>3, CommandGoesOn
<1> QED BY <1>2, <1>3, <1>4, <1>5

\* The commands that begin.
LEMMA BeginningSteps ==
  ASSUME HumanInv, NEW h \in Humans, AssertKnowledge(h) \/ Resolve(h) \/ ImportDocument(h)
  PROVE  HumanInv'
<1>0. HumanColumns
  BY HumanTypes DEF HumanInv
<1>1. CASE AssertKnowledge(h)
  BY <1>1, CommandBegins, HumanConstants DEF AssertKnowledge, CanStart
<1>2. CASE Resolve(h)
  <2>1. PICK replaced \in conflict.about \cup {NoIdentifier} :
          Begins(h, [AtRest EXCEPT !.resolves = TRUE, !.replaces = replaced])
    BY <1>2 DEF Resolve
  <2> DEFINE c == [AtRest EXCEPT !.resolves = TRUE, !.replaces = replaced]
  <2>2. conflict.about \subseteq Identifiers
    BY DEF HumanInv, HumanTypeOK
  <2>3. c \in Commands /\ c.replaces = replaced
    BY <2>2, HumanConstants DEF Commands
  <2> HIDE DEF c
  <2> QED BY <1>2, <2>1, <2>3, CommandBegins DEF Resolve, CanStart, c
<1>3. CASE ImportDocument(h)
  <2>1. CASE Begins(h, [AtRest EXCEPT !.document = TRUE])
    <3> DEFINE c == [AtRest EXCEPT !.document = TRUE]
    <3>1. c \in Commands /\ ~c.resolves /\ c.replaces = NoIdentifier
      BY HumanConstants DEF Commands
    <3> HIDE DEF c
    <3> QED BY <1>3, <2>1, <3>1, CommandBegins DEF ImportDocument, CanStart, c
  <2>2. ASSUME NEW i \in Present,
               Moves(h, [AtRest EXCEPT !.pc = "revise", !.text = NewText, !.document = TRUE,
                                       !.replaces = i, !.read = owned[i]]),
               NewText \in 1..MaxText, UNCHANGED <<assertions, overtaken>>
        PROVE  HumanInv'
    <3> DEFINE c == [AtRest EXCEPT !.pc = "revise", !.text = NewText, !.document = TRUE,
                                   !.replaces = i, !.read = owned[i]]
    <3>1. i \in Identifiers /\ owned[i] \in KnowledgeRecord /\ owned[i].state # "absent"
      BY <1>0 DEF Present, HumanColumns
    <3>2. c \in Commands /\ c.pc = "revise" /\ c.id = NoIdentifier /\ ~c.resolves
          /\ c.replaces = i /\ c.read = owned[i]
      <4>1. NewText \in 0..MaxText
        BY <2>2, HumanConstants
      <4> QED BY <3>1, <4>1, HumanConstants DEF Commands
    <3>3. UNCHANGED <<owned, assertions, conflict, assessment, overtaken>> /\ Moves(h, c)
      BY <1>3, <2>2 DEF ImportDocument
    <3> HIDE DEF c
    <3>4. CommandSoFar(h)'
      BY <1>0, <2>2, <3>1, <3>2, <3>3, MovedTo, UnwrittenKept, HumanConstants DEF CommandSoFar
    <3> QED BY <1>0, <3>2, <3>3, <3>4, CommandGoesOn DEF HumanColumns
  <2> QED BY <1>3, <2>1, <2>2 DEF ImportDocument
<1> QED BY <1>1, <1>2, <1>3

\* The steps of an assertion that becomes a conflict.
LEMMA ConflictRaised ==
  ASSUME HumanInv, NEW h \in Humans, RaiseConflict(h) \/ RecordConflict(h)
  PROVE  HumanInv'
<1>0. HumanColumns /\ CommandSoFar(h) /\ human[h] \in Commands
  BY HumanTypes DEF HumanInv, SoFar, HumanColumns
<1>1. UNCHANGED <<owned, assessment, overtaken>> /\ LeftAlone /\ Present' = Present
  BY UnwrittenKept DEF RaiseConflict, RecordConflict
<1>2. CASE RaiseConflict(h)
  <2> DEFINE c == [human[h] EXCEPT !.pc = "raised"]
  <2>1. /\ c \in Commands /\ c.pc = "raised" /\ c.id = human[h].id
        /\ c.resolves = human[h].resolves /\ c.replaces = human[h].replaces
    BY <1>0 DEF Commands
  <2>2. /\ Moves(h, c) /\ UNCHANGED assertions /\ conflict.state = "none" /\ ~human[h].resolves
        /\ human[h].pc = "started"
        /\ \E about \in SUBSET Present : conflict' = [state |-> "open", about |-> about]
    BY <1>2 DEF RaiseConflict
  <2> HIDE DEF c
  <2>3. HumanTypeOK'
    BY <1>0, <1>1, <2>1, <2>2 DEF HumanInv, HumanTypeOK, HumanColumns, Commands, Moves, Present
  <2>4. CommandSoFar(h)'
    BY <1>0, <1>1, <2>1, <2>2, MovedTo DEF CommandSoFar
  <2>5. SettledIsWritten' /\ SameConflict
    BY <1>1, <2>2, CompletedStays DEF SameConflict
  <2> QED BY <1>0, <1>1, <2>1, <2>2, <2>3, <2>4, <2>5, CommandStep DEF Commands
<1>3. CASE RecordConflict(h)
  <2>1. /\ human[h].pc = "raised" /\ Moves(h, AtRest) /\ UNCHANGED conflict
        /\ assertions' = [assertions EXCEPT ![human[h].id] = "conflict"]
    BY <1>3 DEF RecordConflict
  <2>2. human[h].id # NoIdentifier /\ human[h].id \in Identifiers \ Present
    BY <1>0, <2>1 DEF CommandSoFar, Commands
  <2>3. HumanTypeOK'
    BY <1>0, <1>1, <2>1, HumanConstants
    DEF HumanInv, HumanTypeOK, HumanColumns, Commands, Moves
  <2>4. SettledIsWritten' /\ SameConflict
    BY <1>1, <2>1, <2>2, CompletedStays, ConflictStays
  <2> QED BY <1>0, <1>1, <2>1, <2>2, <2>3, <2>4, MovedTo, RestSoFar, CommandStep, HumanConstants
<1> QED BY <1>2, <1>3

\* The predecessor archived and the document revised, in place of whatever is there.
LEMMA RewritingSteps ==
  ASSUME HumanInv, NEW h \in Humans, ArchivePredecessor(h) \/ ReviseDocument(h)
  PROVE  HumanInv' /\ Present' = Present
<1>0. HumanColumns /\ CommandSoFar(h) /\ human[h] \in Commands
  BY HumanTypes DEF HumanInv, SoFar, HumanColumns
<1> DEFINE i == human[h].replaces
<1>1. /\ human[h].pc \in {"archiving", "revising"}
      /\ UNCHANGED <<assertions, conflict, assessment>>
      /\ overtaken' = (overtaken \cup Renaming(i)) \ {h}
  BY DEF ArchivePredecessor, ReviseDocument, Renames
<1>2. /\ i \in Present /\ i \in Identifiers /\ owned[i].state # "absent"
      /\ human[h].read \in KnowledgeRecord /\ human[h].id \in Identifiers \cup {NoIdentifier}
      /\ human[h].read.state # "absent" /\ human[h].read.resolves = owned[i].resolves
      /\ human[h].read.predecessor = owned[i].predecessor /\ human[h].text \in 0..MaxText
  BY <1>0, <1>1 DEF CommandSoFar, Present, Commands
<1>3. overtaken' \subseteq Humans
  BY <1>0, <1>1 DEF HumanColumns, Renaming
<1> HIDE DEF i
<1>4. ASSUME NEW k \in KnowledgeRecord, owned' = [owned EXCEPT ![i] = k], k.state # "absent",
             k.resolves = owned[i].resolves, k.predecessor = owned[i].predecessor,
             NEW c \in Commands, Moves(h, c), c.id \in {NoIdentifier, human[h].id},
             LeftAlone /\ Present' = Present => CommandSoFar(h)'
      PROVE  HumanInv' /\ Present' = Present
  <2>1. LeftAlone /\ Present' = Present /\ owned' \in [Identifiers -> KnowledgeRecord]
    BY <1>0, <1>2, <1>4, RewrittenKept
  <2>2. HumanTypeOK'
    BY <1>0, <1>1, <1>3, <1>4, <2>1 DEF HumanInv, HumanTypeOK, HumanColumns, Commands, Moves
  <2>3. SettledIsWritten' /\ SameConflict
    BY <1>1, <2>1, CompletedStays, ConflictStays
  <2> QED BY <1>1, <1>2, <1>4, <2>1, <2>2, <2>3, CommandStep
<1>5. CASE ArchivePredecessor(h)
  <2> DEFINE k == [human[h].read EXCEPT !.state = "archived", !.successor = human[h].id]
             c == [human[h] EXCEPT !.pc = "write"]
  <2>1. owned' = [owned EXCEPT ![i] = k] /\ Moves(h, c) /\ human[h].pc = "archiving"
    BY <1>5 DEF ArchivePredecessor, Renames, i
  <2>2. /\ k \in KnowledgeRecord /\ k.state = "archived" /\ k.resolves = owned[i].resolves
        /\ k.predecessor = owned[i].predecessor
    BY <1>2 DEF KnowledgeRecord
  <2>3. /\ c \in Commands /\ c.pc = "write" /\ c.id = human[h].id
        /\ c.resolves = human[h].resolves /\ c.replaces = human[h].replaces
    BY <1>0 DEF Commands
  <2> HIDE DEF k, c
  <2>4. human'[h] = c
    BY <1>0, <2>1, MovedTo
  <2>5. LeftAlone /\ Present' = Present => CommandSoFar(h)'
    BY <1>0, <1>1, <2>1, <2>3, <2>4 DEF CommandSoFar
  <2> QED BY <1>4, <2>1, <2>2, <2>3, <2>5
<1>6. CASE ReviseDocument(h)
  <2> DEFINE k == [human[h].read EXCEPT !.text = human[h].text]
  <2>1. owned' = [owned EXCEPT ![i] = k] /\ Moves(h, AtRest)
    BY <1>6 DEF ReviseDocument, Renames, i
  <2>2. /\ k \in KnowledgeRecord /\ k.state = human[h].read.state
        /\ k.resolves = owned[i].resolves /\ k.predecessor = owned[i].predecessor
    BY <1>2 DEF KnowledgeRecord
  <2> HIDE DEF k
  <2>3. CommandSoFar(h)'
    BY <1>0, <2>1, MovedTo, RestSoFar
  <2> QED BY <1>2, <1>4, <2>1, <2>2, <2>3, HumanConstants
<1> QED BY <1>5, <1>6

\* The successor is a new Memory with the provenance of its command.
LEMMA SuccessorWritten ==
  ASSUME HumanInv, NEW h \in Humans, WriteSuccessor(h)
  PROVE  /\ HumanInv'
         /\ \A i \in Identifiers : owned[i].state = "absent" /\ owned'[i].state = "active" =>
              i = human[h].id /\ owned'[i].predecessor = human[h].replaces
<1>0. HumanColumns /\ CommandSoFar(h) /\ human[h] \in Commands
  BY HumanTypes DEF HumanInv, SoFar, HumanColumns
<1> DEFINE id == human[h].id
           k == [Unwritten EXCEPT !.state = "active", !.text = human[h].text,
                             !.document = human[h].document, !.resolves = human[h].resolves,
                             !.predecessor = human[h].replaces]
           c == [human[h] EXCEPT !.pc = "complete"]
<1>1. /\ human[h].pc = "write" /\ owned' = [owned EXCEPT ![id] = k]
      /\ Moves(h, c) /\ UNCHANGED <<assertions, conflict, assessment, overtaken>>
  BY DEF WriteSuccessor
<1>2. id # NoIdentifier /\ id \in Identifiers /\ id \notin Present
  BY <1>0, <1>1 DEF CommandSoFar, Commands
<1>3. /\ k \in KnowledgeRecord /\ k.state = "active" /\ k.resolves = human[h].resolves
      /\ k.predecessor = human[h].replaces
  <2>1. /\ human[h].document \in BOOLEAN /\ human[h].resolves \in BOOLEAN
        /\ human[h].replaces \in Identifiers \cup {NoIdentifier}
        /\ human[h].text \in 0..MaxText
    BY <1>0 DEF Commands
  <2> QED BY <2>1, HumanConstants DEF KnowledgeRecord
<1>4. /\ c \in Commands /\ c.pc = "complete" /\ c.id = human[h].id
      /\ c.resolves = human[h].resolves /\ c.replaces = human[h].replaces
  BY <1>0 DEF Commands
<1> HIDE DEF k, c
<1>5. /\ owned'[id] = k /\ \A i \in Identifiers : i # id => owned'[i] = owned[i]
      /\ owned' \in [Identifiers -> KnowledgeRecord]
  BY <1>0, <1>1, <1>2, <1>3 DEF HumanColumns
<1>6. LeftAlone /\ Present' = Present \cup {id}
  BY <1>2, <1>3, <1>5 DEF LeftAlone, Present
<1>7. HumanTypeOK'
  BY <1>0, <1>1, <1>4, <1>5 DEF HumanInv, HumanTypeOK, HumanColumns, Commands, Moves
<1>8. CommandSoFar(h)'
  BY <1>0, <1>1, <1>2, <1>3, <1>4, <1>5, <1>6, MovedTo DEF CommandSoFar
<1>9. SettledIsWritten' /\ SameConflict
  BY <1>1, <1>6, CompletedStays, ConflictStays
<1>10. HumanInv'
  BY <1>1, <1>2, <1>4, <1>6, <1>7, <1>8, <1>9, CommandStep
<1> QED BY <1>3, <1>5, <1>10

\* The operation completed, and the conflict settled by what was written.
LEMMA AssertionCompleted ==
  ASSUME HumanInv, NEW h \in Humans, CompleteAssertion(h)
  PROVE  HumanInv'
<1>0. HumanColumns /\ CommandSoFar(h) /\ human[h] \in Commands
  BY HumanTypes DEF HumanInv, SoFar, HumanColumns
<1> DEFINE c == [human[h] EXCEPT !.pc = "settle"]
<1>1. /\ human[h].pc = "complete" /\ UNCHANGED <<owned, conflict, assessment, overtaken>>
      /\ assertions' = [assertions EXCEPT ![human[h].id] = "completed"]
      /\ Moves(h, IF human[h].resolves THEN c ELSE AtRest)
  BY DEF CompleteAssertion
<1>2. human[h].id # NoIdentifier /\ human[h].id \in Identifiers
  BY <1>0, <1>1 DEF CommandSoFar, Commands
<1>3. /\ c \in Commands /\ c.pc = "settle" /\ c.id = human[h].id
      /\ c.resolves = human[h].resolves /\ c.replaces = human[h].replaces
  BY <1>0 DEF Commands
<1> HIDE DEF c
<1>4. LeftAlone /\ Present' = Present
  BY <1>1, UnwrittenKept
<1>5. SettledIsWritten' /\ SameConflict
  BY <1>1, <1>4, CompletedStays, ConflictStays
<1>6. assertions' \in [Identifiers -> {"absent", "pending", "conflict", "completed"}]
      /\ assertions'[human[h].id] = "completed"
  BY <1>0, <1>1, <1>2 DEF HumanColumns
<1>7. ASSUME NEW d \in Commands, Moves(h, d), d.id \in {NoIdentifier, human[h].id},
             CommandSoFar(h)'
      PROVE  HumanInv'
  <2>1. HumanTypeOK'
    BY <1>0, <1>1, <1>6, <1>7 DEF HumanInv, HumanTypeOK, HumanColumns, Commands, Moves
  <2> QED BY <1>1, <1>2, <1>4, <1>5, <1>7, <2>1, CommandStep
<1>8. CASE human[h].resolves
  <2>1. CommandSoFar(h)'
    BY <1>0, <1>1, <1>3, <1>4, <1>6, <1>8, MovedTo DEF CommandSoFar
  <2> QED BY <1>1, <1>3, <1>7, <1>8, <2>1
<1>9. CASE ~human[h].resolves
  BY <1>0, <1>1, <1>7, <1>9, MovedTo, RestSoFar, HumanConstants
<1> QED BY <1>8, <1>9

LEMMA ConflictSettled ==
  ASSUME HumanInv, NEW h \in Humans, SettleConflict(h) \/ KeepExisting(h)
  PROVE  HumanInv'
<1>0. HumanColumns /\ CommandSoFar(h) /\ human[h] \in Commands
      /\ conflict \in [state: {"none", "open", "kept_existing", "adopted_new", "distinguished"},
                       about: SUBSET Identifiers]
  BY HumanTypes DEF HumanInv, SoFar, HumanColumns, HumanTypeOK
<1>1. /\ human[h].pc \in {"settle", "keep"} /\ Moves(h, AtRest)
      /\ UNCHANGED <<owned, assertions, assessment, overtaken>>
  BY DEF SettleConflict, KeepExisting
<1>2. /\ conflict' = conflict
         \/ \E state \in {"kept_existing", "adopted_new", "distinguished"} :
              conflict' = [conflict EXCEPT !.state = state]
  BY DEF SettleConflict, KeepExisting
<1>3. LeftAlone /\ Present' = Present
  BY <1>1, UnwrittenKept
<1>4. conflict'.about = conflict.about /\ (conflict.state # "none" => conflict'.state # "none")
      /\ conflict' \in [state: {"none", "open", "kept_existing", "adopted_new", "distinguished"},
                        about: SUBSET Identifiers]
  BY <1>0, <1>2
<1>5. SettledIsWritten'
  <2>1. CASE KeepExisting(h)
    <3>1. conflict'.state = "kept_existing"
      BY <1>0, <2>1 DEF KeepExisting
    <3> QED BY <1>1, <1>3, <3>1, CompletedStays
  <2>2. CASE SettleConflict(h) /\ conflict' = conflict
    BY <1>1, <1>3, <2>2, CompletedStays
  <2>3. CASE SettleConflict(h) /\ conflict' # conflict
    <3>1. conflict'.state = IF human[h].replaces = NoIdentifier THEN "distinguished"
                            ELSE "adopted_new"
      BY <1>0, <2>3 DEF SettleConflict
    <3>2. /\ human[h].id \in Present' /\ owned'[human[h].id].resolves
          /\ owned'[human[h].id].predecessor = human[h].replaces
          /\ assertions'[human[h].id] = "completed"
          /\ human[h].replaces \in conflict'.about \cup {NoIdentifier}
      BY <1>0, <1>1, <1>3, <1>4, <2>3 DEF SettleConflict, CommandSoFar
    <3>3. CASE human[h].replaces = NoIdentifier
      BY <3>1, <3>2, <3>3 DEF SettledIsWritten
    <3>4. CASE human[h].replaces # NoIdentifier
      BY <3>1, <3>2, <3>4 DEF SettledIsWritten
    <3> QED BY <3>3, <3>4
  <2> QED BY <2>1, <2>2, <2>3
<1>6. HumanTypeOK'
  BY <1>0, <1>1, <1>4, HumanConstants DEF HumanInv, HumanTypeOK, HumanColumns, Commands, Moves
<1>7. CommandSoFar(h)' /\ SameConflict /\ human[h].id \in Identifiers \cup {NoIdentifier}
  BY <1>0, <1>1, <1>3, <1>4, MovedTo, RestSoFar, ConflictStays DEF Commands
<1> QED BY <1>1, <1>3, <1>5, <1>6, <1>7, CommandStep, HumanConstants

\* Steps of no command: the assessment, an edit in the editor, an archive or a restore.
LEMMA NoCommandStep ==
  ASSUME HumanInv, UNCHANGED <<assertions, conflict, human>>, LeftAlone, Present' = Present,
         HumanTypeOK'
  PROVE  HumanInv'
<1>1. SameConflict
  BY ConflictStays
<1>2. \A i \in Present : assertions[i] = "completed" => assertions'[i] = "completed"
  OBVIOUS
<1>3. SettledIsWritten'
  BY <1>2, SettledStays
<1>4. \A g \in Humans : CommandSoFar(g)'
  <2>1. ASSUME NEW g \in Humans PROVE CommandSoFar(g)'
    <3>1. CommandSoFar(g)
      BY DEF HumanInv, SoFar
    <3> QED BY <1>1, <3>1 DEF CommandSoFar, LeftAlone, SameConflict
  <2> QED BY <2>1
<1>5. Asserted' = Asserted
  BY DEF Asserted
<1> QED BY <1>1, <1>3, <1>4, <1>5 DEF HumanInv, InOrder, GivenOut, SoFar, SameConflict

LEMMA AssessmentSteps ==
  ASSUME HumanInv, \/ QueueAssessment \/ ClaimAssessment \/ AskAssessment \/ StoreAssessment
                   \/ CompleteAssessment \/ ReleaseAssessment \/ LateAnswer
  PROVE  /\ HumanInv' /\ UNCHANGED <<owned, human, overtaken>>
         /\ assessment.stored => assessment'.calls = assessment.calls
<1> DEFINE Rows == [state: {"none", "queued", "claimed", "asked", "completed"},
                    stored: BOOLEAN, calls: 0..MaxCalls, late: BOOLEAN]
<1>1. UNCHANGED <<owned, assertions, conflict, human, overtaken>>
  BY DEF QueueAssessment, ClaimAssessment, AskAssessment, StoreAssessment, CompleteAssessment,
         ReleaseAssessment, LateAnswer, AssessmentStep
<1>2. assessment \in Rows
  BY DEF HumanInv, HumanTypeOK
<1>3. /\ assessment' \in Rows
      /\ assessment.stored => assessment'.calls = assessment.calls
  <2>1. CASE AskAssessment
    <3>1. /\ assessment' = [assessment EXCEPT !.state = "asked", !.calls = assessment.calls + 1]
          /\ ~assessment.stored /\ assessment.calls < MaxCalls
      BY <2>1 DEF AskAssessment, AssessmentStep
    <3>2. assessment.calls + 1 \in 0..MaxCalls
      BY <1>2, <3>1, HumanConstants
    <3> QED BY <1>2, <3>1, <3>2
  <2>2. CASE QueueAssessment \/ ClaimAssessment \/ CompleteAssessment
    BY <1>2, <2>2
    DEF QueueAssessment, ClaimAssessment, CompleteAssessment, AssessmentStep
  <2>3. CASE StoreAssessment
    BY <1>2, <2>3 DEF StoreAssessment, AssessmentStep
  <2>4. CASE ReleaseAssessment
    <3>1. PICK late \in BOOLEAN :
            assessment' = [assessment EXCEPT !.state = "queued", !.late = late]
      BY <1>2, <2>4 DEF ReleaseAssessment, AssessmentStep
    <3> QED BY <1>2, <3>1
  <2>5. CASE LateAnswer
    <3>1. PICK stored \in BOOLEAN :
            assessment' = [assessment EXCEPT !.late = FALSE, !.stored = stored]
      BY <1>2, <2>5 DEF LateAnswer, AssessmentStep
    <3> QED BY <1>2, <3>1
  <2> QED BY <2>1, <2>2, <2>3, <2>4, <2>5
<1>4. HumanTypeOK'
  BY <1>1, <1>3 DEF HumanInv, HumanTypeOK
<1>5. LeftAlone /\ Present' = Present
  BY <1>1, UnwrittenKept
<1> QED BY <1>1, <1>3, <1>4, <1>5, NoCommandStep

LEMMA OwnersChanges ==
  ASSUME HumanInv, NEW i \in Identifiers, EditKnowledge(i) \/ ChangeKnowledge(i)
  PROVE  HumanInv' /\ Present' = Present /\ UNCHANGED human
<1>0. HumanColumns /\ owned[i] \in KnowledgeRecord
  BY HumanTypes DEF HumanInv, HumanColumns
<1>1. UNCHANGED <<assertions, conflict, assessment, human>> /\ owned[i].state # "absent"
      /\ overtaken' \subseteq Humans
  BY <1>0 DEF EditKnowledge, ChangeKnowledge, HumanColumns, Renaming
<1>2. ASSUME NEW k \in KnowledgeRecord, owned' = [owned EXCEPT ![i] = k], k.state # "absent",
             k.resolves = owned[i].resolves, k.predecessor = owned[i].predecessor
      PROVE  HumanInv' /\ Present' = Present
  <2>1. LeftAlone /\ Present' = Present /\ owned' \in [Identifiers -> KnowledgeRecord]
    BY <1>0, <1>1, <1>2, RewrittenKept
  <2>2. HumanTypeOK'
    BY <1>1, <2>1 DEF HumanInv, HumanTypeOK
  <2> QED BY <1>1, <2>1, <2>2, NoCommandStep
<1>3. CASE EditKnowledge(i)
  <2> DEFINE k == [owned[i] EXCEPT !.text = NewText]
  <2>1. owned' = [owned EXCEPT ![i] = k] /\ NewText \in 0..MaxText
    BY <1>3, HumanConstants DEF EditKnowledge
  <2>2. k \in KnowledgeRecord /\ k.state = owned[i].state
        /\ k.resolves = owned[i].resolves /\ k.predecessor = owned[i].predecessor
    BY <1>0, <2>1 DEF KnowledgeRecord
  <2> HIDE DEF k
  <2> QED BY <1>1, <1>2, <2>1, <2>2
<1>4. CASE ChangeKnowledge(i)
  <2> DEFINE k == [owned[i] EXCEPT !.state = IF owned[i].state = "active" THEN "archived"
                                             ELSE "active"]
  <2>1. owned' = [owned EXCEPT ![i] = k]
    BY <1>0, <1>4 DEF ChangeKnowledge
  <2>2. k \in KnowledgeRecord /\ k.state # "absent"
        /\ k.resolves = owned[i].resolves /\ k.predecessor = owned[i].predecessor
    BY <1>0 DEF KnowledgeRecord
  <2> HIDE DEF k
  <2> QED BY <1>1, <1>2, <2>1, <2>2
<1> QED BY <1>1, <1>3, <1>4

\* The steps of a command that write no file.
NoFileStep(h) ==
    \/ AssertKnowledge(h) \/ RaiseConflict(h) \/ RecordConflict(h) \/ ReadPredecessor(h)
    \/ CompareContent(h) \/ RefuseWrite(h) \/ CompleteAssertion(h) \/ Resolve(h)
    \/ SettleConflict(h) \/ BeginKeep(h) \/ KeepExisting(h) \/ ImportDocument(h)
    \/ CommandDies(h)

RenameStep(h) == ArchivePredecessor(h) \/ ReviseDocument(h)

LEMMA NoFileSteps ==
  ASSUME HumanInv, NEW h \in Humans, NoFileStep(h)
  PROVE  HumanInv' /\ UNCHANGED <<owned, assessment>>
<1>1. UNCHANGED <<owned, assessment>>
  BY DEF NoFileStep, AssertKnowledge, RaiseConflict, RecordConflict, ReadPredecessor,
         CompareContent, RefuseWrite, CompleteAssertion, Resolve, SettleConflict, BeginKeep,
         KeepExisting, ImportDocument, CommandDies
<1> QED BY <1>1, BeginningSteps, ConflictRaised, ReadingSteps, AssertionCompleted,
           ConflictSettled DEF NoFileStep

\* Every step, and a step of nothing.
LEMMA HumanStep ==
  ASSUME HumanInv, [HumanNext]_humanVars
  PROVE  /\ HumanInv'
         /\ assessment.stored => assessment'.calls = assessment.calls
         /\ \A i \in Identifiers : owned[i].state = "absent" /\ owned'[i].state = "active" =>
              \E h \in Humans : /\ human[h].pc = "write"
                                /\ owned'[i].predecessor = human[h].replaces
<1>1. CASE \E h \in Humans : NoFileStep(h)
  BY <1>1, NoFileSteps
<1>2. CASE \E h \in Humans : RenameStep(h)
  <2>1. UNCHANGED assessment
    BY <1>2 DEF RenameStep, ArchivePredecessor, ReviseDocument
  <2>2. HumanInv' /\ Present' = Present
    BY <1>2, RewritingSteps DEF RenameStep
  <2> QED BY <2>1, <2>2 DEF Present
<1>3. CASE \E h \in Humans : WriteSuccessor(h)
  BY <1>3, SuccessorWritten DEF WriteSuccessor
<1>4. CASE QueueAssessment \/ ClaimAssessment \/ AskAssessment \/ StoreAssessment
           \/ CompleteAssessment \/ ReleaseAssessment \/ LateAnswer
  BY <1>4, AssessmentSteps
<1>5. CASE \E i \in Identifiers : EditKnowledge(i) \/ ChangeKnowledge(i)
  <2>1. UNCHANGED assessment
    BY <1>5 DEF EditKnowledge, ChangeKnowledge
  <2>2. HumanInv' /\ Present' = Present
    BY <1>5, OwnersChanges
  <2> QED BY <2>1, <2>2 DEF Present
<1>6. CASE UNCHANGED humanVars
  <2>1. UNCHANGED <<owned, assertions, conflict, assessment, human, overtaken>>
    BY <1>6 DEF humanVars
  <2>2. HumanInv' = HumanInv
    BY <2>1 DEF HumanInv, HumanTypeOK, InOrder, Asserted, GivenOut, Present, SoFar,
                CommandSoFar, SettledIsWritten
  <2> QED BY <2>1, <2>2
<1> QED BY <1>1, <1>2, <1>3, <1>4, <1>5, <1>6 DEF HumanNext, NoFileStep, RenameStep

\* A command that goes on, with no file changed and nobody newly overtaken.
LEMMA TextsGoOn ==
  ASSUME HumanColumns, TextsInv, NEW h \in Humans, NEW c \in Commands, Moves(h, c),
         UNCHANGED owned, overtaken' \in {overtaken, overtaken \ {h}},
         /\ c.pc \in {"archiving", "revising"} =>
              h \in overtaken' \/ owned[c.replaces] = c.read
         /\ c.pc \in {"revise", "revising"} => c.read.text < c.text
  PROVE  TextsInv'
<1>1. human'[h] = c /\ \A g \in Humans : g # h => human'[g] = human[g]
  BY DEF HumanColumns, Moves
<1>2. \A g \in Humans : g # h => (g \in overtaken <=> g \in overtaken')
  OBVIOUS
<1> QED BY <1>1, <1>2 DEF TextsInv, ComparedTexts

\* A file that changes overtakes every other command that is about to rename it.
LEMMA TextsOvertaken ==
  ASSUME HumanColumns, TextsInv, NEW i \in Identifiers, NEW k \in KnowledgeRecord,
         owned[i].state # "absent", k.state # "absent", owned' = [owned EXCEPT ![i] = k],
         NEW H \in SUBSET Humans,
         \A g \in Humans \ H : human'[g] = human[g],
         \A g \in H : human'[g].pc \notin {"archiving", "revise", "revising"},
         overtaken' = (overtaken \cup Renaming(i)) \ H
  PROVE  TextsInv'
<1>1. \A j \in Identifiers : owned'[j] = IF j = i THEN k ELSE owned[j]
  BY DEF HumanColumns
<1>2. \A j \in Identifiers : owned'[j].state = "absent" => owned'[j].text = 0
  BY <1>1 DEF TextsInv
<1>3. ASSUME NEW g \in Humans \ H, human'[g].pc \in {"archiving", "revising"}
      PROVE  g \in overtaken' \/ owned'[human'[g].replaces] = human'[g].read
  <2>1. CASE human[g].replaces = i
    BY <1>3, <2>1 DEF Renaming
  <2>2. CASE human[g].replaces # i
    BY <1>3, <2>2 DEF HumanColumns, TextsInv, ComparedTexts
  <2> QED BY <2>1, <2>2
<1>4. \A g \in Humans \ H : human'[g].pc \in {"revise", "revising"} =>
        human'[g].read.text < human'[g].text
  BY DEF TextsInv, ComparedTexts
<1> QED BY <1>2, <1>3, <1>4 DEF TextsInv, ComparedTexts

\* The steps that write no file.
LEMMA TextsUnwritten ==
  ASSUME HumanInv, TextsInv, NEW h \in Humans, NoFileStep(h)
  PROVE  TextsInv'
<1>0. HumanColumns /\ CommandSoFar(h) /\ human[h] \in Commands
  BY HumanTypes DEF HumanInv, SoFar, HumanColumns
<1>1. UNCHANGED owned
  BY NoFileSteps
<1>2. ASSUME NEW c \in Commands, Begins(h, c)
      PROVE  TextsInv'
  <2> DEFINE d == [c EXCEPT !.pc = "started", !.id = Cardinality(Asserted) + 1,
                            !.text = NewText]
  <2>1. d \in Commands /\ d.pc = "started"
    <3>1. Cardinality(Asserted) + 1 \in Identifiers /\ NewText \in 0..MaxText
      BY <1>2, HumanConstants DEF Begins
    <3> QED BY <3>1 DEF Commands
  <2>2. Moves(h, d) /\ UNCHANGED overtaken
    BY <1>2 DEF Begins
  <2> HIDE DEF d
  <2> QED BY <1>0, <1>1, <2>1, <2>2, TextsGoOn
<1>3. CASE AssertKnowledge(h)
  BY <1>2, <1>3, HumanConstants DEF AssertKnowledge
<1>4. CASE Resolve(h)
  <2>1. PICK replaced \in conflict.about \cup {NoIdentifier} :
          Begins(h, [AtRest EXCEPT !.resolves = TRUE, !.replaces = replaced])
    BY <1>4 DEF Resolve
  <2>2. replaced \in Identifiers \cup {NoIdentifier}
    BY DEF HumanInv, HumanTypeOK
  <2>3. [AtRest EXCEPT !.resolves = TRUE, !.replaces = replaced] \in Commands
    BY <2>2, HumanConstants DEF Commands
  <2> QED BY <1>2, <2>1, <2>3
<1>5. CASE ImportDocument(h)
  <2>1. CASE Begins(h, [AtRest EXCEPT !.document = TRUE])
    <3>1. [AtRest EXCEPT !.document = TRUE] \in Commands
      BY HumanConstants DEF Commands
    <3> QED BY <1>2, <2>1, <3>1
  <2>2. ASSUME NEW i \in Present, NewText \in 1..MaxText,
               Moves(h, [AtRest EXCEPT !.pc = "revise", !.text = NewText, !.document = TRUE,
                                       !.replaces = i, !.read = owned[i]]),
               UNCHANGED <<assertions, overtaken>>
        PROVE  TextsInv'
    <3> DEFINE c == [AtRest EXCEPT !.pc = "revise", !.text = NewText, !.document = TRUE,
                                   !.replaces = i, !.read = owned[i]]
    <3>1. i \in Identifiers /\ owned[i] \in KnowledgeRecord
      BY <1>0 DEF Present, HumanColumns
    <3>2. c \in Commands /\ c.pc = "revise" /\ c.text = NewText /\ c.read = owned[i]
      <4>1. NewText \in 0..MaxText
        BY <2>2, HumanConstants
      <4> QED BY <3>1, <4>1, HumanConstants DEF Commands
    <3>3. owned[i].text < NewText
      BY <1>0, <3>1, TextIsNew
    <3>4. Moves(h, c)
      BY <2>2
    <3> HIDE DEF c
    <3> QED BY <1>0, <1>1, <2>2, <3>2, <3>3, <3>4, TextsGoOn
  <2> QED BY <1>5, <2>1, <2>2 DEF ImportDocument
<1>6. CASE CompareContent(h)
  <2> DEFINE c == [human[h] EXCEPT !.pc = IF human[h].pc = "archive" THEN "archiving"
                                          ELSE "revising"]
  <2>1. /\ human[h].pc \in {"archive", "revise"} /\ owned[human[h].replaces] = human[h].read
        /\ Moves(h, c) /\ UNCHANGED overtaken
    BY <1>0, <1>6 DEF CompareContent, SameContent, Commands
  <2>2. /\ c \in Commands /\ c.replaces = human[h].replaces /\ c.read = human[h].read
        /\ c.text = human[h].text
        /\ c.pc = IF human[h].pc = "archive" THEN "archiving" ELSE "revising"
    BY <1>0 DEF Commands
  <2> HIDE DEF c
  <2>3. c.pc = "revising" => c.read.text < c.text
    BY <2>1, <2>2 DEF TextsInv, ComparedTexts
  <2> QED BY <1>0, <1>1, <2>1, <2>2, <2>3, TextsGoOn
<1>7. CASE \/ RaiseConflict(h) \/ RecordConflict(h) \/ ReadPredecessor(h) \/ RefuseWrite(h)
           \/ CompleteAssertion(h) \/ SettleConflict(h) \/ BeginKeep(h) \/ KeepExisting(h)
           \/ CommandDies(h)
  <2> DEFINE raised == [human[h] EXCEPT !.pc = "raised"]
             settle == [human[h] EXCEPT !.pc = "settle"]
             write == [human[h] EXCEPT !.pc = "write"]
             archive == [human[h] EXCEPT !.pc = "archive", !.read = owned[human[h].replaces]]
             keep == [AtRest EXCEPT !.pc = "keep"]
  <2>1. \E c \in {raised, settle, write, archive, keep, AtRest} :
          /\ Moves(h, c)
          /\ c = archive => human[h].replaces \in Identifiers
    <3>1. human[h].replaces \in Identifiers \cup {NoIdentifier}
      BY <1>0 DEF Commands
    <3>2. archive.pc = "archive" /\ \A c \in {raised, settle, write, keep, AtRest} :
                                        c.pc # "archive"
      BY <1>0, HumanConstants DEF Commands
    <3>3. CASE ReadPredecessor(h)
      <4>1. Moves(h, IF human[h].replaces = NoIdentifier THEN write ELSE archive)
        BY <3>3 DEF ReadPredecessor
      <4> QED BY <3>1, <3>2, <4>1
    <3>4. CASE RaiseConflict(h)
      BY <3>2, <3>4 DEF RaiseConflict
    <3>5. CASE CompleteAssertion(h)
      BY <3>2, <3>5 DEF CompleteAssertion
    <3>6. CASE BeginKeep(h)
      BY <3>2, <3>6 DEF BeginKeep
    <3>7. CASE \/ RecordConflict(h) \/ RefuseWrite(h) \/ SettleConflict(h) \/ KeepExisting(h)
               \/ CommandDies(h)
      BY <3>2, <3>7 DEF RecordConflict, RefuseWrite, SettleConflict, KeepExisting, CommandDies
    <3> QED BY <1>7, <3>3, <3>4, <3>5, <3>6, <3>7
  <2>2. overtaken' \in {overtaken, overtaken \ {h}}
    BY <1>7
    DEF RaiseConflict, RecordConflict, ReadPredecessor, RefuseWrite, CompleteAssertion,
        SettleConflict, BeginKeep, KeepExisting, CommandDies
  <2>3. /\ raised \in Commands /\ settle \in Commands /\ write \in Commands
        /\ keep \in Commands
        /\ human[h].replaces \in Identifiers => archive \in Commands
    BY <1>0, HumanConstants DEF Commands, HumanColumns
  <2>4. /\ raised.pc = "raised" /\ settle.pc = "settle" /\ write.pc = "write"
        /\ archive.pc = "archive" /\ keep.pc = "keep"
    BY <1>0, HumanConstants DEF Commands
  <2> HIDE DEF raised, settle, write, archive, keep
  <2>5. PICK c \in {raised, settle, write, archive, keep, AtRest} :
          Moves(h, c) /\ (c = archive => human[h].replaces \in Identifiers)
    BY <2>1
  <2>6. c \in Commands /\ c.pc \notin {"archiving", "revise", "revising"}
    BY <2>3, <2>4, <2>5, HumanConstants
  <2> QED BY <1>0, <1>1, <2>2, <2>5, <2>6, TextsGoOn
<1> QED BY <1>3, <1>4, <1>5, <1>6, <1>7 DEF NoFileStep

\* Every step keeps the comparisons, and takes from a text only by the rename of a command
\* that was overtaken.
LEMMA TextStep ==
  ASSUME HumanInv, TextsInv, [HumanNext]_humanVars
  PROVE  /\ TextsInv'
         /\ \A i \in Identifiers :
              \/ owned[i].text <= owned'[i].text
              \/ \E h \in overtaken : human[h].replaces = i /\ human'[h] # human[h]
<1> DEFINE TextsKept == \A i \in Identifiers :
                          \/ owned[i].text <= owned'[i].text
                          \/ \E h \in overtaken : human[h].replaces = i /\ human'[h] # human[h]
<1>0. HumanColumns
  BY HumanTypes DEF HumanInv
<1>1. \A i \in Identifiers : owned[i].text \in 0..MaxText /\ owned[i].text <= owned[i].text
  BY <1>0, HumanConstants DEF HumanColumns, KnowledgeRecord
<1>2. UNCHANGED owned => TextsKept
  BY <1>1
<1>3. ASSUME NEW h \in Humans, NoFileStep(h)
      PROVE  TextsInv' /\ TextsKept
  BY <1>2, <1>3, NoFileSteps, TextsUnwritten
<1>4. ASSUME NEW h \in Humans, RenameStep(h)
      PROVE  TextsInv' /\ TextsKept
  <2> DEFINE i == human[h].replaces
             archived == [human[h].read EXCEPT !.state = "archived", !.successor = human[h].id]
             revised == [human[h].read EXCEPT !.text = human[h].text]
             write == [human[h] EXCEPT !.pc = "write"]
  <2>1. human[h].pc \in {"archiving", "revising"} /\ CommandSoFar(h) /\ human[h] \in Commands
    BY <1>0, <1>4
    DEF RenameStep, ArchivePredecessor, ReviseDocument, HumanInv, SoFar, HumanColumns
  <2>2. /\ i \in Identifiers /\ owned[i].state # "absent" /\ human[h].read \in KnowledgeRecord
        /\ human[h].read.state # "absent" /\ human[h].text \in 0..MaxText
        /\ human[h].id \in Identifiers \cup {NoIdentifier}
    BY <2>1 DEF CommandSoFar, Present, Commands
  <2>3. /\ archived \in KnowledgeRecord /\ archived.state = "archived"
        /\ archived.text = human[h].read.text
        /\ revised \in KnowledgeRecord /\ revised.state = human[h].read.state
        /\ revised.text = human[h].text
    BY <2>2 DEF KnowledgeRecord
  <2>4. write.pc = "write"
    BY <2>1 DEF Commands
  <2>5. /\ overtaken' = (overtaken \cup Renaming(i)) \ {h}
        /\ \/ owned' = [owned EXCEPT ![i] = archived] /\ Moves(h, write)
           \/ /\ owned' = [owned EXCEPT ![i] = revised] /\ Moves(h, AtRest)
              /\ human[h].pc = "revising"
    BY <1>4 DEF RenameStep, ArchivePredecessor, ReviseDocument, Renames
  <2> HIDE DEF i, archived, revised, write
  <2>6. /\ \A g \in Humans \ {h} : human'[g] = human[g]
        /\ human'[h].pc \notin {"archiving", "revise", "revising"}
    BY <1>0, <2>4, <2>5, HumanConstants DEF HumanColumns, Moves
  <2>7. TextsInv'
    BY <1>0, <2>2, <2>3, <2>5, <2>6, TextsOvertaken
  <2>8. \A j \in Identifiers : j # i => owned'[j] = owned[j]
    BY <1>0, <2>5 DEF HumanColumns
  <2>9. h \in overtaken \/ owned[i].text <= owned'[i].text
    <3>1. CASE h \notin overtaken
      <4>1. owned[i] = human[h].read
        BY <2>1, <3>1 DEF TextsInv, ComparedTexts, i
      <4>2. human[h].pc = "revising" => human[h].read.text < human[h].text
        BY DEF TextsInv, ComparedTexts
      <4>3. owned[i].text \in Nat /\ human[h].text \in Nat
        BY <1>1, <2>2
      <4>4. \/ owned'[i].text = owned[i].text
            \/ owned'[i].text = human[h].text /\ owned[i].text < human[h].text
        <5>1. CASE owned' = [owned EXCEPT ![i] = archived]
          <6>1. owned'[i] = archived
            BY <1>0, <2>2, <5>1 DEF HumanColumns
          <6> QED BY <2>3, <4>1, <6>1
        <5>2. CASE owned' = [owned EXCEPT ![i] = revised] /\ human[h].pc = "revising"
          <6>1. owned'[i] = revised
            BY <1>0, <2>2, <5>2 DEF HumanColumns
          <6> QED BY <2>3, <4>1, <4>2, <5>2, <6>1
        <5> QED BY <2>5, <5>1, <5>2
      <4> QED BY <4>3, <4>4
    <3> QED BY <3>1
  <2>10. human'[h] # human[h]
    BY <2>1, <2>6
  <2> QED BY <1>1, <2>7, <2>8, <2>9, <2>10 DEF i
<1>5. ASSUME NEW h \in Humans, WriteSuccessor(h)
      PROVE  TextsInv' /\ TextsKept
  <2> DEFINE id == human[h].id
             k == [Unwritten EXCEPT !.state = "active", !.text = human[h].text,
                             !.document = human[h].document, !.resolves = human[h].resolves,
                             !.predecessor = human[h].replaces]
             c == [human[h] EXCEPT !.pc = "complete"]
  <2>1. /\ human[h].pc = "write" /\ owned' = [owned EXCEPT ![id] = k] /\ Moves(h, c)
        /\ UNCHANGED overtaken
    BY <1>5 DEF WriteSuccessor
  <2>2. CommandSoFar(h) /\ human[h] \in Commands
    BY <1>0 DEF HumanInv, SoFar, HumanColumns
  <2>3. id \in Identifiers /\ owned[id].state = "absent" /\ human[h].text \in 0..MaxText
    BY <2>1, <2>2 DEF CommandSoFar, Commands, Present
  <2>4. k.state = "active" /\ k.text = human[h].text /\ c.pc = "complete"
    BY <2>2 DEF Unwritten, Commands
  <2> HIDE DEF k, c
  <2>5. owned'[id] = k /\ \A j \in Identifiers : j # id => owned'[j] = owned[j]
    BY <1>0, <2>1, <2>3 DEF HumanColumns
  <2>6. human'[h] = c /\ \A g \in Humans : g # h => human'[g] = human[g]
    BY <1>0, <2>1 DEF HumanColumns, Moves
  <2>7. \A g \in Humans : human[g].pc \in {"archiving", "revising"} =>
          human[g].replaces \in Present
    BY DEF HumanInv, SoFar, CommandSoFar
  <2>8. \A g \in Humans : human[g].pc \in {"archiving", "revising"} =>
          owned'[human[g].replaces] = owned[human[g].replaces]
    BY <2>3, <2>5, <2>7 DEF Present
  <2>9. TextsInv'
    BY <2>1, <2>4, <2>5, <2>6, <2>8 DEF TextsInv, ComparedTexts
  <2>10. owned[id].text = 0 /\ owned'[id].text = human[h].text
    BY <2>3, <2>4, <2>5 DEF TextsInv
  <2>11. owned[id].text <= owned'[id].text
    BY <2>3, <2>10, HumanConstants
  <2> QED BY <1>1, <2>5, <2>9, <2>11
<1>6. ASSUME NEW i \in Identifiers, EditKnowledge(i) \/ ChangeKnowledge(i)
      PROVE  TextsInv' /\ TextsKept
  <2> DEFINE edited == [owned[i] EXCEPT !.text = NewText]
             changed == [owned[i] EXCEPT !.state = IF owned[i].state = "active"
                                                   THEN "archived" ELSE "active"]
  <2>1. /\ owned[i] \in KnowledgeRecord /\ owned[i].state # "absent" /\ UNCHANGED human
        /\ overtaken' = (overtaken \cup Renaming(i)) \ {}
    BY <1>0, <1>6 DEF EditKnowledge, ChangeKnowledge, HumanColumns
  <2>2. \/ owned' = [owned EXCEPT ![i] = edited] /\ NewText \in 1..MaxText
        \/ owned' = [owned EXCEPT ![i] = changed]
    BY <1>0, <1>6 DEF EditKnowledge, ChangeKnowledge, HumanColumns
  <2>3. /\ NewText \in 1..MaxText => edited \in KnowledgeRecord
        /\ edited.state # "absent" /\ edited.text = NewText
        /\ changed \in KnowledgeRecord /\ changed.state # "absent"
        /\ changed.text = owned[i].text
    BY <2>1, HumanConstants DEF KnowledgeRecord
  <2> HIDE DEF edited, changed
  <2>4. TextsInv'
    <3>1. \A g \in Humans \ {} : human'[g] = human[g]
      BY <2>1
    <3>2. {} \in SUBSET Humans
      OBVIOUS
    <3> QED BY <1>0, <2>1, <2>2, <2>3, <3>1, <3>2, TextsOvertaken
  <2>5. \A j \in Identifiers : j # i => owned'[j] = owned[j]
    BY <1>0, <2>2 DEF HumanColumns
  <2>6. owned[i].text < NewText /\ NewText \in Nat
    BY <1>0, TextIsNew
  <2>7. owned[i].text <= owned'[i].text
    BY <1>0, <1>1, <2>2, <2>3, <2>6 DEF HumanColumns
  <2> QED BY <1>1, <2>4, <2>5, <2>7
<1>7. CASE UNCHANGED <<owned, human, overtaken>>
  BY <1>2, <1>7 DEF TextsInv, ComparedTexts
<1>8. CASE QueueAssessment \/ ClaimAssessment \/ AskAssessment \/ StoreAssessment
           \/ CompleteAssessment \/ ReleaseAssessment \/ LateAnswer
  BY <1>7, <1>8, AssessmentSteps
<1>9. CASE UNCHANGED humanVars
  BY <1>7, <1>9 DEF humanVars
<1> QED BY <1>3, <1>4, <1>5, <1>6, <1>8, <1>9 DEF HumanNext, NoFileStep, RenameStep

\* The command that runs alone goes on.
LEMMA OneMoves ==
  ASSUME HumanColumns, OneCommand, NEW h \in Humans, NEW c, Moves(h, c),
         human[h].pc # "idle" \/ \A g \in Humans : human[g].pc = "idle",
         c.pc = "write" /\ c.replaces # NoIdentifier => owned'[c.replaces].state = "archived"
  PROVE  OneCommand'
<1>1. human'[h] = c /\ \A g \in Humans : g # h => human'[g] = human[g] /\ human[g].pc = "idle"
  BY DEF HumanColumns, Moves, OneCommand
<1> QED BY <1>1 DEF OneCommand


LEMMA OneCommandStep ==
  ASSUME HumansOverlap = FALSE, HumanInv, HumanInv', OneCommand, [HumanNext]_humanVars
  PROVE  OneCommand'
<1>0. HumanColumns
  BY HumanTypes DEF HumanInv
<1>1. ASSUME NEW h \in Humans,
             \/ RaiseConflict(h) \/ RecordConflict(h) \/ CompareContent(h) \/ RefuseWrite(h)
             \/ WriteSuccessor(h) \/ CompleteAssertion(h) \/ SettleConflict(h)
             \/ KeepExisting(h) \/ ReviseDocument(h) \/ CommandDies(h)
      PROVE  OneCommand'
  <2> DEFINE raised == [human[h] EXCEPT !.pc = "raised"]
             complete == [human[h] EXCEPT !.pc = "complete"]
             settle == [human[h] EXCEPT !.pc = "settle"]
             compared == [human[h] EXCEPT !.pc = IF human[h].pc = "archive" THEN "archiving"
                                                 ELSE "revising"]
  <2>1. /\ raised.pc = "raised" /\ complete.pc = "complete" /\ settle.pc = "settle"
        /\ AtRest.pc = "idle" /\ compared.pc # "write"
    BY <1>0, HumanConstants DEF HumanColumns, Commands
  <2>2. \E c : Moves(h, c) /\ c \in {raised, complete, settle, compared, AtRest}
    BY <1>0, <1>1
    DEF RaiseConflict, RecordConflict, RefuseWrite, WriteSuccessor, CompleteAssertion,
        SettleConflict, KeepExisting, ReviseDocument, CommandDies, CompareContent, HumanColumns,
        Commands
  <2>3. human[h].pc # "idle"
    BY <1>1 DEF RaiseConflict, RecordConflict, RefuseWrite, WriteSuccessor, CompleteAssertion,
                SettleConflict, KeepExisting, ReviseDocument, CommandDies, CompareContent
  <2> HIDE DEF raised, complete, settle, compared
  <2> QED BY <1>0, <2>1, <2>2, <2>3, OneMoves
<1>2. ASSUME NEW h \in Humans, AssertKnowledge(h) \/ Resolve(h) \/ BeginKeep(h) \/ ImportDocument(h)
      PROVE  OneCommand'
  <2>1. \A g \in Humans : human[g].pc = "idle"
    BY <1>2 DEF AssertKnowledge, Resolve, BeginKeep, ImportDocument, CanStart
  <2>2. \E c : Moves(h, c) /\ c.pc \in {"started", "keep", "revise"}
    <3>1. ASSUME NEW c \in Commands, Begins(h, c)
          PROVE  \E d : Moves(h, d) /\ d.pc = "started"
      <4>1. [c EXCEPT !.pc = "started", !.id = Cardinality(Asserted) + 1,
                      !.text = NewText].pc = "started"
        BY DEF Commands
      <4> QED BY <3>1, <4>1 DEF Begins
    <3>2. CASE AssertKnowledge(h)
      BY <3>1, <3>2, HumanConstants DEF AssertKnowledge
    <3>3. CASE Resolve(h)
      <4>1. PICK replaced \in conflict.about \cup {NoIdentifier} :
              Begins(h, [AtRest EXCEPT !.resolves = TRUE, !.replaces = replaced])
        BY <3>3 DEF Resolve
      <4>2. replaced \in Identifiers \cup {NoIdentifier}
        BY DEF HumanInv, HumanTypeOK
      <4>3. [AtRest EXCEPT !.resolves = TRUE, !.replaces = replaced] \in Commands
        BY <4>2, HumanConstants DEF Commands
      <4> QED BY <3>1, <4>1, <4>3
    <3>4. CASE BeginKeep(h)
      <4>1. [AtRest EXCEPT !.pc = "keep"].pc = "keep"
        BY HumanConstants DEF Commands
      <4> QED BY <3>4, <4>1 DEF BeginKeep
    <3>5. CASE ImportDocument(h)
      <4>1. [AtRest EXCEPT !.document = TRUE] \in Commands
        BY HumanConstants DEF Commands
      <4>2. ASSUME NEW i \in Identifiers
            PROVE  [AtRest EXCEPT !.pc = "revise", !.text = NewText, !.document = TRUE,
                                  !.replaces = i, !.read = owned[i]].pc = "revise"
        BY HumanConstants DEF Commands
      <4>3. Begins(h, [AtRest EXCEPT !.document = TRUE])
            \/ \E i \in Identifiers :
                 Moves(h, [AtRest EXCEPT !.pc = "revise", !.text = NewText,
                                         !.document = TRUE, !.replaces = i, !.read = owned[i]])
        BY <3>5 DEF ImportDocument, Present
      <4> QED BY <3>1, <4>1, <4>2, <4>3
    <3> QED BY <1>2, <3>2, <3>3, <3>4, <3>5
  <2> QED BY <1>0, <2>1, <2>2, OneMoves
<1>3. ASSUME NEW h \in Humans, ReadPredecessor(h) PROVE OneCommand'
  <2> DEFINE write == [human[h] EXCEPT !.pc = "write"]
             archive == [human[h] EXCEPT !.pc = "archive", !.read = owned[human[h].replaces]]
  <2>1. write.pc = "write" /\ write.replaces = human[h].replaces /\ archive.pc = "archive"
    BY <1>0 DEF HumanColumns, Commands
  <2>2. /\ Moves(h, IF human[h].replaces = NoIdentifier THEN write ELSE archive)
        /\ human[h].pc # "idle"
    BY <1>3 DEF ReadPredecessor
  <2> HIDE DEF write, archive
  <2>3. CASE human[h].replaces = NoIdentifier
    BY <1>0, <2>1, <2>2, <2>3, OneMoves
  <2>4. CASE human[h].replaces # NoIdentifier
    BY <1>0, <2>1, <2>2, <2>4, OneMoves
  <2> QED BY <2>3, <2>4
<1>4. ASSUME NEW h \in Humans, ArchivePredecessor(h) PROVE OneCommand'
  <2> DEFINE write == [human[h] EXCEPT !.pc = "write"]
             k == [human[h].read EXCEPT !.state = "archived", !.successor = human[h].id]
  <2>1. /\ human[h].pc = "archiving" /\ owned' = [owned EXCEPT ![human[h].replaces] = k]
        /\ Moves(h, write)
    BY <1>4 DEF ArchivePredecessor, Renames
  <2>2. human[h].replaces \in Identifiers
    BY <2>1 DEF HumanInv, SoFar, CommandSoFar, Present
  <2>3. human[h] \in Commands
    BY <1>0 DEF HumanColumns
  <2>4. k.state = "archived" /\ write.replaces = human[h].replaces
    BY <2>3 DEF Commands, KnowledgeRecord
  <2> HIDE DEF k, write
  <2>5. owned'[write.replaces].state = "archived"
    BY <1>0, <2>1, <2>2, <2>4 DEF HumanColumns
  <2> QED BY <1>0, <2>1, <2>5, OneMoves
<1>5. CASE \E i \in Identifiers : EditKnowledge(i) \/ ChangeKnowledge(i)
  <2>1. PICK i \in Identifiers : EditKnowledge(i) \/ ChangeKnowledge(i)
    BY <1>5
  <2>2. UNCHANGED human
    BY <2>1, OwnersChanges
  <2>3. CASE ChangeKnowledge(i)
    <3>1. \A h \in Humans : human[h].pc = "idle"
      BY <2>3 DEF ChangeKnowledge, CanStart
    <3> QED BY <2>2, <3>1 DEF OneCommand
  <2>4. CASE EditKnowledge(i)
    <3>1. \A j \in Identifiers : owned'[j].state = owned[j].state
      <4>1. [owned[i] EXCEPT !.text = NewText].state = owned[i].state
        BY <1>0 DEF HumanColumns, KnowledgeRecord
      <4>2. owned' = [owned EXCEPT ![i] = [owned[i] EXCEPT !.text = NewText]]
        BY <2>4 DEF EditKnowledge
      <4> QED BY <1>0, <4>1, <4>2 DEF HumanColumns
    <3>2. \A h \in Humans : human[h].replaces \in Identifiers \cup {NoIdentifier}
      BY <1>0 DEF HumanColumns, Commands
    <3> QED BY <2>2, <3>1, <3>2 DEF OneCommand
  <2> QED BY <2>1, <2>3, <2>4
<1>6. CASE QueueAssessment \/ ClaimAssessment \/ AskAssessment \/ StoreAssessment
           \/ CompleteAssessment \/ ReleaseAssessment \/ LateAnswer
  <2>1. UNCHANGED <<owned, human>>
    BY <1>6, AssessmentSteps
  <2> QED BY <2>1 DEF OneCommand
<1>7. CASE UNCHANGED humanVars
  BY <1>7 DEF humanVars, OneCommand
<1> QED BY <1>1, <1>2, <1>3, <1>4, <1>5, <1>6, <1>7 DEF HumanNext

\* The invariant of the owner's assertions and conflicts, whatever commands the owner runs
\* at once, whichever of them die, and whatever the owner edits, archives or restores
\* meanwhile (human.ts, 257-511).
THEOREM HumanInvariant == HumanSpec => []HumanInv
<1>1. HumanInit => HumanInv
  BY HumanStarts
<1>2. HumanInv /\ [HumanNext]_humanVars => HumanInv'
  BY HumanStep
<1> QED BY <1>1, <1>2, PTL DEF HumanSpec

\* A conflict that says the assertion was adopted or distinguished has the Memory that it
\* says was written, with its operation completed, even when commands overlap
\* (human.ts, 394-511).
THEOREM SettledIsWrittenAlways == HumanSpec => []SettledIsWritten
<1>1. HumanInv => SettledIsWritten
  BY DEF HumanInv
<1> QED BY <1>1, HumanInvariant, PTL

\* With one command at a time, only a rename that follows its comparison too late takes from
\* what the owner writes in the editor, a successor never appears while the Memory it
\* replaces is active, and a stored assessment is not asked for again, though the model may
\* have been asked more than once before (human.ts, 257-330; atomic-file.ts, 26-36;
\* human-conflicts.ts, 131-172).
THEOREM HumanKeptAlways ==
  ASSUME HumansOverlap = FALSE
  PROVE  HumanSpec => HumanKept
<1> DEFINE StepKeeps ==
      /\ \A i \in Identifiers :
           \/ owned[i].text <= owned'[i].text
           \/ \E h \in overtaken : human[h].replaces = i /\ human'[h] # human[h]
      /\ \A i \in Identifiers :
           owned[i].state = "absent" /\ owned'[i].state = "active"
             => owned'[i].predecessor = NoIdentifier
                \/ owned[owned'[i].predecessor].state = "archived"
      /\ assessment.stored => assessment'.calls = assessment.calls
<1>1. HumanInit => OneCommand
  BY HumanStarts
<1>2. HumanInv /\ HumanInv' /\ OneCommand /\ [HumanNext]_humanVars => OneCommand'
  BY OneCommandStep
<1>3. HumanInv /\ TextsInv /\ OneCommand /\ [HumanNext]_humanVars => [StepKeeps]_humanVars
  <2> SUFFICES ASSUME HumanInv, TextsInv, OneCommand, [HumanNext]_humanVars PROVE StepKeeps
    OBVIOUS
  <2>1. \A i \in Identifiers : owned[i].state = "absent" /\ owned'[i].state = "active" =>
          owned'[i].predecessor = NoIdentifier \/ owned[owned'[i].predecessor].state = "archived"
    BY HumanStep DEF OneCommand
  <2> QED BY <2>1, HumanStep, TextStep
<1>4. HumanSpec => []OneCommand
  BY <1>1, <1>2, HumanInvariant, PTL DEF HumanSpec
<1>5. HumanInit => TextsInv
  BY HumanStarts
<1>6. HumanInv /\ TextsInv /\ [HumanNext]_humanVars => TextsInv'
  BY TextStep
<1>7. HumanSpec => []TextsInv
  BY <1>5, <1>6, HumanInvariant, PTL DEF HumanSpec
<1>8. HumanSpec => [][StepKeeps]_humanVars
  BY <1>3, <1>4, <1>7, HumanInvariant, PTL DEF HumanSpec
<1>9. HumanSpec => OwnerWritesKept
  BY <1>8 DEF OwnerWritesKept
<1> QED BY <1>9, SettledIsWrittenAlways DEF HumanKept

-----------------------------------------------------------------------------
(***************************************************************************)
(* Purge.  While a body is being removed its backup is of the content that   *)
(* was ordered and its item is open; an item is only open in a run that is.  *)
(* With these a run removes only what it previewed.                         *)
(***************************************************************************)
Removing == purger.pc \in {"body", "revisions", "row", "indexes"}

BackedUp ==
    /\ purger.pc \in {"next", "body", "revisions", "row", "indexes"} => purger.mode # "none"
    /\ purger.pc = "select" => purger.mode = "batch"
    /\ purger.pc = "next" => purger.mode # "single"
    /\ Removing => purger.target \in Archives
    /\ Removing /\ purger.mode # "single" =>
         /\ Unfinished(purger.target)
         /\ staged[purger.target] = item[purger.target].expected

OpenInRun == (\E m \in Archives : Unfinished(m)) => Interrupted

\* Of a Memory that is being purged or was: no review is open on it, and at the last
\* step its row is gone.
Unreviewed ==
    /\ Removing => purger.target \notin protected
    /\ \A m \in Archives : body[m].lifecycle = "tombstone" => m \notin protected

RowGone == purger.pc = "indexes" => listed[purger.target].lifecycle = "tombstone"

PurgeInv == PurgeTypeOK /\ BackedUp /\ OpenInRun
PurgeReviewInv == PurgeInv /\ Unreviewed /\ RowGone /\ HalfPurgedIsResumed

PurgeBodies == [lifecycle: {"active", "archived", "tombstone"}, version: 1..MaxVersion,
                deadline: BOOLEAN, reason: {"none", "retention", "user"}]
PurgeRows == [lifecycle: {"active", "archived", "tombstone"}, version: 1..MaxVersion]
PurgeItems == [state: ItemStates, expected: 0..MaxVersion]
Purgers == [mode: {"none", "batch", "resume", "single"},
            pc: {"idle", "select", "next", "body", "revisions", "row", "indexes"},
            target: Archives \cup {NoArchive}]

PurgeColumns ==
    /\ body \in [Archives -> PurgeBodies] /\ listed \in [Archives -> PurgeRows]
    /\ kept \subseteq Archives /\ protected \subseteq Archives
    /\ item \in [Archives -> PurgeItems]
    /\ purgeRun \in {"none", "processing", "yielded", "failed", "completed"}
    /\ staged \in [Archives -> 0..MaxVersion] /\ purger \in Purgers

LEMMA PurgeTypes == PurgeTypeOK <=> PurgeColumns
BY DEF PurgeColumns, PurgeTypeOK, PurgeBodies, PurgeRows, PurgeItems, Purgers

\* Versions, and the records that mark an absent item and an idle purger.
LEMMA PurgeConstants ==
  /\ MaxVersion \in Nat \ {0} /\ 1 \in 1..MaxVersion /\ 0 \in 0..MaxVersion
  /\ 1..MaxVersion \subseteq 0..MaxVersion
  /\ NoItem \in PurgeItems /\ NoItem.state = "none" /\ NoItem.expected = 0
  /\ PurgerIdle \in Purgers /\ PurgerIdle.pc = "idle" /\ PurgerIdle.mode = "none"
  /\ NoArchive \notin Archives
BY PurgeAssumption DEF PurgeItems, Purgers, NoItem, PurgerIdle, ItemStates

\* Every Memory archived, nothing ordered.
LEMMA PurgeStarts == PurgeInit => PurgeReviewInv
<1> SUFFICES ASSUME PurgeInit PROVE PurgeReviewInv
  OBVIOUS
<1>1. PurgeTypeOK
  BY PurgeConstants, PurgeTypes DEF PurgeColumns, PurgeInit, PurgeBodies, PurgeRows
<1>2. purger.pc = "idle" /\ \A m \in Archives : ~Unfinished(m) /\ body[m].lifecycle = "archived"
  BY PurgeConstants DEF PurgeInit, Unfinished
<1>3. BackedUp /\ OpenInRun
  BY <1>2 DEF BackedUp, Removing, OpenInRun
<1>4. Unreviewed /\ RowGone
  BY <1>2 DEF Unreviewed, Removing, RowGone
<1>5. HalfPurgedIsResumed
  BY <1>2 DEF HalfPurgedIsResumed, HalfPurged
<1> QED BY <1>1, <1>3, <1>4, <1>5 DEF PurgeReviewInv, PurgeInv

\* A Memory's version is bounded when it is revised.
LEMMA NextVersion ==
  ASSUME NEW v \in 1..MaxVersion, v < MaxVersion
  PROVE  v + 1 \in 1..MaxVersion
BY PurgeAssumption

LEMMA PurgeTypeStep ==
  ASSUME PurgeTypeOK, PurgeNext
  PROVE  PurgeTypeOK'
<1> SUFFICES PurgeColumns'
  BY DEF PurgeColumns, PurgeTypeOK, PurgeBodies, PurgeRows, PurgeItems, Purgers
<1>0. PurgeColumns
  BY PurgeTypes
<1> USE <1>0, PurgeConstants DEF PurgeColumns
<1>1. CASE Materialize
  <2>1. PICK S \in SUBSET Archives :
          /\ \A m \in S : Consistent(m) /\ body[m].version < MaxVersion
          /\ body' = [m \in Archives |-> IF m \in S
                       THEN [body[m] EXCEPT !.version = @ + 1, !.deadline = TRUE] ELSE body[m]]
          /\ listed' = [m \in Archives |-> IF m \in S
                       THEN [listed[m] EXCEPT !.version = @ + 1] ELSE listed[m]]
    BY <1>1 DEF Materialize
  <2>2. ASSUME NEW m \in S
        PROVE  /\ [body[m] EXCEPT !.version = @ + 1, !.deadline = TRUE] \in PurgeBodies
               /\ [listed[m] EXCEPT !.version = @ + 1] \in PurgeRows
    <3>1. /\ body[m] \in PurgeBodies /\ listed[m] \in PurgeRows
          /\ listed[m].version = body[m].version /\ body[m].version < MaxVersion
      <4>1. m \in Archives /\ Consistent(m) /\ body[m].version < MaxVersion
        BY <2>1
      <4> QED BY <4>1 DEF Consistent
    <3>2. body[m].version + 1 \in 1..MaxVersion /\ listed[m].version + 1 \in 1..MaxVersion
      BY <3>1, NextVersion DEF PurgeBodies
    <3> QED BY <3>1, <3>2 DEF PurgeBodies, PurgeRows
  <2>3. body' \in [Archives -> PurgeBodies] /\ listed' \in [Archives -> PurgeRows]
    BY <2>1, <2>2
  <2>4. purger' \in Purgers
    BY <1>1 DEF Materialize, Purgers
  <2> QED BY <1>1, <2>3, <2>4 DEF Materialize
<1>2. CASE StartBatch \/ Resume \/ Yield \/ PurgeFails \/ PurgerDies
  BY <1>2 DEF StartBatch, Resume, Yield, PurgeFails, PurgerDies, Purgers
<1>3. CASE Preview
  <2>1. /\ UNCHANGED <<body, listed, kept, protected>>
        /\ \/ purger' = PurgerIdle /\ UNCHANGED <<item, purgeRun, staged>>
           \/ /\ purgeRun' = "processing" /\ purger' = [purger EXCEPT !.pc = "next"]
              /\ \E S \in SUBSET Archives :
                   /\ item' = [m \in Archives |-> IF m \in S
                                 THEN [state |-> "prepared", expected |-> body[m].version]
                                 ELSE NoItem]
                   /\ staged' = [m \in Archives |->
                                   IF m \in S THEN body[m].version ELSE staged[m]]
    BY <1>3 DEF Preview
  <2>2. \A m \in Archives : /\ body[m].version \in 0..MaxVersion
                            /\ [state |-> "prepared", expected |-> body[m].version] \in PurgeItems
    BY DEF PurgeBodies, PurgeItems, ItemStates
  <2>3. [purger EXCEPT !.pc = "next"] \in Purgers
    BY DEF Purgers
  <2>4. item' \in [Archives -> PurgeItems] /\ staged' \in [Archives -> 0..MaxVersion]
    BY <2>1, <2>2
  <2> QED BY <2>1, <2>3, <2>4
<1>4. CASE CompleteRun
  BY <1>4 DEF CompleteRun
<1>5. ASSUME NEW m \in Archives, ChangeLifecycle(m)
      PROVE  PurgeColumns'
  <2>1. body[m] \in PurgeBodies /\ listed[m] \in PurgeRows /\ listed[m].version = body[m].version
    BY <1>5 DEF ChangeLifecycle, Consistent
  <2>2. body[m].version + 1 \in 1..MaxVersion /\ listed[m].version + 1 \in 1..MaxVersion
    BY <1>5, <2>1, NextVersion DEF ChangeLifecycle, PurgeBodies
  <2>3. PICK lifecycle \in {"active", "archived"}, archive \in BOOLEAN :
          /\ body' = [body EXCEPT ![m] = [lifecycle |-> lifecycle, version |-> @.version + 1,
                                          deadline |-> archive, reason |-> "none"]]
          /\ listed' = [listed EXCEPT ![m] = [lifecycle |-> lifecycle, version |-> @.version + 1]]
    BY <1>5 DEF ChangeLifecycle
  <2>4. body' \in [Archives -> PurgeBodies] /\ listed' \in [Archives -> PurgeRows]
    BY <2>1, <2>2, <2>3 DEF PurgeBodies, PurgeRows
  <2> QED BY <1>5, <2>4 DEF ChangeLifecycle
<1>6. ASSUME NEW m \in Archives, ChangeProtection(m) \/ StartSingle(m) \/ StartItem(m)
      PROVE  PurgeColumns'
  <2>1. CASE ChangeProtection(m)
    BY <2>1 DEF ChangeProtection
  <2>2. CASE StartSingle(m)
    <3>1. purger' \in Purgers
      BY <2>2 DEF StartSingle, Purgers
    <3> QED BY <2>2, <3>1 DEF StartSingle
  <2>3. CASE StartItem(m)
    <3>1. purger' = [purger EXCEPT !.pc = "body", !.target = m]
      BY <2>3 DEF StartItem
    <3>2. purger' \in Purgers
      BY <3>1 DEF Purgers
    <3> QED BY <2>3, <3>2 DEF StartItem
  <2> QED BY <1>6, <2>1, <2>2, <2>3
<1>7. ASSUME NEW m \in Archives, SkipItem(m) \/ RefuseItem(m)
      PROVE  PurgeColumns'
  <2>1. CASE SkipItem(m)
    <3>1. [item[m] EXCEPT !.state = "skipped"] \in PurgeItems
      BY DEF PurgeItems, ItemStates
    <3>2. item' \in [Archives -> PurgeItems]
      BY <2>1, <3>1 DEF SkipItem
    <3> QED BY <2>1, <3>2 DEF SkipItem
  <2>2. CASE RefuseItem(m)
    BY <2>2 DEF RefuseItem
  <2> QED BY <1>7, <2>1, <2>2
<1>8. ASSUME NEW m \in Archives, NEW state \in ItemStates, Checkpoint(m, state)
      PROVE  item' \in [Archives -> PurgeItems]
  BY <1>8 DEF Checkpoint, PurgeItems
<1>9. /\ "tombstone_written" \in ItemStates /\ "revision_bodies_removed" \in ItemStates
      /\ "catalog_committed" \in ItemStates /\ "completed" \in ItemStates
  BY DEF ItemStates
<1>10. ASSUME NEW m \in Archives,
              WriteTombstone(m) \/ RemoveRevisions(m) \/ CommitRow(m) \/ RemoveIndexes(m)
       PROVE  PurgeColumns'
  <2>1. item' \in [Archives -> PurgeItems]
    BY <1>8, <1>9, <1>10 DEF WriteTombstone, RemoveRevisions, CommitRow, RemoveIndexes
  <2>2. purger' \in Purgers
    BY <1>10 DEF WriteTombstone, RemoveRevisions, CommitRow, RemoveIndexes, Purgers
  <2>3. body' \in [Archives -> PurgeBodies] /\ listed' \in [Archives -> PurgeRows]
    <3>1. CASE WriteTombstone(m)
      <4>1. \A reason \in {"user", "retention"} :
              [body[m] EXCEPT !.lifecycle = "tombstone", !.reason = reason] \in PurgeBodies
        BY DEF PurgeBodies
      <4>2. listed' = listed
        BY <3>1 DEF WriteTombstone
      <4>3. \/ body' = body
            \/ \E reason \in {"user", "retention"} : body' = [body EXCEPT
                 ![m] = [body[m] EXCEPT !.lifecycle = "tombstone", !.reason = reason]]
        BY <3>1 DEF WriteTombstone
      <4>4. \E b \in PurgeBodies : body' = [body EXCEPT ![m] = b]
        <5>1. CASE body' = body
          <6>1. body[m] \in PurgeBodies /\ body' = [body EXCEPT ![m] = body[m]]
            BY <5>1
          <6> QED BY <6>1
        <5> QED BY <4>1, <4>3, <5>1
      <4> QED BY <4>2, <4>4
    <3>2. CASE CommitRow(m)
      <4>1. [listed[m] EXCEPT !.lifecycle = "tombstone"] \in PurgeRows
        BY DEF PurgeRows
      <4> QED BY <3>2, <4>1 DEF CommitRow
    <3>3. CASE RemoveRevisions(m) \/ RemoveIndexes(m)
      BY <3>3 DEF RemoveRevisions, RemoveIndexes
    <3> QED BY <1>10, <3>1, <3>2, <3>3
  <2> QED BY <1>10, <2>1, <2>2, <2>3
           DEF WriteTombstone, RemoveRevisions, CommitRow, RemoveIndexes
<1> QED BY <1>1, <1>2, <1>3, <1>4, <1>5, <1>6, <1>7, <1>10 DEF PurgeNext

\* The backup of what is removed stays the one ordered, and no run closes over an item.
LEMMA PurgeStep ==
  ASSUME PurgeInv, PurgeNext
  PROVE  PurgeInv'
<1>0. PurgeColumns /\ PurgeTypeOK' /\ BackedUp /\ OpenInRun
  BY PurgeTypes, PurgeTypeStep DEF PurgeInv
<1> USE DEF PurgeColumns
<1>1. CASE Materialize \/ StartBatch
  <2>1. /\ purger' = [purger EXCEPT !.mode = "batch", !.pc = "select"]
        /\ UNCHANGED <<item, purgeRun, staged>>
    BY <1>1 DEF Materialize, StartBatch
  <2>2. purger'.pc = "select"
    BY <1>0, <2>1 DEF Purgers
  <2> QED BY <1>0, <2>1, <2>2
           DEF PurgeInv, BackedUp, Removing, OpenInRun, Interrupted, Unfinished
<1>2. CASE Resume
  <2>1. /\ purger' = [purger EXCEPT !.mode = "resume", !.pc = "next"]
        /\ purgeRun' = "processing" /\ UNCHANGED <<item, staged>>
    BY <1>2 DEF Resume
  <2>2. purger'.pc = "next" /\ purger'.mode = "resume"
    BY <1>0, <2>1 DEF Purgers
  <2> QED BY <1>0, <2>1, <2>2
           DEF PurgeInv, BackedUp, Removing, OpenInRun, Interrupted, Unfinished
<1>3. CASE Preview
  <2>1. CASE purger' = PurgerIdle /\ UNCHANGED <<item, purgeRun, staged>>
    BY <1>0, <2>1, PurgeConstants
    DEF PurgeInv, BackedUp, Removing, OpenInRun, Interrupted, Unfinished
  <2>2. CASE purger' = [purger EXCEPT !.pc = "next"] /\ purgeRun' = "processing"
    <3>1. purger.pc = "select"
      BY <1>3 DEF Preview
    <3>2. purger'.pc = "next" /\ purger'.mode = purger.mode
      BY <1>0, <2>2 DEF Purgers
    <3>3. OpenInRun'
      BY <2>2 DEF OpenInRun, Interrupted
    <3>4. purger.mode = "batch"
      BY <1>0, <3>1 DEF BackedUp
    <3> QED BY <1>0, <3>2, <3>3, <3>4 DEF PurgeInv, BackedUp, Removing
  <2> QED BY <1>3, <2>1, <2>2 DEF Preview
<1>4. CASE Yield \/ PurgerDies
  <2>1. purger' = PurgerIdle /\ UNCHANGED <<item, staged>>
        /\ (purgeRun' = purgeRun \/ purgeRun' = "yielded")
    BY <1>4 DEF Yield, PurgerDies
  <2> QED BY <1>0, <2>1, PurgeConstants
           DEF PurgeInv, BackedUp, Removing, OpenInRun, Interrupted, Unfinished
<1>5. CASE PurgeFails
  <2>1. purger' = PurgerIdle /\ UNCHANGED <<item, staged>>
        /\ (purgeRun' = purgeRun \/ purgeRun' = "failed")
    BY <1>5 DEF PurgeFails
  <2> QED BY <1>0, <2>1, PurgeConstants
           DEF PurgeInv, BackedUp, Removing, OpenInRun, Interrupted, Unfinished
<1>6. CASE CompleteRun
  <2>1. purger' = PurgerIdle /\ UNCHANGED item /\ ~Interrupted
    BY <1>6 DEF CompleteRun
  <2> QED BY <1>0, <2>1, PurgeConstants
           DEF PurgeInv, BackedUp, Removing, OpenInRun, Unfinished
<1>7. ASSUME NEW m \in Archives, ChangeLifecycle(m) \/ ChangeProtection(m)
      PROVE  PurgeInv'
  <2>1. UNCHANGED <<item, purgeRun, staged, purger>>
    BY <1>7 DEF ChangeLifecycle, ChangeProtection
  <2> QED BY <1>0, <2>1 DEF PurgeInv, BackedUp, Removing, OpenInRun, Interrupted, Unfinished
<1>8. ASSUME NEW m \in Archives, StartSingle(m)
      PROVE  PurgeInv'
  <2>1. UNCHANGED <<item, purgeRun, staged>>
        /\ purger' = [mode |-> "single", pc |-> "body", target |-> m]
    BY <1>8 DEF StartSingle
  <2> QED BY <1>0, <2>1 DEF PurgeInv, BackedUp, Removing, OpenInRun, Interrupted, Unfinished
<1>9. ASSUME NEW m \in Archives, StartItem(m)
      PROVE  PurgeInv'
  <2>1. /\ UNCHANGED <<item, purgeRun, staged>> /\ purger.pc = "next" /\ Unfinished(m)
        /\ staged[m] = item[m].expected
        /\ purger' = [purger EXCEPT !.pc = "body", !.target = m]
    BY <1>9 DEF StartItem
  <2>2. purger'.pc = "body" /\ purger'.target = m /\ purger'.mode = purger.mode
    BY <1>0, <2>1 DEF Purgers
  <2> QED BY <1>0, <2>1, <2>2
           DEF PurgeInv, BackedUp, Removing, OpenInRun, Interrupted, Unfinished
<1>10. ASSUME NEW m \in Archives, SkipItem(m)
       PROVE  PurgeInv'
  <2>1. /\ UNCHANGED <<purgeRun, staged, purger>> /\ purger.pc = "next"
        /\ item' = [item EXCEPT ![m].state = "skipped"]
    BY <1>10 DEF SkipItem
  <2>2. \A k \in Archives : Unfinished(k)' => Unfinished(k)
    BY <1>0, <2>1 DEF Unfinished, PurgeItems
  <2> QED BY <1>0, <2>1, <2>2 DEF PurgeInv, BackedUp, Removing, OpenInRun, Interrupted
<1>11. ASSUME NEW m \in Archives, RefuseItem(m)
       PROVE  PurgeInv'
  <2>1. purger' = PurgerIdle /\ UNCHANGED <<item, staged>> /\ purgeRun' = "failed"
    BY <1>11 DEF RefuseItem
  <2> QED BY <1>0, <2>1, PurgeConstants
           DEF PurgeInv, BackedUp, Removing, OpenInRun, Interrupted, Unfinished
<1>12. ASSUME NEW m \in Archives, purger.target = m, Removing,
              NEW state \in ItemStates, Checkpoint(m, state),
              UNCHANGED <<purgeRun, staged>>,
              NEW pc \in {"revisions", "row", "indexes"},
              state # "completed", state # "skipped", state # "none",
              purger' = [purger EXCEPT !.pc = pc]
       PROVE  PurgeInv'
  <2>1. purger'.pc = pc /\ purger'.target = m /\ purger'.mode = purger.mode
    BY <1>0, <1>12 DEF Purgers
  <2>2. CASE purger.mode = "single"
    <3>1. UNCHANGED item
      BY <1>12, <2>2 DEF Checkpoint
    <3> QED BY <1>0, <1>12, <2>1, <2>2, <3>1
             DEF PurgeInv, BackedUp, Removing, OpenInRun, Interrupted, Unfinished
  <2>3. CASE purger.mode # "single"
    <3>1. item' = [item EXCEPT ![m].state = state] /\ Unfinished(m)
          /\ staged[m] = item[m].expected
      BY <1>0, <1>12, <2>3 DEF Checkpoint, BackedUp
    <3>2. /\ item'[m].state = state /\ item'[m].expected = item[m].expected
          /\ \A k \in Archives : k # m => item'[k] = item[k]
      BY <1>0, <3>1 DEF PurgeItems
    <3>3. BackedUp'
      BY <1>0, <1>12, <2>1, <2>3, <3>1, <3>2 DEF BackedUp, Removing, Unfinished
    <3>4. OpenInRun'
      BY <1>0, <1>12, <3>1, <3>2 DEF OpenInRun, Interrupted, Unfinished
    <3> QED BY <1>0, <3>3, <3>4 DEF PurgeInv
  <2> QED BY <2>2, <2>3
<1>13. ASSUME NEW m \in Archives, WriteTombstone(m) \/ RemoveRevisions(m) \/ CommitRow(m)
       PROVE  PurgeInv'
  <2>1. /\ "tombstone_written" \in ItemStates /\ "revision_bodies_removed" \in ItemStates
        /\ "catalog_committed" \in ItemStates
    BY DEF ItemStates
  <2> QED BY <1>12, <1>13, <2>1 DEF WriteTombstone, RemoveRevisions, CommitRow, Removing
<1>14. ASSUME NEW m \in Archives, RemoveIndexes(m)
       PROVE  PurgeInv'
  <2>1. purger.pc = "indexes" /\ purger.target = m /\ UNCHANGED <<purgeRun, staged>>
    BY <1>14 DEF RemoveIndexes
  <2>2. CASE purger.mode = "single"
    <3>1. UNCHANGED item /\ purger' = PurgerIdle
      BY <1>14, <2>2 DEF RemoveIndexes, Checkpoint
    <3> QED BY <1>0, <2>1, <3>1, PurgeConstants
             DEF PurgeInv, BackedUp, Removing, OpenInRun, Interrupted, Unfinished
  <2>3. CASE purger.mode # "single"
    <3>1. /\ item' = [item EXCEPT ![m].state = "completed"]
          /\ purger' = [purger EXCEPT !.pc = "next", !.target = NoArchive]
      BY <1>14, <2>3 DEF RemoveIndexes, Checkpoint
    <3>2. purger'.pc = "next" /\ purger'.mode = purger.mode
      BY <1>0, <3>1 DEF Purgers
    <3>3. \A k \in Archives : Unfinished(k)' => Unfinished(k)
      BY <1>0, <3>1 DEF Unfinished, PurgeItems
    <3>4. purger.mode # "none"
      BY <1>0, <2>1 DEF BackedUp
    <3> QED BY <1>0, <2>1, <2>3, <3>2, <3>3, <3>4
             DEF PurgeInv, BackedUp, Removing, OpenInRun, Interrupted
  <2> QED BY <2>2, <2>3
<1> QED BY <1>1, <1>2, <1>3, <1>4, <1>5, <1>6, <1>7, <1>8, <1>9, <1>10, <1>11, <1>13, <1>14
        DEF PurgeNext

\* Only the step that writes a tombstone makes one.
LEMMA OthersKeepBodies ==
  ASSUME PurgeInv, PurgeNext, NEW m \in Archives,
         body'[m].lifecycle = "tombstone", body[m].lifecycle # "tombstone"
  PROVE  WriteTombstone(m)
<1>0. PurgeColumns
  BY PurgeTypes DEF PurgeInv
<1>1. CASE Materialize
  <2>1. PICK S \in SUBSET Archives :
          body' = [k \in Archives |-> IF k \in S
                     THEN [body[k] EXCEPT !.version = @ + 1, !.deadline = TRUE] ELSE body[k]]
    BY <1>1 DEF Materialize
  <2> QED BY <1>0, <2>1 DEF PurgeColumns, PurgeBodies
<1>2. ASSUME NEW k \in Archives, ChangeLifecycle(k)
      PROVE  FALSE
  BY <1>0, <1>2 DEF ChangeLifecycle, PurgeColumns, PurgeBodies
<1>3. ASSUME NEW k \in Archives, WriteTombstone(k)
      PROVE  k = m
  BY <1>0, <1>3 DEF WriteTombstone, PurgeColumns, PurgeBodies
<1>4. ASSUME UNCHANGED body
      PROVE  FALSE
  BY <1>4
<1> QED BY <1>1, <1>2, <1>3, <1>4
        DEF PurgeNext, StartBatch, Resume, Preview, Yield, CompleteRun, PurgeFails, PurgerDies,
            ChangeProtection, StartSingle, StartItem, SkipItem, RefuseItem, RemoveRevisions,
            CommitRow, RemoveIndexes

\* A run's tombstone replaces the content it ordered, of which it has a backup.
LEMMA OrderedStep ==
  ASSUME PurgeInv, PurgeNext, NEW m \in Archives,
         body'[m].lifecycle = "tombstone", body[m].lifecycle # "tombstone",
         purger.mode # "single"
  PROVE  body[m].version = item[m].expected /\ staged[m] = body[m].version
<1>1. WriteTombstone(m)
  BY OthersKeepBodies
<1> QED BY <1>1 DEF WriteTombstone, Ordered, PurgeInv, BackedUp, Removing

\* A body that is purged half by a run stays in an open item with its backup.
LEMMA HalfPurgedStep ==
  ASSUME PurgeReviewInv, PurgeNext, LateProtection = FALSE
  PROVE  PurgeReviewInv'
<1>0. /\ PurgeColumns /\ PurgeInv /\ PurgeInv' /\ BackedUp /\ OpenInRun
      /\ Unreviewed /\ RowGone /\ HalfPurgedIsResumed
  BY PurgeTypes, PurgeStep DEF PurgeReviewInv, PurgeInv
<1> USE DEF PurgeColumns
<1>1. ASSUME UNCHANGED <<body, listed, protected>>,
             Removing' => /\ Removing /\ purger'.target = purger.target
                          /\ purger'.pc = purger.pc,
             \A m \in Archives : HalfPurged(m) /\ Unfinished(m) /\ staged[m] = body[m].version =>
                Unfinished(m)' /\ staged'[m] = staged[m]
      PROVE  PurgeReviewInv'
  BY <1>0, <1>1 DEF PurgeReviewInv, Unreviewed, RowGone, Removing, HalfPurgedIsResumed, HalfPurged
<1>2. ASSUME UNCHANGED <<body, listed, protected, item, staged>>, purger' = PurgerIdle
      PROVE  PurgeReviewInv'
  BY <1>1, <1>2, PurgeConstants DEF Removing, Unfinished
<1>3. CASE Yield \/ PurgeFails \/ PurgerDies
  BY <1>2, <1>3 DEF Yield, PurgeFails, PurgerDies
<1>4. CASE StartBatch \/ Resume
  <2>1. /\ UNCHANGED <<body, listed, protected, item, staged>>
        /\ purger'.pc \in {"select", "next"}
    BY <1>0, <1>4 DEF StartBatch, Resume, Purgers
  <2> QED BY <1>1, <2>1 DEF Removing, Unfinished
<1>5. CASE CompleteRun
  <2>1. UNCHANGED <<body, listed, protected, item>> /\ purger' = PurgerIdle
        /\ \A m \in Archives : ~Unfinished(m)
    BY <1>0, <1>5 DEF CompleteRun, OpenInRun
  <2> QED BY <1>1, <2>1, PurgeConstants DEF Removing
<1>6. CASE Preview
  <2>1. UNCHANGED <<body, listed, protected>> /\ \A m \in Archives : ~Unfinished(m)
    BY <1>0, <1>6 DEF Preview, OpenInRun
  <2>2. purger'.pc \in {"idle", "next"}
    BY <1>0, <1>6, PurgeConstants DEF Preview, Purgers
  <2> QED BY <1>1, <2>1, <2>2 DEF Removing
<1>7. CASE Materialize
  <2>1. PICK S \in SUBSET Archives :
          /\ \A m \in S : NeedsDeadline(m)
          /\ body' = [m \in Archives |-> IF m \in S
                       THEN [body[m] EXCEPT !.version = @ + 1, !.deadline = TRUE] ELSE body[m]]
          /\ listed' = [m \in Archives |-> IF m \in S
                       THEN [listed[m] EXCEPT !.version = @ + 1] ELSE listed[m]]
    BY <1>7 DEF Materialize
  <2>2. \A m \in Archives : /\ body'[m].lifecycle = body[m].lifecycle
                            /\ listed'[m].lifecycle = listed[m].lifecycle
                            /\ body[m].lifecycle = "tombstone" => body'[m] = body[m]
    <3>1. ASSUME NEW m \in Archives
          PROVE  /\ body'[m].lifecycle = body[m].lifecycle
                 /\ body[m].lifecycle = "tombstone" => body'[m] = body[m]
      BY <1>0, <2>1 DEF PurgeBodies, NeedsDeadline
    <3>2. ASSUME NEW m \in Archives
          PROVE  listed'[m].lifecycle = listed[m].lifecycle
      BY <1>0, <2>1 DEF PurgeRows
    <3> QED BY <3>1, <3>2
  <2>3. UNCHANGED <<protected, item, staged>> /\ purger'.pc = "select"
    BY <1>0, <1>7 DEF Materialize, Purgers
  <2> QED BY <1>0, <2>2, <2>3 DEF PurgeReviewInv, Unreviewed, RowGone, Removing,
                                  HalfPurgedIsResumed, HalfPurged, Unfinished
<1>8. ASSUME NEW m \in Archives, ChangeLifecycle(m)
      PROVE  PurgeReviewInv'
  <2>1. /\ body[m].lifecycle # "tombstone" /\ listed[m].lifecycle # "tombstone"
        /\ UNCHANGED <<protected, item, staged, purger>>
    BY <1>8 DEF ChangeLifecycle, Consistent
  <2>2. /\ body'[m].lifecycle # "tombstone"
        /\ \A k \in Archives : k # m => body'[k] = body[k] /\ listed'[k] = listed[k]
    BY <1>0, <1>8 DEF ChangeLifecycle, PurgeBodies
  <2> QED BY <1>0, <2>1, <2>2 DEF PurgeReviewInv, Unreviewed, RowGone, Removing,
                                  HalfPurgedIsResumed, HalfPurged, Unfinished, BackedUp
<1>9. ASSUME NEW m \in Archives, ChangeProtection(m)
      PROVE  PurgeReviewInv'
  <2>1. /\ UNCHANGED <<body, listed, item, staged, purger>>
        /\ \/ protected' = protected \ {m}
           \/ /\ protected' = protected \cup {m}
              /\ body[m].lifecycle # "tombstone" /\ purger.target # m
    BY <1>9 DEF ChangeProtection
  <2> QED BY <1>0, <2>1 DEF PurgeReviewInv, Unreviewed, RowGone, Removing,
                            HalfPurgedIsResumed, HalfPurged, Unfinished
<1>10. ASSUME NEW m \in Archives, StartSingle(m) \/ StartItem(m)
       PROVE  PurgeReviewInv'
  <2>1. /\ UNCHANGED <<body, listed, protected, item, staged>> /\ m \notin protected
    BY <1>0, <1>10 DEF StartSingle, StartItem, Unreviewed
  <2>2. purger'.pc = "body" /\ purger'.target = m
    <3>1. CASE StartSingle(m)
      BY <3>1 DEF StartSingle
    <3>2. CASE StartItem(m)
      <4>1. purger' = [purger EXCEPT !.pc = "body", !.target = m]
        BY <3>2 DEF StartItem
      <4> QED BY <1>0, <4>1 DEF Purgers
    <3> QED BY <1>10, <3>1, <3>2
  <2> QED BY <1>0, <2>1, <2>2 DEF PurgeReviewInv, Unreviewed, RowGone, Removing,
                                  HalfPurgedIsResumed, HalfPurged, Unfinished
<1>11. ASSUME NEW m \in Archives, RefuseItem(m)
       PROVE  PurgeReviewInv'
  BY <1>2, <1>11 DEF RefuseItem
<1>12. ASSUME NEW m \in Archives, SkipItem(m)
       PROVE  PurgeReviewInv'
  <2>1. /\ UNCHANGED <<body, listed, protected, staged, purger>>
        /\ body[m].lifecycle # "tombstone" /\ item' = [item EXCEPT ![m].state = "skipped"]
    BY <1>0, <1>12 DEF SkipItem, AsOrdered, Unreviewed
  <2>2. \A k \in Archives : HalfPurged(k) => item'[k] = item[k]
    BY <1>0, <2>1 DEF HalfPurged
  <2> QED BY <1>1, <2>1, <2>2 DEF Removing, Unfinished
<1>13. ASSUME NEW m \in Archives, purger.target = m, Removing, NEW state \in ItemStates,
              Checkpoint(m, state),
              listed'[m].lifecycle = "tombstone" \/ state \notin {"none", "completed", "skipped"}
       PROVE  \A k \in Archives : HalfPurged(k)' /\ Unfinished(k) => Unfinished(k)'
  BY <1>0, <1>13 DEF Checkpoint, HalfPurged, Unfinished, PurgeItems
<1>14. /\ "tombstone_written" \in ItemStates /\ "revision_bodies_removed" \in ItemStates
       /\ "catalog_committed" \in ItemStates /\ "completed" \in ItemStates
  BY DEF ItemStates
<1>15. ASSUME NEW m \in Archives, WriteTombstone(m)
       PROVE  PurgeReviewInv'
  <2>1. /\ purger.pc = "body" /\ purger.target = m /\ UNCHANGED <<listed, protected, staged>>
        /\ body[m].version = Ordered(m) /\ Checkpoint(m, "tombstone_written")
        /\ purger' = [purger EXCEPT !.pc = "revisions"] /\ Removing
    BY <1>15 DEF WriteTombstone, Removing
  <2>2. /\ body'[m].version = body[m].version
        /\ body'[m].lifecycle = "tombstone"
        /\ \A k \in Archives : k # m => body'[k] = body[k]
        /\ body'[m].reason = "retention" =>
             \/ body'[m] = body[m] /\ body[m].lifecycle = "tombstone"
             \/ purger.mode # "single" /\ purger.mode # "none"
    BY <1>0, <1>15, <2>1 DEF WriteTombstone, PurgeBodies, BackedUp
  <2>3. purger'.pc = "revisions" /\ purger'.target = m
    BY <1>0, <2>1 DEF Purgers
  <2>4. m \notin protected
    BY <1>0, <2>1 DEF Unreviewed
  <2>5. Unreviewed' /\ RowGone'
    BY <1>0, <2>1, <2>2, <2>3, <2>4 DEF Unreviewed, RowGone
  <2>6. ASSUME NEW k \in Archives, HalfPurged(k)', body'[k].reason = "retention"
        PROVE  Unfinished(k)' /\ staged'[k] = body'[k].version
    <3>1. Unfinished(k) /\ staged[k] = body[k].version
      <4>1. CASE body'[k] = body[k] /\ body[k].lifecycle = "tombstone"
        BY <1>0, <2>1, <2>6, <4>1 DEF HalfPurgedIsResumed, HalfPurged
      <4>2. CASE k = m /\ purger.mode # "single"
        BY <1>0, <2>1, <4>2 DEF BackedUp, Ordered
      <4>3. CASE k # m
        BY <1>0, <2>1, <2>2, <2>6, <4>3 DEF HalfPurgedIsResumed, HalfPurged
      <4> QED BY <2>2, <2>6, <4>1, <4>2, <4>3
    <3>2. Unfinished(k)'
      BY <1>13, <1>14, <2>1, <2>6, <3>1
    <3> QED BY <2>1, <2>2, <3>1, <3>2
  <2> QED BY <1>0, <2>5, <2>6 DEF PurgeReviewInv, HalfPurgedIsResumed
<1>16. ASSUME NEW m \in Archives, RemoveRevisions(m) \/ CommitRow(m) \/ RemoveIndexes(m)
       PROVE  PurgeReviewInv'
  <2>1. /\ Removing /\ purger.target = m /\ UNCHANGED <<body, protected, staged>>
        /\ \A k \in Archives : k # m => listed'[k] = listed[k]
        /\ listed[m].lifecycle = "tombstone" => listed'[m].lifecycle = "tombstone"
    BY <1>0, <1>16 DEF RemoveRevisions, CommitRow, RemoveIndexes, Removing, PurgeRows
  <2>2. \E state \in ItemStates :
          /\ Checkpoint(m, state)
          /\ listed'[m].lifecycle = "tombstone" \/ state \notin {"none", "completed", "skipped"}
    BY <1>0, <1>14, <1>16 DEF RemoveRevisions, CommitRow, RemoveIndexes, RowGone
  <2>3. HalfPurgedIsResumed'
    <3>1. \A k \in Archives : HalfPurged(k)' => HalfPurged(k)
      BY <2>1 DEF HalfPurged
    <3>2. \A k \in Archives : HalfPurged(k)' /\ Unfinished(k) => Unfinished(k)'
      BY <1>13, <2>1, <2>2
    <3> QED BY <1>0, <2>1, <3>1, <3>2 DEF HalfPurgedIsResumed
  <2>4. Removing' => purger'.target = m
    BY <1>0, <1>16, <2>1, PurgeConstants
    DEF RemoveRevisions, CommitRow, RemoveIndexes, Removing, Purgers
  <2>5. purger'.pc = "indexes" => listed'[m].lifecycle = "tombstone" /\ purger'.target = m
    <3>1. CASE RemoveRevisions(m)
      BY <1>0, <3>1 DEF RemoveRevisions, Purgers
    <3>2. CASE CommitRow(m)
      <4>1. listed' = [listed EXCEPT ![m].lifecycle = "tombstone"] /\ purger.target = m
            /\ purger' = [purger EXCEPT !.pc = "indexes"]
        BY <3>2 DEF CommitRow
      <4>2. listed'[m].lifecycle = "tombstone"
        BY <1>0, <4>1 DEF PurgeRows
      <4>3. purger'.target = m
        BY <1>0, <4>1 DEF Purgers
      <4> QED BY <4>2, <4>3
    <3>3. CASE RemoveIndexes(m)
      BY <1>0, <3>3, PurgeConstants DEF RemoveIndexes, Purgers
    <3> QED BY <1>16, <3>1, <3>2, <3>3
  <2> QED BY <1>0, <2>1, <2>3, <2>4, <2>5 DEF PurgeReviewInv, Unreviewed, RowGone
<1> QED BY <1>3, <1>4, <1>5, <1>6, <1>7, <1>8, <1>9, <1>10, <1>11, <1>12, <1>15, <1>16
        DEF PurgeNext

\* The backup is of what was ordered and no run closes over an item, in every state.
THEOREM PurgeInvariant == PurgeSpec => []PurgeInv
<1>1. PurgeInv /\ UNCHANGED purgeVars => PurgeInv'
  BY DEF purgeVars, PurgeInv, PurgeTypeOK, BackedUp, Removing, OpenInRun, Interrupted, Unfinished
<1>2. PurgeInv /\ [PurgeNext]_purgeVars => PurgeInv'
  BY <1>1, PurgeStep
<1> QED BY <1>2, PurgeStarts, PTL DEF PurgeSpec, PurgeReviewInv

\* A run removes only the content it previewed and has a backup of, also when it resumes
\* after a crash and whatever the owner restored, revised or protected meanwhile.
THEOREM OnlyOrderedContentAlways == PurgeSpec => OnlyOrderedContent
<1>1. PurgeInv /\ [PurgeNext]_purgeVars =>
        [\A m \in Archives :
           body'[m].lifecycle = "tombstone" /\ body[m].lifecycle # "tombstone"
             /\ purger.mode # "single"
           => body[m].version = item[m].expected /\ staged[m] = body[m].version]_purgeVars
  BY OrderedStep
<1> QED BY <1>1, PurgeInvariant, PTL DEF PurgeSpec, OnlyOrderedContent

\* No step leaves what a purge has begun behind, and it removes only what it previewed, if
\* no review opens on a Memory while it is purged.
THEOREM PurgeKeptAlways == ASSUME LateProtection = FALSE PROVE PurgeSpec => PurgeKept
<1>1. PurgeReviewInv /\ UNCHANGED purgeVars => PurgeReviewInv'
  BY DEF purgeVars, PurgeReviewInv, PurgeInv, PurgeTypeOK, BackedUp, Removing, OpenInRun,
         Interrupted, Unfinished, Unreviewed, RowGone, HalfPurgedIsResumed, HalfPurged
<1>2. PurgeReviewInv /\ [PurgeNext]_purgeVars => PurgeReviewInv'
  BY <1>1, HalfPurgedStep
<1>3. PurgeReviewInv' => [HalfPurgedIsResumed']_purgeVars
  BY DEF PurgeReviewInv
<1> QED BY <1>2, <1>3, PurgeStarts, OnlyOrderedContentAlways, PTL DEF PurgeSpec, PurgeKept


-----------------------------------------------------------------------------
(***************************************************************************)
(* The Vault, the owner's commands and the purge share no state: each        *)
(* behaviour of the three together is, seen through the variables of one,    *)
(* a behaviour of that one.                                                  *)
(***************************************************************************)
LEMMA MemoriesParts == AllSpec => Spec /\ PurgeSpec /\ HumanSpec
<1>1. AllInit => Init /\ PurgeInit /\ HumanInit
  BY DEF AllInit
<1>2. [AllNext]_allVars => [Next]_vars /\ [PurgeNext]_purgeVars /\ [HumanNext]_humanVars
  BY DEF AllNext, allVars
<1> QED BY <1>1, <1>2, PTL DEF AllSpec, Spec, PurgeSpec, HumanSpec

\* Every Memory file, row, order, command and archive keeps its type, whichever component
\* a behaviour of the suite is of: racing writers, commands that overlap, or a purge that
\* dies and is resumed.
THEOREM MemoriesTyped == AllSpec => []MemoriesTypeOK
<1>1. Inv => TypeOK
  BY DEF Inv, Types
<1>2. PurgeInv => PurgeTypeOK
  BY DEF PurgeInv
<1>3. HumanInv => HumanTypeOK
  BY DEF HumanInv
<1>4. /\ AllInit => part \in Components
      /\ part \in Components /\ [AllNext]_allVars => (part \in Components)'
  BY DEF AllInit, AllNext, allVars, Of, Components
<1>5. AllSpec => [](part \in Components)
  BY <1>4, PTL DEF AllSpec
<1>6. part \in Components /\ TypeOK /\ PurgeTypeOK /\ HumanTypeOK => MemoriesTypeOK
  BY DEF MemoriesTypeOK
<1> QED BY <1>1, <1>2, <1>3, <1>5, <1>6, MemoriesParts, VaultInvariant, PurgeInvariant,
           HumanInvariant, PTL
=============================================================================
