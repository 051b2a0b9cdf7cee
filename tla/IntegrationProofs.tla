----------------------------- MODULE IntegrationProofs -----------------------------
(***************************************************************************)
(* Theorems about ManagedIntegration, for any number of edits, cutovers and *)
(* faults: whatever of its steps a command has left when it dies or when the *)
(* files change under it; about Reminders, for any number of digests, items *)
(* and dispatchers; and about what MCServing puts side by side.              *)
(***************************************************************************)
EXTENDS MCServing, RetrievalProofs, SequenceTheorems

CommandKinds == {"none", "install", "repair", "upgrade", "uninstall", "adopt", "cutover", "undo",
          "rollback"}

Commands == [kind: CommandKinds, todo: Seq(Steps), compared: BOOLEAN,
             plan: Manifests({"none", "installed", "uninstalled"}),
             cut: Cutovers, at: 0..MaxCutovers]

Typed ==
  /\ files \in [Files -> Contents]
  /\ recipe \in Recipes
  /\ manifest \in Manifests({"none", "installed", "uninstalled"})
  /\ cutovers \in Seq(Cutovers) /\ Len(cutovers) <= MaxCutovers
  /\ \A k \in DOMAIN cutovers : cutovers[k].state # "none"
  /\ command \in Commands
  /\ edited \subseteq Files
  /\ faults \in 0..MaxFaults

(***************************************************************************)
(* The steps a command has left, and the place of each in its order.        *)
(***************************************************************************)
Elements(todo) == {todo[i] : i \in DOMAIN todo}

Left == Elements(command.todo)

Backwards == {"uninstall", "undo", "rollback"}

Place(kind, f) == IF f = "hooks" THEN 2
                  ELSE IF (f = "config") = (kind \in Backwards) THEN 3 ELSE 1

Turn(do) == IF do = "copy" THEN 1 ELSE IF do = "look" THEN 3 ELSE 2

Rank(kind, s) ==
  IF s.do \in Notes
  THEN IF s.do = "prepared" THEN 0 ELSE IF s.do = "adopted" THEN 51 ELSE 50
  ELSE IF kind = "install" THEN 10 * Place(kind, s.file) + Turn(s.do)
  ELSE Place(kind, s.file) + 10 * Turn(s.do)

InTurn(kind, todo) ==
  \A i, j \in DOMAIN todo : i < j => Rank(kind, todo[i]) < Rank(kind, todo[j])

(***************************************************************************)
(* No command runs exactly when nothing is left to do.                      *)
(***************************************************************************)
Idle ==
  /\ command.todo = <<>> <=> command = NoCommand
  /\ command.kind = "none" <=> command = NoCommand
  /\ command = NoCommand => edited = {}

(***************************************************************************)
(* Which steps a command of a kind can have left.                           *)
(***************************************************************************)
StepOf(kind, do) ==
  /\ do = "copy" => kind = "install"
  /\ do = "look" => kind \in {"install", "repair", "upgrade"}
  /\ do = "write" => kind \notin {"none", "adopt"}
  /\ do = "undo" => kind = "undo"
  /\ do = "installed" => kind \in {"install", "repair", "upgrade", "adopt"}
  /\ do = "uninstalled" => kind = "uninstall"
  /\ do = "adopted" => kind = "adopt"
  /\ do \in {"prepared", "active"} => kind = "cutover"
  /\ do = "rolled_back" => kind = "rollback"

InOrder == /\ InTurn(command.kind, command.todo)
           /\ \A s \in Left : StepOf(command.kind, s.do)

(***************************************************************************)
(* What others put into a file: no less of it, or the same.                 *)
(***************************************************************************)
Keeps(c, d) == c.text <= d.text /\ (c.trust => d.trust)
Same(c, d) == c.text = d.text /\ c.trust = d.trust

(***************************************************************************)
(* A manifest expects files that differ from those of before by the entries *)
(* of MemStore, and has backups of these.                                   *)
(***************************************************************************)
PlanSound(m) ==
  /\ m.before["cli"] = Absent
  /\ \A f \in Files : Same(m.post[f], m.before[f])
  /\ m.post["config"].native = m.before["config"].native
  /\ m.post["hooks"].own # "active" /\ m.before["hooks"].own # "active"

BackedUp(m, f) == m.before[f] # Absent => m.backup[f] = m.before[f]

ManifestSound(m) == PlanSound(m) /\ \A f \in Files : BackedUp(m, f)

(***************************************************************************)
(* A cutover leads from files without injection to files without native     *)
(* memory that others have put the same into.                               *)
(***************************************************************************)
CutoverSound(c) ==
  /\ \A f \in Files : Same(c.target[f], c.source[f])
  /\ c.source["hooks"].own # "active"
  /\ ~c.target["config"].native

Recorded ==
  /\ manifest.state = "installed" => ManifestSound(manifest)
  /\ \A k \in DOMAIN cutovers : CutoverSound(cutovers[k])

(***************************************************************************)
(* What a command will record is sound as well, and what it undoes is what  *)
(* is recorded.                                                            *)
(***************************************************************************)
Planned ==
  /\ command.kind \in {"install", "repair", "upgrade", "adopt"} =>
       command.plan.state = "installed" /\ PlanSound(command.plan)
  /\ command.kind \in {"repair", "upgrade", "adopt"} => ManifestSound(command.plan)
  /\ command.kind = "uninstall" =>
       manifest.state = "installed" /\ command.plan.state = "uninstalled"
  /\ command.kind \in {"adopt", "cutover", "undo", "rollback"} =>
       CutoverSound(command.cut) /\ command.cut.state \in {"prepared", "active"}
  /\ command.kind = "rollback" =>
       command.at \in DOMAIN cutovers /\ cutovers[command.at] = command.cut
  /\ \A s \in Left : s.do \in {"prepared", "adopted"} => Len(cutovers) < MaxCutovers

(***************************************************************************)
(* A write that is left keeps what others put into its file, unless they    *)
(* have done so since; native memory is turned on by an undo or a rollback  *)
(* only, and injection by a cutover.                                       *)
(***************************************************************************)
WritesKeep ==
  \A s \in Left :
    /\ s.do \in {"write", "undo"} => s.new \in Contents
    /\ s.do = "write" /\ s.file \notin edited => Keeps(files[s.file], s.new)
    /\ s.do = "write" /\ s.file = "config" /\ s.new.native =>
         files["config"].native \/ command.kind \in {"undo", "rollback"}
    /\ s.do = "write" /\ s.file = "hooks" /\ s.new.own = "active" =>
         command.kind = "cutover"

Writing(f) == {s \in Left : s.do \in {"write", "undo"} /\ s.file = f}

(***************************************************************************)
(* A cutover is between two states of its files, one by one; its undo leads *)
(* back to the first.                                                      *)
(***************************************************************************)
HalfWay ==
  /\ command.kind \in {"cutover", "undo"} =>
       \A f \in {"config", "hooks"} \ edited :
         files[f] \in {command.cut.source[f], command.cut.target[f]}
  /\ command.kind = "cutover" =>
       \A f \in Files : \A s \in Writing(f) : s.new = command.cut.target[f]
  /\ command.kind = "undo" =>
       \A f \in Files : \A s \in Writing(f) :
         s.new = command.cut.source[f] /\ s.expect = command.cut.target[f]

(***************************************************************************)
(* Native memory goes off before injection goes on, and injection off before *)
(* native memory goes on.                                                  *)
(***************************************************************************)
OffBeforeOn ==
  /\ command.kind = "cutover" /\ Writing("hooks") # {} =>
       ~files["config"].native \/ Writing("config") # {}
  /\ command.kind \in {"undo", "rollback"} /\ Writing("config") # {} =>
       \/ "hooks" \in edited
       \/ files["hooks"].own # "active"
       \/ Writing("hooks") # {}

(***************************************************************************)
(* A file that an uninstall or a rollback has not restored yet is still to  *)
(* be written.                                                             *)
(***************************************************************************)
Restores ==
  /\ command.kind = "uninstall" =>
       /\ \A f \in Files \ edited : files[f] = manifest.before[f] \/ Writing(f) # {}
       /\ \A f \in Files : \A s \in Writing(f) : s.new = manifest.before[f]
  /\ command.kind = "rollback" =>
       /\ "hooks" \in edited
          \/ files["hooks"] = command.cut.source["hooks"]
          \/ Writing("hooks") # {}
       /\ "config" \in edited
          \/ Untrusted(files["config"]) = Untrusted(command.cut.source["config"])
          \/ Writing("config") # {}
       /\ \A s \in Writing("hooks") : s.new = command.cut.source["hooks"]
       /\ \A s \in Writing("config") :
            Untrusted(s.new) = Untrusted(command.cut.source["config"])

(***************************************************************************)
(* A file that others have written since it was read as "c".                *)
(***************************************************************************)
Beyond(c, d) == c.text < d.text \/ (c.text = d.text /\ ~c.trust /\ d.trust)

(***************************************************************************)
(* A file to be copied is written later, if it is then as it was read; a    *)
(* backup of anything else is one of a file that cannot be written.         *)
(***************************************************************************)
Copied(f) ==
  LET read == command.plan.before[f]
  IN /\ \A s \in Writing(f) : s.expect = read
     /\ \A s \in Left : s.do = "copy" /\ s.file = f => Writing(f) # {}
     /\ Writing(f) # {} => files[f] = read \/ Beyond(read, files[f])
     /\ \/ command.plan.backup[f] = read
        \/ \E s \in Left : s.do = "copy" /\ s.file = f
        \/ /\ Writing(f) # {} /\ Beyond(read, files[f])
           /\ ~(command.compared /\ Head(command.todo) \in Writing(f))

Installs ==
  command.kind = "install" =>
    \A f \in Files : command.plan.before[f] # Absent => Copied(f)

IntegrationInv ==
  /\ Typed /\ Idle /\ InOrder /\ Recorded /\ Planned /\ WritesKeep /\ HalfWay
  /\ OffBeforeOn /\ Restores /\ Installs

-----------------------------------------------------------------------------
(***************************************************************************)
(* Lists of steps by the set of their elements: they are in order, so that  *)
(* each is there once and the first has the lowest rank.                    *)
(***************************************************************************)
List(kind, todo, S) ==
  todo \in Seq(Steps) /\ InTurn(kind, todo) /\ Elements(todo) = S

LEMMA Joined ==
  ASSUME NEW kind, NEW a, NEW b, NEW A, NEW B, List(kind, a, A), List(kind, b, B),
         \A s \in A, t \in B : Rank(kind, s) < Rank(kind, t)
  PROVE  List(kind, a \o b, A \cup B)
<1> DEFINE c == a \o b
<1>1. /\ c \in Seq(Steps) /\ Len(c) = Len(a) + Len(b)
      /\ \A i \in 1..Len(a) : c[i] = a[i]
      /\ \A i \in 1..Len(b) : c[Len(a) + i] = b[i]
  BY ConcatProperties DEF List
<1>2. /\ Len(a) \in Nat /\ DOMAIN a = 1..Len(a)
      /\ Len(b) \in Nat /\ DOMAIN b = 1..Len(b)
      /\ DOMAIN c = 1..(Len(a) + Len(b))
  BY <1>1, LenProperties DEF List
<1> HIDE DEF c
<1>3. \A i \in DOMAIN c : \/ i \in 1..Len(a) /\ c[i] = a[i]
                          \/ i - Len(a) \in 1..Len(b) /\ c[i] = b[i - Len(a)]
  <2> TAKE i \in DOMAIN c
  <2>1. CASE i <= Len(a)
    BY <2>1, <1>1, <1>2
  <2>2. CASE i > Len(a)
    <3>1. i - Len(a) \in 1..Len(b) /\ i = Len(a) + (i - Len(a))
      BY <2>2, <1>2
    <3> QED BY <3>1, <1>1
  <2> QED BY <2>1, <2>2, <1>2
<1>4. Elements(c) = A \cup B
  <2>1. \A i \in DOMAIN c : c[i] \in A \cup B
    BY <1>2, <1>3 DEF List, Elements
  <2>2. \A i \in DOMAIN a : a[i] \in Elements(c)
    BY <1>1, <1>2 DEF Elements
  <2>3. \A i \in DOMAIN b : b[i] \in Elements(c)
    <3> TAKE i \in DOMAIN b
    <3>1. Len(a) + i \in DOMAIN c
      BY <1>2
    <3> QED BY <3>1, <1>1, <1>2 DEF Elements
  <2> QED BY <2>1, <2>2, <2>3 DEF List, Elements
<1>5. InTurn(kind, c)
  <2> SUFFICES ASSUME NEW i \in DOMAIN c, NEW j \in DOMAIN c, i < j
               PROVE  Rank(kind, c[i]) < Rank(kind, c[j])
    BY DEF InTurn
  <2>1. CASE j <= Len(a)
    BY <2>1, <1>1, <1>2 DEF List, InTurn
  <2>2. CASE i > Len(a)
    <3>1. i - Len(a) \in DOMAIN b /\ j - Len(a) \in DOMAIN b /\ i - Len(a) < j - Len(a)
      BY <2>2, <1>2
    <3>2. c[i] = b[i - Len(a)] /\ c[j] = b[j - Len(a)]
      BY <2>2, <1>2, <1>3
    <3> QED BY <3>1, <3>2 DEF List, InTurn
  <2>3. CASE i <= Len(a) /\ j > Len(a)
    <3>1. c[i] \in A
      BY <2>3, <1>1, <1>2 DEF List, Elements
    <3>2. j - Len(a) \in DOMAIN b /\ c[j] = b[j - Len(a)]
      BY <2>3, <1>2, <1>3
    <3>3. c[j] \in B
      BY <3>2 DEF List, Elements
    <3> QED BY <3>1, <3>3
  <2> QED BY <2>1, <2>2, <2>3, <1>2
<1> QED BY <1>1, <1>4, <1>5 DEF List, c

LEMMA OneStep ==
  ASSUME NEW kind, NEW s \in Steps
  PROVE  List(kind, <<s>>, {s})
  BY DEF List, InTurn, Elements

LEMMA OptionalStep ==
  ASSUME NEW kind, NEW needed \in BOOLEAN, NEW s \in Steps
  PROVE  List(kind, When(needed, s), {t \in {s} : needed})
<1>1. CASE needed
  BY <1>1, OneStep DEF When
<1>2. CASE ~needed
  <2>1. When(needed, s) = <<>> /\ {t \in {s} : needed} = {}
    BY <1>2 DEF When
  <2> QED BY <2>1 DEF List, InTurn, Elements
<1> QED BY <1>1, <1>2

LEMMA TwoSteps ==
  ASSUME NEW kind, NEW s \in Steps, NEW t \in Steps, Rank(kind, s) < Rank(kind, t)
  PROVE  List(kind, <<s, t>>, {s, t})
  BY DEF List, InTurn, Elements

LEMMA ThreeSteps ==
  ASSUME NEW kind, NEW s \in Steps, NEW t \in Steps, NEW u \in Steps,
         Rank(kind, s) < Rank(kind, t), Rank(kind, t) < Rank(kind, u),
         Rank(kind, s) < Rank(kind, u)
  PROVE  List(kind, <<s, t, u>>, {s, t, u})
  BY DEF List, InTurn, Elements

LEMMA HeadAndTail ==
  ASSUME NEW kind, NEW todo, NEW S, List(kind, todo, S), todo # <<>>
  PROVE  /\ Head(todo) \in S /\ S \subseteq Steps
         /\ List(kind, Tail(todo), S \ {Head(todo)})
         /\ \A s \in S \ {Head(todo)} : Rank(kind, Head(todo)) < Rank(kind, s)
         /\ Tail(todo) = <<>> <=> S = {Head(todo)}
<1> DEFINE t == Tail(todo)
<1>1. /\ t \in Seq(Steps) /\ Len(t) = Len(todo) - 1
      /\ \A i \in 1..Len(t) : t[i] = todo[i + 1]
  BY HeadTailProperties DEF List
<1>2. /\ Len(todo) \in Nat \ {0} /\ DOMAIN todo = 1..Len(todo)
      /\ DOMAIN t = 1..(Len(todo) - 1)
  BY <1>1, LenProperties, EmptySeq DEF List
<1>3. Head(todo) = todo[1] /\ 1 \in DOMAIN todo
  BY <1>2 DEF List
<1> HIDE DEF t
<1>4. Head(todo) \in S /\ S \subseteq Steps
  BY <1>3, <1>2 DEF List, Elements
<1>5. \A i \in DOMAIN todo : i # 1 => /\ i - 1 \in DOMAIN t /\ t[i - 1] = todo[i]
                                    /\ Rank(kind, Head(todo)) < Rank(kind, todo[i])
                                    /\ todo[i] # Head(todo)
  <2> TAKE i \in DOMAIN todo
  <2> HAVE i # 1
  <2>1. i - 1 \in DOMAIN t /\ 1 < i /\ (i - 1) + 1 = i
    BY <1>2
  <2>2. t[i - 1] = todo[i]
    BY <2>1, <1>1, <1>2
  <2>3. Rank(kind, todo[1]) < Rank(kind, todo[i])
    BY <2>1, <1>3 DEF List, InTurn
  <2>4. Rank(kind, todo[1]) \in Int
    BY DEF Rank, Place, Turn
  <2> QED BY <2>1, <2>2, <2>3, <2>4, <1>3
<1>6. \A i \in DOMAIN t : i + 1 \in DOMAIN todo /\ t[i] = todo[i + 1] /\ i + 1 # 1
  BY <1>1, <1>2
<1>7. Elements(t) = S \ {Head(todo)}
  <2>1. \A i \in DOMAIN t : t[i] \in S \ {Head(todo)}
    BY <1>5, <1>6 DEF List, Elements
  <2>2. \A s \in S \ {Head(todo)} : \E i \in DOMAIN todo : i # 1 /\ s = todo[i]
    BY <1>3 DEF List, Elements
  <2> QED BY <2>1, <2>2, <1>5 DEF Elements
<1>8. \A s \in S \ {Head(todo)} : Rank(kind, Head(todo)) < Rank(kind, s)
  <2>1. \A s \in S \ {Head(todo)} : \E i \in DOMAIN todo : i # 1 /\ s = todo[i]
    BY <1>3 DEF List, Elements
  <2> QED BY <2>1, <1>5
<1>9. InTurn(kind, t)
  <2> SUFFICES ASSUME NEW i \in DOMAIN t, NEW j \in DOMAIN t, i < j
               PROVE  Rank(kind, t[i]) < Rank(kind, t[j])
    BY DEF InTurn
  <2>1. i + 1 < j + 1
    BY <1>2
  <2> QED BY <2>1, <1>6 DEF List, InTurn
<1>10. t = <<>> <=> S = {Head(todo)}
  <2>1. t = <<>> => Elements(t) = {}
    BY DEF Elements
  <2>2. Elements(t) = {} => t = <<>>
    <3>1. 1 \in DOMAIN t \/ Len(t) = 0
      BY <1>1, <1>2
    <3>2. Len(t) = 0 => t = <<>>
      BY <1>1, EmptySeq
    <3> QED BY <3>1, <3>2 DEF Elements
  <2> QED BY <2>1, <2>2, <1>4, <1>7
<1> QED BY <1>1, <1>4, <1>7, <1>8, <1>9, <1>10 DEF List, t


-----------------------------------------------------------------------------
(***************************************************************************)
(* The values the commands make.                                           *)
(***************************************************************************)
Owns == {"absent", "none", "mcp", "shadow", "active"} \cup Recipes
AnyState == {"none", "installed", "uninstalled"}

LEMMA PlainType ==
  /\ \A own \in Owns : Plain(own) \in Contents
  /\ Absent \in Contents
  /\ Absent.text = 0 /\ ~Absent.trust /\ ~Absent.native /\ Absent.own = "absent"
<1>1. 0 \in 0..MaxEdits
  BY IntegrationAssumption
<1> QED BY <1>1 DEF Plain, Absent, Contents, Owns

LEMMA ContentType ==
  ASSUME NEW c \in Contents
  PROVE  /\ c.own \in Owns /\ c.text \in 0..MaxEdits /\ c.text \in Nat
         /\ c.native \in BOOLEAN /\ c.trust \in BOOLEAN
         /\ \A own \in Owns : [c EXCEPT !.own = own] \in Contents
         /\ \A b \in BOOLEAN : /\ [c EXCEPT !.native = b] \in Contents
                               /\ [c EXCEPT !.trust = b] \in Contents
  BY IntegrationAssumption DEF Contents, Owns

LEMMA NothingTypes ==
  /\ Nowhere \in [Files -> Contents]
  /\ NotInstalled \in Manifests(AnyState)
  /\ NoCutover \in Cutovers
  /\ NoCommand \in Commands
  /\ Elements(<<>>) = {}
<1>1. Nowhere \in [Files -> Contents]
  BY PlainType DEF Nowhere
<1>2. NotInstalled \in Manifests(AnyState) /\ NoCutover \in Cutovers
  BY <1>1 DEF NotInstalled, NoCutover, Manifests, Cutovers, AnyState
<1>3. 0 \in 0..MaxCutovers /\ <<>> \in Seq(Steps)
  BY IntegrationAssumption
<1>4. NoCommand \in Commands
  BY <1>2, <1>3 DEF NoCommand, Commands, CommandKinds, AnyState
<1> QED BY <1>1, <1>2, <1>4 DEF Elements

LEMMA StepType ==
  ASSUME NEW do \in {"copy", "write", "undo", "look"} \cup Notes, NEW f \in Files,
         NEW e \in Contents \cup {Anything}, NEW n \in Contents \cup {Anything}
  PROVE  /\ FileStep(do, f, e, n) \in Steps
         /\ FileStep(do, f, e, n).do = do /\ FileStep(do, f, e, n).file = f
         /\ FileStep(do, f, e, n).expect = e /\ FileStep(do, f, e, n).new = n
  BY DEF FileStep, Steps

LEMMA NoteType ==
  ASSUME NEW do \in Notes
  PROVE  Note(do) \in Steps /\ Note(do).do = do
<1>1. "config" \in Files /\ Anything \in Contents \cup {Anything}
  BY DEF Files
<1>2. do \in {"copy", "write", "undo", "look"} \cup Notes
  OBVIOUS
<1>3. Note(do) = FileStep(do, "config", Anything, Anything)
  BY DEF Note
<1> HIDE DEF Anything
<1> QED BY <1>1, <1>2, <1>3, StepType

LEMMA WriteType ==
  ASSUME NEW f \in Files, NEW b \in Contents, NEW n \in Contents
  PROVE  /\ Write(f, b, n) \in Steps
         /\ Write(f, b, n).do = "write" /\ Write(f, b, n).file = f
         /\ Write(f, b, n).new = n
         /\ f # "cli" /\ b # Absent => Write(f, b, n).expect = b
<1> DEFINE e == IF f = "cli" \/ b = Absent THEN Anything ELSE b
<1>1. e \in Contents \cup {Anything} /\ n \in Contents \cup {Anything}
  OBVIOUS
<1>2. Write(f, b, n) = FileStep("write", f, e, n)
  BY DEF Write
<1> QED BY <1>1, <1>2, StepType

-----------------------------------------------------------------------------
(***************************************************************************)
(* How a command starts.                                                    *)
(***************************************************************************)
Started(kind, S, plan, cut, at) ==
  /\ command'.kind = kind /\ command'.plan = plan /\ command'.cut = cut /\ command'.at = at
  /\ command'.compared = FALSE
  /\ Left' = S
  /\ edited = {}
  /\ UNCHANGED <<files, recipe, manifest, cutovers, edited, faults>>

LEMMA Starting ==
  ASSUME IntegrationInv, NEW kind \in CommandKinds \ {"none"}, NEW todo, NEW S,
         List(kind, todo, S), S # {}, \A s \in S : StepOf(kind, s.do),
         NEW plan \in Manifests(AnyState), NEW cut \in Cutovers, NEW at \in 0..MaxCutovers,
         Starts(kind, todo, plan, cut, at)
  PROVE  /\ Started(kind, S, plan, cut, at)
         /\ Typed' /\ Idle' /\ InOrder' /\ Recorded'
<1>1. /\ command = NoCommand
      /\ command' = [kind |-> kind, todo |-> todo, compared |-> FALSE,
                     plan |-> plan, cut |-> cut, at |-> at]
      /\ UNCHANGED <<files, recipe, manifest, cutovers, edited, faults>>
  BY DEF Starts
<1>2. edited = {} /\ edited' = {}
  BY <1>1 DEF IntegrationInv, Idle
<1>3. Left' = S
  BY <1>1 DEF Left, List
<1>4. command' \in Commands
  BY <1>1 DEF Commands, List, AnyState
<1>5. Typed'
  BY <1>1, <1>4 DEF IntegrationInv, Typed
<1>6. todo # <<>>
  BY NothingTypes DEF List
<1>7. command' # NoCommand
  BY <1>1 DEF NoCommand
<1>8. Idle'
  BY <1>1, <1>6, <1>7 DEF Idle
<1>9. InOrder'
  BY <1>1, <1>3 DEF InOrder, List
<1>10. Recorded'
  BY <1>1 DEF IntegrationInv, Recorded
<1> QED BY <1>1, <1>2, <1>3, <1>5, <1>8, <1>9, <1>10 DEF Started

(***************************************************************************)
(* Its list for one file of an installation.                                *)
(***************************************************************************)
CopyOf(f) == FileStep("copy", f, Anything, Anything)
LookAt(f, c) == FileStep("look", f, Anything, c)

InstallSet(f) == {s \in {CopyOf(f)} : files[f] # Absent}
                   \cup {Write(f, files[f], Installed(f)), LookAt(f, Installed(f))}

LEMMA InstallTypes ==
  ASSUME Typed, NEW f \in Files
  PROVE  /\ Installed(f) \in Contents
         /\ Same(Installed(f), files[f]) /\ Installed(f).native = files[f].native
         /\ f = "hooks" => Installed(f).own = "shadow"
<1>1. files[f] \in Contents
  BY DEF Typed
<1>2. (CASE f = "config" -> "mcp" [] f = "hooks" -> "shadow" [] f = "cli" -> recipe) \in Owns
  BY DEF Files, Owns, Typed, Recipes
<1> QED BY <1>1, <1>2, ContentType DEF Installed, Same, Contents, Files

LEMMA InstallList ==
  ASSUME Typed, NEW f \in Files
  PROVE  /\ List("install", InstallSteps(f), InstallSet(f))
         /\ \A s \in InstallSet(f) : /\ 10 * Place("install", f) < Rank("install", s)
                                     /\ Rank("install", s) < 10 * Place("install", f) + 4
<1> DEFINE w == Write(f, files[f], Installed(f))
           l == LookAt(f, Installed(f))
           c == CopyOf(f)
<1>1. files[f] \in Contents /\ Installed(f) \in Contents
  BY InstallTypes DEF Typed
<1>2. /\ c \in Steps /\ c.do = "copy" /\ c.file = f
      /\ l \in Steps /\ l.do = "look" /\ l.file = f
  BY <1>1, StepType DEF CopyOf, LookAt
<1>3. w \in Steps /\ w.do = "write" /\ w.file = f
  BY <1>1, WriteType
<1> HIDE DEF w, l, c
<1>4. /\ Rank("install", c) = 10 * Place("install", f) + 1
      /\ Rank("install", w) = 10 * Place("install", f) + 2
      /\ Rank("install", l) = 10 * Place("install", f) + 3
  BY <1>2, <1>3 DEF Rank, Turn, Notes
<1>5. Place("install", f) \in Int
  BY DEF Place
<1>6. List("install", <<w, l>>, {w, l})
  BY <1>2, <1>3, <1>4, <1>5, TwoSteps
<1>7. List("install", When(files[f] # Absent, c), {s \in {c} : files[f] # Absent})
  BY <1>2, OptionalStep
<1>8. List("install", InstallSteps(f), InstallSet(f))
  <2>1. \A s \in {x \in {c} : files[f] # Absent}, t \in {w, l} :
           Rank("install", s) < Rank("install", t)
    BY <1>4, <1>5
  <2> QED BY <2>1, <1>6, <1>7, Joined DEF InstallSteps, InstallSet, CopyOf, LookAt, w, l, c
<1> QED BY <1>4, <1>5, <1>8 DEF InstallSet, w, l, c


LEMMA InstallStarts ==
  ASSUME IntegrationInv, Install
  PROVE  IntegrationInv'
<1> USE DEF IntegrationInv
<1> DEFINE C == InstallSet("config")
           H == InstallSet("hooks")
           L == InstallSet("cli")
           S == ((C \cup H) \cup L) \cup {Note("installed")}
           list == InstallSteps("config") \o InstallSteps("hooks") \o InstallSteps("cli")
                     \o <<Note("installed")>>
           plan == [state |-> "installed", before |-> files, backup |-> Nowhere,
                    post |-> [f \in Files |-> Installed(f)]]
<1>1. /\ files["config"].own = "none" /\ files["hooks"].own \in {"absent", "none"}
      /\ files["cli"] = Absent
      /\ Starts("install", list, plan, NoCutover, 0)
  BY DEF Install
<1>2. /\ Place("install", "config") = 1 /\ Place("install", "hooks") = 2
      /\ Place("install", "cli") = 3
      /\ "config" \in Files /\ "hooks" \in Files /\ "cli" \in Files
  BY DEF Place, Files, Backwards
<1>3. /\ Note("installed") \in Steps /\ Note("installed").do = "installed"
      /\ Rank("install", Note("installed")) = 50
      /\ List("install", <<Note("installed")>>, {Note("installed")})
  <2>1. "installed" \in Notes
    BY DEF Notes
  <2>2. Note("installed") \in Steps /\ Note("installed").do = "installed"
    BY <2>1, NoteType
  <2> HIDE DEF IntegrationInv
  <2> QED BY <2>1, <2>2, OneStep DEF Rank
<1>4. /\ \A s \in C : Rank("install", s) \in 11..13
      /\ \A s \in H : Rank("install", s) \in 21..23
      /\ \A s \in L : Rank("install", s) \in 31..33
  <2>1. \A s : Rank("install", s) \in Int
    BY DEF Rank, Place, Turn
  <2> QED BY <2>1, <1>2, InstallList
<1>5. List("install", list, S)
  <2>1. /\ List("install", InstallSteps("config"), C)
        /\ List("install", InstallSteps("hooks"), H)
        /\ List("install", InstallSteps("cli"), L)
    BY <1>2, InstallList
  <2> HIDE DEF C, H, L
  <2>2. List("install", InstallSteps("config") \o InstallSteps("hooks"), C \cup H)
    BY <2>1, <1>4, Joined
  <2>3. List("install", InstallSteps("config") \o InstallSteps("hooks")
                          \o InstallSteps("cli"), (C \cup H) \cup L)
    BY <2>1, <2>2, <1>4, Joined
  <2>4. \A s \in (C \cup H) \cup L, t \in {Note("installed")} :
           Rank("install", s) < Rank("install", t)
    BY <1>3, <1>4
  <2> QED BY <2>3, <2>4, <1>3, Joined
<1>6. \A s \in S : \/ /\ s.do \in {"copy", "look", "installed"}
                   \/ \E f \in Files : s = Write(f, files[f], Installed(f))
  <2>1. \A f \in Files : CopyOf(f).do = "copy" /\ LookAt(f, Installed(f)).do = "look"
    BY DEF CopyOf, LookAt, FileStep
  <2> QED BY <2>1, <1>2, <1>3 DEF InstallSet
<1>7. \A f \in Files : /\ Write(f, files[f], Installed(f)) \in S
                       /\ files[f] # Absent => CopyOf(f) \in S
                       /\ CopyOf(f).do = "copy" /\ CopyOf(f).file = f
  BY DEF Files, InstallSet, CopyOf, FileStep
<1>8. \A f \in Files : LET w == Write(f, files[f], Installed(f))
                       IN /\ w.do = "write" /\ w.file = f /\ w.new = Installed(f)
                          /\ f # "cli" /\ files[f] # Absent => w.expect = files[f]
  BY InstallTypes, WriteType DEF Typed
<1>9. plan \in Manifests(AnyState) /\ NoCutover \in Cutovers /\ 0 \in 0..MaxCutovers
  <2>1. [f \in Files |-> Installed(f)] \in [Files -> Contents] /\ files \in [Files -> Contents]
    BY InstallTypes DEF Typed
  <2> QED BY <2>1, NothingTypes, IntegrationAssumption DEF Manifests, AnyState
<1>10. \A s \in S : StepOf("install", s.do)
  BY <1>6, <1>8 DEF StepOf
<1> HIDE DEF S, list
<1>11. /\ Started("install", S, plan, NoCutover, 0)
       /\ Typed' /\ Idle' /\ InOrder' /\ Recorded'
  <2>1. "install" \in CommandKinds \ {"none"} /\ S # {}
    BY <1>7, <1>2 DEF CommandKinds
  <2> HIDE DEF IntegrationInv, plan
  <2> QED BY <2>1, <1>1, <1>5, <1>9, <1>10, Starting
<1>12. PlanSound(plan)
  <2>1. /\ plan.before = files
        /\ \A f \in Files : plan.post[f] = Installed(f)
    OBVIOUS
  <2>2. plan.post["hooks"].own # "active" /\ plan.before["hooks"].own # "active"
    BY <2>1, <1>1, <1>2, InstallTypes
  <2> QED BY <2>1, <2>2, <1>1, <1>2, InstallTypes DEF PlanSound
<1>13. Planned'
  <2>1. \A s \in S : s.do \notin {"prepared", "adopted"}
    BY <1>6, <1>8
  <2> QED BY <2>1, <1>11, <1>12 DEF Planned, Started
<1>14. WritesKeep'
  <2> SUFFICES ASSUME NEW f \in Files, NEW w, w = Write(f, files[f], Installed(f))
               PROVE  /\ Keeps(files[f], w.new) /\ w.new \in Contents
                      /\ w.file = "config" /\ w.new.native => files["config"].native
                      /\ w.file = "hooks" => w.new.own # "active"
    BY <1>6, <1>8, <1>11 DEF WritesKeep, Started
  <2>1. files[f].text \in Nat
    BY ContentType DEF Typed
  <2> QED BY <2>1, <1>8, InstallTypes DEF Keeps, Same
<1>15. Installs'
  <2> SUFFICES ASSUME NEW f \in Files, files[f] # Absent
               PROVE  Copied(f)'
    BY <1>11 DEF Installs, Started
  <2>1. f # "cli"
    BY <1>1
  <2>2. \A s \in S : s.do \in {"write", "undo"} /\ s.file = f => s.expect = files[f]
    BY <1>6, <1>8, <2>1
  <2>3. Write(f, files[f], Installed(f)) \in Writing(f)'
    BY <1>7, <1>8, <1>11 DEF Writing, Started
  <2> QED BY <2>2, <2>3, <1>7, <1>11 DEF Copied, Writing, Started
<1>16. HalfWay' /\ OffBeforeOn' /\ Restores'
  BY <1>11 DEF HalfWay, OffBeforeOn, Restores, Started
<1> QED BY <1>11, <1>13, <1>14, <1>15, <1>16


(***************************************************************************)
(* What a repair or an upgrade writes is what the manifest expects, but for *)
(* the recipe of the owned file.                                            *)
(***************************************************************************)
LEMMA DesiredKeeps ==
  ASSUME Typed, ManifestSound(manifest), NEW f \in Files
  PROVE  /\ Desired(f) \in Contents
         /\ Same(Desired(f), manifest.before[f])
         /\ \A c : c \in {manifest.post[f], manifest.before[f]} => Same(Desired(f), c)
         /\ f = "config" => /\ Desired(f).native = manifest.before[f].native
                            /\ manifest.post[f].native = manifest.before[f].native
         /\ f = "hooks" => Desired(f).own # "active"
<1>1. manifest.post[f] \in Contents /\ manifest.before[f] \in Contents
  BY DEF Typed, Manifests
<1>2. Same(manifest.post[f], manifest.before[f])
  BY DEF ManifestSound, PlanSound
<1>3. CASE f = "cli"
  <2>1. recipe \in Owns
    BY DEF Typed, Owns
  <2>2. Desired(f) = Plain(recipe) /\ manifest.before[f] = Absent
    BY <1>3 DEF Desired, ManifestSound, PlanSound
  <2>3. Desired(f).text = 0 /\ Desired(f).trust = FALSE /\ Absent.trust = FALSE
    BY <2>2 DEF Plain, Absent
  <2>4. Plain(recipe) \in Contents
    BY <2>1, PlainType
  <2> QED BY <1>2, <1>3, <2>2, <2>3, <2>4, PlainType DEF Same
<1>4. CASE f # "cli"
  <2>1. Desired(f) = manifest.post[f]
    BY <1>4 DEF Desired
  <2> QED BY <1>1, <1>2, <2>1 DEF Same, ManifestSound, PlanSound
<1> QED BY <1>3, <1>4

LEMMA RepairStarts ==
  ASSUME IntegrationInv, NEW chosen \in (SUBSET Files) \ {{}}, Repair(chosen)
  PROVE  IntegrationInv'
<1> USE DEF IntegrationInv
<1> DEFINE wr(f) == Write(f, manifest.before[f], Desired(f))
           due(f) == f \in chosen /\ files[f] # Desired(f)
           lk(f) == FileStep("look", f, Anything, Desired(f))
           W(f) == {t \in {wr(f)} : due(f)}
           K(f) == {t \in {lk(f)} : f \in chosen}
           plan == [manifest EXCEPT !.post = [f \in Files |-> IF f \in chosen THEN Desired(f)
                                                                            ELSE @[f]]]
           note == Note("installed")
           N == {t \in {note} : plan # manifest}
           S == (((((W("config") \cup W("hooks")) \cup W("cli")) \cup K("config"))
                    \cup K("hooks")) \cup K("cli")) \cup N
           list == When(due("config"), wr("config")) \o When(due("hooks"), wr("hooks"))
                     \o When(due("cli"), wr("cli"))
                     \o When("config" \in chosen, lk("config"))
                     \o When("hooks" \in chosen, lk("hooks"))
                     \o When("cli" \in chosen, lk("cli"))
                     \o When(plan # manifest, note)
<1>1. /\ manifest.state = "installed"
      /\ \A f \in chosen : files[f] \in {manifest.post[f], manifest.before[f]}
      /\ Starts("repair", list, plan, NoCutover, 0)
  BY DEF Repair
<1>2. /\ Place("repair", "config") = 1 /\ Place("repair", "hooks") = 2
      /\ Place("repair", "cli") = 3
      /\ "config" \in Files /\ "hooks" \in Files /\ "cli" \in Files
  BY DEF Place, Files, Backwards
<1>3. ManifestSound(manifest)
  BY <1>1 DEF Recorded
<1>4. \A f \in Files : /\ wr(f) \in Steps /\ wr(f).do = "write" /\ wr(f).file = f
                       /\ wr(f).new = Desired(f)
                       /\ lk(f) \in Steps /\ lk(f).do = "look" /\ lk(f).file = f
  <2> TAKE f \in Files
  <2>1. Desired(f) \in Contents /\ manifest.before[f] \in Contents
    BY <1>3, DesiredKeeps DEF Typed, Manifests
  <2>2. /\ wr(f) \in Steps /\ wr(f).do = "write" /\ wr(f).file = f
        /\ wr(f).new = Desired(f)
    BY <2>1, WriteType
  <2>3. "look" \in {"copy", "write", "undo", "look"} \cup Notes
    OBVIOUS
  <2>4. Anything \in Contents \cup {Anything} /\ Desired(f) \in Contents \cup {Anything}
    BY <2>1
  <2> HIDE DEF Anything, IntegrationInv
  <2>5. lk(f) \in Steps /\ lk(f).do = "look" /\ lk(f).file = f
    BY <2>3, <2>4, StepType
  <2> QED BY <2>2, <2>5
<1>5. note \in Steps /\ note.do = "installed" /\ Rank("repair", note) = 50
  <2>1. "installed" \in Notes
    BY DEF Notes
  <2>2. note \in Steps /\ note.do = "installed"
    BY <2>1, NoteType
  <2> QED BY <2>1, <2>2 DEF Rank
<1>6. plan \in Manifests(AnyState) /\ plan.state = "installed"
  <2>1. [f \in Files |-> IF f \in chosen THEN Desired(f) ELSE manifest.post[f]]
           \in [Files -> Contents]
    BY <1>3, DesiredKeeps DEF Typed, Manifests
  <2> QED BY <2>1, <1>1 DEF Typed, Manifests, AnyState
<1>7. /\ plan.before = manifest.before /\ plan.backup = manifest.backup
      /\ \A f \in Files : plan.post[f] = IF f \in chosen THEN Desired(f) ELSE manifest.post[f]
  BY DEF Typed, Manifests
<1>8. ManifestSound(plan)
  <2>1. \A f \in Files : Same(plan.post[f], plan.before[f]) /\ BackedUp(plan, f)
    BY <1>3, <1>7, DesiredKeeps DEF ManifestSound, PlanSound, BackedUp
  <2>2. /\ plan.post["config"].native = plan.before["config"].native
        /\ plan.post["hooks"].own # "active"
    BY <1>2, <1>3, <1>7, DesiredKeeps DEF ManifestSound, PlanSound
  <2> HIDE DEF plan
  <2> QED BY <2>1, <2>2, <1>3, <1>7 DEF ManifestSound, PlanSound
<1> HIDE DEF wr, lk, plan, note
<1>9. \A f \in Files : /\ \A s \in W(f) : Rank("repair", s) = 20 + Place("repair", f)
                       /\ \A s \in K(f) : Rank("repair", s) = 30 + Place("repair", f)
                       /\ List("repair", When(due(f), wr(f)), W(f))
                       /\ List("repair", When(f \in chosen, lk(f)), K(f))
  <2> TAKE f \in Files
  <2>1. \A do \in {"write", "look"} : do \notin Notes
    BY DEF Notes
  <2>2. Rank("repair", wr(f)) = 20 + Place("repair", f)
    BY <2>1, <1>4 DEF Rank, Turn, Place
  <2>3. Rank("repair", lk(f)) = 30 + Place("repair", f)
    BY <2>1, <1>4 DEF Rank, Turn, Place
  <2> HIDE DEF IntegrationInv
  <2>4. due(f) \in BOOLEAN /\ (f \in chosen) \in BOOLEAN
    OBVIOUS
  <2> HIDE DEF due
  <2>5. List("repair", When(due(f), wr(f)), W(f))
    BY <2>4, <1>4, OptionalStep
  <2>6. List("repair", When(f \in chosen, lk(f)), K(f))
    BY <2>4, <1>4, OptionalStep
  <2> QED BY <2>2, <2>3, <2>5, <2>6
<1>10. /\ List("repair", When(plan # manifest, note), N)
       /\ \A s \in N : Rank("repair", s) = 50
  BY <1>5, OptionalStep
<1>11. List("repair", list, S)
  <2> DEFINE l1 == When(due("config"), wr("config"))
             l2 == When(due("hooks"), wr("hooks"))
             l3 == When(due("cli"), wr("cli"))
             l4 == When("config" \in chosen, lk("config"))
             l5 == When("hooks" \in chosen, lk("hooks"))
             l6 == When("cli" \in chosen, lk("cli"))
             l7 == When(plan # manifest, note)
  <2>1. \A f \in Files : /\ List("repair", When(due(f), wr(f)), W(f))
                         /\ \A s \in W(f) : Rank("repair", s) = 20 + Place("repair", f)
                         /\ List("repair", When(f \in chosen, lk(f)), K(f))
                         /\ \A s \in K(f) : Rank("repair", s) = 30 + Place("repair", f)
    BY <1>9
  <2> HIDE DEF W, K, due, IntegrationInv
  <2>2. /\ List("repair", l1, W("config")) /\ \A s \in W("config") : Rank("repair", s) = 21
        /\ List("repair", l2, W("hooks")) /\ \A s \in W("hooks") : Rank("repair", s) = 22
        /\ List("repair", l3, W("cli")) /\ \A s \in W("cli") : Rank("repair", s) = 23
    BY <1>2, <2>1
  <2>3. /\ List("repair", l4, K("config")) /\ \A s \in K("config") : Rank("repair", s) = 31
        /\ List("repair", l5, K("hooks")) /\ \A s \in K("hooks") : Rank("repair", s) = 32
        /\ List("repair", l6, K("cli")) /\ \A s \in K("cli") : Rank("repair", s) = 33
        /\ List("repair", l7, N) /\ \A s \in N : Rank("repair", s) = 50
    BY <1>2, <1>10, <2>1
  <2> HIDE DEF l1, l2, l3, l4, l5, l6, l7, N
  <2>4. List("repair", l1 \o l2, W("config") \cup W("hooks"))
    BY <2>2, <2>3, Joined
  <2>5. List("repair", l1 \o l2 \o l3, (W("config") \cup W("hooks")) \cup W("cli"))
    BY <2>2, <2>3, <2>4, Joined
  <2>6. List("repair", l1 \o l2 \o l3 \o l4,
             ((W("config") \cup W("hooks")) \cup W("cli")) \cup K("config"))
    BY <2>2, <2>3, <2>5, Joined
  <2>7. List("repair", l1 \o l2 \o l3 \o l4 \o l5,
             (((W("config") \cup W("hooks")) \cup W("cli")) \cup K("config")) \cup K("hooks"))
    BY <2>2, <2>3, <2>6, Joined
  <2>8. List("repair", l1 \o l2 \o l3 \o l4 \o l5 \o l6,
             ((((W("config") \cup W("hooks")) \cup W("cli")) \cup K("config"))
                \cup K("hooks")) \cup K("cli"))
    BY <2>2, <2>3, <2>7, Joined
  <2>9. List("repair", l1 \o l2 \o l3 \o l4 \o l5 \o l6 \o l7, S)
    BY <2>2, <2>3, <2>8, Joined
  <2> QED BY <2>9 DEF l1, l2, l3, l4, l5, l6, l7
<1>12. \A s \in S : \/ s.do \in {"look", "installed"}
                    \/ \E f \in chosen : s = wr(f)
  BY <1>4, <1>5, <1>2
<1>13. S # {}
  <2>1. \A f \in chosen : lk(f) \in S
    BY DEF Files
  <2> QED BY <2>1
<1>14. \A s \in S : StepOf("repair", s.do)
  BY <1>12, <1>4 DEF StepOf
<1> HIDE DEF S, list
<1>15. /\ Started("repair", S, plan, NoCutover, 0)
       /\ Typed' /\ Idle' /\ InOrder' /\ Recorded'
  <2>1. "repair" \in CommandKinds \ {"none"}
    BY DEF CommandKinds
  <2>2. NoCutover \in Cutovers /\ 0 \in 0..MaxCutovers
    BY NothingTypes, IntegrationAssumption
  <2> HIDE DEF IntegrationInv
  <2> QED BY <2>1, <2>2, <1>1, <1>6, <1>11, <1>13, <1>14, Starting
<1>16. Planned'
  <2>1. \A s \in S : s.do \notin {"prepared", "adopted"}
    BY <1>12, <1>4
  <2>2. PlanSound(plan)
    BY <1>8 DEF ManifestSound
  <2> QED BY <2>1, <2>2, <1>6, <1>8, <1>15 DEF Planned, Started
<1>17. WritesKeep'
  <2> SUFFICES ASSUME NEW f \in chosen
               PROVE  /\ Keeps(files[f], Desired(f)) /\ Desired(f) \in Contents
                      /\ f = "config" /\ Desired(f).native => files["config"].native
                      /\ f = "hooks" => Desired(f).own # "active"
    BY <1>12, <1>4, <1>15 DEF WritesKeep, Started
  <2>1. files[f].text \in Nat /\ f \in Files
    BY ContentType DEF Typed
  <2>2. Same(Desired(f), files[f])
    BY <2>1, <1>1, <1>3, DesiredKeeps
  <2> QED BY <2>1, <2>2, <1>1, <1>3, DesiredKeeps DEF Keeps, Same
<1>18. HalfWay' /\ OffBeforeOn' /\ Restores' /\ Installs'
  BY <1>15 DEF HalfWay, OffBeforeOn, Restores, Installs, Started
<1> QED BY <1>15, <1>16, <1>17, <1>18


LEMMA UpgradeStarts ==
  ASSUME IntegrationInv, Upgrade
  PROVE  IntegrationInv'
<1> USE DEF IntegrationInv
<1> DEFINE wr == Write("cli", files["cli"], Desired("cli"))
           lk == FileStep("look", "cli", Anything, Desired("cli"))
           note == Note("installed")
           plan == [manifest EXCEPT !.post["cli"] = Desired("cli")]
           S == {wr, lk, note}
<1>1. /\ manifest.state = "installed" /\ files["cli"] = manifest.post["cli"]
      /\ Starts("upgrade", <<wr, lk, note>>, plan, NoCutover, 0)
  BY DEF Upgrade
<1>2. Place("upgrade", "cli") = 3 /\ "cli" \in Files /\ "config" \in Files /\ "hooks" \in Files
  BY DEF Place, Files, Backwards
<1>3. ManifestSound(manifest)
  BY <1>1 DEF Recorded
<1>4. Desired("cli") \in Contents /\ files["cli"] \in Contents
  BY <1>2, <1>3, DesiredKeeps DEF Typed
<1>5. /\ wr \in Steps /\ wr.do = "write" /\ wr.file = "cli" /\ wr.new = Desired("cli")
  BY <1>2, <1>4, WriteType
<1>6. lk \in Steps /\ lk.do = "look" /\ lk.file = "cli"
  <2>1. "look" \in {"copy", "write", "undo", "look"} \cup Notes
    OBVIOUS
  <2>2. Anything \in Contents \cup {Anything} /\ Desired("cli") \in Contents \cup {Anything}
    BY <1>4
  <2> HIDE DEF Anything, IntegrationInv
  <2> QED BY <2>1, <2>2, <1>2, StepType
<1>7. note \in Steps /\ note.do = "installed"
  <2>1. "installed" \in Notes
    BY DEF Notes
  <2> QED BY <2>1, NoteType
<1>8. /\ plan \in Manifests(AnyState) /\ plan.state = "installed"
      /\ plan.before = manifest.before /\ plan.backup = manifest.backup
      /\ \A f \in Files : plan.post[f] = IF f = "cli" THEN Desired(f) ELSE manifest.post[f]
  BY <1>1, <1>2, <1>4 DEF Typed, Manifests, AnyState
<1>9. ManifestSound(plan)
  <2>1. \A f \in Files : Same(plan.post[f], plan.before[f]) /\ BackedUp(plan, f)
    BY <1>2, <1>3, <1>8, DesiredKeeps DEF ManifestSound, PlanSound, BackedUp
  <2> HIDE DEF plan
  <2> QED BY <2>1, <1>2, <1>3, <1>8 DEF ManifestSound, PlanSound
<1> HIDE DEF wr, lk, plan, note
<1>10. List("upgrade", <<wr, lk, note>>, S)
  <2>1. Rank("upgrade", wr) = 23 /\ Rank("upgrade", lk) = 33 /\ Rank("upgrade", note) = 50
    BY <1>2, <1>5, <1>6, <1>7 DEF Rank, Turn, Notes
  <2> HIDE DEF IntegrationInv
  <2> QED BY <2>1, <1>5, <1>6, <1>7, ThreeSteps
<1>11. \A s \in S : StepOf("upgrade", s.do)
  BY <1>5, <1>6, <1>7 DEF StepOf
<1>12. /\ Started("upgrade", S, plan, NoCutover, 0)
       /\ Typed' /\ Idle' /\ InOrder' /\ Recorded'
  <2>1. "upgrade" \in CommandKinds \ {"none"} /\ S # {}
    BY DEF CommandKinds
  <2>2. NoCutover \in Cutovers /\ 0 \in 0..MaxCutovers
    BY NothingTypes, IntegrationAssumption
  <2> HIDE DEF IntegrationInv, S
  <2> QED BY <2>1, <2>2, <1>1, <1>8, <1>10, <1>11, Starting
<1>13. Planned'
  <2>1. \A s \in S : s.do \notin {"prepared", "adopted"}
    BY <1>5, <1>6, <1>7
  <2>2. PlanSound(plan)
    BY <1>9 DEF ManifestSound
  <2> HIDE DEF S
  <2> QED BY <2>1, <2>2, <1>8, <1>9, <1>12 DEF Planned, Started
<1>14. WritesKeep'
  <2>1. Same(Desired("cli"), files["cli"])
    BY <1>1, <1>2, <1>3, DesiredKeeps
  <2>2. Keeps(files["cli"], Desired("cli"))
    BY <2>1, <1>4, ContentType DEF Keeps, Same
  <2>3. \A s \in S : s.do \in {"write", "undo"} => s = wr
    BY <1>6, <1>7
  <2> HIDE DEF S
  <2> QED BY <2>2, <2>3, <1>4, <1>5, <1>12 DEF WritesKeep, Started
<1>15. HalfWay' /\ OffBeforeOn' /\ Restores' /\ Installs'
  BY <1>12 DEF HalfWay, OffBeforeOn, Restores, Installs, Started
<1> QED BY <1>12, <1>13, <1>14, <1>15

LEMMA FourSteps ==
  ASSUME NEW kind, NEW s \in Steps, NEW t \in Steps, NEW u \in Steps, NEW v \in Steps,
         Rank(kind, s) = 21, Rank(kind, t) = 22, Rank(kind, u) = 23, Rank(kind, v) = 50
  PROVE  List(kind, <<s, t, u, v>>, {s, t, u, v})
  BY DEF List, InTurn, Elements

LEMMA UninstallStarts ==
  ASSUME IntegrationInv, Uninstall
  PROVE  IntegrationInv'
<1> USE DEF IntegrationInv
<1> DEFINE note == Note("uninstalled")
           plan == [NotInstalled EXCEPT !.state = "uninstalled"]
           S == {Restored("cli"), Restored("hooks"), Restored("config"), note}
<1>1. /\ manifest.state = "installed" /\ \A f \in Files : files[f] = manifest.post[f]
      /\ Starts("uninstall", <<Restored("cli"), Restored("hooks"), Restored("config"), note>>,
                plan, NoCutover, 0)
  BY DEF Uninstall
<1>2. /\ Place("uninstall", "cli") = 1 /\ Place("uninstall", "hooks") = 2
      /\ Place("uninstall", "config") = 3
      /\ "cli" \in Files /\ "config" \in Files /\ "hooks" \in Files
  BY DEF Place, Files, Backwards
<1>3. ManifestSound(manifest)
  BY <1>1 DEF Recorded
<1>4. \A f \in Files : /\ Restored(f) \in Steps /\ Restored(f).do = "write"
                       /\ Restored(f).file = f /\ Restored(f).new = manifest.before[f]
  <2> TAKE f \in Files
  <2> DEFINE new == IF manifest.before[f] = Absent THEN Absent ELSE manifest.backup[f]
  <2>1. new = manifest.before[f] /\ new \in Contents
    BY <1>3 DEF Typed, Manifests, ManifestSound, BackedUp
  <2>2. "write" \in {"copy", "write", "undo", "look"} \cup Notes
        /\ Anything \in Contents \cup {Anything} /\ new \in Contents \cup {Anything}
    BY <2>1
  <2>3. Restored(f) = FileStep("write", f, Anything, new)
    BY DEF Restored
  <2> HIDE DEF Anything, IntegrationInv, new
  <2> QED BY <2>1, <2>2, <2>3, StepType
<1>5. note \in Steps /\ note.do = "uninstalled"
  <2>1. "uninstalled" \in Notes
    BY DEF Notes
  <2> QED BY <2>1, NoteType
<1>6. plan \in Manifests(AnyState) /\ plan.state = "uninstalled"
  BY NothingTypes DEF Manifests, AnyState
<1> HIDE DEF plan, note
<1>7. List("uninstall", <<Restored("cli"), Restored("hooks"), Restored("config"), note>>, S)
  <2>1. /\ Rank("uninstall", Restored("cli")) = 21 /\ Rank("uninstall", Restored("hooks")) = 22
        /\ Rank("uninstall", Restored("config")) = 23 /\ Rank("uninstall", note) = 50
    BY <1>2, <1>4, <1>5 DEF Rank, Turn, Notes
  <2> HIDE DEF IntegrationInv
  <2> QED BY <2>1, <1>2, <1>4, <1>5, FourSteps
<1>8. \A s \in S : s = note \/ \E f \in Files : s = Restored(f)
  BY <1>2
<1>9. \A f \in Files : Restored(f) \in S
  BY DEF Files
<1>10. \A s \in S : StepOf("uninstall", s.do)
  BY <1>4, <1>5, <1>8 DEF StepOf
<1> HIDE DEF S
<1>11. /\ Started("uninstall", S, plan, NoCutover, 0)
       /\ Typed' /\ Idle' /\ InOrder' /\ Recorded'
  <2>1. "uninstall" \in CommandKinds \ {"none"} /\ S # {}
    BY <1>2, <1>9 DEF CommandKinds
  <2>2. NoCutover \in Cutovers /\ 0 \in 0..MaxCutovers
    BY NothingTypes, IntegrationAssumption
  <2> HIDE DEF IntegrationInv
  <2> QED BY <2>1, <2>2, <1>1, <1>6, <1>7, <1>10, Starting
<1>12. Planned'
  <2>1. \A s \in S : s.do \notin {"prepared", "adopted"}
    BY <1>4, <1>5, <1>8
  <2> QED BY <2>1, <1>1, <1>6, <1>11 DEF Planned, Started
<1>13. WritesKeep'
  <2> SUFFICES ASSUME NEW f \in Files
               PROVE  /\ Keeps(files[f], manifest.before[f]) /\ manifest.before[f] \in Contents
                      /\ f = "config" /\ manifest.before[f].native => files["config"].native
                      /\ f = "hooks" => manifest.before[f].own # "active"
    BY <1>4, <1>5, <1>8, <1>11 DEF WritesKeep, Started
  <2>1. files[f].text \in Nat /\ manifest.before[f] \in Contents
    BY ContentType DEF Typed, Manifests
  <2>2. Same(files[f], manifest.before[f])
    BY <1>1, <1>3 DEF ManifestSound, PlanSound
  <2> QED BY <2>1, <2>2, <1>1, <1>3 DEF Keeps, Same, ManifestSound, PlanSound
<1>14. Restores'
  <2>1. \A f \in Files : Writing(f)' # {} /\ \A s \in Writing(f)' : s.new = manifest.before[f]
    BY <1>4, <1>5, <1>8, <1>9, <1>11 DEF Started, Writing
  <2> QED BY <2>1, <1>11 DEF Restores, Started
<1>15. HalfWay' /\ OffBeforeOn' /\ Installs'
  BY <1>11 DEF HalfWay, OffBeforeOn, Installs, Started
<1> QED BY <1>11, <1>12, <1>13, <1>14, <1>15

LEMMA AdoptStarts ==
  ASSUME IntegrationInv, Adopt
  PROVE  IntegrationInv'
<1> USE DEF IntegrationInv
<1> DEFINE first == Note("installed")
           last == Note("adopted")
           plan == [manifest EXCEPT !.before = WithoutEntries, !.post = AsShadow,
                                    !.backup = WithoutEntries]
           cut == [state |-> "active", source |-> AsShadow, target |-> files]
           S == {first, last}
<1>1. /\ Len(cutovers) < MaxCutovers /\ manifest.state = "installed"
      /\ files["cli"] = manifest.post["cli"]
      /\ files["config"].own = "mcp" /\ ~files["config"].native
      /\ Starts("adopt", <<first, last>>, plan, cut, Len(cutovers) + 1)
  BY DEF Adopt
<1>2. "cli" \in Files /\ "config" \in Files /\ "hooks" \in Files
  BY DEF Files
<1>3. ManifestSound(manifest)
  BY <1>1 DEF Recorded
<1>4. files \in [Files -> Contents] /\ manifest.before \in [Files -> Contents]
  BY DEF Typed, Manifests
<1>5. /\ \A f \in Files : WithoutEntries[f] = IF f = "cli" THEN manifest.before[f]
                                              ELSE [files[f] EXCEPT !.own = "none"]
      /\ \A f \in Files : AsShadow[f] = IF f = "hooks" THEN [files[f] EXCEPT !.own = "shadow"]
                                                       ELSE files[f]
      /\ WithoutEntries \in [Files -> Contents] /\ AsShadow \in [Files -> Contents]
  <2>1. \A c \in Contents : [c EXCEPT !.own = "none"] \in Contents
                            /\ [c EXCEPT !.own = "shadow"] \in Contents
    BY ContentType DEF Owns
  <2> QED BY <2>1, <1>2, <1>4 DEF WithoutEntries, AsShadow
<1>6. \A f \in Files : /\ [files[f] EXCEPT !.own = "none"].text = files[f].text
                       /\ [files[f] EXCEPT !.own = "none"].trust = files[f].trust
                       /\ [files[f] EXCEPT !.own = "none"].native = files[f].native
                       /\ [files[f] EXCEPT !.own = "none"].own = "none"
                       /\ [files[f] EXCEPT !.own = "shadow"].text = files[f].text
                       /\ [files[f] EXCEPT !.own = "shadow"].trust = files[f].trust
                       /\ [files[f] EXCEPT !.own = "shadow"].own = "shadow"
  BY <1>4 DEF Contents
<1>7. /\ plan \in Manifests(AnyState) /\ plan.state = "installed"
      /\ plan.before = WithoutEntries /\ plan.backup = WithoutEntries /\ plan.post = AsShadow
  BY <1>1, <1>5 DEF Typed, Manifests, AnyState
<1>8. ManifestSound(plan)
  <2>1. \A f \in Files : Same(AsShadow[f], WithoutEntries[f])
    <3> TAKE f \in Files
    <3>1. CASE f = "cli"
      <4>1. AsShadow[f] = manifest.post[f] /\ WithoutEntries[f] = manifest.before[f]
        BY <3>1, <1>1, <1>5
      <4>2. Same(manifest.post[f], manifest.before[f])
        BY <1>3 DEF ManifestSound, PlanSound
      <4> QED BY <4>1, <4>2 DEF Same
    <3>2. CASE f # "cli"
      <4>1. Same(WithoutEntries[f], files[f])
        <5>1. WithoutEntries[f] = [files[f] EXCEPT !.own = "none"]
          BY <3>2, <1>5
        <5> QED BY <5>1, <1>6 DEF Same
      <4>2. Same(AsShadow[f], files[f])
        <5>1. AsShadow[f] = files[f] \/ AsShadow[f] = [files[f] EXCEPT !.own = "shadow"]
          BY <1>5
        <5> QED BY <5>1, <1>6 DEF Same
      <4> QED BY <4>1, <4>2 DEF Same
    <3> QED BY <3>1, <3>2
  <2>2. /\ WithoutEntries["cli"] = Absent
        /\ AsShadow["config"].native = WithoutEntries["config"].native
        /\ AsShadow["hooks"].own # "active" /\ WithoutEntries["hooks"].own # "active"
    <3>1. WithoutEntries["cli"] = Absent
      BY <1>2, <1>3, <1>5 DEF ManifestSound, PlanSound
    <3>2. AsShadow["config"].native = WithoutEntries["config"].native
      BY <1>2, <1>5, <1>6
    <3>3. AsShadow["hooks"].own = "shadow" /\ WithoutEntries["hooks"].own = "none"
      BY <1>2, <1>5, <1>6
    <3> QED BY <3>1, <3>2, <3>3
  <2> HIDE DEF plan
  <2> QED BY <2>1, <2>2, <1>7 DEF ManifestSound, PlanSound, BackedUp
<1>9. cut \in Cutovers /\ CutoverSound(cut)
  <2>1. \A f \in Files : Same(files[f], AsShadow[f])
    BY <1>5, <1>6 DEF Same
  <2>2. AsShadow["hooks"].own # "active"
    BY <1>2, <1>5, <1>6
  <2>3. cut.state = "active" /\ cut.source = AsShadow /\ cut.target = files
    OBVIOUS
  <2>4. cut \in Cutovers
    BY <1>4, <1>5 DEF Cutovers
  <2> HIDE DEF cut
  <2> QED BY <2>1, <2>2, <2>3, <2>4, <1>1 DEF CutoverSound
<1>10. first \in Steps /\ first.do = "installed" /\ last \in Steps /\ last.do = "adopted"
  <2>1. "installed" \in Notes /\ "adopted" \in Notes
    BY DEF Notes
  <2> QED BY <2>1, NoteType
<1>11. Len(cutovers) + 1 \in 0..MaxCutovers
  <2>1. Len(cutovers) \in Nat
    BY LenProperties DEF Typed
  <2> QED BY <2>1, <1>1, IntegrationAssumption
<1>12. cut.state = "active"
  OBVIOUS
<1> HIDE DEF plan, cut, first, last
<1>13. List("adopt", <<first, last>>, S)
  <2>1. Rank("adopt", first) = 50 /\ Rank("adopt", last) = 51
    BY <1>10 DEF Rank, Notes
  <2> HIDE DEF IntegrationInv
  <2> QED BY <2>1, <1>10, TwoSteps
<1>14. \A s \in S : StepOf("adopt", s.do)
  BY <1>10 DEF StepOf
<1>15. /\ Started("adopt", S, plan, cut, Len(cutovers) + 1)
       /\ Typed' /\ Idle' /\ InOrder' /\ Recorded'
  <2>1. "adopt" \in CommandKinds \ {"none"} /\ S # {}
    BY DEF CommandKinds
  <2> HIDE DEF IntegrationInv, S
  <2> QED BY <2>1, <1>1, <1>7, <1>9, <1>11, <1>13, <1>14, Starting
<1>16. Planned'
  <2>1. PlanSound(plan)
    BY <1>8 DEF ManifestSound
  <2> HIDE DEF S
  <2> QED BY <2>1, <1>1, <1>7, <1>8, <1>9, <1>12, <1>15 DEF Planned, Started
<1>17. WritesKeep'
  <2>1. \A s \in S : s.do \notin {"write", "undo"}
    BY <1>10
  <2> HIDE DEF S
  <2> QED BY <2>1, <1>15 DEF WritesKeep, Started
<1>18. HalfWay' /\ OffBeforeOn' /\ Restores' /\ Installs'
  BY <1>15 DEF HalfWay, OffBeforeOn, Restores, Installs, Started
<1> QED BY <1>15, <1>16, <1>17, <1>18


LEMMA CutoverStarts ==
  ASSUME IntegrationInv, Cutover
  PROVE  IntegrationInv'
<1> USE DEF IntegrationInv
<1> DEFINE T == CutoverTarget
           wr(f) == Write(f, files[f], T[f])
           first == Note("prepared")
           last == Note("active")
           cut == [state |-> "prepared", source |-> files, target |-> T]
           O == {t \in {wr("config")} : T["config"] # files["config"]}
           S == ({first} \cup O) \cup {wr("hooks"), last}
           list == <<first>> \o When(T["config"] # files["config"], wr("config"))
                     \o <<wr("hooks"), last>>
<1>1. /\ Len(cutovers) < MaxCutovers /\ files["hooks"].own = "shadow"
      /\ Starts("cutover", list, NotInstalled, cut, Len(cutovers) + 1)
  BY DEF Cutover
<1>2. /\ "cli" \in Files /\ "config" \in Files /\ "hooks" \in Files
      /\ Place("cutover", "config") = 1 /\ Place("cutover", "hooks") = 2
  BY DEF Files, Place, Backwards
<1>3. files \in [Files -> Contents]
  BY DEF Typed
<1>4. /\ T["config"] = [files["config"] EXCEPT !.native = FALSE]
      /\ T["hooks"] = [files["hooks"] EXCEPT !.own = "active"]
      /\ \A f \in Files : f \notin {"config", "hooks"} => T[f] = files[f]
      /\ T \in [Files -> Contents]
  <2>1. /\ [files["config"] EXCEPT !.native = FALSE] \in Contents
        /\ [files["hooks"] EXCEPT !.own = "active"] \in Contents
    BY <1>2, <1>3, ContentType DEF Owns
  <2> QED BY <2>1, <1>2, <1>3 DEF CutoverTarget
<1>5. \A f \in Files : Same(T[f], files[f])
  <2> TAKE f \in Files
  <2>1. files[f] \in Contents
    BY <1>3
  <2>2. /\ Same([files[f] EXCEPT !.native = FALSE], files[f])
        /\ Same([files[f] EXCEPT !.own = "active"], files[f])
        /\ Same(files[f], files[f])
    BY <2>1 DEF Same, Contents
  <2>3. CASE f = "config"
    BY <2>2, <2>3, <1>4
  <2>4. CASE f = "hooks"
    BY <2>2, <2>4, <1>4
  <2>5. CASE f \notin {"config", "hooks"}
    BY <2>2, <2>5, <1>4
  <2> QED BY <2>3, <2>4, <2>5
<1>6. /\ T["config"].native = FALSE
      /\ T["config"] = files["config"] => ~files["config"].native
  <2>1. files["config"] \in Contents
    BY <1>2, <1>3
  <2>2. T["config"].native = FALSE
    BY <2>1, <1>4 DEF Contents
  <2> QED BY <2>2
<1>7. cut \in Cutovers /\ CutoverSound(cut) /\ cut.state = "prepared"
      /\ cut.source = files /\ cut.target = T
  <2>1. cut.state = "prepared" /\ cut.source = files /\ cut.target = T
    OBVIOUS
  <2>2. cut \in Cutovers
    BY <1>3, <1>4 DEF Cutovers
  <2> HIDE DEF cut, T
  <2> QED BY <2>1, <2>2, <1>1, <1>5, <1>6 DEF CutoverSound
<1> HIDE DEF T, cut
<1>8. \A f \in Files : /\ wr(f) \in Steps /\ wr(f).do = "write" /\ wr(f).file = f
                       /\ wr(f).new = T[f]
  <2> TAKE f \in Files
  <2>1. files[f] \in Contents /\ T[f] \in Contents
    BY <1>3, <1>4
  <2> HIDE DEF IntegrationInv
  <2> QED BY <2>1, WriteType
<1> HIDE DEF wr
<1>9. /\ first \in Steps /\ first.do = "prepared" /\ last \in Steps /\ last.do = "active"
  <2>1. "prepared" \in Notes /\ "active" \in Notes
    BY DEF Notes
  <2> QED BY <2>1, NoteType
<1> HIDE DEF first, last
<1>10. List("cutover", list, S)
  <2>1. /\ Rank("cutover", first) = 0 /\ Rank("cutover", last) = 50
        /\ Rank("cutover", wr("config")) = 21 /\ Rank("cutover", wr("hooks")) = 22
    BY <1>2, <1>8, <1>9 DEF Rank, Turn, Notes
  <2>2. (T["config"] # files["config"]) \in BOOLEAN
    OBVIOUS
  <2> HIDE DEF IntegrationInv
  <2>3. List("cutover", <<first>>, {first})
    BY <1>9, OneStep
  <2>4. List("cutover", When(T["config"] # files["config"], wr("config")), O)
    BY <2>2, <1>2, <1>8, OptionalStep
  <2>5. List("cutover", <<wr("hooks"), last>>, {wr("hooks"), last})
    BY <2>1, <1>2, <1>8, <1>9, TwoSteps
  <2>6. List("cutover", <<first>> \o When(T["config"] # files["config"], wr("config")),
             {first} \cup O)
    BY <2>1, <2>3, <2>4, Joined
  <2>7. \A s \in {first} \cup O, t \in {wr("hooks"), last} :
           Rank("cutover", s) < Rank("cutover", t)
    BY <2>1
  <2> QED BY <2>5, <2>6, <2>7, Joined
<1>11. /\ \A s \in S : s \in {first, last} \/ s \in {wr("config"), wr("hooks")}
       /\ first \in S /\ wr("hooks") \in S
       /\ T["config"] # files["config"] => wr("config") \in S
  OBVIOUS
<1>12. \A s \in S : StepOf("cutover", s.do)
  BY <1>2, <1>8, <1>9, <1>11 DEF StepOf
<1>13. Len(cutovers) + 1 \in 0..MaxCutovers
  <2>1. Len(cutovers) \in Nat
    BY LenProperties DEF Typed
  <2> QED BY <2>1, <1>1, IntegrationAssumption
<1> HIDE DEF S, list
<1>14. /\ Started("cutover", S, NotInstalled, cut, Len(cutovers) + 1)
       /\ Typed' /\ Idle' /\ InOrder' /\ Recorded'
  <2>1. "cutover" \in CommandKinds \ {"none"} /\ S # {}
    BY <1>11 DEF CommandKinds
  <2> HIDE DEF IntegrationInv
  <2> QED BY <2>1, <1>1, <1>7, <1>10, <1>12, <1>13, NothingTypes, Starting
<1>15. Planned'
  BY <1>1, <1>7, <1>14 DEF Planned, Started
<1>16. WritesKeep'
  <2>1. \A s \in S : s.do \in {"write", "undo"} => s \in {wr("config"), wr("hooks")}
    BY <1>9, <1>11
  <2>2. \A f \in Files : Keeps(files[f], T[f])
    <3> TAKE f \in Files
    <3>1. files[f].text \in Nat
      BY <1>3, ContentType
    <3> QED BY <3>1, <1>5 DEF Keeps, Same
  <2>3. T["config"] \in Contents /\ T["hooks"] \in Contents /\ ~T["config"].native
    BY <1>2, <1>4, <1>6
  <2> HIDE DEF IntegrationInv
  <2> QED BY <2>1, <2>2, <2>3, <1>2, <1>8, <1>14 DEF WritesKeep, Started
<1>17. HalfWay'
  <2>1. \A f \in Files : \A s \in Writing(f)' : s.new = T[f]
    BY <1>2, <1>8, <1>9, <1>11, <1>14 DEF Writing, Started
  <2> QED BY <2>1, <1>7, <1>14 DEF HalfWay, Started
<1>18. OffBeforeOn'
  <2>1. T["config"] # files["config"] => Writing("config")' # {}
    BY <1>2, <1>8, <1>11, <1>14 DEF Writing, Started
  <2> QED BY <2>1, <1>6, <1>14 DEF OffBeforeOn, Started
<1>19. Restores' /\ Installs'
  BY <1>14 DEF Restores, Installs, Started
<1> QED BY <1>14, <1>15, <1>16, <1>17, <1>18, <1>19

LEMMA RollbackStarts ==
  ASSUME IntegrationInv, NEW k \in DOMAIN cutovers, Rollback(k)
  PROVE  IntegrationInv'
<1> USE DEF IntegrationInv
<1> DEFINE c == cutovers[k]
           config == [files["config"] EXCEPT !.native = c.source["config"].native]
           wh == Write("hooks", files["hooks"], c.source["hooks"])
           wc == Write("config", files["config"], config)
           last == Note("rolled_back")
           O == {t \in {wc} : config # files["config"]}
           S == ({wh} \cup O) \cup {last}
           list == <<wh>> \o When(config # files["config"], wc) \o <<last>>
<1>1. /\ c.state # "rolled_back" /\ files["hooks"] = c.target["hooks"]
      /\ Untrusted(config) = Untrusted(c.source["config"])
      /\ Starts("rollback", list, NotInstalled, c, k)
  BY DEF Rollback
<1>2. /\ "cli" \in Files /\ "config" \in Files /\ "hooks" \in Files
      /\ Place("rollback", "config") = 3 /\ Place("rollback", "hooks") = 2
  BY DEF Files, Place, Backwards
<1>3. /\ c \in Cutovers /\ CutoverSound(c) /\ c.state \in {"prepared", "active"}
      /\ k \in 0..MaxCutovers
  <2>1. Len(cutovers) \in Nat /\ DOMAIN cutovers = 1..Len(cutovers) /\ c \in Cutovers
    BY LenProperties, ElementOfSeq DEF Typed
  <2> QED BY <2>1, <1>1, IntegrationAssumption DEF Typed, Recorded, Cutovers
<1>4. /\ files["config"] \in Contents /\ files["hooks"] \in Contents
      /\ c.source["hooks"] \in Contents /\ c.source["config"] \in Contents
  BY <1>2, <1>3 DEF Typed, Cutovers
<1>5. config \in Contents /\ Same(config, files["config"])
  BY <1>4, ContentType DEF Same, Contents
<1>6. Same(c.source["hooks"], files["hooks"]) /\ c.source["hooks"].own # "active"
  BY <1>1, <1>2, <1>3 DEF CutoverSound, Same
<1> HIDE DEF c, config
<1>7. /\ wh \in Steps /\ wh.do = "write" /\ wh.file = "hooks" /\ wh.new = c.source["hooks"]
      /\ wc \in Steps /\ wc.do = "write" /\ wc.file = "config" /\ wc.new = config
  <2> HIDE DEF IntegrationInv
  <2> QED BY <1>2, <1>4, <1>5, WriteType
<1>8. last \in Steps /\ last.do = "rolled_back"
  <2>1. "rolled_back" \in Notes
    BY DEF Notes
  <2> QED BY <2>1, NoteType
<1> HIDE DEF wh, wc, last
<1>9. List("rollback", list, S)
  <2>1. /\ Rank("rollback", wh) = 22 /\ Rank("rollback", wc) = 23
        /\ Rank("rollback", last) = 50
    BY <1>2, <1>7, <1>8 DEF Rank, Turn, Notes
  <2>2. (config # files["config"]) \in BOOLEAN
    OBVIOUS
  <2> HIDE DEF IntegrationInv
  <2>3. List("rollback", <<wh>>, {wh}) /\ List("rollback", <<last>>, {last})
    BY <1>7, <1>8, OneStep
  <2>4. List("rollback", When(config # files["config"], wc), O)
    BY <2>2, <1>7, OptionalStep
  <2>5. List("rollback", <<wh>> \o When(config # files["config"], wc), {wh} \cup O)
    BY <2>1, <2>3, <2>4, Joined
  <2>6. \A s \in {wh} \cup O, t \in {last} : Rank("rollback", s) < Rank("rollback", t)
    BY <2>1
  <2> QED BY <2>3, <2>5, <2>6, Joined
<1>10. /\ \A s \in S : s \in {wh, wc, last}
       /\ wh \in S /\ (config # files["config"] => wc \in S)
  OBVIOUS
<1>11. \A s \in S : StepOf("rollback", s.do)
  BY <1>7, <1>8, <1>10 DEF StepOf
<1> HIDE DEF S, list
<1>12. /\ Started("rollback", S, NotInstalled, c, k)
       /\ Typed' /\ Idle' /\ InOrder' /\ Recorded'
  <2>1. "rollback" \in CommandKinds \ {"none"} /\ S # {}
    BY <1>10 DEF CommandKinds
  <2> HIDE DEF IntegrationInv
  <2> QED BY <2>1, <1>1, <1>3, <1>9, <1>11, NothingTypes, Starting
<1>13. Planned'
  <2>1. \A s \in S : s.do \notin {"prepared", "adopted"}
    BY <1>7, <1>8, <1>10
  <2> QED BY <2>1, <1>3, <1>12 DEF Planned, Started, c
<1>14. WritesKeep'
  <2>1. Keeps(files["hooks"], wh.new) /\ Keeps(files["config"], wc.new)
    BY <1>4, <1>5, <1>6, <1>7, ContentType DEF Keeps, Same
  <2> QED BY <2>1, <1>4, <1>5, <1>6, <1>7, <1>8, <1>10, <1>12 DEF WritesKeep, Started
<1>15. /\ wh \in Writing("hooks")' /\ (config # files["config"] => wc \in Writing("config")')
       /\ \A s \in Writing("hooks")' : s = wh
       /\ \A s \in Writing("config")' : s = wc
  BY <1>7, <1>8, <1>10, <1>12 DEF Writing, Started
<1>16. OffBeforeOn'
  BY <1>12, <1>15 DEF OffBeforeOn, Started
<1>17. Restores'
  BY <1>1, <1>7, <1>12, <1>15 DEF Restores, Started
<1>18. HalfWay' /\ Installs'
  BY <1>12 DEF HalfWay, Installs, Started
<1> QED BY <1>12, <1>13, <1>14, <1>16, <1>17, <1>18


-----------------------------------------------------------------------------
(***************************************************************************)
(* How a command goes on, or ends.                                          *)
(***************************************************************************)
LEMMA Heading ==
  ASSUME Typed, InOrder, command.todo # <<>>
  PROVE  /\ Head(command.todo) \in Left /\ Head(command.todo) \in Steps
         /\ StepOf(command.kind, Head(command.todo).do)
         /\ List(command.kind, Tail(command.todo), Left \ {Head(command.todo)})
         /\ \A s \in Left \ {Head(command.todo)} :
              Rank(command.kind, Head(command.todo)) < Rank(command.kind, s)
         /\ Tail(command.todo) = <<>> <=> Left = {Head(command.todo)}
         /\ Left \subseteq Steps
<1>1. List(command.kind, command.todo, Left)
  BY DEF Typed, Commands, InOrder, List, Left
<1> QED BY <1>1, HeadAndTail DEF InOrder

LEMMA Ended ==
  ASSUME IntegrationInv, Typed', Recorded', command' = NoCommand, edited' = {}
  PROVE  IntegrationInv'
<1>1. Left' = {} /\ command'.kind = "none" /\ command'.todo = <<>>
  BY NothingTypes DEF Left, NoCommand
<1>2. Idle' /\ InOrder'
  BY <1>1 DEF Idle, InOrder, InTurn
<1>3. Planned' /\ WritesKeep' /\ HalfWay' /\ OffBeforeOn' /\ Restores' /\ Installs'
  BY <1>1 DEF Planned, WritesKeep, HalfWay, OffBeforeOn, Restores, Installs
<1> QED BY <1>2, <1>3 DEF IntegrationInv

(***************************************************************************)
(* The list after the first step, unless it was the last.                   *)
(***************************************************************************)
Went(c, S) ==
  /\ edited' = edited /\ Left' = S
  /\ command'.kind = c.kind /\ command'.plan = c.plan /\ command'.cut = c.cut
  /\ command'.at = c.at /\ ~command'.compared
  /\ command' \in Commands /\ Idle' /\ InOrder'

LEMMA GoingOn ==
  ASSUME NEW c \in Commands, c.kind # "none", NEW todo, NEW S, List(c.kind, todo, S),
         \A s \in S : StepOf(c.kind, s.do), GoesOn(c, todo)
  PROVE  \/ command' = NoCommand /\ edited' = {} /\ S = {}
         \/ Went(c, S) /\ S # {}
<1>1. CASE todo = <<>>
  BY <1>1, NothingTypes DEF GoesOn, List
<1>2. CASE todo # <<>>
  <2>1. command' = [c EXCEPT !.todo = todo, !.compared = FALSE] /\ edited' = edited
    BY <1>2 DEF GoesOn
  <2>2. /\ command'.kind = c.kind /\ command'.plan = c.plan /\ command'.cut = c.cut
        /\ command'.at = c.at /\ command'.compared = FALSE /\ command'.todo = todo
        /\ command' \in Commands
    BY <2>1 DEF Commands, List
  <2>3. command' # NoCommand
    BY <2>2 DEF NoCommand
  <2>4. Left' = S
    BY <2>2 DEF Left, List
  <2>5. S # {}
    BY <1>2, HeadAndTail
  <2>6. Idle'
    BY <2>2, <2>3, <1>2 DEF Idle
  <2>7. InOrder'
    BY <2>2, <2>4 DEF InOrder, List
  <2> QED BY <2>1, <2>2, <2>4, <2>5, <2>6, <2>7 DEF Went
<1> QED BY <1>1, <1>2

LEMMA NextSteps ==
  ASSUME IntegrationInv, command.todo # <<>>, NEW c \in Commands, c.kind = command.kind,
         GoesOn(c, Tail(command.todo))
  PROVE  \/ command' = NoCommand /\ edited' = {} /\ Left = {Head(command.todo)}
         \/ Went(c, Left \ {Head(command.todo)})
<1>1. c.kind # "none"
  BY DEF IntegrationInv, Idle
<1>2. \A s \in Left : StepOf(command.kind, s.do)
  BY DEF IntegrationInv, InOrder
<1>3. List(c.kind, Tail(command.todo), Left \ {Head(command.todo)})
  BY Heading DEF IntegrationInv
<1>4. Head(command.todo) \in Left
  BY Heading DEF IntegrationInv
<1> QED BY <1>1, <1>2, <1>3, <1>4, GoingOn

(***************************************************************************)
(* A file is written once.                                                  *)
(***************************************************************************)
LEMMA WrittenOnce ==
  ASSUME IntegrationInv, command.todo # <<>>, Head(command.todo).do \in {"write", "undo"},
         NEW s \in Left \ {Head(command.todo)}, s.do \in {"write", "undo"}
  PROVE  s.file # Head(command.todo).file
<1> DEFINE h == Head(command.todo)
<1>1. /\ h \in Left /\ Rank(command.kind, h) < Rank(command.kind, s)
  BY Heading DEF IntegrationInv
<1>2. h.do \notin Notes /\ s.do \notin Notes
  BY DEF Notes
<1>3. Turn(h.do) = 2 /\ Turn(s.do) = 2
  BY DEF Turn
<1> HIDE DEF h
<1>4. ASSUME h.file = s.file PROVE FALSE
  <2>1. Rank(command.kind, h) = Rank(command.kind, s)
    BY <1>2, <1>3, <1>4 DEF Rank
  <2>2. Rank(command.kind, h) \in Int
    BY DEF Rank, Place, Turn
  <2> QED BY <2>1, <2>2, <1>1
<1> QED BY <1>4 DEF h

(***************************************************************************)
(* A step that writes no file.                                              *)
(***************************************************************************)
LEMMA Passing ==
  ASSUME IntegrationInv, command.todo # <<>>,
         Head(command.todo).do \notin {"write", "undo"}, NEW c,
         c.kind = command.kind, c.cut = command.cut,
         Went(c, Left \ {Head(command.todo)}), files' = files,
         command.kind = "uninstall" => manifest' = manifest,
         Typed', Recorded', Planned', Installs'
  PROVE  IntegrationInv'
<1> USE DEF IntegrationInv, Went
<1>1. \A f \in Files : Writing(f)' = Writing(f)
  BY DEF Writing
<1>2. WritesKeep'
  BY DEF WritesKeep
<1>3. "config" \in Files /\ "hooks" \in Files
  BY DEF Files
<1>4. HalfWay'
  BY <1>1 DEF HalfWay
<1>5. OffBeforeOn'
  BY <1>1, <1>3 DEF OffBeforeOn
<1>6. Restores'
  BY <1>1, <1>3 DEF Restores
<1> QED BY <1>2, <1>4, <1>5, <1>6

LEMMA LookPasses ==
  ASSUME IntegrationInv, LookAgain
  PROVE  IntegrationInv'
<1> USE DEF IntegrationInv
<1> DEFINE h == Head(command.todo)
<1>1. command.todo # <<>> /\ h.do = "look"
  BY DEF LookAgain, Doing
<1>2. UNCHANGED <<files, recipe, manifest, cutovers, faults>>
  BY DEF LookAgain
<1>3. command \in Commands /\ NoCommand \in Commands
  BY NothingTypes DEF Typed
<1>4. GoesOn(command, Tail(command.todo)) \/ GoesOn(command, <<>>)
  BY <1>1 DEF LookAgain, Throws, Doing
<1>5. CASE command' = NoCommand /\ edited' = {}
  <2>1. Typed' /\ Recorded'
    BY <1>2, <1>3, <1>5 DEF Typed, Recorded
  <2> QED BY <2>1, <1>5, Ended
<1>6. CASE Went(command, Left \ {h})
  <2>1. Typed' /\ Recorded'
    BY <1>2, <1>6 DEF Typed, Recorded, Went
  <2>2. Planned'
    BY <1>2, <1>6 DEF Planned, Went
  <2>3. Installs'
    <3>1. \A f \in Files : Writing(f)' = Writing(f)
      BY <1>1, <1>6 DEF Writing, Went
    <3>2. \A s \in Left : s.do = "copy" => s \in Left'
      BY <1>1, <1>6 DEF Went
    <3> QED BY <3>1, <3>2, <1>2, <1>6 DEF Installs, Copied, Went
  <2> QED BY <2>1, <2>2, <2>3, <1>1, <1>2, <1>6, Passing DEF Went
<1> QED BY <1>1, <1>3, <1>4, <1>5, <1>6, NextSteps DEF GoesOn


LEMMA CopyPasses ==
  ASSUME IntegrationInv, CopyBackup
  PROVE  IntegrationInv'
<1> USE DEF IntegrationInv
<1> DEFINE h == Head(command.todo)
           c == [command EXCEPT !.plan.backup[h.file] = files[h.file]]
<1>1. command.todo # <<>> /\ h.do = "copy"
  BY DEF CopyBackup, Doing
<1>2. /\ UNCHANGED <<files, recipe, manifest, cutovers, faults>>
      /\ GoesOn(c, Tail(command.todo))
  BY DEF CopyBackup
<1>3. command.kind = "install" /\ h \in Left /\ h \in Steps
  BY <1>1, Heading DEF StepOf
<1>4. h.file \in Files /\ files[h.file] \in Contents
  BY <1>3 DEF Steps, Typed
<1>5. /\ c \in Commands /\ c.kind = command.kind /\ c.cut = command.cut
      /\ c.plan.state = command.plan.state
      /\ c.plan.before = command.plan.before /\ c.plan.post = command.plan.post
      /\ \A f \in Files : c.plan.backup[f] = IF f = h.file THEN files[f]
                                             ELSE command.plan.backup[f]
  <2>1. command \in Commands /\ command.plan.backup \in [Files -> Contents]
    BY DEF Typed, Commands, Manifests
  <2>2. [command.plan.backup EXCEPT ![h.file] = files[h.file]] \in [Files -> Contents]
    BY <2>1, <1>4
  <2>3. [command.plan EXCEPT !.backup[h.file] = files[h.file]] \in Manifests(AnyState)
    BY <2>1, <2>2 DEF Commands, Manifests, AnyState
  <2>4. c = [command EXCEPT !.plan = [command.plan EXCEPT !.backup[h.file] = files[h.file]]]
    BY <2>1 DEF Commands, Manifests
  <2> QED BY <2>1, <2>3, <2>4, <1>4 DEF Commands, Manifests, AnyState
<1> HIDE DEF c
<1>6. CASE command' = NoCommand /\ edited' = {}
  <2>1. Typed' /\ Recorded'
    BY <1>2, <1>6, NothingTypes DEF Typed, Recorded
  <2> QED BY <2>1, <1>6, Ended
<1>7. CASE Went(c, Left \ {h})
  <2>1. Typed' /\ Recorded'
    BY <1>2, <1>7 DEF Typed, Recorded, Went
  <2>2. Planned'
    BY <1>2, <1>3, <1>5, <1>7 DEF Planned, PlanSound, Went
  <2>3. Installs'
    <3> SUFFICES ASSUME NEW f \in Files, command.plan.before[f] # Absent
                 PROVE  Copied(f)'
      BY <1>5, <1>7 DEF Installs, Went
    <3>1. Copied(f)
      BY <1>3 DEF Installs
    <3>2. Writing(f)' = Writing(f)
      BY <1>1, <1>7 DEF Writing, Went
    <3>3. command'.plan.before[f] = command.plan.before[f] /\ ~command'.compared
      BY <1>5, <1>7 DEF Went
    <3>4. CASE f = h.file
      <4>1. Writing(f) # {}
        BY <3>1, <3>4, <1>1, <1>3 DEF Copied
      <4>2. command'.plan.backup[f] = files[f]
        BY <3>4, <1>5, <1>7 DEF Went
      <4>3. \A s \in Left' : s \in Left
        BY <1>7 DEF Went
      <4> QED BY <3>1, <3>2, <3>3, <4>1, <4>2, <4>3, <1>2 DEF Copied
    <3>5. CASE f # h.file
      <4>1. command'.plan.backup[f] = command.plan.backup[f]
        BY <3>5, <1>5, <1>7 DEF Went
      <4>2. \A s : s.file = f => (s \in Left' <=> s \in Left)
        BY <3>5, <1>7 DEF Went
      <4> QED BY <3>1, <3>2, <3>3, <4>1, <4>2, <1>2 DEF Copied
    <3> QED BY <3>4, <3>5
  <2> QED BY <2>1, <2>2, <2>3, <1>1, <1>2, <1>5, <1>7, Passing
<1> QED BY <1>1, <1>2, <1>5, <1>6, <1>7, NextSteps

(***************************************************************************)
(* A note that says it is done is the last step, but for that of an adoption.*)
(***************************************************************************)
LEMMA NoteIsLast ==
  ASSUME IntegrationInv, command.todo # <<>>,
         Head(command.todo).do \in Notes \ {"prepared"}
  PROVE  /\ \A s \in Left \ {Head(command.todo)} :
              s.do = "adopted" /\ command.kind = "adopt"
         /\ Head(command.todo).do # "installed" => Left = {Head(command.todo)}
<1> USE DEF IntegrationInv
<1> DEFINE h == Head(command.todo)
<1>1. h \in Left /\ \A s \in Left \ {h} : Rank(command.kind, h) < Rank(command.kind, s)
  BY Heading
<1>2. Rank(command.kind, h) = IF h.do = "adopted" THEN 51 ELSE 50
  BY DEF Rank
<1>3. \A s \in Left : Rank(command.kind, s) <= 50 \/ s.do = "adopted"
  <2> TAKE s \in Left
  <2>1. CASE s.do \in Notes
    BY <2>1 DEF Rank
  <2>2. CASE s.do \notin Notes
    BY <2>2 DEF Rank, Place, Turn
  <2> QED BY <2>1, <2>2
<1>4. \A s \in Left : s.do = "adopted" => /\ Rank(command.kind, s) = 51
                                          /\ command.kind = "adopt"
  BY DEF Rank, Notes, InOrder, StepOf
<1>5. \A s \in Left \ {h} : s.do = "adopted" /\ command.kind = "adopt" /\ h.do # "adopted"
  <2> TAKE s \in Left \ {h}
  <2>1. Rank(command.kind, h) < Rank(command.kind, s)
    BY <1>1
  <2>2. Rank(command.kind, s) \in Int
    BY DEF Rank, Place, Turn
  <2> QED BY <2>1, <2>2, <1>2, <1>3, <1>4
<1>6. command.kind = "adopt" => h.do \in {"installed", "adopted"}
  BY <1>1 DEF InOrder, StepOf, Notes
<1> QED BY <1>1, <1>5, <1>6

LEMMA ManifestPasses ==
  ASSUME IntegrationInv, WriteManifest
  PROVE  IntegrationInv'
<1> USE DEF IntegrationInv
<1> DEFINE h == Head(command.todo)
<1>1. command.todo # <<>> /\ h.do \in {"installed", "uninstalled"}
  BY DEF WriteManifest, Doing
<1>2. /\ UNCHANGED <<files, recipe, cutovers, faults>> /\ manifest' = command.plan
      /\ GoesOn(command, Tail(command.todo))
  BY DEF WriteManifest
<1>3. /\ h.do = "installed" => command.kind \in {"install", "repair", "upgrade", "adopt"}
      /\ h.do = "uninstalled" => command.kind = "uninstall"
  BY <1>1, Heading DEF StepOf
<1>4. command \in Commands /\ command.plan \in Manifests(AnyState)
  BY DEF Typed, Commands, AnyState
<1>5. \A s \in Left \ {h} : s.do = "adopted" /\ command.kind = "adopt"
  BY <1>1, NoteIsLast DEF Notes
<1>6. manifest'.state = "installed" => ManifestSound(manifest')
  <2>1. CASE command.kind \in {"repair", "upgrade", "adopt"}
    BY <2>1, <1>2 DEF Planned
  <2>2. CASE command.kind = "uninstall"
    BY <2>2, <1>2 DEF Planned
  <2>3. CASE command.kind = "install"
    <3>1. Left = {h}
      BY <2>3, <1>1, <1>5, Heading
    <3>2. \A f \in Files : Writing(f) = {} /\ ~\E s \in Left : s.do = "copy" /\ s.file = f
      BY <3>1, <1>1 DEF Writing
    <3>3. \A f \in Files : BackedUp(command.plan, f)
      BY <2>3, <3>2 DEF Installs, Copied, BackedUp
    <3> QED BY <2>3, <3>3, <1>2 DEF Planned, ManifestSound
  <2> QED BY <2>1, <2>2, <2>3, <1>1, <1>3
<1>7. Recorded'
  BY <1>2, <1>6 DEF Recorded
<1>8. CASE command' = NoCommand /\ edited' = {}
  <2>1. Typed'
    BY <1>2, <1>4, <1>8, NothingTypes DEF Typed, AnyState
  <2> QED BY <2>1, <1>7, <1>8, Ended
<1>9. CASE Went(command, Left \ {h}) /\ ~(command' = NoCommand /\ edited' = {})
  <2>1. Typed'
    BY <1>2, <1>4, <1>9 DEF Typed, Went, AnyState
  <2>2. command.kind = "adopt"
    <3>1. Left # {h}
      <4> SUFFICES ASSUME Left = {h} PROVE FALSE
        OBVIOUS
      <4>1. Tail(command.todo) = <<>>
        BY <1>1, Heading
      <4> QED BY <4>1, <1>2, <1>9 DEF GoesOn
    <3> QED BY <3>1, <1>1, <1>5, Heading
  <2>3. Planned'
    BY <2>2, <1>2, <1>9 DEF Planned, Went
  <2>4. Installs'
    BY <2>2, <1>9 DEF Installs, Went
  <2>5. h.do \notin {"write", "undo"}
    BY <1>1
  <2> QED BY <2>1, <2>2, <2>3, <2>4, <2>5, <1>1, <1>2, <1>7, <1>9, Passing
<1> QED BY <1>1, <1>2, <1>4, <1>8, <1>9, NextSteps

LEMMA CutoverPasses ==
  ASSUME IntegrationInv, WriteCutover
  PROVE  IntegrationInv'
<1> USE DEF IntegrationInv
<1> DEFINE h == Head(command.todo)
<1>1. command.todo # <<>> /\ h.do \in {"prepared", "adopted", "active", "rolled_back"}
  BY DEF WriteCutover, Doing
<1>2. /\ UNCHANGED <<files, recipe, manifest, faults>>
      /\ GoesOn(command, Tail(command.todo))
  BY DEF WriteCutover
<1>3. /\ h \in Left
      /\ h.do \in {"prepared", "active"} => command.kind = "cutover"
      /\ h.do = "adopted" => command.kind = "adopt"
      /\ h.do = "rolled_back" => command.kind = "rollback"
  BY <1>1, Heading DEF StepOf
<1>4. command \in Commands /\ command.cut \in Cutovers
  BY DEF Typed, Commands
<1>5. /\ cutovers' \in Seq(Cutovers) /\ Len(cutovers') <= MaxCutovers
      /\ \A k \in DOMAIN cutovers' : cutovers'[k].state # "none" /\ CutoverSound(cutovers'[k])
  <2>1. /\ cutovers \in Seq(Cutovers) /\ Len(cutovers) \in Nat /\ Len(cutovers) <= MaxCutovers
        /\ DOMAIN cutovers = 1..Len(cutovers)
        /\ \A k \in DOMAIN cutovers : /\ cutovers[k] \in Cutovers
                                      /\ cutovers[k].state # "none" /\ CutoverSound(cutovers[k])
    BY LenProperties, ElementOfSeq DEF Typed, Recorded
  <2>2. CASE h.do \in {"prepared", "adopted"}
    <3>1. cutovers' = Append(cutovers, command.cut)
      BY <2>2 DEF WriteCutover, Doing
    <3>2. CutoverSound(command.cut) /\ command.cut.state # "none" /\ Len(cutovers) < MaxCutovers
      BY <2>2, <1>3 DEF Planned
    <3>3. /\ cutovers' \in Seq(Cutovers) /\ Len(cutovers') = Len(cutovers) + 1
          /\ \A k \in 1..Len(cutovers) : cutovers'[k] = cutovers[k]
          /\ cutovers'[Len(cutovers) + 1] = command.cut
          /\ DOMAIN cutovers' = 1..(Len(cutovers) + 1)
      BY <2>1, <3>1, <1>4
    <3>4. \A k \in DOMAIN cutovers' : k \in DOMAIN cutovers \/ k = Len(cutovers) + 1
      BY <3>3, <2>1
    <3>5. Len(cutovers') <= MaxCutovers
      BY <3>2, <3>3, <2>1, IntegrationAssumption
    <3> QED BY <3>2, <3>3, <3>4, <3>5, <2>1
  <2>3. CASE h.do \in {"active", "rolled_back"}
    <3> DEFINE new == IF h.do = "active" THEN [cutovers[command.at] EXCEPT !.state = "active"]
                      ELSE [NoCutover EXCEPT !.state = "rolled_back"]
    <3>1. cutovers' = [cutovers EXCEPT ![command.at] = new]
      BY <2>3 DEF WriteCutover, Doing
    <3>2. command.at \in DOMAIN cutovers => new \in Cutovers /\ new.state # "none" /\ CutoverSound(new)
      <4>1. CASE h.do = "active"
        BY <4>1, <2>1 DEF Cutovers, CutoverSound
      <4>2. CASE h.do = "rolled_back"
        <5>1. new.state = "rolled_back" /\ new.source = Nowhere /\ new.target = Nowhere
          BY <4>2 DEF NoCutover
        <5>2. new \in Cutovers
          BY <4>2, NothingTypes DEF Cutovers, NoCutover
        <5>3. \A f \in Files : Nowhere[f] = Absent
          BY DEF Nowhere
        <5> HIDE DEF new
        <5> QED BY <5>1, <5>2, <5>3, PlainType DEF CutoverSound, Same, Files
      <4> QED BY <4>1, <4>2, <2>3
    <3> HIDE DEF new
    <3>3. /\ DOMAIN cutovers' = DOMAIN cutovers
          /\ \A k \in DOMAIN cutovers : cutovers'[k] = IF k = command.at THEN new ELSE cutovers[k]
      BY <3>1, <2>1
    <3>4. cutovers' \in [1..Len(cutovers) -> Cutovers]
      BY <3>1, <3>2, <3>3, <2>1
    <3>5. cutovers' \in Seq(Cutovers) /\ Len(cutovers') = Len(cutovers)
      BY <3>3, <3>4, <2>1
    <3> QED BY <3>2, <3>3, <3>5, <2>1
  <2> QED BY <2>2, <2>3, <1>1
<1>6. Recorded'
  BY <1>2, <1>5 DEF Recorded
<1>7. CASE command' = NoCommand /\ edited' = {}
  <2>1. Typed'
    BY <1>2, <1>5, <1>7, NothingTypes DEF Typed
  <2> QED BY <2>1, <1>6, <1>7, Ended
<1>8. CASE Went(command, Left \ {h}) /\ ~(command' = NoCommand /\ edited' = {})
  <2>1. Typed'
    BY <1>2, <1>5, <1>8 DEF Typed, Went
  <2>2. h.do = "prepared"
    <3> SUFFICES ASSUME h.do # "prepared" PROVE FALSE
      OBVIOUS
    <3>1. Left = {h}
      BY <1>1, NoteIsLast DEF Notes
    <3>2. Tail(command.todo) = <<>>
      BY <3>1, <1>1, Heading
    <3> QED BY <3>2, <1>2, <1>8 DEF GoesOn
  <2>3. command.kind = "cutover"
    BY <2>2, <1>3
  <2>4. \A s \in Left \ {h} : s.do \notin {"prepared", "adopted"}
    <3> SUFFICES ASSUME NEW s \in Left \ {h}, s.do = "prepared" PROVE FALSE
      BY <2>3 DEF InOrder, StepOf
    <3>1. Rank("cutover", h) < Rank("cutover", s)
      BY <2>3, <1>1, Heading
    <3> QED BY <3>1, <2>2 DEF Rank, Notes
  <2>5. Planned'
    BY <2>3, <2>4, <1>2, <1>8 DEF Planned, Went
  <2>6. Installs'
    BY <2>3, <1>8 DEF Installs, Went
  <2>7. h.do \notin {"write", "undo"}
    BY <1>1
  <2> QED BY <2>1, <2>3, <2>5, <2>6, <2>7, <1>1, <1>2, <1>6, <1>8, Passing
<1> QED BY <1>1, <1>2, <1>4, <1>7, <1>8, NextSteps

(***************************************************************************)
(* An error ends a command, or a cutover undoes what it has written.        *)
(***************************************************************************)
LEMMA Throwing ==
  ASSUME IntegrationInv, command.todo # <<>>, Throws, files' \in [Files -> Contents],
         UNCHANGED <<recipe, manifest, cutovers>>, faults' \in 0..MaxFaults,
         command.kind = "cutover" =>
           \A f \in {"config", "hooks"} \ edited :
             files'[f] \in {command.cut.source[f], command.cut.target[f]}
  PROVE  IntegrationInv'
<1> USE DEF IntegrationInv
<1>1. Recorded'
  BY DEF Recorded
<1>2. command \in Commands /\ command.cut \in Cutovers
  BY DEF Typed, Commands
<1>3. ASSUME command' = NoCommand, edited' = {}
      PROVE  IntegrationInv'
  <2>1. Typed'
    BY <1>3, NothingTypes DEF Typed
  <2> QED BY <2>1, <1>1, <1>3, Ended
<1>4. CASE ~(command.kind = "cutover" /\ Doing("write"))
  BY <1>3, <1>4 DEF Throws, GoesOn
<1>5. CASE command.kind = "cutover" /\ Doing("write")
  <2> DEFINE c == [command EXCEPT !.kind = "undo"]
             undo(f) == FileStep("undo", f, command.cut.target[f], command.cut.source[f])
             differ == command.cut.target["config"] # command.cut.source["config"]
             O == {t \in {undo("config")} : differ}
             U == {undo("hooks")} \cup O
  <2>1. GoesOn(c, Undone)
    BY <1>5 DEF Throws
  <2>2. /\ c \in Commands /\ c.kind = "undo" /\ c.plan = command.plan
        /\ c.cut = command.cut /\ c.at = command.at
    BY <1>2 DEF Commands, CommandKinds
  <2> HIDE DEF c
  <2>3. /\ "config" \in Files /\ "hooks" \in Files
        /\ Place("undo", "config") = 3 /\ Place("undo", "hooks") = 2
    BY DEF Files, Place, Backwards
  <2>4. \A f \in Files : /\ command.cut.target[f] \in Contents
                         /\ command.cut.source[f] \in Contents
    BY <1>2 DEF Cutovers
  <2>5. \A f \in Files : /\ undo(f) \in Steps /\ undo(f).do = "undo" /\ undo(f).file = f
                         /\ undo(f).expect = command.cut.target[f]
                         /\ undo(f).new = command.cut.source[f]
    <3> HIDE DEF IntegrationInv
    <3> QED BY <2>4, StepType
  <2>6. Undone = <<undo("hooks")>> \o When(differ, undo("config"))
    BY DEF Undone
  <2> HIDE DEF undo
  <2>7. List("undo", Undone, U)
    <3>1. Rank("undo", undo("hooks")) = 22 /\ Rank("undo", undo("config")) = 23
      BY <2>3, <2>5 DEF Rank, Turn, Notes
    <3>2. differ \in BOOLEAN
      OBVIOUS
    <3> HIDE DEF IntegrationInv, differ
    <3>3. List("undo", <<undo("hooks")>>, {undo("hooks")})
      BY <2>3, <2>5, OneStep
    <3>4. List("undo", When(differ, undo("config")), O)
      BY <3>2, <2>3, <2>5, OptionalStep
    <3>5. \A s \in {undo("hooks")}, t \in O : Rank("undo", s) < Rank("undo", t)
      BY <3>1
    <3> HIDE DEF O
    <3> QED BY <3>3, <3>4, <3>5, <2>6, Joined
  <2>8. \A s \in U : s \in {undo("config"), undo("hooks")}
    OBVIOUS
  <2>9. undo("hooks") \in U
    OBVIOUS
  <2> HIDE DEF U
  <2>10. \A s \in U : StepOf("undo", s.do)
    BY <2>3, <2>5, <2>8 DEF StepOf
  <2>11. Went(c, U)
    BY <2>1, <2>2, <2>7, <2>9, <2>10, GoingOn
  <2>12. \A f \in Files : \A s \in Writing(f)' : s = undo(f)
    BY <2>3, <2>5, <2>8, <2>11 DEF Writing, Went
  <2>13. Typed'
    BY <2>11 DEF Typed, Went
  <2>14. Planned'
    BY <1>5, <2>2, <2>3, <2>5, <2>8, <2>11 DEF Planned, Went
  <2>15. WritesKeep'
    BY <2>3, <2>4, <2>5, <2>8, <2>11 DEF WritesKeep, Went
  <2>16. HalfWay'
    BY <1>5, <2>2, <2>5, <2>11, <2>12 DEF HalfWay, Went
  <2>17. OffBeforeOn'
    BY <2>2, <2>3, <2>5, <2>9, <2>11 DEF OffBeforeOn, Writing, Went
  <2>18. Restores' /\ Installs'
    BY <2>2, <2>11 DEF Restores, Installs, Went
  <2> QED BY <2>11, <2>13, <2>14, <2>15, <2>16, <2>17, <2>18, <1>1 DEF Went
<1> QED BY <1>4, <1>5

LEMMA ComparePasses ==
  ASSUME IntegrationInv, CompareDigest
  PROVE  IntegrationInv'
<1> USE DEF IntegrationInv
<1> DEFINE h == Head(command.todo)
<1>1. /\ command.todo # <<>> /\ h.do = "write"
      /\ UNCHANGED <<files, recipe, manifest, cutovers, faults>>
  BY DEF CompareDigest, Doing
<1>2. CASE h.expect \notin {Anything, files[h.file]}
  <2>1. Throws
    BY <1>2 DEF CompareDigest
  <2>2. command.kind = "cutover" =>
           \A f \in {"config", "hooks"} \ edited :
             files'[f] \in {command.cut.source[f], command.cut.target[f]}
    BY <1>1 DEF HalfWay
  <2>3. files' \in [Files -> Contents] /\ faults' \in 0..MaxFaults
    BY <1>1 DEF Typed
  <2> QED BY <2>1, <2>2, <2>3, <1>1, Throwing
<1>3. CASE h.expect \in {Anything, files[h.file]}
  <2>1. command' = [command EXCEPT !.compared = TRUE] /\ UNCHANGED edited
    BY <1>3 DEF CompareDigest
  <2>2. /\ command'.kind = command.kind /\ command'.todo = command.todo
        /\ command'.plan = command.plan /\ command'.cut = command.cut
        /\ command'.at = command.at /\ command' \in Commands
    BY <2>1 DEF Typed, Commands
  <2>3. Left' = Left /\ \A f \in Files : Writing(f)' = Writing(f)
    BY <2>2 DEF Left, Writing
  <2>4. command # NoCommand /\ command' # NoCommand
    BY <1>1, <2>2 DEF NoCommand
  <2>5. Typed' /\ Idle' /\ InOrder' /\ Recorded'
    BY <1>1, <2>1, <2>2, <2>3, <2>4 DEF Typed, Idle, InOrder, Recorded
  <2>6. Planned' /\ WritesKeep'
    BY <1>1, <2>1, <2>2, <2>3 DEF Planned, WritesKeep
  <2>7. "config" \in Files /\ "hooks" \in Files
    BY DEF Files
  <2>8. HalfWay' /\ OffBeforeOn' /\ Restores'
    BY <1>1, <2>1, <2>2, <2>3, <2>7 DEF HalfWay, OffBeforeOn, Restores
  <2>9. Installs'
    <3> SUFFICES ASSUME command.kind = "install", NEW f \in Files,
                        command.plan.before[f] # Absent
                 PROVE  Copied(f)'
      BY <2>2 DEF Installs
    <3>1. Copied(f)
      BY DEF Installs
    <3>2. ASSUME h \in Writing(f), Beyond(command.plan.before[f], files[f])
          PROVE  FALSE
      <4>1. h.file = f /\ h.expect = command.plan.before[f]
        BY <3>1, <3>2 DEF Copied, Writing
      <4>2. command.plan.before[f] \in Contents /\ files[f] \in Contents
        BY DEF Typed, Commands, Manifests
      <4>3. Anything \notin Contents
        BY DEF Anything, Plain, Contents, Recipes
      <4>4. files[f] = command.plan.before[f]
        BY <1>3, <4>1, <4>2, <4>3
      <4>5. files[f].text \in Nat
        BY <4>2, ContentType
      <4> QED BY <3>2, <4>4, <4>5 DEF Beyond
    <3> QED BY <3>1, <3>2, <1>1, <2>2, <2>3 DEF Copied
  <2> QED BY <2>5, <2>6, <2>8, <2>9
<1> QED BY <1>2, <1>3

LEMMA RenamePasses ==
  ASSUME IntegrationInv, RenameFile
  PROVE  IntegrationInv'
<1> USE DEF IntegrationInv
<1> DEFINE h == Head(command.todo)
<1>1. /\ command.todo # <<>> /\ h.do = "write" /\ command.compared
      /\ files' = [files EXCEPT ![h.file] = h.new]
      /\ UNCHANGED <<recipe, manifest, cutovers>>
  BY DEF RenameFile, Doing
<1>2. h \in Left /\ h \in Steps /\ h.file \in Files
  BY <1>1, Heading DEF Steps
<1>3. h.new \in Contents /\ h \in Writing(h.file)
  BY <1>1, <1>2 DEF WritesKeep, Writing
<1>4. files' \in [Files -> Contents] /\ command \in Commands
  BY <1>1, <1>2, <1>3 DEF Typed
<1>5. \A f \in Files : files'[f] = IF f = h.file THEN h.new ELSE files[f]
  BY <1>1, <1>2 DEF Typed
<1>6. /\ command.kind = "cutover" => h.new = command.cut.target[h.file]
      /\ command.kind = "undo" => h.new = command.cut.source[h.file]
  BY <1>2, <1>3 DEF HalfWay
<1>7. "config" \in Files /\ "hooks" \in Files
  BY DEF Files
<1>8. command.kind \in {"cutover", "undo"} =>
        \A f \in {"config", "hooks"} \ edited :
          files'[f] \in {command.cut.source[f], command.cut.target[f]}
  BY <1>5, <1>6, <1>7 DEF HalfWay
<1>9. CASE Throws /\ Faulty
  <2>1. faults' \in 0..MaxFaults
    BY <1>9, IntegrationAssumption DEF Faulty, Typed
  <2> QED BY <2>1, <1>1, <1>4, <1>8, <1>9, Throwing
<1>10. CASE GoesOn(command, Tail(command.todo)) /\ UNCHANGED faults
  <2>1. Recorded'
    BY <1>1 DEF Recorded
  <2>2. CASE command' = NoCommand /\ edited' = {}
    <3>1. Typed'
      BY <1>1, <1>4, <1>10, <2>2, NothingTypes DEF Typed
    <3> QED BY <3>1, <2>1, <2>2, Ended
  <2>3. CASE Went(command, Left \ {h})
    <3> USE <2>3 DEF Went
    <3>1. Typed'
      BY <1>1, <1>4, <1>10 DEF Typed
    <3>2. Planned'
      BY <1>1 DEF Planned
    <3>3. /\ \A s \in Left \ {h} : s.do \in {"write", "undo"} => s.file # h.file
          /\ \A f \in Files : Writing(f)' = IF f = h.file THEN {} ELSE Writing(f)
      <4>1. \A s \in Left \ {h} : s.do \in {"write", "undo"} => s.file # h.file
        BY <1>1, WrittenOnce
      <4>2. \A f \in Files : Writing(f)' = {s \in Left \ {h} : /\ s.do \in {"write", "undo"}
                                                            /\ s.file = f}
        BY DEF Writing
      <4> HIDE DEF h
      <4> QED BY <4>1, <4>2, <1>2 DEF Writing
    <3>4. WritesKeep'
      <4> SUFFICES ASSUME NEW s \in Left \ {h}
                   PROVE  /\ s.do \in {"write", "undo"} => s.new \in Contents
                          /\ s.do = "write" /\ s.file \notin edited =>
                               Keeps(files'[s.file], s.new)
                          /\ s.do = "write" /\ s.file = "config" /\ s.new.native =>
                               \/ files'["config"].native
                               \/ command.kind \in {"undo", "rollback"}
                          /\ s.do = "write" /\ s.file = "hooks" /\ s.new.own = "active" =>
                               command.kind = "cutover"
        BY DEF WritesKeep
      <4>1. s.do = "write" => files'[s.file] = files[s.file]
        <5>1. s \in Steps
          BY <1>1, Heading
        <5> QED BY <5>1, <3>3, <1>5 DEF Steps
      <4> QED BY <4>1 DEF WritesKeep
    <3>5. HalfWay'
      BY <1>8, <3>3 DEF HalfWay
    <3>6. OffBeforeOn'
      <4>1. command.kind = "cutover" /\ h.file = "config" => ~files'["config"].native
        BY <1>5, <1>6, <1>7 DEF Planned, CutoverSound
      <4>2. command.kind \in {"undo", "rollback"} /\ h.file = "hooks" =>
              files'["hooks"].own # "active"
        BY <1>1, <1>2, <1>5, <1>7 DEF WritesKeep
      <4> QED BY <4>1, <4>2, <1>5, <1>7, <3>3 DEF OffBeforeOn
    <3>7. Restores'
      <4>1. command.kind = "uninstall" => h.new = manifest.before[h.file]
        BY <1>2, <1>3 DEF Restores
      <4>2. command.kind = "rollback" =>
              /\ h.file = "hooks" => h.new = command.cut.source["hooks"]
              /\ h.file = "config" =>
                   Untrusted(h.new) = Untrusted(command.cut.source["config"])
        BY <1>3 DEF Restores
      <4> QED BY <4>1, <4>2, <1>1, <1>5, <1>7, <3>3 DEF Restores
    <3>8. Installs'
      <4> SUFFICES ASSUME command.kind = "install", NEW f \in Files,
                          command.plan.before[f] # Absent
                   PROVE  Copied(f)'
        BY DEF Installs
      <4>1. Copied(f)
        BY DEF Installs
      <4>2. CASE f = h.file
        <5>1. ~\E s \in Left : s.do = "copy" /\ s.file = f
          <6> SUFFICES ASSUME NEW s \in Left, s.do = "copy", s.file = f PROVE FALSE
            OBVIOUS
          <6>1. s # h /\ Rank("install", h) < Rank("install", s)
            BY <1>1, Heading
          <6>2. /\ Rank("install", h) = 10 * Place("install", f) + 2
                /\ Rank("install", s) = 10 * Place("install", f) + 1
            BY <4>2, <1>1 DEF Rank, Turn, Notes
          <6>3. Place("install", f) \in Int
            BY DEF Place
          <6> QED BY <6>1, <6>2, <6>3
        <5>2. command.plan.backup[f] = command.plan.before[f]
          BY <4>1, <4>2, <5>1, <1>1, <1>3 DEF Copied
        <5> QED BY <4>2, <5>1, <5>2, <3>3 DEF Copied
      <4>3. CASE f # h.file
        <5>1. Writing(f)' = Writing(f) /\ files'[f] = files[f]
          BY <4>3, <3>3, <1>5
        <5>2. \A s : s.file = f => (s \in Left \ {h} <=> s \in Left)
          BY <4>3
        <5> QED BY <4>1, <5>1, <5>2 DEF Copied
      <4> QED BY <4>2, <4>3
    <3> QED BY <3>1, <3>2, <3>4, <3>5, <3>6, <3>7, <3>8, <2>1
  <2> QED BY <2>2, <2>3, <1>1, <1>4, <1>10, NextSteps
<1> QED BY <1>9, <1>10 DEF RenameFile

LEMMA UndoPasses ==
  ASSUME IntegrationInv, UndoWrite
  PROVE  IntegrationInv'
<1> USE DEF IntegrationInv
<1> DEFINE h == Head(command.todo)
           w == [h EXCEPT !.do = "write"]
           kept == files[h.file] = h.expect
           S == IF kept THEN {w} \cup (Left \ {h}) ELSE Left \ {h}
           todo == IF kept THEN <<w>> \o Tail(command.todo) ELSE Tail(command.todo)
<1>1. /\ command.todo # <<>> /\ h.do = "undo"
      /\ UNCHANGED <<files, recipe, manifest, cutovers, faults>>
      /\ GoesOn(command, todo)
  BY DEF UndoWrite, Doing
<1>2. /\ h \in Left /\ h \in Steps /\ h.file \in Files /\ command.kind = "undo"
      /\ \A s \in Left : s \in Steps /\ StepOf("undo", s.do)
  BY <1>1, Heading DEF Steps, StepOf, InOrder
<1>3. /\ h.new = command.cut.source[h.file] /\ h.expect = command.cut.target[h.file]
      /\ h.new \in Contents
  BY <1>1, <1>2 DEF HalfWay, WritesKeep, Writing
<1>4. /\ w \in Steps /\ w.do = "write" /\ w.file = h.file /\ w.new = h.new
      /\ w.expect = h.expect
  BY <1>2 DEF Steps
<1>5. /\ List("undo", Tail(command.todo), Left \ {h})
      /\ \A s \in Left \ {h} : Rank("undo", h) < Rank("undo", s)
  BY <1>1, <1>2, Heading
<1>6. Rank("undo", w) = Rank("undo", h)
  <2> HIDE DEF h, w
  <2> QED BY <1>1, <1>4 DEF Rank, Turn, Notes
<1> HIDE DEF w, kept
<1>7. List("undo", todo, S)
  <2> HIDE DEF h, IntegrationInv
  <2>1. List("undo", <<w>>, {w})
    BY <1>4, OneStep
  <2>2. \A s \in {w}, t \in Left \ {h} : Rank("undo", s) < Rank("undo", t)
    BY <1>5, <1>6
  <2>3. List("undo", <<w>> \o Tail(command.todo), {w} \cup (Left \ {h}))
    BY <2>1, <2>2, <1>5, Joined
  <2> QED BY <2>3, <1>5
<1>8. \A s \in S : s \in Left \/ s = w
  OBVIOUS
<1>9. command \in Commands /\ \A s \in S : StepOf("undo", s.do)
  BY <1>2, <1>4, <1>8 DEF Typed, StepOf
<1> HIDE DEF todo
<1>10. \/ command' = NoCommand /\ edited' = {}
       \/ Went(command, S)
  BY <1>1, <1>2, <1>7, <1>9, GoingOn
<1>11. Recorded'
  BY <1>1 DEF Recorded
<1>12. CASE command' = NoCommand /\ edited' = {}
  <2>1. Typed'
    BY <1>1, <1>12, NothingTypes DEF Typed
  <2> QED BY <2>1, <1>11, <1>12, Ended
<1>13. CASE Went(command, S)
  <2> USE <1>13 DEF Went
  <2>1. Typed'
    BY <1>1 DEF Typed
  <2>2. Planned'
    BY <1>1, <1>2, <1>4, <1>8 DEF Planned
  <2>3. \A f \in Files : /\ Writing(f)' \subseteq Writing(f) \cup {s \in {w} : f = h.file}
                         /\ kept /\ Writing(f) # {} => Writing(f)' # {}
                         /\ f # h.file => Writing(f)' = Writing(f)
    <3> TAKE f \in Files
    <3>1. Writing(f)' = {s \in S : s.do \in {"write", "undo"} /\ s.file = f}
      BY DEF Writing
    <3> HIDE DEF h
    <3>2. CASE kept
      BY <3>1, <3>2, <1>1, <1>2, <1>4 DEF Writing
    <3>3. CASE ~kept
      BY <3>1, <3>3, <1>1, <1>2, <1>4 DEF Writing
    <3> QED BY <3>2, <3>3
  <2>4. WritesKeep'
    <3>1. \A s \in Left : /\ s.do \in {"write", "undo"} => s.new \in Contents
                          /\ s.do = "write" /\ s.file \notin edited => Keeps(files[s.file], s.new)
                          /\ s.do = "write" /\ s.file = "hooks" => s.new.own # "active"
      BY <1>2 DEF WritesKeep
    <3>2. w \in S /\ w.file \notin edited => Keeps(files[w.file], w.new)
      <4> SUFFICES ASSUME kept PROVE Keeps(files[h.file], h.new)
        BY <1>1, <1>4, <3>1
      <4>1. files[h.file].text \in Nat
        BY <1>2, ContentType DEF Typed
      <4>2. Same(files[h.file], h.new)
        BY <1>2, <1>3 DEF kept, Planned, CutoverSound
      <4> QED BY <4>1, <4>2 DEF Keeps, Same
    <3>3. w.file = "hooks" => w.new.own # "active"
      BY <1>2, <1>3, <1>4 DEF Planned, CutoverSound
    <3> QED BY <3>1, <3>2, <3>3, <1>1, <1>2, <1>3, <1>4, <1>8 DEF WritesKeep
  <2>5. HalfWay'
    BY <1>1, <1>2, <1>3, <1>4, <2>3 DEF HalfWay
  <2>6. OffBeforeOn'
    <3>1. "config" \in Files /\ "hooks" \in Files
      BY DEF Files
    <3>2. CASE kept \/ h.file # "hooks"
      <4>1. Writing("config")' # {} => Writing("config") # {}
        BY <3>1, <2>3, <1>1, <1>2 DEF Writing
      <4>2. Writing("hooks") # {} => Writing("hooks")' # {}
        BY <3>1, <3>2, <2>3
      <4> QED BY <4>1, <4>2, <1>1, <1>2 DEF OffBeforeOn
    <3>3. CASE ~kept /\ h.file = "hooks"
      <4>1. "hooks" \in edited \/ files["hooks"] = command.cut.source["hooks"]
        BY <3>3, <1>2, <1>3 DEF HalfWay, kept
      <4>2. "hooks" \in edited \/ files["hooks"].own # "active"
        BY <4>1, <1>2 DEF Planned, CutoverSound
      <4> QED BY <4>2, <1>1, <1>2 DEF OffBeforeOn
    <3> QED BY <3>2, <3>3
  <2>7. Restores' /\ Installs'
    BY <1>2 DEF Restores, Installs
  <2> QED BY <2>1, <2>2, <2>4, <2>5, <2>6, <2>7, <1>11
<1> QED BY <1>10, <1>12, <1>13

LEMMA DeathPasses ==
  ASSUME IntegrationInv, CommandDies
  PROVE  IntegrationInv'
<1>1. /\ UNCHANGED <<files, recipe, manifest, cutovers>>
      /\ command' = NoCommand /\ edited' = {} /\ faults' \in 0..MaxFaults
  BY IntegrationAssumption DEF CommandDies, GoesOn, Faulty, IntegrationInv, Typed
<1>2. Typed' /\ Recorded'
  BY <1>1, NothingTypes DEF IntegrationInv, Typed, Recorded
<1> QED BY <1>1, <1>2, Ended

(***************************************************************************)
(* What the owner and Codex do to a file.                                   *)
(***************************************************************************)
LEMMA ChangePasses ==
  ASSUME IntegrationInv, NEW f \in Files, NEW content \in Contents, Changed(f, content),
         Beyond(files[f], content), content.native = files[f].native,
         content.own = "active" => files[f].own = "active"
  PROVE  IntegrationInv'
<1> USE DEF IntegrationInv
<1>1. /\ files' = [files EXCEPT ![f] = content]
      /\ UNCHANGED <<recipe, manifest, cutovers, command, faults>>
      /\ edited' = IF command = NoCommand THEN edited ELSE edited \cup {f}
  BY DEF Changed
<1>2. files' \in [Files -> Contents] /\ \A g \in Files : files'[g] = IF g = f THEN content
                                                                     ELSE files[g]
  BY <1>1 DEF Typed
<1>3. Left' = Left /\ \A g \in Files : Writing(g)' = Writing(g)
  BY <1>1 DEF Left, Writing
<1>4. Typed' /\ Idle' /\ InOrder' /\ Recorded' /\ Planned'
  BY <1>1, <1>2, <1>3 DEF Typed, Idle, InOrder, Recorded, Planned
<1>5. "config" \in Files /\ "hooks" \in Files
  BY DEF Files
<1>6. CASE command = NoCommand
  <2>1. Left = {} /\ command.kind = "none"
    BY <1>6, NothingTypes DEF Left, NoCommand
  <2>2. WritesKeep' /\ HalfWay' /\ OffBeforeOn' /\ Restores' /\ Installs'
    BY <2>1, <1>1, <1>3 DEF WritesKeep, HalfWay, OffBeforeOn, Restores, Installs
  <2> QED BY <2>2, <1>4
<1>7. CASE command # NoCommand
  <2>1. edited' = edited \cup {f}
    BY <1>1, <1>7
  <2>2. /\ files'["config"].native = files["config"].native
        /\ files'["hooks"].own = "active" => files["hooks"].own = "active"
    BY <1>2, <1>5
  <2>3. WritesKeep'
    <3>1. \A s \in Left : s.file \notin edited' => files'[s.file] = files[s.file]
      <4>1. \A s \in Left : s.file \in Files
        <5>1. command.todo # <<>> => Left \subseteq Steps
          BY Heading
        <5>2. command.todo = <<>> => Left = {}
          BY NothingTypes DEF Left
        <5> QED BY <5>1, <5>2 DEF Steps
      <4> QED BY <4>1, <2>1, <1>2
    <3> QED BY <3>1, <2>1, <2>2, <1>1, <1>3 DEF WritesKeep
  <2>4. HalfWay'
    BY <2>1, <1>1, <1>2, <1>3, <1>5 DEF HalfWay
  <2>5. OffBeforeOn'
    BY <2>1, <2>2, <1>1, <1>3, <1>5 DEF OffBeforeOn
  <2>6. Restores'
    BY <2>1, <1>1, <1>2, <1>3, <1>5 DEF Restores
  <2>7. Installs'
    <3> SUFFICES ASSUME command.kind = "install", NEW g \in Files,
                        command.plan.before[g] # Absent
                 PROVE  Copied(g)'
      BY <1>1 DEF Installs
    <3>1. Copied(g)
      BY DEF Installs
    <3>2. CASE g # f
      BY <3>1, <3>2, <1>1, <1>2, <1>3 DEF Copied
    <3>3. CASE g = f
      <4> DEFINE read == command.plan.before[f]
      <4>1. files'[f] = content
        BY <1>2
      <4>2. read \in Contents /\ files[f] \in Contents
        BY DEF Typed, Commands, Manifests
      <4>3. files[f] = read \/ Beyond(read, files[f]) => Beyond(read, content)
        <5>1. /\ read.text \in Nat /\ files[f].text \in Nat /\ content.text \in Nat
              /\ read.trust \in BOOLEAN /\ files[f].trust \in BOOLEAN
              /\ content.trust \in BOOLEAN
          BY <4>2, ContentType
        <5> QED BY <5>1 DEF Beyond
      <4> QED BY <3>1, <3>3, <4>1, <4>3, <1>1, <1>3 DEF Copied
    <3> QED BY <3>2, <3>3
  <2> QED BY <2>3, <2>4, <2>5, <2>6, <2>7, <1>4
<1> QED BY <1>6, <1>7

LEMMA OwnerPasses ==
  ASSUME IntegrationInv, NEW f \in Files, OwnerEdits(f)
  PROVE  IntegrationInv'
<1> DEFINE own == IF files[f].own = "absent" THEN "none" ELSE files[f].own
           content == [files[f] EXCEPT !.text = files[f].text + 1, !.own = own]
<1>1. /\ files["config"].text + files["hooks"].text + files["cli"].text < MaxEdits
      /\ Changed(f, content)
  BY DEF OwnerEdits
<1>2. files[f] \in Contents /\ \A g \in {"config", "hooks", "cli"} : files[g].text \in Nat
  BY ContentType DEF IntegrationInv, Typed, Files
<1>3. files[f].text < MaxEdits
  BY <1>1, <1>2, IntegrationAssumption DEF Files
<1>4. own \in Owns /\ files[f].text + 1 \in 0..MaxEdits
  BY <1>2, <1>3, ContentType, IntegrationAssumption DEF Owns
<1>5. /\ content \in Contents /\ content.text = files[f].text + 1
      /\ content.native = files[f].native /\ content.own = own
  BY <1>2, <1>4 DEF Contents, Owns
<1>6. Beyond(files[f], content)
  BY <1>2, <1>5, ContentType DEF Beyond
<1> HIDE DEF content
<1> QED BY <1>1, <1>5, <1>6, ChangePasses

LEMMA CodexPasses ==
  ASSUME IntegrationInv, CodexTrustsHooks
  PROVE  IntegrationInv'
<1> DEFINE content == [files["config"] EXCEPT !.trust = TRUE]
<1>1. ~files["config"].trust /\ Changed("config", content) /\ "config" \in Files
  BY DEF CodexTrustsHooks, Files
<1>2. files["config"] \in Contents
  BY <1>1 DEF IntegrationInv, Typed
<1>3. /\ content \in Contents /\ content.text = files["config"].text /\ content.trust
      /\ content.native = files["config"].native /\ content.own = files["config"].own
  BY <1>2 DEF Contents
<1>4. Beyond(files["config"], content)
  BY <1>1, <1>3 DEF Beyond
<1> HIDE DEF content
<1> QED BY <1>1, <1>3, <1>4, ChangePasses

(***************************************************************************)
(* A step that changes nothing but the program at hand.                     *)
(***************************************************************************)
LEMMA ProgramPasses ==
  ASSUME IntegrationInv, recipe' \in Recipes,
         UNCHANGED <<files, manifest, cutovers, command, edited, faults>>
  PROVE  IntegrationInv'
<1>1. Left' = Left /\ \A f \in Files : Writing(f)' = Writing(f)
  BY DEF Left, Writing
<1>2. Typed' /\ Idle' /\ InOrder' /\ Recorded' /\ Planned' /\ WritesKeep'
  BY <1>1 DEF IntegrationInv, Typed, Idle, InOrder, Recorded, Planned, WritesKeep
<1>3. "config" \in Files /\ "hooks" \in Files
  BY DEF Files
<1>4. HalfWay' /\ OffBeforeOn' /\ Restores'
  BY <1>1, <1>3 DEF IntegrationInv, HalfWay, OffBeforeOn, Restores
<1>5. Installs'
  BY <1>1 DEF IntegrationInv, Installs, Copied
<1> QED BY <1>2, <1>4, <1>5 DEF IntegrationInv

LEMMA IntegrationStarts ==
  ASSUME IntegrationInit
  PROVE  IntegrationInv
<1>1. PICK native \in BOOLEAN, hooks \in {Absent, Plain("none")} :
        files = [config |-> [Plain("none") EXCEPT !.native = native],
                 hooks |-> hooks, cli |-> Absent]
  BY DEF IntegrationInit
<1>2. Plain("none") \in Contents
  BY PlainType DEF Owns
<1>3. [Plain("none") EXCEPT !.native = native] \in Contents /\ hooks \in Contents
  BY <1>1, <1>2, PlainType, ContentType
<1>4. files \in [Files -> Contents]
  BY <1>1, <1>3, PlainType DEF Files
<1>5. /\ recipe = "first" /\ manifest = NotInstalled /\ cutovers = <<>>
      /\ command = NoCommand /\ edited = {} /\ faults = 0
  BY DEF IntegrationInit
<1>6. Typed
  <2>1. cutovers \in Seq(Cutovers) /\ Len(cutovers) = 0 /\ DOMAIN cutovers = {}
    BY <1>5
  <2> QED BY <2>1, <1>4, <1>5, NothingTypes, IntegrationAssumption
          DEF Typed, Recipes, AnyState
<1>7. Left = {} /\ command.kind = "none" /\ command.todo = <<>>
  BY <1>5, NothingTypes DEF Left, NoCommand
<1>8. manifest.state = "none" /\ DOMAIN cutovers = {}
  BY <1>5 DEF NotInstalled
<1> QED BY <1>5, <1>6, <1>7, <1>8 DEF IntegrationInv, Idle, InOrder, InTurn, Recorded,
           Planned, WritesKeep, HalfWay, OffBeforeOn, Restores, Installs

LEMMA IntegrationSteps ==
  ASSUME IntegrationInv, [IntegrationNext]_integrationVars
  PROVE  IntegrationInv'
<1>1. CASE Install \/ Upgrade \/ Uninstall \/ Adopt \/ Cutover
  BY <1>1, InstallStarts, UpgradeStarts, UninstallStarts, AdoptStarts, CutoverStarts
<1>2. CASE \E chosen \in (SUBSET Files) \ {{}} : Repair(chosen)
  BY <1>2, RepairStarts
<1>3. CASE \E k \in DOMAIN cutovers : Rollback(k)
  BY <1>3, RollbackStarts
<1>4. CASE CopyBackup \/ CompareDigest \/ RenameFile \/ UndoWrite \/ LookAgain
  BY <1>4, CopyPasses, ComparePasses, RenamePasses, UndoPasses, LookPasses
<1>5. CASE WriteManifest \/ WriteCutover \/ CommandDies
  BY <1>5, ManifestPasses, CutoverPasses, DeathPasses
<1>6. CASE (\E f \in Files : OwnerEdits(f)) \/ CodexTrustsHooks
  BY <1>6, OwnerPasses, CodexPasses
<1>7. CASE ProgramChanges
  BY <1>7, ProgramPasses DEF ProgramChanges, Recipes
<1>8. CASE UNCHANGED integrationVars
  BY <1>8, ProgramPasses DEF integrationVars, IntegrationInv, Typed
<1> QED BY <1>1, <1>2, <1>3, <1>4, <1>5, <1>6, <1>7, <1>8 DEF IntegrationNext

-----------------------------------------------------------------------------
(***************************************************************************)
(* The theorems.                                                            *)
(***************************************************************************)

(***************************************************************************)
(* Whatever steps a command has left, wherever it or an earlier one died and *)
(* whoever wrote the files meanwhile: they are in the order planned, what    *)
(* they write keeps what others wrote, and a file that is not restored yet is *)
(* still to be written.                                                     *)
(***************************************************************************)
THEOREM IntegrationInvariant == IntegrationSpec => []IntegrationInv
<1>1. IntegrationInit => IntegrationInv
  BY IntegrationStarts
<1>2. IntegrationInv /\ [IntegrationNext]_integrationVars => IntegrationInv'
  BY IntegrationSteps
<1> QED BY <1>1, <1>2, PTL DEF IntegrationSpec

(***************************************************************************)
(* The variables of the managed installation have their types.              *)
(***************************************************************************)
THEOREM IntegrationTyped == IntegrationSpec => []IntegrationTypeOK
<1>1. IntegrationInv => IntegrationTypeOK
  <2> SUFFICES ASSUME IntegrationInv PROVE IntegrationTypeOK
    OBVIOUS
  <2>1. /\ \A k \in DOMAIN cutovers : cutovers[k] \in Cutovers
        /\ \A i \in DOMAIN command.todo : command.todo[i] \in Steps
    BY ElementOfSeq, LenProperties DEF IntegrationInv, Typed, Commands
  <2> QED BY <2>1 DEF IntegrationInv, Typed, Commands, CommandKinds, IntegrationTypeOK
<1> QED BY <1>1, IntegrationInvariant, PTL

-----------------------------------------------------------------------------
(***************************************************************************)
(* Nothing else writes the files.                                           *)
(***************************************************************************)
LEMMA Writers ==
  ASSUME IntegrationNext
  PROVE  \/ files' = files
         \/ RenameFile
         \/ \E f \in Files : OwnerEdits(f)
         \/ CodexTrustsHooks
<1>1. CASE Install \/ Upgrade \/ Uninstall \/ Adopt \/ Cutover
  BY <1>1 DEF Install, Upgrade, Uninstall, Adopt, Cutover, Starts
<1>2. CASE \E chosen \in (SUBSET Files) \ {{}} : Repair(chosen)
  BY <1>2 DEF Repair, Starts
<1>3. CASE \E k \in DOMAIN cutovers : Rollback(k)
  BY <1>3 DEF Rollback, Starts
<1>4. CASE CopyBackup \/ CompareDigest \/ UndoWrite \/ LookAgain
  BY <1>4 DEF CopyBackup, CompareDigest, UndoWrite, LookAgain
<1>5. CASE WriteManifest \/ WriteCutover \/ CommandDies \/ ProgramChanges
  BY <1>5 DEF WriteManifest, WriteCutover, CommandDies, ProgramChanges
<1> QED BY <1>1, <1>2, <1>3, <1>4, <1>5 DEF IntegrationNext

(***************************************************************************)
(* How the others and a command write them.                                 *)
(***************************************************************************)
LEMMA WrittenByOthers ==
  ASSUME IntegrationInv, (\E f \in Files : OwnerEdits(f)) \/ CodexTrustsHooks
  PROVE  /\ \A g \in Files : Keeps(files[g], files'[g])
         /\ files'["config"].native = files["config"].native
         /\ files'["hooks"].own = "active" => files["hooks"].own = "active"
<1>1. files \in [Files -> Contents] /\ "config" \in Files /\ "hooks" \in Files
  BY DEF IntegrationInv, Typed, Files
<1>2. \A g \in Files : files[g].text \in Nat /\ Keeps(files[g], files[g])
  BY <1>1, ContentType DEF Keeps
<1>3. CASE \E f \in Files : OwnerEdits(f)
  <2>1. PICK f \in Files : OwnerEdits(f)
    BY <1>3
  <2> DEFINE own == IF files[f].own = "absent" THEN "none" ELSE files[f].own
             content == [files[f] EXCEPT !.text = files[f].text + 1, !.own = own]
  <2>2. files' = [files EXCEPT ![f] = content]
    BY <2>1 DEF OwnerEdits, Changed
  <2>3. /\ content.text = files[f].text + 1 /\ content.trust = files[f].trust
        /\ content.native = files[f].native
        /\ content.own = "active" => files[f].own = "active"
    BY <1>1 DEF Contents
  <2> HIDE DEF content
  <2>4. Keeps(files[f], content)
    BY <2>3, <1>2 DEF Keeps
  <2>5. \A g \in Files : files'[g] = IF g = f THEN content ELSE files[g]
    BY <2>2, <1>1
  <2> QED BY <2>3, <2>4, <2>5, <1>1, <1>2
<1>4. CASE CodexTrustsHooks
  <2> DEFINE content == [files["config"] EXCEPT !.trust = TRUE]
  <2>1. files' = [files EXCEPT !["config"] = content]
    BY <1>4 DEF CodexTrustsHooks, Changed
  <2>2. /\ content.text = files["config"].text /\ content.trust
        /\ content.native = files["config"].native /\ content.own = files["config"].own
    BY <1>1 DEF Contents
  <2> HIDE DEF content
  <2>3. Keeps(files["config"], content)
    BY <2>2, <1>1, <1>2 DEF Keeps
  <2>4. \A g \in Files : files'[g] = IF g = "config" THEN content ELSE files[g]
    BY <2>1, <1>1
  <2> QED BY <2>2, <2>3, <2>4, <1>1, <1>2
<1> QED BY <1>3, <1>4

LEMMA WrittenByCommand ==
  ASSUME IntegrationInv, RenameFile
  PROVE  /\ command.todo # <<>> /\ Head(command.todo).do = "write"
         /\ Head(command.todo) \in Left
         /\ Head(command.todo) \in Writing(Head(command.todo).file)
         /\ Head(command.todo).file \in Files
         /\ \A g \in Files : files'[g] = IF g = Head(command.todo).file
                                         THEN Head(command.todo).new ELSE files[g]
<1> DEFINE h == Head(command.todo)
<1>1. command.todo # <<>> /\ h.do = "write" /\ files' = [files EXCEPT ![h.file] = h.new]
  BY DEF RenameFile, Doing
<1>2. h \in Left /\ h.file \in Files
  BY <1>1, Heading DEF IntegrationInv, Steps
<1> QED BY <1>1, <1>2 DEF IntegrationInv, Typed, Writing

LEMMA TextKept ==
  ASSUME IntegrationInv, IntegrationNext
  PROVE  \A f \in Files \ edited : /\ files'[f].text >= files[f].text
                                   /\ files[f].trust => files'[f].trust
<1> SUFFICES ASSUME NEW f \in Files, f \notin edited, files' # files
             PROVE  Keeps(files[f], files'[f])
  <2>1. \A f \in Files : files[f].text \in Nat
    BY ContentType DEF IntegrationInv, Typed
  <2>2. ASSUME NEW f \in Files, Keeps(files[f], files'[f])
        PROVE  files'[f].text >= files[f].text /\ (files[f].trust => files'[f].trust)
    <3>1. files'[f].text \in Int
      BY IntegrationSteps, ContentType DEF IntegrationInv, Typed
    <3> QED BY <2>1, <2>2, <3>1 DEF Keeps
  <2> QED BY <2>1, <2>2 DEF Keeps
<1>1. CASE RenameFile
  <2> DEFINE h == Head(command.todo)
  <2>1. /\ h \in Left /\ h.do = "write"
        /\ files'[f] = IF f = h.file THEN h.new ELSE files[f]
    BY <1>1, WrittenByCommand
  <2>2. files[f].text \in Nat
    BY ContentType DEF IntegrationInv, Typed
  <2> HIDE DEF h
  <2> QED BY <2>1, <2>2 DEF IntegrationInv, WritesKeep, Keeps
<1>2. CASE (\E g \in Files : OwnerEdits(g)) \/ CodexTrustsHooks
  BY <1>2, WrittenByOthers
<1> QED BY <1>1, <1>2, Writers

LEMMA RollbackFinished ==
  ASSUME IntegrationInv, IntegrationNext, NEW k \in DOMAIN cutovers,
         cutovers[k].state # "rolled_back", cutovers'[k].state = "rolled_back"
  PROVE  /\ "hooks" \notin edited => files["hooks"] = cutovers[k].source["hooks"]
         /\ "config" \notin edited =>
              Untrusted(files["config"]) = Untrusted(cutovers[k].source["config"])
<1> USE DEF IntegrationInv
<1> DEFINE h == Head(command.todo)
<1>1. cutovers' # cutovers
  OBVIOUS
<1>2. WriteCutover
  <2>1. ~(Install \/ Upgrade \/ Uninstall \/ Adopt \/ Cutover)
    BY <1>1 DEF Install, Upgrade, Uninstall, Adopt, Cutover, Starts
  <2>2. ~(\E chosen \in (SUBSET Files) \ {{}} : Repair(chosen))
    BY <1>1 DEF Repair, Starts
  <2>3. ~(\E j \in DOMAIN cutovers : Rollback(j))
    BY <1>1 DEF Rollback, Starts
  <2>4. ~(CopyBackup \/ CompareDigest \/ RenameFile \/ UndoWrite \/ LookAgain)
    BY <1>1 DEF CopyBackup, CompareDigest, RenameFile, UndoWrite, LookAgain
  <2>5. ~(WriteManifest \/ CommandDies \/ ProgramChanges)
    BY <1>1 DEF WriteManifest, CommandDies, ProgramChanges
  <2>6. ~((\E f \in Files : OwnerEdits(f)) \/ CodexTrustsHooks)
    BY <1>1 DEF OwnerEdits, CodexTrustsHooks, Changed
  <2> QED BY <2>1, <2>2, <2>3, <2>4, <2>5, <2>6 DEF IntegrationNext
<1>3. /\ cutovers \in Seq(Cutovers) /\ Len(cutovers) \in Nat
      /\ DOMAIN cutovers = 1..Len(cutovers) /\ cutovers[k] \in Cutovers
  BY LenProperties, ElementOfSeq DEF Typed
<1>4. /\ command.todo # <<>> /\ h.do = "rolled_back" /\ k = command.at
  <2>1. CASE (Doing("prepared") \/ Doing("adopted")) /\ cutovers' = Append(cutovers, command.cut)
    <3>1. cutovers' = Append(cutovers, command.cut)
      BY <2>1, <1>2 DEF WriteCutover, Doing
    <3>2. cutovers'[k] = cutovers[k]
      BY <3>1, <1>3
    <3> QED BY <3>2
  <2>2. CASE cutovers' = [cutovers EXCEPT ![command.at].state = "active"]
    <3>1. cutovers'[k] = IF k = command.at THEN [cutovers[k] EXCEPT !.state = "active"]
                         ELSE cutovers[k]
      BY <2>2, <1>3
    <3>2. [cutovers[k] EXCEPT !.state = "active"].state = "active"
      BY <1>3 DEF Cutovers
    <3> QED BY <3>1, <3>2
  <2>3. CASE /\ Doing("rolled_back")
             /\ cutovers' = [cutovers EXCEPT ![command.at] =
                               [NoCutover EXCEPT !.state = "rolled_back"]]
    <3>1. k # command.at => cutovers'[k] = cutovers[k]
      BY <2>3, <1>3
    <3> QED BY <2>3, <3>1 DEF Doing
  <2> QED BY <2>1, <2>2, <2>3, <1>2 DEF WriteCutover, Doing
<1>5. command.kind = "rollback" /\ cutovers[k] = command.cut
  BY <1>4, Heading DEF StepOf, Planned
<1>6. \A f \in Files : Writing(f) = {}
  <2>1. Left = {h}
    BY <1>4, NoteIsLast DEF Notes
  <2> QED BY <2>1, <1>4 DEF Writing
<1> QED BY <1>5, <1>6 DEF Restores, Files

LEMMA UninstallFinished ==
  ASSUME IntegrationInv, IntegrationNext, manifest.state = "installed",
         manifest'.state = "uninstalled"
  PROVE  \A f \in Files \ edited : files[f] = manifest.before[f]
<1> USE DEF IntegrationInv
<1> DEFINE h == Head(command.todo)
<1>1. manifest' # manifest
  OBVIOUS
<1>2. WriteManifest
  <2>1. ~(Install \/ Upgrade \/ Uninstall \/ Adopt \/ Cutover)
    BY <1>1 DEF Install, Upgrade, Uninstall, Adopt, Cutover, Starts
  <2>2. ~(\E chosen \in (SUBSET Files) \ {{}} : Repair(chosen))
    BY <1>1 DEF Repair, Starts
  <2>3. ~(\E j \in DOMAIN cutovers : Rollback(j))
    BY <1>1 DEF Rollback, Starts
  <2>4. ~(CopyBackup \/ CompareDigest \/ RenameFile \/ UndoWrite \/ LookAgain)
    BY <1>1 DEF CopyBackup, CompareDigest, RenameFile, UndoWrite, LookAgain
  <2>5. ~(WriteCutover \/ CommandDies \/ ProgramChanges)
    BY <1>1 DEF WriteCutover, CommandDies, ProgramChanges
  <2>6. ~((\E f \in Files : OwnerEdits(f)) \/ CodexTrustsHooks)
    BY <1>1 DEF OwnerEdits, CodexTrustsHooks, Changed
  <2> QED BY <2>1, <2>2, <2>3, <2>4, <2>5, <2>6 DEF IntegrationNext
<1>3. command.todo # <<>> /\ h.do \in {"installed", "uninstalled"} /\ manifest' = command.plan
  BY <1>2 DEF WriteManifest, Doing
<1>4. h.do = "uninstalled" /\ command.kind = "uninstall"
  BY <1>3, Heading DEF StepOf, Planned
<1>5. \A f \in Files : Writing(f) = {}
  <2>1. Left = {h}
    BY <1>3, <1>4, NoteIsLast DEF Notes
  <2> QED BY <2>1, <1>4 DEF Writing
<1> QED BY <1>4, <1>5 DEF Restores

LEMMA OneAtATime ==
  ASSUME IntegrationInv, IntegrationNext, Dual'
  PROVE  Dual \/ "hooks" \in edited
<1> USE DEF IntegrationInv
<1> DEFINE h == Head(command.todo)
<1>1. CASE files' = files
  BY <1>1 DEF Dual
<1>2. CASE (\E f \in Files : OwnerEdits(f)) \/ CodexTrustsHooks
  BY <1>2, WrittenByOthers DEF Dual
<1>3. CASE RenameFile
  <2> SUFFICES ASSUME ~Dual, "hooks" \notin edited PROVE FALSE
    OBVIOUS
  <2>1. /\ command.todo # <<>> /\ h.do = "write" /\ h \in Left /\ h \in Writing(h.file)
        /\ h.file \in Files
        /\ \A g \in Files : files'[g] = IF g = h.file THEN h.new ELSE files[g]
    BY <1>3, WrittenByCommand
  <2>2. "config" \in Files /\ "hooks" \in Files
    BY DEF Files
  <2>3. \A f \in Files : \A s \in Writing(f) \ {h} : Rank(command.kind, h) < Rank(command.kind, s)
    BY <2>1, Heading DEF Writing
  <2>4. \A f \in Files : \A s \in Writing(f) :
          command.kind # "install" => Rank(command.kind, s) = Place(command.kind, f) + 20
    BY DEF Writing, Rank, Turn, Notes
  <2>5. CASE h.file = "hooks"
    <3>1. h.new.own = "active" /\ files["config"].native
      BY <2>1, <2>2, <2>5 DEF Dual
    <3>2. command.kind = "cutover"
      BY <3>1, <2>1, <2>5 DEF WritesKeep
    <3>3. PICK s \in Writing("config") : TRUE
      BY <3>1, <3>2, <2>1, <2>5 DEF OffBeforeOn
    <3>4. s # h
      BY <2>5 DEF Writing
    <3>5. Rank("cutover", h) = 22 /\ Rank("cutover", s) = 21
      <4>1. Place("cutover", "hooks") = 2 /\ Place("cutover", "config") = 1
        BY DEF Place, Backwards
      <4> QED BY <4>1, <3>2, <2>1, <2>2, <2>4, <2>5
    <3> QED BY <3>2, <3>4, <3>5, <2>2, <2>3
  <2>6. CASE h.file = "config"
    <3>1. h.new.native /\ files["hooks"].own = "active" /\ ~files["config"].native
      BY <2>1, <2>2, <2>6 DEF Dual
    <3>2. command.kind \in {"undo", "rollback"}
      BY <3>1, <2>1, <2>6 DEF WritesKeep
    <3>3. PICK s \in Writing("hooks") : TRUE
      BY <3>1, <3>2, <2>1, <2>6 DEF OffBeforeOn
    <3>4. s # h
      BY <2>6 DEF Writing
    <3>5. Rank(command.kind, h) = 23 /\ Rank(command.kind, s) = 22
      <4>1. Place(command.kind, "hooks") = 2 /\ Place(command.kind, "config") = 3
        BY <3>2 DEF Place, Backwards
      <4> QED BY <4>1, <3>2, <2>1, <2>2, <2>4, <2>6
    <3> QED BY <3>2, <3>4, <3>5, <2>2, <2>3
  <2>7. CASE h.file \notin {"config", "hooks"}
    BY <2>1, <2>2, <2>7 DEF Dual
  <2> QED BY <2>5, <2>6, <2>7
<1> QED BY <1>1, <1>2, <1>3, Writers

(***************************************************************************)
(* What others wrote into a file before a command read it survives every    *)
(* step of the command; a finished rollback has restored the hooks and the   *)
(* native-memory settings of before its own cutover, a finished uninstall    *)
(* the files of before the installation; and no step makes Codex use native  *)
(* and injected memory at once. For any number of edits, cutovers, dead       *)
(* commands and failed writes.                                              *)
(***************************************************************************)
THEOREM IntegrationKeptAlways == IntegrationSpec => IntegrationKept
<1> DEFINE A1 == \A f \in Files \ edited : /\ files'[f].text >= files[f].text
                                           /\ files[f].trust => files'[f].trust
           A2 == \A k \in DOMAIN cutovers :
                   cutovers[k].state # "rolled_back" /\ cutovers'[k].state = "rolled_back" =>
                     /\ "hooks" \notin edited => files["hooks"] = cutovers[k].source["hooks"]
                     /\ "config" \notin edited =>
                          Untrusted(files["config"]) = Untrusted(cutovers[k].source["config"])
           A3 == manifest.state = "installed" /\ manifest'.state = "uninstalled" =>
                   \A f \in Files \ edited : files[f] = manifest.before[f]
           A4 == Dual' => Dual \/ "hooks" \in edited
<1>1. IntegrationInv /\ [IntegrationNext]_integrationVars => [A1]_integrationVars
  BY TextKept
<1>2. IntegrationInv /\ [IntegrationNext]_integrationVars => [A2]_integrationVars
  BY RollbackFinished
<1>3. IntegrationInv /\ [IntegrationNext]_integrationVars => [A3]_integrationVars
  BY UninstallFinished
<1>4. IntegrationInv /\ [IntegrationNext]_integrationVars => [A4]_integrationVars
  BY OneAtATime
<1>5. IntegrationSpec => [][A1]_integrationVars
  BY <1>1, IntegrationInvariant, PTL DEF IntegrationSpec
<1>6. IntegrationSpec => [][A2]_integrationVars
  BY <1>2, IntegrationInvariant, PTL DEF IntegrationSpec
<1>7. IntegrationSpec => [][A3]_integrationVars
  BY <1>3, IntegrationInvariant, PTL DEF IntegrationSpec
<1>8. IntegrationSpec => [][A4]_integrationVars
  BY <1>4, IntegrationInvariant, PTL DEF IntegrationSpec
<1> QED BY <1>5, <1>6, <1>7, <1>8
        DEF IntegrationKept, OthersTextKept, RollbackRestores, UninstallRestores, NeverBoth

-----------------------------------------------------------------------------
(***************************************************************************)
(* Reminders: any number of digests, items and dispatchers.                 *)
(***************************************************************************)
Showing(p, d) == dispatcher[p] = [pc |-> "showing", reminder |-> d]

(***************************************************************************)
(* A reminder that is being shown is in the table and not due, so that no   *)
(* other dispatcher selects it, whatever the owner does with it meanwhile.  *)
(***************************************************************************)
ShownNotDue ==
  \A p \in Dispatchers, d \in Digests :
    Showing(p, d) => ~reminder[d].due /\ reminder[d].state # "absent"

(***************************************************************************)
(* What a dispatcher found or shows is a reminder.                          *)
(***************************************************************************)
FoundIsReminder ==
  \A p \in Dispatchers : dispatcher[p].pc # "idle" => dispatcher[p].reminder \in Digests

RemindersInv == RemindersTypeOK /\ FoundIsReminder /\ ShownNotDue /\ ShownByOne

OwnerStep ==
  \A d \in Digests :
    /\ reminder[d].state = "acknowledged" => reminder'[d].state = "acknowledged"
    /\ reminder[d].state = "snoozed" /\ ~reminder[d].due
         => reminder'[d].state \in {"snoozed", "acknowledged"}

-----------------------------------------------------------------------------
ReminderRow == [state: ReminderStates, due: BOOLEAN, counts: 0..Cardinality(Items)]

Dispatcher == [pc: {"idle", "found", "showing"}, reminder: Digests \cup {NoReminder}]

LEMMA ReminderTypes == RemindersTypeOK <=> /\ openItems \subseteq Items
                                   /\ inbox \in [counted: SUBSET Items,
                                                 state: {"none", "generated", "edited"}]
                                   /\ reminder \in [Digests -> ReminderRow]
                                   /\ dispatcher \in [Dispatchers -> Dispatcher]
  BY DEF RemindersTypeOK, ReminderRow, Dispatcher

(***************************************************************************)
(* One row changes to r, and no dispatcher.                                 *)
(***************************************************************************)
LEMMA RowStep ==
  ASSUME RemindersInv, NEW d \in Digests, NEW r \in ReminderRow,
         reminder' = [reminder EXCEPT ![d] = r],
         UNCHANGED dispatcher, openItems' \subseteq Items,
         inbox' \in [counted: SUBSET Items, state: {"none", "generated", "edited"}],
         \A p \in Dispatchers : Showing(p, d) => ~r.due /\ r.state # "absent",
         reminder[d].state = "acknowledged" => r.state = "acknowledged",
         reminder[d].state = "snoozed" /\ ~reminder[d].due
           => r.state \in {"snoozed", "acknowledged"}
  PROVE  RemindersInv' /\ OwnerStep
<1>1. /\ reminder' \in [Digests -> ReminderRow] /\ reminder'[d] = r
      /\ \A e \in Digests : e # d => reminder'[e] = reminder[e]
  BY ReminderTypes DEF RemindersInv
<1>2. RemindersTypeOK'
  BY <1>1, ReminderTypes DEF RemindersInv, RemindersTypeOK, ReminderRow, Dispatcher
<1>3. ShownNotDue'
  BY <1>1 DEF RemindersInv, ShownNotDue, Showing
<1>4. OwnerStep
  BY <1>1 DEF OwnerStep
<1> QED BY <1>2, <1>3, <1>4 DEF RemindersInv, FoundIsReminder, ShownByOne

(***************************************************************************)
(* One dispatcher becomes idle or has found something, and no row changes   *)
(* but the one it has been showing.                                         *)
(***************************************************************************)
LEMMA IdleStep ==
  ASSUME RemindersInv, NEW p \in Dispatchers, NEW x \in Dispatcher,
         x.pc # "showing", x.pc # "idle" => x.reminder \in Digests,
         dispatcher' = [dispatcher EXCEPT ![p] = x],
         UNCHANGED <<openItems, inbox, reminder>>
  PROVE  RemindersInv' /\ OwnerStep
<1>1. /\ dispatcher' \in [Dispatchers -> Dispatcher] /\ dispatcher'[p] = x
      /\ \A q \in Dispatchers : q # p => dispatcher'[q] = dispatcher[q]
  BY ReminderTypes DEF RemindersInv
<1>2. RemindersTypeOK'
  BY <1>1, ReminderTypes DEF RemindersInv, RemindersTypeOK, ReminderRow, Dispatcher
<1>3. FoundIsReminder'
  BY <1>1 DEF RemindersInv, FoundIsReminder
<1>4. ShownNotDue'
  BY <1>1 DEF RemindersInv, ShownNotDue, Showing
<1>5. ShownByOne'
  BY <1>1 DEF RemindersInv, ShownByOne
<1>6. OwnerStep
  BY DEF OwnerStep
<1> QED BY <1>2, <1>3, <1>4, <1>5, <1>6 DEF RemindersInv

(***************************************************************************)
(* A row is inserted once.                                                  *)
(***************************************************************************)
LEMMA InsertStep ==
  ASSUME RemindersInv, NEW d \in Digests, NEW n \in 0..Cardinality(Items),
         reminder' = Inserted(d, n),
         UNCHANGED <<openItems, inbox, dispatcher>>
  PROVE  RemindersInv' /\ OwnerStep
<1>1. CASE reminder[d].state = "absent"
  <2> DEFINE r == [state |-> "pending", due |-> TRUE, counts |-> n]
  <2>1. r \in ReminderRow
    BY DEF ReminderRow, ReminderStates
  <2>2. \A p \in Dispatchers : ~Showing(p, d)
    BY <1>1 DEF RemindersInv, ShownNotDue
  <2>3. reminder' = [reminder EXCEPT ![d] = r]
    BY <1>1 DEF Inserted
  <2>4. openItems' \subseteq Items
        /\ inbox' \in [counted: SUBSET Items, state: {"none", "generated", "edited"}]
    BY ReminderTypes DEF RemindersInv
  <2> HIDE DEF r
  <2> QED BY <1>1, <2>1, <2>2, <2>3, <2>4, RowStep
<1>2. CASE reminder[d].state # "absent"
  <2>1. UNCHANGED <<openItems, inbox, reminder, dispatcher>>
    BY <1>2 DEF Inserted
  <2> QED BY <2>1 DEF RemindersInv, RemindersTypeOK, FoundIsReminder, ShownNotDue, Showing, ShownByOne,
                      OwnerStep
<1> QED BY <1>1, <1>2

LEMMA CountedRange ==
  ASSUME RemindersTypeOK
  PROVE  Cardinality(inbox.counted) \in 0..Cardinality(Items)
<1>1. inbox.counted \subseteq Items
  BY DEF RemindersTypeOK
<1>2. /\ Cardinality(inbox.counted) <= Cardinality(Items)
      /\ Cardinality(inbox.counted) \in Nat /\ Cardinality(Items) \in Nat
  BY <1>1, RemindersAssumption, FS_Subset, FS_CardinalityType
<1> QED BY <1>2

(***************************************************************************)
(* The transaction of the dispatcher selects a due reminder, which nobody   *)
(* shows.                                                                   *)
(***************************************************************************)
LEMMA TakeStep ==
  ASSUME RemindersInv, NEW p \in Dispatchers, TakeReminder(p)
  PROVE  RemindersInv' /\ OwnerStep
<1>1. UNCHANGED <<openItems, inbox>>
  BY DEF TakeReminder
<1>2. ASSUME NEW d \in Digests, DueDigest(d), Shows(p, d)
      PROVE  RemindersInv' /\ OwnerStep
  <2> DEFINE r == [reminder[d] EXCEPT !.state = "delivering", !.due = FALSE]
             x == [pc |-> "showing", reminder |-> d]
  <2>1. reminder \in [Digests -> ReminderRow] /\ dispatcher \in [Dispatchers -> Dispatcher]
    BY ReminderTypes DEF RemindersInv
  <2>2. r \in ReminderRow /\ r.state = "delivering" /\ ~r.due
    BY <2>1 DEF ReminderRow, ReminderStates
  <2>3. x \in Dispatcher /\ x.pc = "showing" /\ x.reminder = d
    BY DEF Dispatcher
  <2>4. reminder' = [reminder EXCEPT ![d] = r] /\ dispatcher' = [dispatcher EXCEPT ![p] = x]
    BY <1>2 DEF Shows
  <2> HIDE DEF r, x
  <2>5. /\ reminder' \in [Digests -> ReminderRow] /\ reminder'[d] = r
        /\ \A e \in Digests : e # d => reminder'[e] = reminder[e]
    BY <2>1, <2>2, <2>4
  <2>6. /\ dispatcher' \in [Dispatchers -> Dispatcher] /\ dispatcher'[p] = x
        /\ \A q \in Dispatchers : q # p => dispatcher'[q] = dispatcher[q]
    BY <2>1, <2>3, <2>4
  <2>7. \A q \in Dispatchers : ~Showing(q, d)
    BY <1>2 DEF RemindersInv, ShownNotDue, DueDigest
  <2>8. RemindersTypeOK'
    BY <1>1, <2>5, <2>6, ReminderTypes DEF RemindersInv, RemindersTypeOK, ReminderRow, Dispatcher
  <2>9. FoundIsReminder'
    BY <2>3, <2>6 DEF RemindersInv, FoundIsReminder
  <2>10. ShownNotDue'
    BY <2>2, <2>3, <2>5, <2>6 DEF RemindersInv, ShownNotDue, Showing
  <2>11. ShownByOne'
    <3>1. \A q \in Dispatchers : q # p => dispatcher'[q] # x
      BY <2>6, <2>7 DEF Showing, x
    <3> QED BY <2>6, <3>1 DEF RemindersInv, ShownByOne
  <2>12. OwnerStep
    BY <1>2, <2>5 DEF OwnerStep, DueDigest
  <2> QED BY <2>8, <2>9, <2>10, <2>11, <2>12 DEF RemindersInv
<1>3. CASE dispatcher' = [dispatcher EXCEPT ![p] = [pc |-> "idle", reminder |-> NoReminder]]
           /\ UNCHANGED reminder
  BY <1>1, <1>3, IdleStep DEF Dispatcher
<1> QED BY <1>2, <1>3 DEF TakeReminder

(***************************************************************************)
(* The answer of the notifier is stored only while the row is delivered.    *)
(***************************************************************************)
LEMMA RecordStep ==
  ASSUME RemindersInv, NEW p \in Dispatchers, NEW outcome \in {"delivered", "failed", "fallback"},
         Record(p, outcome)
  PROVE  RemindersInv' /\ OwnerStep
<1> DEFINE d == dispatcher[p].reminder
           r == IF reminder[d].state = "delivering" THEN [reminder[d] EXCEPT !.state = outcome]
                ELSE reminder[d]
           x == [pc |-> "idle", reminder |-> NoReminder]
<1>1. reminder \in [Digests -> ReminderRow] /\ dispatcher \in [Dispatchers -> Dispatcher]
  BY ReminderTypes DEF RemindersInv
<1>2. d \in Digests /\ Showing(p, d)
  BY <1>1 DEF Record, RemindersInv, FoundIsReminder, Showing, Dispatcher
<1>3. r \in ReminderRow
  BY <1>1, <1>2 DEF ReminderRow, ReminderStates, Settled
<1>4. /\ UNCHANGED <<openItems, inbox>> /\ dispatcher' = [dispatcher EXCEPT ![p] = x]
      /\ reminder' = [reminder EXCEPT ![d] = r]
  BY <1>1, <1>2 DEF Record
<1>5. /\ r.due = reminder[d].due /\ r.state # "absent"
      /\ r.state = reminder[d].state \/ reminder[d].state = "delivering"
  BY <1>1, <1>2 DEF ReminderRow, RemindersInv, ShownNotDue
<1>6. x \in Dispatcher /\ x.pc = "idle"
  BY DEF Dispatcher
<1> HIDE DEF r, x, d
<1>7. /\ reminder' \in [Digests -> ReminderRow] /\ reminder'[d] = r
      /\ \A e \in Digests : e # d => reminder'[e] = reminder[e]
  BY <1>1, <1>2, <1>3, <1>4
<1>8. /\ dispatcher' \in [Dispatchers -> Dispatcher] /\ dispatcher'[p] = x
      /\ \A q \in Dispatchers : q # p => dispatcher'[q] = dispatcher[q]
  BY <1>1, <1>4, <1>6
<1>9. RemindersTypeOK'
  BY <1>4, <1>7, <1>8, ReminderTypes DEF RemindersInv, RemindersTypeOK, ReminderRow, Dispatcher
<1>10. FoundIsReminder' /\ ShownByOne'
  BY <1>6, <1>8 DEF RemindersInv, FoundIsReminder, ShownByOne
<1>11. ShownNotDue'
  BY <1>5, <1>6, <1>7, <1>8 DEF RemindersInv, ShownNotDue, Showing
<1>12. OwnerStep
  BY <1>5, <1>7 DEF OwnerStep
<1> QED BY <1>9, <1>10, <1>11, <1>12 DEF RemindersInv

LEMMA RemindersStart == RemindersInit => RemindersInv
<1> SUFFICES ASSUME RemindersInit PROVE RemindersInv
  OBVIOUS
<1>1. Cardinality(Items) \in Nat
  BY RemindersAssumption, FS_CardinalityType
<1> QED BY <1>1 DEF RemindersInit, RemindersInv, RemindersTypeOK, ReminderStates, FoundIsReminder,
                    ShownNotDue, Showing, ShownByOne

LEMMA RemindersStep ==
  RemindersInv /\ [RemindersNext]_remindVars =>
    RemindersInv' /\ (OwnerStep \/ UNCHANGED remindVars)
<1> SUFFICES ASSUME RemindersInv, [RemindersNext]_remindVars
             PROVE  RemindersInv' /\ (OwnerStep \/ UNCHANGED remindVars)
  OBVIOUS
<1>1. CASE \/ GenerateInbox \/ EditInbox
           \/ \E i \in Items : OpenItem(i) \/ SettleItem(i)
           \/ UNCHANGED remindVars
  <2>1. UNCHANGED <<reminder, dispatcher>>
    BY <1>1 DEF GenerateInbox, EditInbox, OpenItem, SettleItem, remindVars
  <2>2. openItems' \subseteq Items
        /\ inbox' \in [counted: SUBSET Items, state: {"none", "generated", "edited"}]
    BY <1>1, ReminderTypes DEF RemindersInv, GenerateInbox, EditInbox, OpenItem, SettleItem, remindVars
  <2> QED BY <2>1, <2>2 DEF RemindersInv, RemindersTypeOK, FoundIsReminder, ShownNotDue, Showing,
                            ShownByOne, OwnerStep
<1>2. ASSUME NEW d \in Digests, PrepareReview(d)
      PROVE  RemindersInv' /\ OwnerStep
  BY <1>2, CountedRange, InsertStep DEF PrepareReview, RemindersInv
<1>3. ASSUME NEW d \in Digests, PrepareHealth(d)
      PROVE  RemindersInv' /\ OwnerStep
  BY <1>3, InsertStep DEF PrepareHealth
<1>4. ASSUME NEW d \in Digests, ComesDue(d) \/ Snooze(d) \/ AcknowledgeDigest(d)
      PROVE  RemindersInv' /\ OwnerStep
  <2>1. openItems' \subseteq Items
        /\ inbox' \in [counted: SUBSET Items, state: {"none", "generated", "edited"}]
    BY <1>4, ReminderTypes DEF RemindersInv, ComesDue, Snooze, AcknowledgeDigest
  <2>2. reminder[d] \in ReminderRow
    BY ReminderTypes DEF RemindersInv
  <2>3. CASE ComesDue(d)
    <3> DEFINE r == [reminder[d] EXCEPT !.due = TRUE]
    <3>1. r \in ReminderRow /\ r.state = reminder[d].state
      BY <2>2 DEF ReminderRow
    <3>2. reminder' = [reminder EXCEPT ![d] = r] /\ UNCHANGED dispatcher
      BY <2>3 DEF ComesDue
    <3>3. reminder[d].state \in {"failed", "snoozed"}
      BY <2>3 DEF ComesDue
    <3>4. \A p \in Dispatchers : ~Showing(p, d)
      BY <2>3 DEF ComesDue, Showing
    <3> HIDE DEF r
    <3> QED BY <2>1, <3>1, <3>2, <3>3, <3>4, RowStep
  <2>4. CASE Snooze(d)
    <3> DEFINE r == [reminder[d] EXCEPT !.state = "snoozed", !.due = FALSE]
    <3>1. r \in ReminderRow /\ r.state = "snoozed" /\ ~r.due
      BY <2>2 DEF ReminderRow, ReminderStates
    <3>2. reminder' = [reminder EXCEPT ![d] = r]
      BY <2>4 DEF Snooze
    <3> QED BY <2>1, <2>4, <3>1, <3>2, RowStep DEF Snooze
  <2>5. CASE AcknowledgeDigest(d)
    <3> DEFINE r == [reminder[d] EXCEPT !.state = "acknowledged", !.due = FALSE]
    <3>1. r \in ReminderRow /\ r.state = "acknowledged" /\ ~r.due
      BY <2>2 DEF ReminderRow, ReminderStates, Settled
    <3>2. reminder' = [reminder EXCEPT ![d] = r]
      BY <2>5 DEF AcknowledgeDigest
    <3> QED BY <2>1, <2>5, <3>1, <3>2, RowStep DEF AcknowledgeDigest
  <2> QED BY <1>4, <2>3, <2>4, <2>5
<1>5. ASSUME NEW p \in Dispatchers, NEW d \in Digests, FindDue(p, d)
      PROVE  RemindersInv' /\ OwnerStep
  <2>1. [pc |-> "found", reminder |-> d] \in Dispatcher
    BY DEF Dispatcher
  <2> QED BY <1>5, <2>1, IdleStep DEF FindDue
<1>6. ASSUME NEW p \in Dispatchers, DispatcherDies(p)
      PROVE  RemindersInv' /\ OwnerStep
  <2>1. [pc |-> "idle", reminder |-> NoReminder] \in Dispatcher
    BY DEF Dispatcher
  <2> QED BY <1>6, <2>1, IdleStep DEF DispatcherDies
<1>7. ASSUME NEW p \in Dispatchers, TakeReminder(p) \/ RecordOutcome(p)
      PROVE  RemindersInv' /\ OwnerStep
  BY <1>7, TakeStep, RecordStep DEF RecordOutcome
<1> QED BY <1>1, <1>2, <1>3, <1>4, <1>5, <1>6, <1>7 DEF RemindersNext

(***************************************************************************)
(* The rows and dispatchers keep their types, and whoever shows a reminder  *)
(* is alone with it.                                                        *)
(***************************************************************************)
THEOREM RemindersInvariant == RemindersSpec => []RemindersInv
<1>1. RemindersInv /\ [RemindersNext]_remindVars => RemindersInv'
  BY RemindersStep
<1> QED BY <1>1, RemindersStart, PTL DEF RemindersSpec

(***************************************************************************)
(* Two dispatchers never show one reminder, though each queries outside its *)
(* transaction (reminders.ts:160), and a late answer of the notifier undoes *)
(* neither an acknowledgement nor a snooze.                                 *)
(***************************************************************************)
THEOREM RemindersKeptAlways == RemindersSpec => RemindersKept
<1>1. RemindersInv => ShownByOne
  BY DEF RemindersInv
<1>2. RemindersInv /\ [RemindersNext]_remindVars => [OwnerStep]_remindVars
  BY RemindersStep
<1>3. RemindersSpec => [][OwnerStep]_remindVars
  BY <1>2, RemindersInvariant, PTL DEF RemindersSpec
<1>4. RemindersSpec => []ShownByOne
  BY <1>1, RemindersInvariant, PTL
<1> QED BY <1>3, <1>4 DEF RemindersKept, OwnerDecides, OwnerStep


-----------------------------------------------------------------------------
(***************************************************************************)
(* The index, the packs, the reminders and the installation share no state: *)
(* each behaviour of the four together is, seen through the variables of one, *)
(* a behaviour of that one.                                                  *)
(***************************************************************************)
LEMMA ServingParts ==
  AllSpec => IndexSpec /\ ForegroundSpec /\ RemindersSpec /\ IntegrationSpec
<1>1. AllInit => IndexInit /\ ForegroundInit /\ RemindersInit /\ IntegrationInit
  BY DEF AllInit
<1>2. [AllNext]_allVars => /\ [IndexNext]_indexVars /\ [ForegroundNext]_foregroundVars
                           /\ [RemindersNext]_remindVars /\ [IntegrationNext]_integrationVars
  BY DEF AllNext, allVars
<1> QED BY <1>1, <1>2, PTL
        DEF AllSpec, IndexSpec, ForegroundSpec, RemindersSpec, IntegrationSpec

\* What the index, the packs, the reminders and the installation keep has its type,
\* whichever of them a behaviour of the suite is of: builds of any number of Workers,
\* requests, dispatchers, commands and edits.
THEOREM ServingTyped == AllSpec => []ServingTypeOK
<1>1. ForegroundInv => ForegroundTypeOK
  BY DEF ForegroundInv
<1>2. RemindersInv => RemindersTypeOK
  BY DEF RemindersInv
<1>3. /\ AllInit => part \in Components
      /\ part \in Components /\ [AllNext]_allVars => (part \in Components)'
  BY DEF AllInit, AllNext, allVars, Of, Components
<1>4. AllSpec => [](part \in Components)
  BY <1>3, PTL DEF AllSpec
<1>5. /\ part \in Components /\ IndexTypeOK /\ ForegroundTypeOK /\ RemindersTypeOK
      /\ IntegrationTypeOK
      => ServingTypeOK
  BY DEF ServingTypeOK
<1> QED BY <1>1, <1>2, <1>4, <1>5, ServingParts, IndexTypedAlways, ForegroundInvariant,
           RemindersInvariant, IntegrationTyped, PTL
=============================================================================
