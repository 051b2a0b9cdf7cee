------------------------------ MODULE VaultProofs ------------------------------
(***************************************************************************)
(* Theorems about CanonicalVault, for any number of Memories, processes,   *)
(* revisions, edits by hand and crashes.                                   *)
(***************************************************************************)
EXTENDS CanonicalVault, FiniteSetTheorems, TLAPS

Kinds == {"none", "write", "reconcile", "purge"}
Pcs == {"idle", "recover", "reserve", "read", "reconciled", "keep", "unowned", "link",
        "compare", "rename", "revision", "verify", "commit", "done", "failed",
        "edited", "target", "erase", "tombstone"}

Calls == [kind: Kinds, pc: Pcs, memory: Memories \cup {None}, admitted: BOOLEAN,
          base: Content \cup {None}, seen: Content \cup {None}, next: Content \cup {None}]

Types == TypeOK /\ job \in [Writers -> Calls]

(***************************************************************************)
(* What a write knows at each step: what it replaces has been read, is not *)
(* a tombstone, and is the agent's if the successor is.                    *)
(***************************************************************************)
WriteCall(j) ==
  /\ j.kind = "write" /\ j.memory \in Memories /\ j.next \in Content
  /\ j.next.lifecycle \in {"active", "archived"}
  /\ j.pc \in {"recover", "reserve", "read", "reconciled", "keep", "unowned", "link",
               "compare", "rename", "revision", "verify", "commit", "done", "failed"}
  /\ j.base # None => j.base.lifecycle # "tombstone" /\ j.base.revision < j.next.revision
  /\ j.pc \in {"reconciled", "keep", "compare", "rename"} => j.base # None
  /\ j.pc \in {"reconciled", "keep", "compare", "rename", "revision", "verify", "commit"}
       => j.seen = j.base
  /\ j.pc \in {"recover", "reserve", "read", "unowned", "link"} => j.seen = None
  /\ j.pc \in {"unowned", "link"} => j.base = None
  /\ j.pc \in {"keep", "compare", "rename", "revision", "verify", "commit"} /\ j.base # None
       => (j.base.author = "human" => j.next.author = "human")

(***************************************************************************)
(* A reconciliation makes a later, human revision of what the row shows; of *)
(* a tombstone, a tombstone.                                               *)
(***************************************************************************)
ReconcileCall(j) ==
  /\ j.kind = "reconcile" /\ j.memory \in Memories
  /\ j.base \in Content /\ ~j.admitted
  /\ j.pc \in {"edited", "compare", "rename", "revision", "verify", "commit", "done", "failed"}
  /\ j.pc = "edited" => j.next = None
  /\ j.pc \in {"compare", "rename", "revision", "verify", "commit"} =>
       /\ j.next \in Content /\ j.seen \in Content
       /\ j.next.author = "human" /\ j.seen.revision = j.base.revision
       /\ j.base.revision < j.next.revision
       /\ j.base.lifecycle = "tombstone" => j.next.lifecycle = "tombstone"

(***************************************************************************)
(* A purge makes a tombstone that is the human's if the ordered content is. *)
(***************************************************************************)
PurgeCall(j) ==
  /\ j.kind = "purge" /\ j.memory \in Memories
  /\ j.base \in Content /\ ~j.admitted
  /\ j.pc \in {"target", "compare", "rename", "erase", "tombstone", "done", "failed"}
  /\ j.pc = "target" => j.next = None
  /\ j.pc \in {"compare", "rename", "erase", "tombstone"} =>
       /\ j.next \in Content /\ j.next.lifecycle = "tombstone"
       /\ j.base.author = "human" => j.next.author = "human"

CallOK(j) == j = Idle \/ WriteCall(j) \/ ReconcileCall(j) \/ PurgeCall(j)

CallsOK == \A w \in Writers : CallOK(job[w])

-----------------------------------------------------------------------------
(***************************************************************************)
(* The contents that files, rows, orders and calls show.                   *)
(***************************************************************************)
Shown(c) ==
  /\ c \in Content
  /\ \/ \E m \in Memories : c = file[m] \/ c = catalog[m] \/ c = order[m]
     \/ \E w \in Writers : c = job[w].base \/ c = job[w].next

(***************************************************************************)
(* Contents of one revision have one author, whatever was edited; only a   *)
(* tombstone names what it replaced, and is the human's if that was.       *)
(***************************************************************************)
Lineage ==
  /\ \A c : Shown(c) =>
       /\ c.revision < fresh
       /\ c.purged <= c.revision
       /\ c.purged # 0 => c.lifecycle = "tombstone"
  /\ \A c, d : Shown(c) /\ Shown(d) =>
       /\ c.revision = d.revision => c.author = d.author
       /\ c.purged = d.revision /\ d.author = "human" => c.author = "human"

(***************************************************************************)
(* The call of w may still bring its revision, not a tombstone, to the file. *)
(***************************************************************************)
Pending(w) ==
  /\ job[w].kind \in {"write", "reconcile"} /\ job[w].pc \notin {"done", "failed"}
  /\ job[w].next \in Content /\ job[w].next.lifecycle # "tombstone"

(***************************************************************************)
(* What is settled already, or belongs to other calls than that of w.      *)
(***************************************************************************)
Elsewhere(c, w) ==
  /\ c \in Content
  /\ \/ \E m \in Memories : \/ c = catalog[m] \/ c = order[m]
                            \/ c = file[m] /\ c.lifecycle = "tombstone"
     \/ \E v \in Writers : \/ job[v].kind \in {"reconcile", "purge"} /\ c = job[v].base
                           \/ v # w /\ c = job[v].next

PendingIsNew ==
  \A w \in Writers : \A c : Pending(w) /\ Elsewhere(c, w) => c.revision # job[w].next.revision

(***************************************************************************)
(* Tombstones a row shows, or that a call is about to make it show.        *)
(***************************************************************************)
Buried(m, c) ==
  /\ c \in Content /\ c.lifecycle = "tombstone"
  /\ \/ c = catalog[m]
     \/ \E w \in Writers :
          /\ job[w].memory = m
          /\ \/ job[w].kind = "reconcile" /\ (c = job[w].base \/ c = job[w].next)
             \/ /\ job[w].kind = "purge" /\ job[w].pc \in {"erase", "tombstone"}
                /\ c = job[w].next

(***************************************************************************)
(* The body of a revision does not come back once its tombstone is there.  *)
(***************************************************************************)
BuriedStays ==
  \A m \in Memories : \A c :
    Buried(m, c) /\ file[m] \in Content /\ file[m].revision = c.revision
      => file[m].lifecycle = "tombstone"

(***************************************************************************)
(* The row has gone past every revision that was replaced.                 *)
(***************************************************************************)
RowsBelow ==
  \A m \in Memories : \A r \in rows[m] :
    r.predecessor # 0 => catalog[m] \in Content /\ r.predecessor < catalog[m].revision

Sound == Lineage /\ PendingIsNew /\ BuriedStays /\ RowsBelow /\ OneSuccessor

Inv == Types /\ CallsOK /\ Sound

-----------------------------------------------------------------------------
LEMMA IdleCall ==
  /\ Idle \in Calls /\ CallOK(Idle)
  /\ Idle.kind = "none" /\ Idle.base = None /\ Idle.next = None /\ ~Idle.admitted
  BY DEF Idle, Calls, Kinds, Pcs, CallOK

(***************************************************************************)
(* A process moves on to another step of its call, or to another call.     *)
(***************************************************************************)
SameCall(w) ==
  /\ job'[w].kind = job[w].kind /\ job'[w].memory = job[w].memory
  /\ job'[w].base = job[w].base /\ job'[w].next = job[w].next

Others(w) == \A v \in Writers \ {w} : job'[v] = job[v]

NoneNew == \A c : Shown(c)' => Shown(c)

LEMMA GotoFields ==
  ASSUME job \in [Writers -> Calls], NEW w \in Writers, NEW pc \in Pcs, Goto(w, pc)
  PROVE  /\ job' \in [Writers -> Calls]
         /\ SameCall(w) /\ Others(w)
         /\ job'[w].pc = pc /\ job'[w].seen = job[w].seen
         /\ job'[w].admitted = job[w].admitted
<1>1. job[w] \in Calls
  OBVIOUS
<1>2. [job[w] EXCEPT !.pc = pc] \in Calls
  BY <1>1 DEF Calls
<1>3. job' = [job EXCEPT ![w] = [job[w] EXCEPT !.pc = pc]]
  BY DEF Goto
<1> QED BY <1>1, <1>2, <1>3 DEF Calls, SameCall, Others

LEMMA NewCall ==
  ASSUME job \in [Writers -> Calls], NEW w \in Writers, NEW j \in Calls,
         job' = [job EXCEPT ![w] = j]
  PROVE  job' \in [Writers -> Calls] /\ job'[w] = j /\ Others(w)
  BY DEF Others

LEMMA OneCall ==
  ASSUME CallsOK, NEW w \in Writers, Others(w), CallOK(job'[w])
  PROVE  CallsOK'
<1>1. \A v \in Writers : CallOK(job'[v])
  BY DEF CallsOK, Others
<1> QED BY <1>1 DEF CallsOK, CallOK, WriteCall, ReconcileCall, PurgeCall

(***************************************************************************)
(* A step that only moves a call on, or ends it, disturbs nothing.          *)
(***************************************************************************)
Calm(w) ==
  /\ UNCHANGED <<file, catalog, rows, order, fresh>>
  /\ Others(w)
  /\ \/ job'[w] = Idle
     \/ /\ SameCall(w)
        /\ job'[w].pc \in {"erase", "tombstone"} => job[w].pc \in {"erase", "tombstone"}
        /\ job[w].pc \in {"done", "failed"} => job'[w].pc \in {"done", "failed"}

LEMMA CalmStep ==
  ASSUME Inv, NEW w \in Writers, Calm(w)
  PROVE  Sound' /\ NoneNew
<1> USE DEF Inv, Sound, Calm, Others
<1>0. None \notin Content
  BY NoContentAssumption
<1>1. ASSUME NEW c, Shown(c)' PROVE Shown(c)
  BY <1>0, <1>1, IdleCall DEF Shown, SameCall
<1>2. Lineage'
  BY <1>1 DEF Lineage
<1>3. ASSUME NEW v \in Writers, NEW c, Pending(v)', Elsewhere(c, v)'
      PROVE  c.revision # job'[v].next.revision
  <2>1. Pending(v) /\ job'[v].next = job[v].next
    BY <1>0, <1>3, IdleCall DEF Pending, SameCall
  <2>2. Elsewhere(c, v)
    BY <1>0, <1>3, IdleCall DEF Elsewhere, SameCall
  <2> QED BY <2>1, <2>2 DEF PendingIsNew
<1>4. ASSUME NEW m \in Memories, NEW c, Buried(m, c)' PROVE Buried(m, c)
  BY <1>0, <1>4, IdleCall DEF Buried, SameCall
<1>5. BuriedStays'
  BY <1>4 DEF BuriedStays
<1>6. RowsBelow' /\ OneSuccessor'
  BY DEF RowsBelow, OneSuccessor
<1> QED BY <1>1, <1>2, <1>3, <1>5, <1>6 DEF NoneNew, PendingIsNew

(***************************************************************************)
(* A reconciliation or a purge starts from what the row or the order shows. *)
(***************************************************************************)
Starts(w) ==
  /\ UNCHANGED <<file, catalog, rows, order, fresh>>
  /\ Others(w) /\ job[w] = Idle /\ job'[w].next = None
  /\ job'[w].pc \notin {"erase", "tombstone"}
  /\ \E m \in Memories :
       /\ job'[w].memory = m
       /\ \/ job'[w].kind = "reconcile" /\ job'[w].base = catalog[m]
          \/ job'[w].kind = "purge" /\ job'[w].base = order[m]

LEMMA StartsStep ==
  ASSUME Inv, NEW w \in Writers, Starts(w)
  PROVE  Sound' /\ NoneNew
<1> USE DEF Inv, Sound, Starts, Others
<1>0. None \notin Content
  BY NoContentAssumption
<1>1. ASSUME NEW c, Shown(c)' PROVE Shown(c)
  BY <1>0, <1>1 DEF Shown
<1>2. Lineage'
  BY <1>1 DEF Lineage
<1>3. ASSUME NEW v \in Writers, NEW c, Pending(v)', Elsewhere(c, v)'
      PROVE  c.revision # job'[v].next.revision
  <2>1. Pending(v) /\ job'[v].next = job[v].next
    BY <1>0, <1>3 DEF Pending
  <2>2. Elsewhere(c, v)
    BY <1>0, <1>3 DEF Elsewhere
  <2> QED BY <2>1, <2>2 DEF PendingIsNew
<1>4. ASSUME NEW m \in Memories, NEW c, Buried(m, c)' PROVE Buried(m, c)
  BY <1>0, <1>4 DEF Buried
<1>5. BuriedStays'
  BY <1>4 DEF BuriedStays
<1>6. RowsBelow' /\ OneSuccessor'
  BY DEF RowsBelow, OneSuccessor
<1> QED BY <1>1, <1>2, <1>3, <1>5, <1>6 DEF NoneNew, PendingIsNew

(***************************************************************************)
(* A rendered revision gets an identity that nothing has yet.              *)
(***************************************************************************)
Renders(w) ==
  /\ UNCHANGED <<file, catalog, rows, order>>
  /\ Others(w) /\ fresh' = fresh + 1
  /\ job'[w].next \in Content /\ job'[w].next.revision = fresh /\ job'[w].next.edit = 0
  /\ job'[w].next.author = "human" \/ job'[w].next.purged = 0
  /\ job'[w].next.purged < fresh
  /\ job'[w].next.purged # 0 => job'[w].next.lifecycle = "tombstone"
  /\ \/ /\ job'[w].kind = "write"
        /\ job'[w].base = None \/ \E m \in Memories : job'[w].base = file[m]
     \/ /\ job'[w].kind = "reconcile" /\ job[w].kind = "reconcile"
        /\ job'[w].base = job[w].base /\ job'[w].memory = job[w].memory
        /\ job[w].memory \in Memories /\ file[job[w].memory] \in Content
        /\ file[job[w].memory] # job[w].base
        /\ file[job[w].memory].revision = job[w].base.revision
        /\ job'[w].next.lifecycle = file[job[w].memory].lifecycle

LEMMA RendersStep ==
  ASSUME Inv, NEW w \in Writers, Renders(w)
  PROVE  Sound'
<1> USE DEF Inv, Sound, Renders, Others
<1>0. None \notin Content
  BY NoContentAssumption
<1> DEFINE n == job'[w].next
<1>1. ASSUME NEW c, Shown(c)', c # n PROVE Shown(c)
  BY <1>0, <1>1 DEF Shown
<1>2. fresh \in Nat /\ \A c \in Content : c.revision \in Nat /\ c.purged \in Nat
  BY VaultAssumption DEF Types, TypeOK, Content
<1>3. \A c : Shown(c) => c \in Content
  BY DEF Shown
<1>4. \A c : Shown(c)' =>
        c \in Content /\ c.revision < fresh' /\ c.purged <= c.revision
        /\ (c.purged # 0 => c.lifecycle = "tombstone")
  BY <1>1, <1>2, <1>3 DEF Lineage
<1>5. ASSUME NEW c, NEW d, Shown(c)', Shown(d)'
      PROVE  /\ c.revision = d.revision => c.author = d.author
             /\ c.purged = d.revision /\ d.author = "human" => c.author = "human"
  <2>1. CASE c = n /\ d = n
    BY <2>1, <1>2
  <2>2. CASE c # n /\ d # n
    BY <1>1, <1>5, <2>2 DEF Lineage
  <2>3. CASE c = n /\ d # n
    <3>1. Shown(d) /\ d.revision < fresh /\ d.revision \in Nat /\ d \in Content /\ d.revision # 0
      BY <1>1, <1>2, <1>3, <1>5, <2>3 DEF Lineage, Content
    <3> QED BY <1>2, <2>3, <3>1
  <2>4. CASE c # n /\ d = n
    <3>1. Shown(c) /\ c.revision < fresh /\ c.purged < fresh /\ c.purged \in Nat /\ c.revision \in Nat
      BY <1>1, <1>2, <1>3, <1>5, <2>4 DEF Lineage
    <3> QED BY <1>2, <2>4, <3>1
  <2> QED BY <2>1, <2>2, <2>3, <2>4
<1>6. Lineage'
  BY <1>4, <1>5 DEF Lineage
<1>7. ASSUME NEW v \in Writers, NEW c, Pending(v)', Elsewhere(c, v)'
      PROVE  c.revision # job'[v].next.revision
  <2>1. CASE v = w
    <3>1. Shown(c)
      BY <1>0, <1>7, <2>1 DEF Elsewhere, Shown
    <3> QED BY <1>2, <1>3, <2>1, <3>1 DEF Lineage
  <2>2. CASE v # w
    <3>1. Pending(v) /\ job'[v].next = job[v].next /\ Shown(job[v].next)
      BY <1>7, <2>2 DEF Pending, Shown
    <3>2. CASE c = n
      BY <1>2, <1>3, <3>1, <3>2 DEF Lineage
    <3>3. CASE c # n
      <4>1. Elsewhere(c, v)
        BY <1>0, <1>7, <2>2, <3>3 DEF Elsewhere
      <4> QED BY <3>1, <4>1 DEF PendingIsNew
    <3> QED BY <3>2, <3>3
  <2> QED BY <2>1, <2>2
<1>8. BuriedStays'
  <2> SUFFICES ASSUME NEW m \in Memories, NEW c, Buried(m, c)', file[m] \in Content,
                      file[m].revision = c.revision
               PROVE  file[m].lifecycle = "tombstone"
    BY DEF BuriedStays
  <2>1. c # n
    <3>1. Shown(file[m])
      BY DEF Shown
    <3> QED BY <1>2, <1>3, <3>1 DEF Lineage
  <2>2. Buried(m, c)
    BY <1>0, <2>1 DEF Buried
  <2> QED BY <2>2 DEF BuriedStays
<1>9. RowsBelow' /\ OneSuccessor'
  BY DEF RowsBelow, OneSuccessor
<1> QED BY <1>6, <1>7, <1>8, <1>9 DEF PendingIsNew

(***************************************************************************)
(* A purge finds the body that was ordered, or the tombstone of it.         *)
(***************************************************************************)
Targets(w) ==
  /\ UNCHANGED <<file, catalog, rows, order, fresh>>
  /\ Others(w) /\ job[w].kind = "purge" /\ job[w].memory \in Memories
  /\ job'[w].kind = "purge" /\ job'[w].memory = job[w].memory /\ job'[w].base = job[w].base
  /\ job[w].base \in Content /\ job'[w].next \in Content
  /\ LET found == file[job[w].memory] IN
     \/ /\ job'[w].pc = "compare" /\ found = job[w].base
        /\ job'[w].next.lifecycle = "tombstone" /\ job'[w].next.purged = found.revision
        /\ job'[w].next.revision = found.revision /\ job'[w].next.author = found.author
        /\ job'[w].next.edit = found.edit
     \/ job'[w].pc = "erase" /\ found.lifecycle = "tombstone" /\ job'[w].next = found

LEMMA TargetsStep ==
  ASSUME Inv, NEW w \in Writers, Targets(w)
  PROVE  Sound'
<1> USE DEF Inv, Sound, Targets, Others
<1>0. None \notin Content
  BY NoContentAssumption
<1> DEFINE n == job'[w].next
           found == file[job[w].memory]
<1>1. \A c \in Content : c.revision \in Nat /\ c.purged \in Nat /\ c.revision # 0
  BY VaultAssumption DEF Content
<1>2. found \in Content /\ Shown(found)
  BY DEF Shown
<1>3. \A c : Shown(c) => c \in Content
  BY DEF Shown
<1>4. n = found \/ /\ n.lifecycle = "tombstone" /\ n.purged = found.revision
                   /\ n.revision = found.revision /\ n.author = found.author
  OBVIOUS
<1>5. ASSUME NEW c, Shown(c)' PROVE Shown(c) \/ c = n
  BY <1>0, <1>5 DEF Shown
<1>6. \A c : Shown(c)' =>
        c.revision < fresh /\ c.purged <= c.revision
        /\ (c.purged # 0 => c.lifecycle = "tombstone")
  BY <1>1, <1>2, <1>4, <1>5 DEF Lineage
<1>7. ASSUME NEW c, NEW d, Shown(c)', Shown(d)'
      PROVE  /\ c.revision = d.revision => c.author = d.author
             /\ c.purged = d.revision /\ d.author = "human" => c.author = "human"
  <2>1. CASE Shown(c) /\ Shown(d)
    BY <2>1 DEF Lineage
  <2>2. CASE c = n /\ d = n
    BY <2>2
  <2>3. CASE c = n /\ Shown(d)
    BY <1>2, <1>4, <2>3 DEF Lineage
  <2>4. CASE Shown(c) /\ d = n
    BY <1>2, <1>4, <2>4 DEF Lineage
  <2> QED BY <1>5, <1>7, <2>1, <2>2, <2>3, <2>4
<1>8. Lineage'
  BY <1>6, <1>7 DEF Lineage
<1>9. ASSUME NEW v \in Writers, NEW c, Pending(v)', Elsewhere(c, v)'
      PROVE  c.revision # job'[v].next.revision
  <2>1. v # w /\ Pending(v) /\ job'[v].next = job[v].next
    BY <1>9 DEF Pending
  <2>2. \E d : Elsewhere(d, v) /\ d.revision = c.revision
    <3>1. CASE Elsewhere(c, v)
      BY <3>1
    <3>2. CASE c = n /\ found = job[w].base
      <4>1. Elsewhere(found, v)
        BY <1>2, <3>2 DEF Elsewhere
      <4> QED BY <1>4, <3>2, <4>1
    <3>3. CASE c = n /\ found.lifecycle = "tombstone" /\ n = found
      <4>1. Elsewhere(found, v)
        BY <1>2, <3>3 DEF Elsewhere
      <4> QED BY <3>3, <4>1
    <3>4. Elsewhere(c, v) \/ c = n
      BY <1>0, <1>9, <2>1 DEF Elsewhere
    <3> QED BY <3>1, <3>2, <3>3, <3>4
  <2> QED BY <2>1, <2>2 DEF PendingIsNew
<1>10. BuriedStays'
  <2> SUFFICES ASSUME NEW m \in Memories, NEW c, Buried(m, c)', file[m] \in Content,
                      file[m].revision = c.revision
               PROVE  file[m].lifecycle = "tombstone"
    BY DEF BuriedStays
  <2>1. CASE Buried(m, c)
    BY <2>1 DEF BuriedStays
  <2>2. CASE ~Buried(m, c)
    <3>1. job'[w].pc = "erase" /\ m = job[w].memory /\ c = n
      BY <1>0, <2>2 DEF Buried
    <3> QED BY <3>1
  <2> QED BY <2>1, <2>2
<1>11. RowsBelow' /\ OneSuccessor'
  BY DEF RowsBelow, OneSuccessor
<1> QED BY <1>8, <1>9, <1>10, <1>11 DEF PendingIsNew

(***************************************************************************)
(* The revision of a call is put into the file.                             *)
(***************************************************************************)
Writes(w) ==
  /\ UNCHANGED <<catalog, rows, order, fresh>>
  /\ Others(w) /\ SameCall(w)
  /\ job[w].memory \in Memories /\ job[w].next \in Content
  /\ file' = [file EXCEPT ![job[w].memory] = job[w].next]
  /\ \/ Pending(w) \/ job[w].next.lifecycle = "tombstone"
  /\ job[w].kind = "purge" => job[w].next.lifecycle = "tombstone"
  /\ job[w].pc \notin {"done", "failed"}

LEMMA WritesStep ==
  ASSUME Inv, NEW w \in Writers, Writes(w)
  PROVE  Sound' /\ NoneNew
<1> USE DEF Inv, Sound, Writes, Others, SameCall
<1>0. None \notin Content /\ file \in [Memories -> Content \cup {None}]
  BY NoContentAssumption DEF Types, TypeOK
<1> DEFINE n == job[w].next
           k == job[w].memory
<1>1. file'[k] = n /\ \A m \in Memories \ {k} : file'[m] = file[m]
  BY <1>0
<1>2. ASSUME NEW c, Shown(c)' PROVE Shown(c)
  BY <1>0, <1>1, <1>2 DEF Shown
<1>3. Lineage'
  BY <1>2 DEF Lineage
<1>4. ASSUME NEW v \in Writers, NEW c, Pending(v)', Elsewhere(c, v)'
      PROVE  c.revision # job'[v].next.revision
  <2>1. Pending(v) /\ job'[v].next = job[v].next
    BY <1>4 DEF Pending
  <2>2. Elsewhere(c, v) \/ (c = n /\ n.lifecycle = "tombstone")
    BY <1>0, <1>1, <1>4 DEF Elsewhere
  <2>3. CASE c = n /\ n.lifecycle = "tombstone"
    <3>1. v # w
      BY <2>1, <2>3 DEF Pending
    <3>2. Elsewhere(c, v)
      BY <2>3, <3>1 DEF Elsewhere
    <3> QED BY <2>1, <3>2 DEF PendingIsNew
  <2> QED BY <2>1, <2>2, <2>3 DEF PendingIsNew
<1>5. BuriedStays'
  <2> SUFFICES ASSUME NEW m \in Memories, NEW c, Buried(m, c)', file'[m] \in Content,
                      file'[m].revision = c.revision, file'[m].lifecycle # "tombstone"
               PROVE  FALSE
    BY DEF BuriedStays
  <2>1. CASE m = k
    <3>1. file'[m] = n /\ Pending(w)
      BY <1>1, <2>1
    <3>2. c # n
      BY <3>1 DEF Buried
    <3>3. Elsewhere(c, w)
      BY <3>1, <3>2 DEF Buried, Elsewhere, Pending
    <3> QED BY <3>1, <3>3 DEF PendingIsNew
  <2>2. CASE m # k
    <3>1. file'[m] = file[m]
      BY <1>1, <2>2
    <3>2. Buried(m, c)
      BY <2>2 DEF Buried
    <3> QED BY <3>1, <3>2 DEF BuriedStays
  <2> QED BY <2>1, <2>2
<1>6. RowsBelow' /\ OneSuccessor'
  BY DEF RowsBelow, OneSuccessor
<1> QED BY <1>2, <1>3, <1>4, <1>5, <1>6 DEF NoneNew, PendingIsNew

(***************************************************************************)
(* A call makes the row show its revision, a later one than it showed.      *)
(***************************************************************************)
Shows(w) ==
  /\ UNCHANGED <<file, order, fresh>>
  /\ Others(w) /\ SameCall(w)
  /\ job[w].kind \in {"write", "reconcile"} /\ job[w].pc = "commit" /\ job'[w].pc = "done"
  /\ job[w].memory \in Memories /\ job[w].next \in Content
  /\ job[w].kind = "write" => job[w].next.lifecycle # "tombstone"
  /\ catalog[job[w].memory] # None =>
       /\ job[w].seen \in Content /\ job[w].seen.revision = catalog[job[w].memory].revision
       /\ job[w].seen.revision < job[w].next.revision
  /\ catalog[job[w].memory] = None => job[w].seen = None
  /\ catalog[job[w].memory] = job[w].base
  /\ catalog' = [catalog EXCEPT ![job[w].memory] = job[w].next]
  /\ rows' = [rows EXCEPT ![job[w].memory] = RowsAfter(w)]

LEMMA ShowsStep ==
  ASSUME Inv, NEW w \in Writers, Shows(w)
  PROVE  Sound' /\ NoneNew
<1> USE DEF Inv, Sound, Shows, Others, SameCall
<1>0. /\ None \notin Content /\ catalog \in [Memories -> Content \cup {None}]
      /\ rows \in [Memories -> SUBSET [revision: 1..MaxRevision, predecessor: 0..MaxRevision]]
  BY NoContentAssumption DEF Types, TypeOK
<1> DEFINE n == job[w].next
           k == job[w].memory
<1>1. catalog'[k] = n /\ \A m \in Memories \ {k} : catalog'[m] = catalog[m]
  BY <1>0
<1>2. ASSUME NEW c, Shown(c)' PROVE Shown(c)
  BY <1>0, <1>1, <1>2 DEF Shown
<1>3. Lineage'
  BY <1>2 DEF Lineage
<1>4. ASSUME NEW v \in Writers, NEW c, Pending(v)', Elsewhere(c, v)'
      PROVE  c.revision # job'[v].next.revision
  <2>1. v # w /\ Pending(v) /\ job'[v].next = job[v].next
    BY <1>4 DEF Pending
  <2>2. Elsewhere(c, v)
    BY <1>0, <1>1, <1>4, <2>1 DEF Elsewhere
  <2> QED BY <2>1, <2>2 DEF PendingIsNew
<1>5. BuriedStays'
  <2>1. ASSUME NEW m \in Memories, NEW c, Buried(m, c)' PROVE Buried(m, c)
    BY <1>0, <1>1, <2>1 DEF Buried
  <2> QED BY <2>1 DEF BuriedStays
<1>6. \A c \in Content : c.revision \in Nat
  BY VaultAssumption DEF Content
<1>7. \A r \in rows[k] : r.predecessor \in Nat
                         /\ (r.predecessor # 0 => catalog[k] \in Content
                                                  /\ r.predecessor < catalog[k].revision)
  BY <1>0, VaultAssumption DEF RowsBelow
<1>8. \A r \in rows'[k] :
        \/ r \in rows[k]
        \/ r.predecessor = 0
        \/ /\ catalog[k] \in Content /\ r.predecessor = catalog[k].revision
           /\ r = [revision |-> n.revision, predecessor |-> catalog[k].revision]
  <2>1. rows'[k] = RowsAfter(w)
    BY <1>0
  <2>2. CASE catalog[k] = None
    BY <1>0, <2>1, <2>2 DEF RowsAfter, Target
  <2>3. CASE catalog[k] # None
    BY <1>0, <2>1, <2>3 DEF RowsAfter, Target
  <2> QED BY <2>2, <2>3
<1>9. RowsBelow'
  <2> SUFFICES ASSUME NEW m \in Memories, NEW r \in rows'[m], r.predecessor # 0
               PROVE  catalog'[m] \in Content /\ r.predecessor < catalog'[m].revision
    BY DEF RowsBelow
  <2>1. CASE m = k
    <3>1. catalog[k] \in Content /\ r.predecessor <= catalog[k].revision
          /\ r.predecessor \in Nat /\ catalog[k].revision \in Nat
      BY <1>6, <1>7, <1>8, <2>1
    <3>2. catalog[k].revision < n.revision /\ n.revision \in Nat
      BY <1>0, <1>6, <3>1
    <3> QED BY <1>1, <2>1, <3>1, <3>2
  <2>2. CASE m # k
    <3>1. rows'[m] = rows[m] /\ catalog'[m] = catalog[m]
      BY <1>0, <1>1, <2>2
    <3> QED BY <3>1 DEF RowsBelow
  <2> QED BY <2>1, <2>2
<1>10. OneSuccessor'
  <2> SUFFICES ASSUME NEW m \in Memories, NEW r \in rows'[m], NEW s \in rows'[m],
                      r.predecessor # 0, r.predecessor = s.predecessor
               PROVE  r = s
    BY DEF OneSuccessor
  <2>1. CASE m = k
    <3>1. CASE r \in rows[k] /\ s \in rows[k]
      BY <2>1, <3>1 DEF OneSuccessor
    <3>2. CASE r \in rows[k] /\ s \notin rows[k]
      BY <1>6, <1>7, <1>8, <2>1, <3>2
    <3>3. CASE r \notin rows[k] /\ s \in rows[k]
      BY <1>6, <1>7, <1>8, <2>1, <3>3
    <3>4. CASE r \notin rows[k] /\ s \notin rows[k]
      BY <1>8, <2>1, <3>4
    <3> QED BY <3>1, <3>2, <3>3, <3>4
  <2>2. CASE m # k
    BY <1>0, <2>2 DEF OneSuccessor
  <2> QED BY <2>1, <2>2
<1> QED BY <1>2, <1>3, <1>4, <1>5, <1>9, <1>10 DEF NoneNew, PendingIsNew

(***************************************************************************)
(* A purge makes the row show its tombstone, and nothing of the past.       *)
(***************************************************************************)
Buries(w) ==
  /\ UNCHANGED <<file, fresh>>
  /\ Others(w) /\ SameCall(w)
  /\ job[w].kind = "purge" /\ job[w].pc = "tombstone" /\ job'[w].pc = "done"
  /\ job[w].memory \in Memories /\ job[w].next \in Content
  /\ catalog[job[w].memory] # None
  /\ catalog' = [catalog EXCEPT ![job[w].memory] = job[w].next]
  /\ rows' = [rows EXCEPT ![job[w].memory] = {}]
  /\ order' = [order EXCEPT ![job[w].memory] = None]

LEMMA BuriesStep ==
  ASSUME Inv, NEW w \in Writers, Buries(w)
  PROVE  Sound' /\ NoneNew
<1> USE DEF Inv, Sound, Buries, Others, SameCall
<1>0. /\ None \notin Content /\ catalog \in [Memories -> Content \cup {None}]
      /\ rows \in [Memories -> SUBSET [revision: 1..MaxRevision, predecessor: 0..MaxRevision]]
      /\ order \in [Memories -> Content \cup {None}]
  BY NoContentAssumption DEF Types, TypeOK
<1> DEFINE n == job[w].next
           k == job[w].memory
<1>1. /\ catalog'[k] = n /\ order'[k] = None /\ rows'[k] = {}
      /\ \A m \in Memories \ {k} : catalog'[m] = catalog[m] /\ order'[m] = order[m]
                                   /\ rows'[m] = rows[m]
  BY <1>0
<1>2. ASSUME NEW c, Shown(c)' PROVE Shown(c)
  BY <1>0, <1>1, <1>2 DEF Shown
<1>3. Lineage'
  BY <1>2 DEF Lineage
<1>4. ASSUME NEW v \in Writers, NEW c, Pending(v)', Elsewhere(c, v)'
      PROVE  c.revision # job'[v].next.revision
  <2>1. v # w /\ Pending(v) /\ job'[v].next = job[v].next
    BY <1>4 DEF Pending
  <2>2. Elsewhere(c, v)
    BY <1>0, <1>1, <1>4, <2>1 DEF Elsewhere
  <2> QED BY <2>1, <2>2 DEF PendingIsNew
<1>5. BuriedStays'
  <2>1. ASSUME NEW m \in Memories, NEW c, Buried(m, c)' PROVE Buried(m, c)
    BY <1>0, <1>1, <2>1 DEF Buried
  <2> QED BY <2>1 DEF BuriedStays
<1>6. RowsBelow' /\ OneSuccessor'
  BY <1>1 DEF RowsBelow, OneSuccessor
<1> QED BY <1>2, <1>3, <1>4, <1>5, <1>6 DEF NoneNew, PendingIsNew

LEMMA OrderStep ==
  ASSUME Inv, NEW k \in Memories, OrderPurge(k)
  PROVE  Sound' /\ NoneNew
<1> USE DEF Inv, Sound, OrderPurge, vault, records
<1>0. None \notin Content /\ order \in [Memories -> Content \cup {None}]
  BY NoContentAssumption DEF Types, TypeOK
<1>1. order'[k] = catalog[k] /\ \A m \in Memories \ {k} : order'[m] = order[m]
  BY <1>0
<1>2. ASSUME NEW c, Shown(c)' PROVE Shown(c)
  BY <1>1, <1>2 DEF Shown
<1>3. Lineage'
  BY <1>2 DEF Lineage
<1>4. ASSUME NEW v \in Writers, NEW c, Pending(v)', Elsewhere(c, v)'
      PROVE  c.revision # job'[v].next.revision
  <2>1. Pending(v) /\ Elsewhere(c, v)
    BY <1>1, <1>4 DEF Pending, Elsewhere
  <2> QED BY <2>1 DEF PendingIsNew
<1>5. BuriedStays' /\ RowsBelow' /\ OneSuccessor'
  BY DEF BuriedStays, Buried, RowsBelow, OneSuccessor
<1> QED BY <1>2, <1>3, <1>4, <1>5 DEF NoneNew, PendingIsNew

(***************************************************************************)
(* An edit by hand changes what the file says, not whose revision it is.    *)
(***************************************************************************)
LEMMA EditStep ==
  ASSUME Inv, NEW k \in Memories, Edit(k)
  PROVE  Sound'
<1> USE DEF Inv, Sound, Edit, records
<1>0. None \notin Content /\ file \in [Memories -> Content \cup {None}]
  BY NoContentAssumption DEF Types, TypeOK
<1>1. file[k] \in Content /\ file[k].lifecycle # "tombstone" /\ edits + 1 \in 0..MaxEdits
  BY <1>0, VaultAssumption DEF Types, TypeOK
<1>2. PICK lifecycle \in {"active", "archived"} :
        file' = [file EXCEPT ![k] = [file[k] EXCEPT !.edit = edits + 1, !.lifecycle = lifecycle]]
  BY <1>0
<1>3. /\ file'[k] \in Content /\ file'[k].lifecycle = lifecycle
      /\ file'[k].revision = file[k].revision /\ file'[k].author = file[k].author
      /\ file'[k].purged = file[k].purged
      /\ \A m \in Memories \ {k} : file'[m] = file[m]
  BY <1>0, <1>1, <1>2 DEF Content, Lifecycles
<1>4. Shown(file[k])
  BY <1>1 DEF Shown
<1>5. ASSUME NEW c, Shown(c)' PROVE Shown(c) \/ c = file'[k]
  BY <1>3, <1>5 DEF Shown
<1>6. file[k].purged = 0
  BY <1>1, <1>4 DEF Lineage
<1>7. \A c \in Content : c.revision # 0
  BY DEF Content
<1>8. \A c : Shown(c) => c \in Content
  BY DEF Shown
<1>9. Lineage'
  <2>1. ASSUME NEW c, Shown(c)'
        PROVE  \E d : /\ Shown(d) /\ d.revision = c.revision /\ d.author = c.author
                      /\ d.purged = c.purged /\ (c.purged # 0 => c = d)
    BY <1>3, <1>4, <1>5, <1>6, <2>1
  <2> QED BY <2>1 DEF Lineage
<1>10. ASSUME NEW v \in Writers, NEW c, Pending(v)', Elsewhere(c, v)'
       PROVE  c.revision # job'[v].next.revision
  <2>1. Pending(v) /\ Elsewhere(c, v)
    BY <1>3, <1>10 DEF Pending, Elsewhere
  <2> QED BY <2>1 DEF PendingIsNew
<1>11. BuriedStays'
  <2>1. ASSUME NEW m \in Memories, NEW c, Buried(m, c)' PROVE Buried(m, c)
    BY <2>1 DEF Buried
  <2> QED BY <1>1, <1>3, <2>1 DEF BuriedStays
<1>12. RowsBelow' /\ OneSuccessor'
  BY DEF RowsBelow, OneSuccessor
<1> QED BY <1>9, <1>10, <1>11, <1>12 DEF PendingIsNew

-----------------------------------------------------------------------------
(***************************************************************************)
(* Every step of a call leaves a call that knows what it must, and is one   *)
(* of the steps above.                                                      *)
(***************************************************************************)
Kept(w) == /\ job' \in [Writers -> Calls] /\ Others(w) /\ CallOK(job'[w])
           /\ Calm(w) \/ Starts(w) \/ Renders(w) \/ Targets(w) \/ Writes(w)
              \/ Shows(w) \/ Buries(w)

LEMMA GotoKept ==
  ASSUME Inv, NEW w \in Writers, NEW pc \in Pcs, Goto(w, pc),
         UNCHANGED <<file, catalog, rows, order, fresh>>,
         job[w] # Idle,
         job[w].kind = "write" => WriteCall(job'[w]),
         job[w].kind = "reconcile" => ReconcileCall(job'[w]),
         job[w].kind = "purge" => PurgeCall(job'[w]),
         pc \in {"erase", "tombstone"} => job[w].pc \in {"erase", "tombstone"},
         job[w].pc \notin {"done", "failed"}
  PROVE  Kept(w)
<1>1. SameCall(w) /\ Others(w) /\ job'[w].pc = pc /\ job' \in [Writers -> Calls]
  BY GotoFields DEF Inv, Types
<1>2. job[w].kind \in {"write", "reconcile", "purge"}
  BY DEF Inv, CallsOK, CallOK, WriteCall, ReconcileCall, PurgeCall
<1> QED BY <1>1, <1>2 DEF Kept, Calm, CallOK

(***************************************************************************)
(* What the call of a process is, by its step.                              *)
(***************************************************************************)
LEMMA CallAt ==
  ASSUME Inv, NEW w \in Writers, job[w].pc # "idle"
  PROVE  /\ job[w] # Idle /\ job[w] \in Calls
         /\ WriteCall(job[w]) \/ ReconcileCall(job[w]) \/ PurgeCall(job[w])
<1>1. Idle.pc = "idle"
  BY DEF Idle
<1> QED BY <1>1 DEF Inv, Types, CallsOK, CallOK

LEMMA WriteSteps ==
  ASSUME Inv, NEW w \in Writers,
         RecoverAdmissions(w) \/ ReadFile(w) \/ CheckReconciled(w)
         \/ KeepPrevious(w) \/ CheckUnowned(w)
  PROVE  Kept(w)
<1> USE DEF At, Target, vault, records
<1>1. job[w].pc \in {"recover", "read", "reconciled", "keep", "unowned"}
  BY DEF RecoverAdmissions, ReadFile, CheckReconciled, KeepPrevious, CheckUnowned
<1>2. WriteCall(job[w]) /\ job[w].kind = "write" /\ job[w] # Idle /\ job[w] \in Calls
  BY <1>1, CallAt DEF WriteCall, ReconcileCall, PurgeCall
<1>3. UNCHANGED <<file, catalog, rows, order, fresh>>
  BY DEF RecoverAdmissions, ReadFile, CheckReconciled, KeepPrevious, CheckUnowned
<1>4. job \in [Writers -> Calls]
  BY DEF Inv, Types
<1>5. ASSUME NEW pc \in Pcs \ {"erase", "tombstone"}, Goto(w, pc), WriteCall(job'[w])
      PROVE  Kept(w)
  BY <1>1, <1>2, <1>3, <1>5, GotoKept
<1>6. ASSUME NEW pc \in Pcs, Goto(w, pc)
      PROVE  SameCall(w) /\ job'[w].pc = pc /\ job'[w].seen = job[w].seen
  BY <1>4, <1>6, GotoFields
<1>7. CASE RecoverAdmissions(w)
  <2>1. Goto(w, "reserve") /\ "reserve" \in Pcs
    BY <1>7 DEF RecoverAdmissions, Pcs
  <2>2. WriteCall(job'[w])
    BY <1>2, <1>6, <1>7, <2>1 DEF WriteCall, SameCall, RecoverAdmissions
  <2> QED BY <1>5, <2>1, <2>2
<1>8. CASE CheckReconciled(w)
  <2>1. PICK pc \in {"keep", "failed"} :
          /\ Goto(w, pc)
          /\ pc = "keep" => (job[w].next.author = "agent" => job[w].seen.author = "agent")
    BY <1>8 DEF CheckReconciled
  <2>2. pc \in Pcs \ {"erase", "tombstone"}
    BY DEF Pcs
  <2>3. \A c \in Content : c.author \in {"human", "agent"}
    BY DEF Content
  <2>4. job[w].pc = "reconciled"
    BY <1>8 DEF CheckReconciled
  <2>5. job[w].base \in Content /\ job[w].seen = job[w].base /\ job[w].next \in Content
    BY <1>2, <2>4 DEF WriteCall, Calls
  <2>6. WriteCall(job'[w])
    BY <1>2, <1>6, <2>1, <2>2, <2>3, <2>4, <2>5 DEF WriteCall, SameCall
  <2> QED BY <1>5, <2>1, <2>2, <2>6
<1>9. CASE KeepPrevious(w)
  <2>1. Goto(w, "compare") /\ "compare" \in Pcs
    BY <1>9 DEF KeepPrevious, Pcs
  <2>2. WriteCall(job'[w])
    BY <1>2, <1>6, <1>9, <2>1 DEF WriteCall, SameCall, KeepPrevious
  <2> QED BY <1>5, <2>1, <2>2
<1>10. CASE CheckUnowned(w)
  <2>1. PICK pc \in {"link", "failed"} : Goto(w, pc)
    BY <1>10 DEF CheckUnowned
  <2>2. pc \in Pcs \ {"erase", "tombstone"}
    BY DEF Pcs
  <2>3. WriteCall(job'[w])
    BY <1>2, <1>6, <1>10, <2>1, <2>2 DEF WriteCall, SameCall, CheckUnowned
  <2> QED BY <1>5, <2>1, <2>2, <2>3
<1>11. CASE ReadFile(w)
  <2>1. job[w].pc = "read"
    BY <1>11 DEF ReadFile
  <2>2. CASE \E pc \in {"unowned", "failed"} :
               Goto(w, pc) /\ (pc = "unowned" => job[w].base = None)
    <3>1. PICK pc \in {"unowned", "failed"} :
               Goto(w, pc) /\ (pc = "unowned" => job[w].base = None)
      BY <2>2
    <3>2. pc \in Pcs \ {"erase", "tombstone"}
      BY DEF Pcs
    <3>3. WriteCall(job'[w])
      BY <1>2, <1>6, <2>1, <3>1, <3>2 DEF WriteCall, SameCall
    <3> QED BY <1>5, <3>1, <3>2, <3>3
  <2>3. CASE /\ job[w].base # None
             /\ job' = [job EXCEPT ![w] = [job[w] EXCEPT !.seen = job[w].base,
                                                         !.pc = "reconciled"]]
    <3> DEFINE j == [job[w] EXCEPT !.seen = job[w].base, !.pc = "reconciled"]
    <3>1. j \in Calls
      BY <1>2, <2>3 DEF Calls, Pcs
    <3>2. /\ j.kind = job[w].kind /\ j.memory = job[w].memory /\ j.base = job[w].base
          /\ j.next = job[w].next /\ j.seen = job[w].base /\ j.pc = "reconciled"
      BY <1>2 DEF Calls
    <3> HIDE DEF j
    <3>3. job' = [job EXCEPT ![w] = j]
      BY <2>3 DEF j
    <3>4. job' \in [Writers -> Calls] /\ job'[w] = j /\ Others(w)
      BY <1>4, <3>1, <3>3, NewCall
    <3>5. WriteCall(j)
      BY <1>2, <2>1, <2>3, <3>2 DEF WriteCall
    <3> QED BY <1>3, <2>1, <3>2, <3>4, <3>5 DEF Kept, CallOK, Calm, SameCall
  <2> QED BY <1>11, <2>2, <2>3 DEF ReadFile
<1> QED BY <1>7, <1>8, <1>9, <1>10, <1>11


LEMMA BeginWriteKept ==
  ASSUME Inv, NEW w \in Writers, NEW m \in Memories, BeginWrite(w, m)
  PROVE  Kept(w)
<1>1. PICK lifecycle \in {"active", "archived"}, author \in {"human", "agent"} :
        job' = [job EXCEPT ![w] =
                 [kind |-> "write",
                  pc |-> IF lifecycle = "active" THEN "recover" ELSE "read",
                  memory |-> m, admitted |-> FALSE,
                  base |-> IF catalog[m] = None THEN None ELSE file[m],
                  seen |-> None,
                  next |-> [revision |-> fresh, edit |-> 0, lifecycle |-> lifecycle,
                            author |-> author, purged |-> 0]]]
  BY DEF BeginWrite
<1> DEFINE pc == IF lifecycle = "active" THEN "recover" ELSE "read"
           base == IF catalog[m] = None THEN None ELSE file[m]
           n == [revision |-> fresh, edit |-> 0, lifecycle |-> lifecycle,
                 author |-> author, purged |-> 0]
           j == [kind |-> "write", pc |-> pc, memory |-> m, admitted |-> FALSE,
                 base |-> base, seen |-> None, next |-> n]
<1>2. job \in [Writers -> Calls] /\ fresh \in 1..(MaxRevision + 1) /\ fresh <= MaxRevision
      /\ file \in [Memories -> Content \cup {None}]
  BY DEF Inv, Types, TypeOK, BeginWrite
<1>3. fresh \in 1..MaxRevision /\ 0 \in 0..MaxEdits /\ 0 \in 0..MaxRevision
  BY <1>2, VaultAssumption
<1>4. n \in Content
  BY <1>3 DEF Content, Lifecycles
<1>5. base # None => base \in Content /\ base.lifecycle # "tombstone"
  BY <1>2 DEF BeginWrite
<1>6. base # None => base.revision < fresh
  <2>1. base # None => Shown(base)
    BY <1>5 DEF Shown
  <2> QED BY <2>1 DEF Inv, Sound, Lineage
<1>7. pc \in {"recover", "read"} /\ pc \in Pcs
  BY DEF Pcs
<1> HIDE DEF pc, base, n
<1>8. n.revision = fresh /\ n.lifecycle = lifecycle /\ n.purged = 0 /\ n.edit = 0
  BY DEF n
<1>9. j \in Calls
  BY <1>4, <1>5, <1>7 DEF Calls, Kinds
<1>10. WriteCall(j)
  BY <1>4, <1>5, <1>6, <1>7, <1>8 DEF WriteCall
<1>11. job' = [job EXCEPT ![w] = j]
  BY <1>1 DEF n, base, pc
<1> HIDE DEF j
<1>12. job' \in [Writers -> Calls] /\ job'[w] = j /\ Others(w)
  BY <1>2, <1>9, <1>11, NewCall
<1>13. j.next = n /\ j.kind = "write" /\ (j.base = None \/ j.base = file[m])
  BY DEF j, base
<1>14. 0 < fresh /\ UNCHANGED <<file, catalog, rows, order>> /\ fresh' = fresh + 1
  BY <1>3 DEF BeginWrite, vault, records
<1>15. Renders(w)
  BY <1>4, <1>8, <1>12, <1>13, <1>14 DEF Renders
<1> QED BY <1>10, <1>12, <1>15 DEF Kept, CallOK

LEMMA ReserveKept ==
  ASSUME Inv, NEW w \in Writers, Reserve(w)
  PROVE  Kept(w)
<1> USE DEF At, Target, vault, records
<1>1. job[w].pc = "reserve"
  BY DEF Reserve
<1>2. WriteCall(job[w]) /\ job[w].kind = "write" /\ job[w] # Idle /\ job[w] \in Calls
  BY <1>1, CallAt DEF WriteCall, ReconcileCall, PurgeCall
<1>3. UNCHANGED <<file, catalog, rows, order, fresh>> /\ job \in [Writers -> Calls]
  BY DEF Reserve, Inv, Types
<1>4. CASE job' = [job EXCEPT ![w] = Idle]
  BY <1>3, <1>4, IdleCall, NewCall DEF Kept, Calm
<1>5. ASSUME NEW a \in BOOLEAN,
             job' = [job EXCEPT ![w] = [job[w] EXCEPT !.pc = "read", !.admitted = a]]
      PROVE  Kept(w)
  <2> DEFINE j == [job[w] EXCEPT !.pc = "read", !.admitted = a]
  <2>1. j \in Calls
    BY <1>2 DEF Calls, Pcs
  <2>2. /\ j.kind = job[w].kind /\ j.memory = job[w].memory /\ j.base = job[w].base
        /\ j.next = job[w].next /\ j.seen = job[w].seen /\ j.pc = "read"
    BY <1>2 DEF Calls
  <2> HIDE DEF j
  <2>3. job' \in [Writers -> Calls] /\ job'[w] = j /\ Others(w)
    BY <1>3, <1>5, <2>1, NewCall DEF j
  <2>4. WriteCall(j)
    BY <1>1, <1>2, <2>2 DEF WriteCall
  <2> QED BY <1>1, <1>3, <2>2, <2>3, <2>4 DEF Kept, CallOK, Calm, SameCall
<1>6. CASE Goto(w, "read")
  <2>1. [job[w] EXCEPT !.pc = "read"]
          = [job[w] EXCEPT !.pc = "read", !.admitted = job[w].admitted]
        /\ job[w].admitted \in BOOLEAN
    BY <1>2 DEF Calls
  <2>2. job' = [job EXCEPT ![w] = [job[w] EXCEPT !.pc = "read"]]
    BY <1>6 DEF Goto
  <2> QED BY <1>5, <2>1, <2>2
<1>7. CASE job' = [job EXCEPT ![w] = [job[w] EXCEPT !.pc = "read", !.admitted = TRUE]]
  BY <1>5, <1>7
<1> QED BY <1>4, <1>6, <1>7 DEF Reserve

(***************************************************************************)
(* The steps that writes, reconciliations and purges share.                 *)
(***************************************************************************)
LEMMA SharedSteps ==
  ASSUME Inv, NEW w \in Writers,
         Compare(w) \/ WriteRevision(w) \/ Verify(w) \/ Fail(w) \/ EraseRevisions(w)
  PROVE  Kept(w)
<1> USE DEF At, Target, vault, records
<1>1. /\ job[w].pc \notin {"idle", "done", "failed"}
      /\ UNCHANGED <<file, catalog, rows, order, fresh>>
  BY DEF Compare, WriteRevision, Verify, Fail, EraseRevisions
<1>2. /\ job[w] # Idle /\ job[w] \in Calls
      /\ WriteCall(job[w]) \/ ReconcileCall(job[w]) \/ PurgeCall(job[w])
  BY <1>1, CallAt
<1>3. job \in [Writers -> Calls]
  BY DEF Inv, Types
<1>4. PICK pc \in Pcs :
        /\ Goto(w, pc)
        /\ \/ job[w].pc = "compare" /\ pc = "rename"
           \/ job[w].pc = "revision" /\ pc = "verify"
           \/ job[w].pc = "verify" /\ pc = "commit"
           \/ job[w].pc = "erase" /\ pc = "tombstone"
           \/ pc = "failed"
  BY DEF Compare, WriteRevision, Verify, Fail, EraseRevisions, Pcs
<1>5. /\ SameCall(w) /\ job'[w].pc = pc /\ job'[w].seen = job[w].seen
      /\ job'[w].admitted = job[w].admitted
  BY <1>3, <1>4, GotoFields
<1>6. job[w].kind = "write" => WriteCall(job'[w])
  <2> SUFFICES ASSUME WriteCall(job[w]) PROVE WriteCall(job'[w])
    BY <1>2 DEF ReconcileCall, PurgeCall
  <2> QED BY <1>4, <1>5 DEF WriteCall, SameCall
<1>7. job[w].kind = "reconcile" => ReconcileCall(job'[w])
  <2> SUFFICES ASSUME ReconcileCall(job[w]) PROVE ReconcileCall(job'[w])
    BY <1>2 DEF WriteCall, PurgeCall
  <2> QED BY <1>4, <1>5 DEF ReconcileCall, SameCall
<1>8. job[w].kind = "purge" => PurgeCall(job'[w])
  <2> SUFFICES ASSUME PurgeCall(job[w]) PROVE PurgeCall(job'[w])
    BY <1>2 DEF WriteCall, ReconcileCall
  <2> QED BY <1>4, <1>5 DEF PurgeCall, SameCall
<1> QED BY <1>1, <1>2, <1>4, <1>6, <1>7, <1>8, GotoKept

LEMMA EndSteps ==
  ASSUME Inv, NEW w \in Writers, Finish(w) \/ Crash(w)
  PROVE  Kept(w)
<1>1. job' = [job EXCEPT ![w] = Idle] /\ UNCHANGED <<file, catalog, rows, order, fresh>>
  BY DEF Finish, Crash, vault, records
<1>2. job \in [Writers -> Calls]
  BY DEF Inv, Types
<1> QED BY <1>1, <1>2, IdleCall, NewCall DEF Kept, Calm


LEMMA FileSteps ==
  ASSUME Inv, NEW w \in Writers, LinkFile(w) \/ Rename(w)
  PROVE  Kept(w)
<1> USE DEF At, Target, vault, records
<1>1. job[w].pc \in {"link", "rename"} /\ UNCHANGED <<catalog, rows, order, fresh>>
  BY DEF LinkFile, Rename
<1>2. /\ job[w] # Idle /\ job[w] \in Calls
      /\ WriteCall(job[w]) \/ ReconcileCall(job[w]) \/ PurgeCall(job[w])
  BY <1>1, CallAt
<1>3. job \in [Writers -> Calls]
  BY DEF Inv, Types
<1>4. PICK pc \in {"revision", "erase", "failed"} :
        /\ Goto(w, pc)
        /\ pc = "failed" => UNCHANGED file
        /\ pc # "failed" => file' = [file EXCEPT ![job[w].memory] = job[w].next]
        /\ pc = "erase" => job[w].kind = "purge"
        /\ pc = "revision" => job[w].kind # "purge"
  <2>1. CASE LinkFile(w)
    <3>1. job[w].kind # "purge"
      BY <1>2, <2>1 DEF LinkFile, PurgeCall, ReconcileCall, WriteCall
    <3> QED BY <2>1, <3>1 DEF LinkFile
  <2>2. CASE Rename(w)
    BY <2>2 DEF Rename
  <2> QED BY <2>1, <2>2
<1>5. pc \in Pcs
  BY DEF Pcs
<1>6. /\ SameCall(w) /\ Others(w) /\ job'[w].pc = pc /\ job'[w].seen = job[w].seen
      /\ job'[w].admitted = job[w].admitted /\ job' \in [Writers -> Calls]
  BY <1>3, <1>4, <1>5, GotoFields
<1>7. job[w].kind = "write" => WriteCall(job'[w])
  <2> SUFFICES ASSUME WriteCall(job[w]), job[w].kind = "write" PROVE WriteCall(job'[w])
    BY <1>2 DEF ReconcileCall, PurgeCall
  <2>1. CASE job[w].pc = "link"
    BY <1>4, <1>6, <2>1 DEF WriteCall, SameCall
  <2>2. CASE job[w].pc = "rename"
    BY <1>4, <1>6, <2>2 DEF WriteCall, SameCall
  <2> QED BY <1>1, <2>1, <2>2
<1>8. job[w].kind = "reconcile" => ReconcileCall(job'[w])
  <2> SUFFICES ASSUME ReconcileCall(job[w]), job[w].kind = "reconcile"
               PROVE  ReconcileCall(job'[w])
    BY <1>2 DEF WriteCall, PurgeCall
  <2> QED BY <1>1, <1>4, <1>6 DEF ReconcileCall, SameCall
<1>9. job[w].kind = "purge" => PurgeCall(job'[w])
  <2> SUFFICES ASSUME PurgeCall(job[w]), job[w].kind = "purge" PROVE PurgeCall(job'[w])
    BY <1>2 DEF WriteCall, ReconcileCall
  <2> QED BY <1>1, <1>4, <1>6 DEF PurgeCall, SameCall
<1>10. CASE pc = "failed"
  BY <1>1, <1>2, <1>4, <1>5, <1>7, <1>8, <1>9, <1>10, GotoKept
<1>11. CASE pc # "failed"
  <2>1. job[w].next \in Content /\ job[w].memory \in Memories
    BY <1>1, <1>2 DEF WriteCall, ReconcileCall, PurgeCall
  <2>2. job[w].kind = "purge" => job[w].next.lifecycle = "tombstone"
    BY <1>1, <1>2 DEF WriteCall, ReconcileCall, PurgeCall
  <2>3. Pending(w) \/ job[w].next.lifecycle = "tombstone"
    BY <1>1, <1>2, <2>1, <2>2 DEF Pending, WriteCall, ReconcileCall, PurgeCall
  <2>4. Writes(w)
    BY <1>1, <1>4, <1>6, <1>11, <2>1, <2>2, <2>3 DEF Writes
  <2>5. CallOK(job'[w])
    BY <1>2, <1>7, <1>8, <1>9 DEF CallOK, WriteCall, ReconcileCall, PurgeCall
  <2> QED BY <1>6, <2>4, <2>5 DEF Kept
<1> QED BY <1>10, <1>11

LEMMA CommitKept ==
  ASSUME Inv, NEW w \in Writers, CommitCatalog(w)
  PROVE  /\ Kept(w)
         /\ UNCHANGED catalog \/
            /\ job[w].memory \in Memories /\ job[w].next \in Content
            /\ catalog' = [catalog EXCEPT ![job[w].memory] = job[w].next]
            /\ catalog[job[w].memory] \in Content =>
                 /\ catalog[job[w].memory].author = "human" => job[w].next.author = "human"
                 /\ catalog[job[w].memory].lifecycle = "tombstone"
                      => job[w].next.lifecycle = "tombstone"
<1> USE DEF At, Target, vault, records
<1>0. None \notin Content /\ catalog \in [Memories -> Content \cup {None}]
  BY NoContentAssumption DEF Inv, Types, TypeOK
<1>1. job[w].pc = "commit" /\ UNCHANGED <<file, order, fresh>>
  BY DEF CommitCatalog
<1>2. /\ job[w] # Idle /\ job[w] \in Calls
      /\ WriteCall(job[w]) \/ ReconcileCall(job[w])
  BY <1>1, CallAt DEF PurgeCall
<1>3. job \in [Writers -> Calls]
  BY DEF Inv, Types
<1>4. PICK pc \in {"done", "failed"} :
        /\ Goto(w, pc)
        /\ pc = "failed" => UNCHANGED <<catalog, rows>>
        /\ pc = "done" => /\ catalog[job[w].memory] = job[w].base
                          /\ catalog' = [catalog EXCEPT ![job[w].memory] = job[w].next]
                          /\ rows' = [rows EXCEPT ![job[w].memory] = RowsAfter(w)]
  BY DEF CommitCatalog, Commits
<1>5. pc \in Pcs
  BY DEF Pcs
<1>6. /\ SameCall(w) /\ Others(w) /\ job'[w].pc = pc /\ job'[w].seen = job[w].seen
      /\ job'[w].admitted = job[w].admitted /\ job' \in [Writers -> Calls]
  BY <1>3, <1>4, <1>5, GotoFields
<1>7. job[w].kind = "write" => WriteCall(job'[w])
  <2> SUFFICES ASSUME WriteCall(job[w]) PROVE WriteCall(job'[w])
    BY <1>2 DEF ReconcileCall
  <2> QED BY <1>4, <1>6 DEF WriteCall, SameCall
<1>8. job[w].kind = "reconcile" => ReconcileCall(job'[w])
  <2> SUFFICES ASSUME ReconcileCall(job[w]) PROVE ReconcileCall(job'[w])
    BY <1>2 DEF WriteCall
  <2> QED BY <1>4, <1>6 DEF ReconcileCall, SameCall
<1>9. job[w].kind \in {"write", "reconcile"} /\ job[w].memory \in Memories
      /\ job[w].next \in Content
  BY <1>1, <1>2 DEF WriteCall, ReconcileCall
<1>10. CASE pc = "failed"
  BY <1>1, <1>2, <1>4, <1>5, <1>7, <1>8, <1>9, <1>10, GotoKept
<1>11. CASE pc = "done"
  <2>1. CallOK(job'[w])
    BY <1>7, <1>8, <1>9 DEF CallOK
  <2>2. job[w].kind = "write" => job[w].next.lifecycle # "tombstone"
    BY <1>1, <1>2 DEF WriteCall, ReconcileCall
  <2>3. job[w].base # None =>
          /\ job[w].base \in Content /\ job[w].seen \in Content
          /\ job[w].seen.revision = job[w].base.revision
          /\ job[w].seen.revision < job[w].next.revision
    BY <1>1, <1>2 DEF WriteCall, ReconcileCall, Calls
  <2>4. job[w].base = None => job[w].seen = None
    BY <1>0, <1>1, <1>2 DEF WriteCall, ReconcileCall
  <2>5. Shows(w)
    BY <1>1, <1>4, <1>6, <1>9, <1>11, <2>2, <2>3, <2>4 DEF Shows
  <2>6. job[w].base \in Content =>
          /\ job[w].base.author = "human" => job[w].next.author = "human"
          /\ job[w].base.lifecycle = "tombstone" => job[w].next.lifecycle = "tombstone"
    BY <1>0, <1>1, <1>2 DEF WriteCall, ReconcileCall
  <2> QED BY <1>4, <1>6, <1>9, <1>11, <2>1, <2>5, <2>6 DEF Kept
<1> QED BY <1>10, <1>11

LEMMA TombstoneKept ==
  ASSUME Inv, NEW w \in Writers, CommitTombstone(w)
  PROVE  /\ Kept(w)
         /\ UNCHANGED catalog \/
            /\ job[w].memory \in Memories /\ job[w].next \in Content
            /\ catalog' = [catalog EXCEPT ![job[w].memory] = job[w].next]
            /\ job[w].next.lifecycle = "tombstone"
            /\ catalog[job[w].memory].author = "human" => job[w].next.author = "human"
<1> USE DEF At, Target, vault
<1>1. job[w].pc = "tombstone" /\ UNCHANGED <<file, fresh>>
  BY DEF CommitTombstone
<1>2. job[w] # Idle /\ job[w] \in Calls /\ PurgeCall(job[w])
  BY <1>1, CallAt DEF WriteCall, ReconcileCall
<1>3. job \in [Writers -> Calls]
  BY DEF Inv, Types
<1>4. PICK pc \in {"done", "failed"} :
        /\ Goto(w, pc)
        /\ pc = "failed" => UNCHANGED <<catalog, rows, order>>
        /\ pc = "done" => /\ catalog[job[w].memory] \in {job[w].base, job[w].next}
                          /\ catalog' = [catalog EXCEPT ![job[w].memory] = job[w].next]
                          /\ rows' = [rows EXCEPT ![job[w].memory] = {}]
                          /\ order' = [order EXCEPT ![job[w].memory] = None]
  BY DEF CommitTombstone
<1>5. pc \in Pcs
  BY DEF Pcs
<1>6. /\ SameCall(w) /\ Others(w) /\ job'[w].pc = pc
      /\ job'[w].admitted = job[w].admitted /\ job' \in [Writers -> Calls]
  BY <1>3, <1>4, <1>5, GotoFields
<1>7. PurgeCall(job'[w])
  BY <1>2, <1>4, <1>6 DEF PurgeCall, SameCall
<1>8. /\ job[w].kind = "purge" /\ job[w].memory \in Memories
      /\ job[w].next \in Content /\ job[w].next.lifecycle = "tombstone"
      /\ job[w].base.author = "human" => job[w].next.author = "human"
  BY <1>1, <1>2 DEF PurgeCall
<1>9. CASE pc = "failed"
  BY <1>1, <1>2, <1>4, <1>5, <1>7, <1>8, <1>9, GotoKept
<1>10. CASE pc = "done"
  <2>1. catalog[job[w].memory] # None
    BY <1>2, <1>4, <1>8, <1>10, NoContentAssumption DEF PurgeCall
  <2>2. Buries(w)
    BY <1>1, <1>4, <1>6, <1>8, <1>10, <2>1 DEF Buries
  <2> QED BY <1>4, <1>6, <1>7, <1>8, <1>10, <2>2 DEF Kept, CallOK
<1> QED BY <1>9, <1>10

LEMMA BeginKept ==
  ASSUME Inv, NEW w \in Writers, NEW m \in Memories, BeginReconcile(w, m) \/ BeginPurge(w, m)
  PROVE  Kept(w)
<1>1. job \in [Writers -> Calls] /\ UNCHANGED <<file, catalog, rows, order, fresh>>
      /\ catalog \in [Memories -> Content \cup {None}]
      /\ order \in [Memories -> Content \cup {None}] /\ None \notin Content
  BY NoContentAssumption
  DEF Inv, Types, TypeOK, BeginReconcile, BeginPurge, vault, records
<1>2. CASE BeginReconcile(w, m)
  <2> DEFINE j == [Idle EXCEPT !.kind = "reconcile", !.pc = "edited", !.memory = m,
                               !.base = catalog[m]]
  <2>1. /\ j.kind = "reconcile" /\ j.pc = "edited" /\ j.memory = m /\ j.base = catalog[m]
        /\ j.next = None /\ ~j.admitted
    BY DEF Idle
  <2>2. j \in Calls
    BY <1>1, IdleCall DEF Calls, Kinds, Pcs
  <2> HIDE DEF j
  <2>3. job' = [job EXCEPT ![w] = j] /\ job[w] = Idle /\ catalog[m] \in Content
    BY <1>1, <1>2 DEF BeginReconcile, j
  <2>4. job' \in [Writers -> Calls] /\ job'[w] = j /\ Others(w)
    BY <1>1, <2>2, <2>3, NewCall
  <2>5. Starts(w)
    BY <1>1, <2>1, <2>3, <2>4 DEF Starts
  <2>6. ReconcileCall(j)
    BY <2>1, <2>3 DEF ReconcileCall
  <2> QED BY <2>4, <2>5, <2>6 DEF Kept, CallOK
<1>3. CASE BeginPurge(w, m)
  <2> DEFINE j == [Idle EXCEPT !.kind = "purge", !.pc = "target", !.memory = m,
                               !.base = order[m]]
  <2>1. /\ j.kind = "purge" /\ j.pc = "target" /\ j.memory = m /\ j.base = order[m]
        /\ j.next = None /\ ~j.admitted
    BY DEF Idle
  <2>2. j \in Calls
    BY <1>1, IdleCall DEF Calls, Kinds, Pcs
  <2> HIDE DEF j
  <2>3. job' = [job EXCEPT ![w] = j] /\ job[w] = Idle /\ order[m] \in Content
    BY <1>1, <1>3 DEF BeginPurge, j
  <2>4. job' \in [Writers -> Calls] /\ job'[w] = j /\ Others(w)
    BY <1>1, <2>2, <2>3, NewCall
  <2>5. Starts(w)
    BY <1>1, <2>1, <2>3, <2>4 DEF Starts
  <2>6. PurgeCall(j)
    BY <2>1, <2>3 DEF PurgeCall
  <2> QED BY <2>4, <2>5, <2>6 DEF Kept, CallOK
<1> QED BY <1>2, <1>3


LEMMA ReadEditKept ==
  ASSUME Inv, NEW w \in Writers, ReadEdit(w)
  PROVE  Kept(w)
<1> USE DEF At, Target, vault, records
<1> DEFINE m == job[w].memory
           found == file[m]
           base == job[w].base
<1>1. job[w].pc = "edited" /\ UNCHANGED <<file, catalog, rows, order>>
  BY DEF ReadEdit
<1>2. /\ job[w] # Idle /\ job[w] \in Calls /\ ReconcileCall(job[w])
      /\ job[w].kind = "reconcile" /\ m \in Memories /\ base \in Content
  BY <1>1, CallAt DEF WriteCall, PurgeCall, ReconcileCall
<1>3. job \in [Writers -> Calls] /\ file \in [Memories -> Content \cup {None}]
      /\ fresh \in 1..(MaxRevision + 1)
  BY DEF Inv, Types, TypeOK
<1>4. CASE Goto(w, "failed") /\ UNCHANGED fresh
  <2>1. "failed" \in Pcs
    BY DEF Pcs
  <2>2. /\ SameCall(w) /\ job'[w].pc = "failed" /\ job'[w].admitted = job[w].admitted
    BY <1>3, <1>4, <2>1, GotoFields
  <2>3. ReconcileCall(job'[w])
    BY <1>2, <2>2 DEF ReconcileCall, SameCall
  <2> QED BY <1>1, <1>2, <1>4, <2>1, <2>3, GotoKept
<1>5. CASE /\ found # None /\ found # base /\ found.revision = base.revision
           /\ fresh <= MaxRevision /\ fresh' = fresh + 1
           /\ job' = [job EXCEPT ![w] = [job[w] EXCEPT !.seen = found, !.pc = "compare",
                !.next = [found EXCEPT !.revision = fresh, !.edit = 0, !.author = "human"]]]
  <2> DEFINE n == [found EXCEPT !.revision = fresh, !.edit = 0, !.author = "human"]
             j == [job[w] EXCEPT !.seen = found, !.pc = "compare", !.next = n]
  <2>1. found \in Content /\ fresh \in 1..MaxRevision /\ 0 \in 0..MaxEdits
    BY <1>2, <1>3, <1>5, VaultAssumption
  <2>2. /\ n \in Content /\ n.revision = fresh /\ n.author = "human" /\ n.edit = 0
        /\ n.lifecycle = found.lifecycle /\ n.purged = found.purged
    BY <2>1 DEF Content
  <2> HIDE DEF n
  <2>3. /\ j \in Calls /\ j.kind = "reconcile" /\ j.memory = m /\ j.base = base /\ j.pc = "compare"
        /\ j.seen = found /\ j.next = n /\ j.admitted = job[w].admitted
    BY <1>2, <2>1, <2>2 DEF Calls, Pcs
  <2>4. job' = [job EXCEPT ![w] = j]
    BY <1>5 DEF n
  <2> HIDE DEF j
  <2>5. job' \in [Writers -> Calls] /\ job'[w] = j /\ Others(w)
    BY <1>3, <2>3, <2>4, NewCall
  <2>6. Shown(found) /\ Shown(base)
    BY <1>2, <2>1 DEF Shown
  <2>7. /\ found.purged <= found.revision /\ found.revision < fresh /\ base.revision < fresh
        /\ found.purged # 0 => found.lifecycle = "tombstone"
    BY <2>6 DEF Inv, Sound, Lineage
  <2>8. found.purged \in Nat /\ found.revision \in Nat
    BY <2>1, VaultAssumption DEF Content
  <2>9. Renders(w)
    <3>1. fresh' = fresh + 1 /\ n.purged < fresh
      BY <1>5, <2>1, <2>2, <2>7, <2>8
    <3>2. n.purged # 0 => n.lifecycle = "tombstone"
      BY <2>2, <2>7
    <3> QED BY <1>1, <1>2, <1>5, <2>1, <2>2, <2>3, <2>5, <3>1, <3>2 DEF Renders
  <2>10. base.lifecycle = "tombstone" => found.lifecycle = "tombstone"
    <3>1. base.lifecycle = "tombstone" => Buried(m, base)
      BY <1>2 DEF Buried
    <3> QED BY <1>2, <1>5, <2>1, <3>1 DEF Inv, Sound, BuriedStays
  <2>11. ReconcileCall(j)
    BY <1>2, <1>5, <2>1, <2>2, <2>3, <2>7, <2>10 DEF ReconcileCall
  <2> QED BY <2>5, <2>9, <2>11 DEF Kept, CallOK
<1> QED BY <1>4, <1>5 DEF ReadEdit

LEMMA ReadTargetKept ==
  ASSUME Inv, NEW w \in Writers, ReadTarget(w)
  PROVE  Kept(w)
<1> USE DEF At, Target, vault, records
<1> DEFINE m == job[w].memory
           found == file[m]
           base == job[w].base
<1>1. job[w].pc = "target" /\ UNCHANGED <<file, catalog, rows, order, fresh>>
  BY DEF ReadTarget
<1>2. /\ job[w] # Idle /\ job[w] \in Calls /\ PurgeCall(job[w])
      /\ job[w].kind = "purge" /\ m \in Memories /\ base \in Content
  BY <1>1, CallAt DEF WriteCall, PurgeCall, ReconcileCall
<1>3. job \in [Writers -> Calls] /\ file \in [Memories -> Content \cup {None}]
  BY DEF Inv, Types, TypeOK
<1>4. CASE Goto(w, "failed")
  <2>1. "failed" \in Pcs
    BY DEF Pcs
  <2>2. /\ SameCall(w) /\ job'[w].pc = "failed" /\ job'[w].admitted = job[w].admitted
    BY <1>3, <1>4, <2>1, GotoFields
  <2>3. PurgeCall(job'[w])
    BY <1>2, <2>2 DEF PurgeCall, SameCall
  <2> QED BY <1>1, <1>2, <1>4, <2>1, <2>3, GotoKept
<1>5. CASE /\ found # None /\ found = base
           /\ job' = [job EXCEPT ![w] = [job[w] EXCEPT !.seen = found, !.pc = "compare",
                !.next = [found EXCEPT !.lifecycle = "tombstone", !.purged = found.revision]]]
  <2> DEFINE n == [found EXCEPT !.lifecycle = "tombstone", !.purged = found.revision]
             j == [job[w] EXCEPT !.seen = found, !.pc = "compare", !.next = n]
  <2>1. /\ n \in Content /\ n.revision = found.revision /\ n.author = found.author
        /\ n.lifecycle = "tombstone" /\ n.purged = found.revision /\ n.edit = found.edit
    <3>1. found \in Content /\ found.revision \in 0..MaxRevision
      BY <1>2, <1>5, VaultAssumption DEF Content
    <3> HIDE DEF found, base
    <3> QED BY <3>1 DEF Content, Lifecycles
  <2> HIDE DEF n
  <2>2. /\ j \in Calls /\ j.kind = "purge" /\ j.memory = m /\ j.base = base /\ j.pc = "compare"
        /\ j.seen = found /\ j.next = n /\ j.admitted = job[w].admitted
    BY <1>2, <1>5, <2>1 DEF Calls, Pcs
  <2>3. job' = [job EXCEPT ![w] = j]
    BY <1>5 DEF n
  <2> HIDE DEF j
  <2>4. job' \in [Writers -> Calls] /\ job'[w] = j /\ Others(w)
    BY <1>3, <2>2, <2>3, NewCall
  <2>5. Targets(w)
    BY <1>1, <1>2, <1>5, <2>1, <2>2, <2>4 DEF Targets
  <2>6. PurgeCall(j)
    BY <1>2, <1>5, <2>1, <2>2 DEF PurgeCall
  <2> QED BY <2>4, <2>5, <2>6 DEF Kept, CallOK
<1>6. CASE /\ found # None /\ found.purged = base.revision
           /\ job' = [job EXCEPT ![w] = [job[w] EXCEPT !.seen = found, !.next = found,
                                                       !.pc = "erase"]]
  <2> DEFINE j == [job[w] EXCEPT !.seen = found, !.next = found, !.pc = "erase"]
  <2>1. found \in Content
    BY <1>2, <1>3, <1>6
  <2>2. /\ j \in Calls /\ j.kind = "purge" /\ j.memory = m /\ j.base = base /\ j.pc = "erase"
        /\ j.next = found /\ j.admitted = job[w].admitted
    BY <1>2, <2>1 DEF Calls, Pcs
  <2>3. job' = [job EXCEPT ![w] = j]
    BY <1>6
  <2> HIDE DEF j
  <2>4. job' \in [Writers -> Calls] /\ job'[w] = j /\ Others(w)
    BY <1>3, <2>2, <2>3, NewCall
  <2>5. Shown(found) /\ Shown(base) /\ base.revision # 0
    BY <1>2, <2>1 DEF Shown, Content
  <2>6. found.lifecycle = "tombstone" /\ (base.author = "human" => found.author = "human")
    BY <1>6, <2>5 DEF Inv, Sound, Lineage
  <2>7. Targets(w)
    BY <1>1, <1>2, <2>1, <2>2, <2>4, <2>6 DEF Targets
  <2>8. PurgeCall(j)
    BY <1>2, <2>1, <2>2, <2>6 DEF PurgeCall
  <2> QED BY <2>4, <2>7, <2>8 DEF Kept, CallOK
<1> QED BY <1>4, <1>5, <1>6 DEF ReadTarget

LEMMA KeptSteps == ASSUME Inv, NEW w \in Writers, Step(w) PROVE Kept(w)
  BY BeginWriteKept, ReserveKept, WriteSteps, SharedSteps, EndSteps, FileSteps, CommitKept,
     TombstoneKept, BeginKept, ReadEditKept, ReadTargetKept
  DEF Step

LEMMA SoundStep ==
  ASSUME Inv, NEW w \in Writers, Kept(w)
  PROVE  job' \in [Writers -> Calls] /\ CallsOK' /\ Sound'
<1>1. CallsOK'
  BY OneCall DEF Inv, Kept
<1> QED BY <1>1, CalmStep, StartsStep, RendersStep, TargetsStep, WritesStep, ShowsStep,
           BuriesStep DEF Kept

-----------------------------------------------------------------------------
(* Types                                                                    *)

LEMMA CallFields ==
  ASSUME Inv, NEW w \in Writers, job[w].pc # "idle"
  PROVE  /\ job[w].memory \in Memories
         /\ job[w].pc \in {"rename", "link", "revision", "commit", "tombstone"}
              => job[w].next \in Content
         /\ job[w].pc = "keep" => job[w].seen \in Content
         /\ job[w].pc = "commit" => job[w].seen \in Content \cup {None}
  BY CallAt DEF WriteCall, ReconcileCall, PurgeCall, Calls

Columns ==
  /\ file \in [Memories -> Content \cup {None}]
  /\ revisions \in [Memories -> SUBSET Content]
  /\ catalog \in [Memories -> Content \cup {None}]
  /\ rows \in [Memories -> SUBSET [revision: 1..MaxRevision, predecessor: 0..MaxRevision]]
  /\ conflicts \subseteq Memories
  /\ admission \in [Memories -> Writers \cup {Dead, None}]
  /\ order \in [Memories -> Content \cup {None}]
  /\ unadmitted \subseteq Memories
  /\ fresh \in 1..(MaxRevision + 1)
  /\ edits \in 0..MaxEdits

LEMMA TypeStep ==
  ASSUME Inv, NEW w \in Writers, Step(w), job' \in [Writers -> Calls], CallsOK'
  PROVE  TypeOK'
<1>0. Columns /\ MaxRevision \in Nat /\ MaxEdits \in Nat
  BY VaultAssumption DEF Inv, Types, TypeOK, Columns
<1>1. \A v \in Writers : job'[v] = Idle \/ job'[v].memory \in Memories
  BY DEF CallsOK, CallOK, WriteCall, ReconcileCall, PurgeCall
<1> SUFFICES Columns'
  BY <1>1 DEF TypeOK, Columns, Target
<1>3. ASSUME NEW m \in Memories, BeginWrite(w, m) \/ BeginReconcile(w, m) \/ BeginPurge(w, m)
      PROVE  Columns'
  <2>1. /\ UNCHANGED <<file, revisions, catalog, rows, conflicts, admission, order,
                       unadmitted, edits>>
        /\ UNCHANGED fresh \/ (fresh <= MaxRevision /\ fresh' = fresh + 1)
    BY <1>3 DEF BeginWrite, BeginReconcile, BeginPurge, vault, records
  <2> QED BY <1>0, <2>1 DEF Columns
<1>4. CASE RecoverAdmissions(w) \/ Reserve(w) \/ Finish(w) \/ Crash(w)
  <2>1. UNCHANGED <<file, revisions, catalog, rows, conflicts, order, unadmitted, fresh, edits>>
    BY <1>4 DEF RecoverAdmissions, Reserve, Finish, Crash, vault, records
  <2>2. admission' \in [Memories -> Writers \cup {Dead, None}]
    BY <1>0, <1>4 DEF Columns, RecoverAdmissions, Reserve, Finish, Crash
  <2> QED BY <1>0, <2>1, <2>2 DEF Columns
<1>5. CASE ReadFile(w)
  <2>1. job[w].memory \in Memories
    BY <1>5, CallFields DEF ReadFile, At
  <2>2. UNCHANGED <<file, revisions, catalog, rows, admission, order, unadmitted, fresh, edits>>
        /\ conflicts' \in {conflicts, conflicts \cup {job[w].memory}}
    BY <1>5 DEF ReadFile, vault, records, Target
  <2> QED BY <1>0, <2>1, <2>2 DEF Columns
<1>6. CASE CheckReconciled(w) \/ CheckUnowned(w) \/ Compare(w) \/ Verify(w) \/ Fail(w)
           \/ ReadTarget(w)
  <2>1. UNCHANGED <<file, revisions, catalog, rows, conflicts, admission, order,
                    unadmitted, fresh, edits>>
    BY <1>6 DEF CheckReconciled, CheckUnowned, Compare, Verify, Fail, ReadTarget, vault, records
  <2> QED BY <1>0, <2>1 DEF Columns
<1>7. CASE KeepPrevious(w) \/ WriteRevision(w) \/ EraseRevisions(w)
  <2>1. /\ job[w].memory \in Memories
        /\ job[w].pc = "keep" => job[w].seen \in Content
        /\ job[w].pc = "revision" => job[w].next \in Content
    BY <1>7, CallFields DEF KeepPrevious, WriteRevision, EraseRevisions, At
  <2>2. UNCHANGED <<file, catalog, rows, conflicts, admission, order, unadmitted, fresh, edits>>
    BY <1>7 DEF KeepPrevious, WriteRevision, EraseRevisions, records
  <2>3. \E c \in SUBSET Content : revisions' = [revisions EXCEPT ![job[w].memory] = c]
    <3>1. revisions[job[w].memory] \in SUBSET Content
      BY <1>0, <2>1 DEF Columns
    <3>2. CASE KeepPrevious(w)
      <4>1. job[w].seen \in Content
        BY <2>1, <3>2 DEF KeepPrevious, At
      <4> QED BY <3>1, <3>2, <4>1 DEF KeepPrevious, Target
    <3>3. CASE WriteRevision(w)
      <4>1. job[w].next \in Content
        BY <2>1, <3>3 DEF WriteRevision, At
      <4> QED BY <3>1, <3>3, <4>1 DEF WriteRevision, Target
    <3>4. CASE EraseRevisions(w)
      BY <3>4 DEF EraseRevisions, Target
    <3> QED BY <1>7, <3>2, <3>3, <3>4
  <2>4. revisions' \in [Memories -> SUBSET Content]
    BY <1>0, <2>3 DEF Columns
  <2> QED BY <1>0, <2>2, <2>4 DEF Columns
<1>8. CASE LinkFile(w) \/ Rename(w)
  <2>1. job[w].memory \in Memories /\ job[w].next \in Content
    BY <1>8, CallFields DEF LinkFile, Rename, At
  <2>2. /\ UNCHANGED <<revisions, catalog, rows, conflicts, admission, order, unadmitted,
                       fresh, edits>>
        /\ \/ UNCHANGED file
           \/ file' = [file EXCEPT ![job[w].memory] = job[w].next]
    BY <1>8 DEF LinkFile, Rename, records, Target
  <2>3. file' \in [Memories -> Content \cup {None}]
    BY <1>0, <2>1, <2>2 DEF Columns
  <2> QED BY <1>0, <2>2, <2>3 DEF Columns
<1>9. CASE CommitCatalog(w)
  <2>1. job[w].memory \in Memories /\ job[w].next \in Content
        /\ job[w].seen \in Content \cup {None}
    BY <1>9, CallFields DEF CommitCatalog, At
  <2>2. RowsAfter(w) \in SUBSET [revision: 1..MaxRevision, predecessor: 0..MaxRevision]
    <3> DEFINE R == [revision: 1..MaxRevision, predecessor: 0..MaxRevision]
    <3>1. rows[job[w].memory] \in SUBSET R
      BY <1>0, <2>1 DEF Columns
    <3>2. job[w].seen = None \/ job[w].seen.revision \in 1..MaxRevision
      BY <2>1 DEF Content
    <3>3. job[w].next.revision \in 1..MaxRevision /\ 0 \in 0..MaxRevision
      BY <1>0, <2>1 DEF Content
    <3>4. [revision |-> job[w].next.revision,
           predecessor |-> IF job[w].seen = None THEN 0 ELSE job[w].seen.revision] \in R
      BY <1>0, <3>2, <3>3
    <3>5. job[w].seen # None => [revision |-> job[w].seen.revision, predecessor |-> 0] \in R
      BY <3>2, <3>3
    <3> HIDE DEF R
    <3> QED BY <3>1, <3>4, <3>5 DEF RowsAfter, Target, R
  <2>3. /\ UNCHANGED <<file, revisions, conflicts, admission, order, fresh, edits>>
        /\ \/ UNCHANGED <<catalog, rows, unadmitted>>
           \/ /\ catalog' = [catalog EXCEPT ![job[w].memory] = job[w].next]
              /\ rows' = [rows EXCEPT ![job[w].memory] = RowsAfter(w)]
              /\ unadmitted' \subseteq unadmitted \cup {job[w].memory}
    BY <1>9 DEF CommitCatalog, vault, records, Target
  <2>4. /\ catalog' \in [Memories -> Content \cup {None}]
        /\ rows' \in [Memories -> SUBSET [revision: 1..MaxRevision, predecessor: 0..MaxRevision]]
    BY <1>0, <2>1, <2>2, <2>3 DEF Columns
  <2>5. unadmitted' \subseteq Memories
    BY <1>0, <2>1, <2>3 DEF Columns
  <2> QED BY <1>0, <2>3, <2>4, <2>5 DEF Columns
<1>10. CASE ReadEdit(w)
  <2>1. /\ UNCHANGED <<file, revisions, catalog, rows, conflicts, admission, order,
                       unadmitted, edits>>
        /\ UNCHANGED fresh \/ (fresh <= MaxRevision /\ fresh' = fresh + 1)
    BY <1>10 DEF ReadEdit, vault, records
  <2> QED BY <1>0, <2>1 DEF Columns
<1>11. CASE CommitTombstone(w)
  <2>1. job[w].memory \in Memories /\ job[w].next \in Content
    BY <1>11, CallFields DEF CommitTombstone, At
  <2>2. /\ UNCHANGED <<file, revisions, conflicts, admission, unadmitted, fresh, edits>>
        /\ \/ UNCHANGED <<catalog, rows, order>>
           \/ /\ catalog' = [catalog EXCEPT ![job[w].memory] = job[w].next]
              /\ rows' = [rows EXCEPT ![job[w].memory] = {}]
              /\ order' = [order EXCEPT ![job[w].memory] = None]
    BY <1>11 DEF CommitTombstone, vault, Target
  <2>3. /\ catalog' \in [Memories -> Content \cup {None}]
        /\ order' \in [Memories -> Content \cup {None}]
    BY <1>0, <2>1, <2>2 DEF Columns
  <2>4. rows' \in [Memories -> SUBSET [revision: 1..MaxRevision, predecessor: 0..MaxRevision]]
    BY <1>0, <2>1, <2>2 DEF Columns
  <2> QED BY <1>0, <2>2, <2>3, <2>4 DEF Columns
<1> QED BY <1>3, <1>4, <1>5, <1>6, <1>7, <1>8, <1>9, <1>10, <1>11 DEF Step


-----------------------------------------------------------------------------
(* The theorems about revisions                                             *)

LEMMA InvInit == Init => Inv
<1> SUFFICES ASSUME Init PROVE Inv
  OBVIOUS
<1> USE DEF Init
<1>1. job \in [Writers -> Calls] /\ CallsOK
  BY IdleCall DEF CallsOK
<1>2. TypeOK
  BY <1>1, VaultAssumption DEF TypeOK
<1>3. \A c : ~Shown(c)
  BY NoContentAssumption, IdleCall DEF Shown
<1>4. Lineage
  BY <1>3 DEF Lineage
<1>5. \A w \in Writers : ~Pending(w)
  BY IdleCall DEF Pending
<1>6. \A m \in Memories : \A c : ~Buried(m, c)
  BY NoContentAssumption, IdleCall DEF Buried
<1>7. RowsBelow /\ OneSuccessor
  BY DEF RowsBelow, OneSuccessor
<1> QED BY <1>1, <1>2, <1>4, <1>5, <1>6, <1>7 DEF Inv, Types, Sound, PendingIsNew, BuriedStays

LEMMA InvStep == Inv /\ [Next]_vars => Inv'
<1> SUFFICES ASSUME Inv, [Next]_vars PROVE Inv'
  OBVIOUS
<1>1. ASSUME NEW w \in Writers, Step(w) PROVE Inv'
  <2>1. job' \in [Writers -> Calls] /\ CallsOK' /\ Sound'
    BY <1>1, KeptSteps, SoundStep
  <2>2. TypeOK'
    BY <1>1, <2>1, TypeStep
  <2> QED BY <2>1, <2>2 DEF Inv, Types
<1>2. ASSUME NEW m \in Memories, OrderPurge(m) \/ Edit(m) PROVE Inv'
  <2>1. Sound'
    BY <1>2, OrderStep, EditStep
  <2>2. UNCHANGED job
    BY <1>2 DEF OrderPurge, Edit
  <2>3. CallsOK'
    BY <2>2 DEF Inv, CallsOK, CallOK, WriteCall, ReconcileCall, PurgeCall
  <2>4. Columns /\ MaxRevision \in Nat /\ MaxEdits \in Nat
    BY VaultAssumption DEF Inv, Types, TypeOK, Columns
  <2>5. CASE OrderPurge(m)
    <3>1. UNCHANGED <<file, revisions, catalog, rows, unadmitted, conflicts, admission, fresh, edits>>
          /\ order' = [order EXCEPT ![m] = catalog[m]]
      BY <2>5 DEF OrderPurge, vault, records
    <3>2. order' \in [Memories -> Content \cup {None}]
      BY <2>4, <3>1 DEF Columns
    <3>3. Columns'
      BY <2>4, <3>1, <3>2 DEF Columns
    <3> QED BY <2>1, <2>2, <2>3, <3>3 DEF Inv, Types, TypeOK, Columns, Target
  <2>6. CASE Edit(m)
    <3>1. UNCHANGED <<revisions, catalog, rows, unadmitted, conflicts, admission, order, fresh>>
          /\ edits < MaxEdits /\ edits' = edits + 1 /\ file[m] # None
      BY <2>6 DEF Edit, records
    <3>2. PICK lifecycle \in {"active", "archived"} :
            file' = [file EXCEPT ![m] = [file[m] EXCEPT !.edit = edits + 1, !.lifecycle = lifecycle]]
      BY <2>4, <2>6 DEF Edit, Columns
    <3>3. file[m] \in Content /\ edits + 1 \in 0..MaxEdits
      BY <2>4, <3>1 DEF Columns
    <3>4. [file[m] EXCEPT !.edit = edits + 1, !.lifecycle = lifecycle] \in Content
      BY <3>3 DEF Content, Lifecycles
    <3>5. file' \in [Memories -> Content \cup {None}]
      BY <2>4, <3>2, <3>4 DEF Columns
    <3>6. Columns'
      BY <2>4, <3>1, <3>3, <3>5 DEF Columns
    <3> QED BY <2>1, <2>2, <2>3, <3>6 DEF Inv, Types, TypeOK, Columns, Target
  <2> QED BY <1>2, <2>5, <2>6
<1>3. CASE UNCHANGED vars
  BY <1>3 DEF vars, Inv, Types, TypeOK, Target, CallsOK, CallOK, WriteCall, ReconcileCall,
     PurgeCall, Sound, Lineage, Shown, PendingIsNew, Pending, Elsewhere, BuriedStays, Buried,
     RowsBelow, OneSuccessor
<1> QED BY <1>1, <1>2, <1>3 DEF Next

(***************************************************************************)
(* The inductive invariant, with the types of files, rows and calls.        *)
(***************************************************************************)
THEOREM VaultInvariant == Spec => []Inv
  BY InvInit, InvStep, PTL DEF Spec

(***************************************************************************)
(* The history of a Memory never forks: of two writers that start from one  *)
(* revision at most one is recorded (the UPDATE of memory_catalog asks for  *)
(* the content identity that was read, vault/index.ts:1075), for any        *)
(* number of processes and whichever of them die.                          *)
(***************************************************************************)
THEOREM OneSuccessorAlways == Spec => []OneSuccessor
<1>1. Inv => OneSuccessor
  BY DEF Inv, Sound
<1> QED BY <1>1, VaultInvariant, PTL

(***************************************************************************)
(* What a step may do to the authority and the lifecycle of a row.          *)
(***************************************************************************)
HumanStays ==
  \A m \in Memories :
    catalog[m] # None /\ catalog[m].author = "human"
      => catalog'[m] # None /\ catalog'[m].author = "human"

BuriedForGood ==
  \A m \in Memories :
    catalog[m] # None /\ catalog[m].lifecycle = "tombstone"
      => catalog'[m].lifecycle = "tombstone"

LEMMA AuthorityStep ==
  ASSUME Inv, [Next]_vars
  PROVE  HumanStays /\ BuriedForGood
<1>0. None \notin Content /\ catalog \in [Memories -> Content \cup {None}]
  BY NoContentAssumption DEF Inv, Types, TypeOK
<1>1. CASE UNCHANGED catalog
  BY <1>1 DEF HumanStays, BuriedForGood
<1>2. ASSUME NEW w \in Writers, CommitCatalog(w) PROVE HumanStays /\ BuriedForGood
  <2>1. CASE UNCHANGED catalog
    BY <1>1, <2>1
  <2>2. CASE ~UNCHANGED catalog
    <3>1. /\ job[w].memory \in Memories /\ job[w].next \in Content
          /\ catalog' = [catalog EXCEPT ![job[w].memory] = job[w].next]
          /\ catalog[job[w].memory] \in Content =>
               /\ catalog[job[w].memory].author = "human" => job[w].next.author = "human"
               /\ catalog[job[w].memory].lifecycle = "tombstone"
                    => job[w].next.lifecycle = "tombstone"
      BY <1>2, <2>2, CommitKept
    <3> QED BY <1>0, <3>1 DEF HumanStays, BuriedForGood
  <2> QED BY <2>1, <2>2
<1>3. ASSUME NEW w \in Writers, CommitTombstone(w) PROVE HumanStays /\ BuriedForGood
  <2>1. CASE UNCHANGED catalog
    BY <1>1, <2>1
  <2>2. CASE ~UNCHANGED catalog
    <3>1. /\ job[w].memory \in Memories /\ job[w].next \in Content
          /\ catalog' = [catalog EXCEPT ![job[w].memory] = job[w].next]
          /\ job[w].next.lifecycle = "tombstone"
          /\ catalog[job[w].memory].author = "human" => job[w].next.author = "human"
      BY <1>3, <2>2, TombstoneKept
    <3> QED BY <1>0, <3>1 DEF HumanStays, BuriedForGood
  <2> QED BY <2>1, <2>2
<1>4. ASSUME NEW w \in Writers, Step(w), ~CommitCatalog(w), ~CommitTombstone(w)
      PROVE  UNCHANGED catalog
  BY <1>4 DEF Step, BeginWrite, RecoverAdmissions, Reserve, ReadFile, CheckReconciled,
     KeepPrevious, CheckUnowned, LinkFile, Compare, Rename, WriteRevision, Verify, Fail,
     Finish, BeginReconcile, ReadEdit, BeginPurge, ReadTarget, EraseRevisions, Crash, records
<1>5. ASSUME NEW m \in Memories, OrderPurge(m) \/ Edit(m) PROVE UNCHANGED catalog
  BY <1>5 DEF OrderPurge, Edit, records
<1>6. CASE UNCHANGED vars
  BY <1>1, <1>6 DEF vars
<1> QED BY <1>1, <1>2, <1>3, <1>4, <1>5, <1>6 DEF Next

(***************************************************************************)
(* A Memory a human wrote stays the human's and a purged one stays a        *)
(* tombstone, whatever writes, reconciliations, edits by hand, resumed      *)
(* purges and crashes interleave (writeCanonicalMemory checks the authority *)
(* of the revision it read, vault/index.ts:1018, and commits only over it).  *)
(***************************************************************************)
THEOREM AuthorityKeptAlways == Spec => AuthorityKept
<1>1. Inv /\ [Next]_vars => [HumanStays]_vars /\ [BuriedForGood]_vars
  BY AuthorityStep
<1>2. Spec => [][HumanStays]_vars /\ [][BuriedForGood]_vars
  BY <1>1, VaultInvariant, PTL DEF Spec
<1> QED BY <1>2 DEF AuthorityKept, HumanAuthorityKept, TombstoneFinal, HumanStays, BuriedForGood


-----------------------------------------------------------------------------
(* The admission limit                                                      *)

(***************************************************************************)
(* The Memories whose slot counts: active ones that were admitted, and      *)
(* those that a call, or a dead one, still holds an admission for.          *)
(***************************************************************************)
Slots == {m \in Memories : (CatalogActive(m) /\ m \notin unadmitted) \/ admission[m] # None}

SlotsOK == Cardinality(Slots) <= ActiveLimit

(***************************************************************************)
(* A call that was admitted still has its admission.                        *)
(***************************************************************************)
HoldsSlot(w) == job[w].memory \in Memories /\ admission[job[w].memory] = w

Admitted == \A w \in Writers : job[w].admitted => HoldsSlot(w)

LEMMA FewerSlots ==
  ASSUME SlotsOK, Slots' \subseteq Slots
  PROVE  SlotsOK'
<1>1. IsFiniteSet(Slots)
  BY VaultAssumption, FS_Subset DEF Slots
<1>2. IsFiniteSet(Slots') /\ Cardinality(Slots') <= Cardinality(Slots)
  BY <1>1, FS_Subset
<1>3. Cardinality(Slots) \in Nat /\ Cardinality(Slots') \in Nat
  BY <1>1, <1>2, FS_CardinalityType
<1> QED BY <1>2, <1>3, VaultAssumption DEF SlotsOK

(***************************************************************************)
(* Only a reservation makes a call admitted.                                *)
(***************************************************************************)
AdmittedBefore(w) ==
  job'[w].admitted => job[w].admitted /\ job'[w].memory = job[w].memory

LEMMA AdmittedStep ==
  ASSUME Inv, NEW w \in Writers, Step(w), ~Reserve(w)
  PROVE  AdmittedBefore(w) /\ Others(w)
<1> SUFFICES AdmittedBefore(w)
  BY KeptSteps DEF Kept
<1>0. job \in [Writers -> Calls] /\ job[w] \in Calls
  BY DEF Inv, Types
<1>1. ASSUME NEW pc \in Pcs, Goto(w, pc) PROVE AdmittedBefore(w)
  BY <1>0, <1>1, GotoFields DEF AdmittedBefore, SameCall
<1>2. ASSUME job' = [job EXCEPT ![w] = Idle] PROVE AdmittedBefore(w)
  BY <1>0, <1>2, IdleCall DEF AdmittedBefore
<1>3. CASE RecoverAdmissions(w) \/ CheckReconciled(w) \/ KeepPrevious(w) \/ CheckUnowned(w)
           \/ LinkFile(w) \/ Compare(w) \/ Rename(w) \/ WriteRevision(w) \/ Verify(w)
           \/ CommitCatalog(w) \/ Fail(w) \/ EraseRevisions(w) \/ CommitTombstone(w)
  <2>1. \E pc \in Pcs : Goto(w, pc)
    BY <1>3 DEF RecoverAdmissions, CheckReconciled, KeepPrevious, CheckUnowned, LinkFile,
       Compare, Rename, WriteRevision, Verify, CommitCatalog, Fail, EraseRevisions,
       CommitTombstone, Pcs
  <2> QED BY <1>1, <2>1
<1>4. CASE Finish(w) \/ Crash(w)
  BY <1>2, <1>4 DEF Finish, Crash
<1>5. ASSUME NEW m \in Memories, BeginWrite(w, m) PROVE AdmittedBefore(w)
  BY <1>0, <1>5 DEF BeginWrite, AdmittedBefore
<1>6. ASSUME NEW m \in Memories, BeginReconcile(w, m) \/ BeginPurge(w, m)
      PROVE  AdmittedBefore(w)
  BY <1>0, <1>6 DEF BeginReconcile, BeginPurge, AdmittedBefore, Idle
<1>7. ASSUME NEW f, NEW n, NEW pc,
             \/ job' = [job EXCEPT ![w] = [job[w] EXCEPT !.seen = f, !.pc = pc]]
             \/ job' = [job EXCEPT ![w] = [job[w] EXCEPT !.seen = f, !.pc = pc, !.next = n]]
             \/ job' = [job EXCEPT ![w] = [job[w] EXCEPT !.seen = f, !.next = n, !.pc = pc]]
      PROVE  AdmittedBefore(w)
  BY <1>0, <1>7 DEF AdmittedBefore, Calls
<1>8. "failed" \in Pcs /\ "unowned" \in Pcs
  BY DEF Pcs
<1>9. CASE ReadFile(w)
  <2>1. \/ Goto(w, "failed") \/ Goto(w, "unowned")
        \/ job' = [job EXCEPT ![w] = [job[w] EXCEPT !.seen = file[job[w].memory],
                                                    !.pc = "reconciled"]]
    BY <1>9 DEF ReadFile, Target
  <2> QED BY <1>1, <1>7, <1>8, <2>1
<1>10. CASE ReadEdit(w)
  <2> DEFINE found == file[job[w].memory]
             n == [found EXCEPT !.revision = fresh, !.edit = 0, !.author = "human"]
  <2>1. \/ Goto(w, "failed")
        \/ job' = [job EXCEPT ![w] = [job[w] EXCEPT !.seen = found, !.pc = "compare", !.next = n]]
    BY <1>10 DEF ReadEdit, Target
  <2> HIDE DEF found, n
  <2> QED BY <1>1, <1>7, <1>8, <2>1
<1>11. CASE ReadTarget(w)
  <2> DEFINE found == file[job[w].memory]
             n == [found EXCEPT !.lifecycle = "tombstone", !.purged = found.revision]
  <2>1. \/ Goto(w, "failed")
        \/ job' = [job EXCEPT ![w] = [job[w] EXCEPT !.seen = found, !.pc = "compare", !.next = n]]
        \/ job' = [job EXCEPT ![w] = [job[w] EXCEPT !.seen = found, !.next = found, !.pc = "erase"]]
    BY <1>11 DEF ReadTarget, Target
  <2> HIDE DEF found, n
  <2> QED BY <1>1, <1>7, <1>8, <2>1
<1> QED BY <1>3, <1>4, <1>5, <1>6, <1>9, <1>10, <1>11 DEF Step

LEMMA AdmissionStep ==
  ASSUME Inv, SlotsOK, Admitted, [Next]_vars
  PROVE  SlotsOK' /\ Admitted'
<1>0. /\ admission \in [Memories -> Writers \cup {Dead, None}]
      /\ catalog \in [Memories -> Content \cup {None}]
      /\ job \in [Writers -> Calls] /\ None \notin Content
  BY NoContentAssumption DEF Inv, Types, TypeOK
<1>1. ASSUME UNCHANGED <<catalog, unadmitted, admission>> PROVE Slots' = Slots
  BY <1>1 DEF Slots, CatalogActive
<1>2. ASSUME NEW w \in Writers, Step(w), ~Reserve(w), UNCHANGED admission PROVE Admitted'
  BY <1>2, AdmittedStep DEF Admitted, HoldsSlot, AdmittedBefore, Others
<1>3. ASSUME NEW w \in Writers, RecoverAdmissions(w) PROVE SlotsOK' /\ Admitted'
  <2>1. /\ admission' = [m \in Memories |-> IF Releasable(m) THEN None ELSE admission[m]]
        /\ UNCHANGED <<catalog, unadmitted>>
    BY <1>3 DEF RecoverAdmissions, records
  <2>2. Slots' \subseteq Slots
    BY <2>1 DEF Slots, CatalogActive
  <2>3. Step(w) /\ ~Reserve(w)
    BY <1>3 DEF Step, RecoverAdmissions, Reserve, At
  <2>4. \A v \in Writers : admission[job[v].memory] = v => ~Releasable(job[v].memory)
    BY VaultAssumption DEF Releasable
  <2>5. Admitted'
    BY <2>1, <2>3, <2>4, AdmittedStep DEF Admitted, HoldsSlot, AdmittedBefore, Others
  <2> QED BY <2>2, <2>5, FewerSlots
<1>4. ASSUME NEW w \in Writers, Reserve(w) PROVE SlotsOK' /\ Admitted'
  <2>1. UNCHANGED <<catalog, unadmitted>> /\ job[w].pc = "reserve" /\ job[w] \in Calls
    BY <1>0, <1>4 DEF Reserve, records, At
  <2>2. job[w].memory \in Memories
    BY <2>1, CallFields
  <2>3. CASE UNCHANGED admission
    <3>1. job'[w].admitted => job[w].admitted /\ job'[w].memory = job[w].memory
      <4>1. CASE Goto(w, "read")
        BY <1>0, <4>1, GotoFields DEF Pcs, SameCall
      <4>2. CASE job' = [job EXCEPT ![w] = Idle]
        BY <1>0, <4>2, IdleCall
      <4>3. CASE /\ admission[job[w].memory] = None
                 /\ admission' = [admission EXCEPT ![job[w].memory] = w]
        BY <1>0, <2>2, <2>3, <4>3, VaultAssumption
      <4> QED BY <1>4, <4>1, <4>2, <4>3 DEF Reserve, Target
    <3>2. Others(w)
      BY <1>4, ReserveKept DEF Kept
    <3>3. Admitted'
      BY <2>3, <3>1, <3>2 DEF Admitted, HoldsSlot, Others
    <3> QED BY <1>1, <2>1, <2>3, <3>3, FewerSlots
  <2>4. CASE ~UNCHANGED admission
    <3> DEFINE k == job[w].memory
               taken == {m \in Memories : CatalogActive(m) \/ admission[m] # None}
    <3>1. /\ admission[k] = None /\ Cardinality(taken) < ActiveLimit
          /\ admission' = [admission EXCEPT ![k] = w]
          /\ job' = [job EXCEPT ![w] = [job[w] EXCEPT !.pc = "read", !.admitted = TRUE]]
      BY <1>4, <2>4 DEF Reserve, SlotsTaken, Target
    <3>2. Slots' = Slots \cup {k}
      BY <1>0, <2>1, <2>2, <3>1, VaultAssumption DEF Slots, CatalogActive
    <3>3. Slots \subseteq taken /\ IsFiniteSet(taken)
      BY VaultAssumption, FS_Subset DEF Slots
    <3>4. IsFiniteSet(Slots) /\ Cardinality(Slots) <= Cardinality(taken)
      BY <3>3, FS_Subset
    <3>5. Cardinality(Slots) \in Nat /\ Cardinality(taken) \in Nat
      BY <3>3, <3>4, FS_CardinalityType
    <3>6. Cardinality(Slots') <= Cardinality(Slots) + 1 /\ Cardinality(Slots') \in Nat
      <4>1. IsFiniteSet(Slots \cup {k})
            /\ Cardinality(Slots \cup {k})
                 = IF k \in Slots THEN Cardinality(Slots) ELSE Cardinality(Slots) + 1
        BY <3>4, FS_AddElement
      <4> QED BY <3>2, <3>5, <4>1
    <3> HIDE DEF taken, k
    <3>7. SlotsOK'
      BY <3>1, <3>4, <3>5, <3>6, VaultAssumption DEF SlotsOK
    <3>8. job'[w].memory = k /\ admission'[k] = w /\ \A v \in Writers \ {w} : job'[v] = job[v]
      BY <1>0, <2>1, <2>2, <3>1 DEF Calls, k
    <3>9. ASSUME NEW v \in Writers, job'[v].admitted PROVE HoldsSlot(v)'
      <4>1. CASE v = w
        BY <2>2, <3>8, <4>1 DEF HoldsSlot, k
      <4>2. CASE v # w
        <5>1. job[v].memory \in Memories /\ admission[job[v].memory] = v /\ job'[v] = job[v]
          BY <3>8, <3>9, <4>2 DEF Admitted, HoldsSlot
        <5>2. job[v].memory # k
          BY <3>1, <5>1, VaultAssumption
        <5> QED BY <1>0, <3>1, <5>1, <5>2 DEF HoldsSlot
      <4> QED BY <4>1, <4>2
    <3> QED BY <3>7, <3>9 DEF Admitted
  <2> QED BY <2>3, <2>4
<1>5. ASSUME NEW w \in Writers, CommitCatalog(w) PROVE SlotsOK' /\ Admitted'
  <2>1. PICK k \in Memories : k = job[w].memory /\ UNCHANGED admission
    BY <1>5, CallFields DEF CommitCatalog, At
  <2>2. Step(w) /\ ~Reserve(w)
    BY <1>5 DEF Step, CommitCatalog, Reserve, At
  <2>3. CASE UNCHANGED <<catalog, unadmitted>>
    BY <1>1, <1>2, <2>1, <2>2, <2>3, FewerSlots
  <2>4. CASE ~UNCHANGED <<catalog, unadmitted>>
    <3>1. /\ catalog' = [catalog EXCEPT ![k] = job[w].next]
          /\ unadmitted' =
               IF job[w].next.lifecycle # "active" THEN unadmitted \ {k}
               ELSE IF ~CatalogActive(k) /\ ~job[w].admitted
                    THEN unadmitted \cup {k} ELSE unadmitted
      BY <1>5, <2>1, <2>4 DEF CommitCatalog, records, Target
    <3>2. \A m \in Memories \ {k} : CatalogActive(m)' = CatalogActive(m)
                                    /\ (m \in unadmitted' <=> m \in unadmitted)
      BY <1>0, <3>1 DEF CatalogActive
    <3>3. CatalogActive(k)' => job[w].next.lifecycle = "active"
      BY <1>0, <2>1, <3>1 DEF CatalogActive
    <3>4. job[w].admitted => admission[k] = w /\ w # None
      BY <2>1, VaultAssumption DEF Admitted, HoldsSlot
    <3>5. CatalogActive(k)' /\ k \notin unadmitted' => k \in Slots
      BY <2>1, <3>1, <3>3, <3>4 DEF Slots
    <3>6. Slots' \subseteq Slots
      BY <2>1, <3>2, <3>5 DEF Slots
    <3> QED BY <1>2, <2>1, <2>2, <3>6, FewerSlots
  <2> QED BY <2>3, <2>4
<1>6. ASSUME NEW w \in Writers, CommitTombstone(w) PROVE SlotsOK' /\ Admitted'
  <2>1. Step(w) /\ ~Reserve(w) /\ UNCHANGED <<admission, unadmitted>>
    BY <1>6 DEF Step, CommitTombstone, Reserve, At
  <2>2. Slots' \subseteq Slots
    <3>1. CASE UNCHANGED catalog
      BY <1>1, <2>1, <3>1
    <3>2. CASE ~UNCHANGED catalog
      <4>1. /\ job[w].memory \in Memories
            /\ catalog' = [catalog EXCEPT ![job[w].memory] = job[w].next]
            /\ job[w].next.lifecycle = "tombstone"
        BY <1>6, <3>2, TombstoneKept
      <4>2. \A m \in Memories : CatalogActive(m)' => CatalogActive(m)
        BY <1>0, <4>1 DEF CatalogActive
      <4> QED BY <2>1, <4>2 DEF Slots
    <3> QED BY <3>1, <3>2
  <2> QED BY <1>2, <2>1, <2>2, FewerSlots
<1>7. ASSUME NEW w \in Writers, Finish(w) \/ Crash(w) PROVE SlotsOK' /\ Admitted'
  <2>1. UNCHANGED <<catalog, unadmitted>> /\ job' = [job EXCEPT ![w] = Idle]
    BY <1>7 DEF Finish, Crash, records
  <2>2. /\ admission' \in [Memories -> Writers \cup {Dead, None}]
        /\ \A m \in Memories : admission[m] = None => admission'[m] = None
        /\ \A m \in Memories, v \in Writers \ {w} : admission[m] = v => admission'[m] = v
    <3>1. CASE Finish(w)
      <4>1. CASE UNCHANGED admission
        BY <1>0, <4>1
      <4>2. CASE ~UNCHANGED admission
        <5>1. job[w].admitted /\ admission' = [admission EXCEPT ![job[w].memory] = None]
          BY <3>1, <4>2 DEF Finish, Target
        <5>2. job[w].memory \in Memories /\ admission[job[w].memory] = w
          BY <5>1 DEF Admitted, HoldsSlot
        <5> QED BY <1>0, <5>1, <5>2
      <4> QED BY <4>1, <4>2
    <3>2. CASE Crash(w)
      <4>1. admission' = [m \in Memories |-> IF admission[m] = w THEN Dead ELSE admission[m]]
        BY <3>2 DEF Crash
      <4>2. None # w
        BY VaultAssumption
      <4> QED BY <1>0, <4>1, <4>2
    <3> QED BY <1>7, <3>1, <3>2
  <2>3. Slots' \subseteq Slots
    BY <2>1, <2>2 DEF Slots, CatalogActive
  <2>4. ~job'[w].admitted /\ \A v \in Writers \ {w} : job'[v] = job[v]
    BY <1>0, <2>1, IdleCall
  <2>5. Admitted'
    BY <2>2, <2>4 DEF Admitted, HoldsSlot
  <2> QED BY <2>3, <2>5, FewerSlots
<1>8. ASSUME NEW w \in Writers, Step(w),
             ~RecoverAdmissions(w), ~Reserve(w), ~CommitCatalog(w), ~CommitTombstone(w),
             ~Finish(w), ~Crash(w)
      PROVE  SlotsOK' /\ Admitted'
  <2>1. UNCHANGED <<catalog, unadmitted, admission>>
    BY <1>8 DEF Step, BeginWrite, ReadFile, CheckReconciled, KeepPrevious, CheckUnowned,
       LinkFile, Compare, Rename, WriteRevision, Verify, Fail, BeginReconcile, ReadEdit,
       BeginPurge, ReadTarget, EraseRevisions, records
  <2> QED BY <1>1, <1>2, <1>8, <2>1, FewerSlots
<1>9. ASSUME NEW m \in Memories, OrderPurge(m) \/ Edit(m) PROVE SlotsOK' /\ Admitted'
  <2>1. UNCHANGED <<catalog, unadmitted, admission, job>>
    BY <1>9 DEF OrderPurge, Edit, records
  <2> QED BY <1>1, <2>1, FewerSlots DEF Admitted, HoldsSlot
<1>10. CASE UNCHANGED vars
  <2>1. UNCHANGED <<catalog, unadmitted, admission, job>>
    BY <1>10 DEF vars
  <2> QED BY <1>1, <2>1, FewerSlots DEF Admitted, HoldsSlot
<1> QED BY <1>3, <1>4, <1>5, <1>6, <1>7, <1>8, <1>9, <1>10 DEF Next

(***************************************************************************)
(* The Memories that admitted writes made active never exceed the limit:    *)
(* the count of reserveActiveAdmission (vault/active-capacity.ts:66) is     *)
(* taken long before the row that it allows, and holds until then through   *)
(* other calls, crashes and the recovery of a dead process' admission.      *)
(***************************************************************************)
THEOREM ActiveWithinLimitAlways == Spec => []ActiveWithinLimit
<1>1. Init => SlotsOK /\ Admitted
  <2> SUFFICES ASSUME Init PROVE SlotsOK /\ Admitted
    OBVIOUS
  <2>1. Slots = {}
    BY DEF Init, Slots, CatalogActive
  <2>2. Cardinality(Slots) = 0
    BY <2>1, FS_EmptySet
  <2> QED BY <2>2, IdleCall, VaultAssumption DEF Init, SlotsOK, Admitted
<1>2. Inv /\ SlotsOK /\ Admitted /\ [Next]_vars => SlotsOK' /\ Admitted'
  BY AdmissionStep
<1>3. SlotsOK => ActiveWithinLimit
  <2> DEFINE active == {m \in Memories : CatalogActive(m)} \ unadmitted
  <2>1. active \subseteq Slots /\ IsFiniteSet(Slots)
    BY VaultAssumption, FS_Subset DEF Slots
  <2>2. Cardinality(active) <= Cardinality(Slots) /\ IsFiniteSet(active)
    BY <2>1, FS_Subset
  <2>3. Cardinality(active) \in Nat /\ Cardinality(Slots) \in Nat
    BY <2>1, <2>2, FS_CardinalityType
  <2> QED BY <2>2, <2>3, VaultAssumption DEF SlotsOK, ActiveWithinLimit
<1> QED BY <1>1, <1>2, <1>3, VaultInvariant, PTL DEF Spec


-----------------------------------------------------------------------------
(* Rebuilding the database from the Vault                                   *)

(***************************************************************************)
(* What the program makes carries no edit by hand, and what was ordered to  *)
(* be purged was archived.                                                  *)
(***************************************************************************)
RenderedOnly ==
  /\ \A m \in Memories :
       /\ catalog[m] \in Content => catalog[m].edit = 0
       /\ order[m] \in Content => order[m].edit = 0 /\ order[m].lifecycle = "archived"
  /\ \A w \in Writers :
       /\ job[w].next \in Content => job[w].next.edit = 0
       /\ job[w].kind = "purge" => job[w].base.edit = 0 /\ job[w].base.lifecycle = "archived"

(***************************************************************************)
(* A revision has one tombstone, and if it also has a body the tombstone    *)
(* says so.                                                                 *)
(***************************************************************************)
OneTombstone ==
  \A c, d : Shown(c) /\ Shown(d) /\ c.revision = d.revision /\ d.lifecycle = "tombstone" =>
    /\ d.edit = 0
    /\ c.lifecycle = "tombstone" => c = d
    /\ c.lifecycle # "tombstone" => d.purged = d.revision

(***************************************************************************)
(* An edit of a tombstone is never found.                                   *)
(***************************************************************************)
NoTombstoneEdited ==
  \A w \in Writers : job[w].kind = "reconcile" /\ job[w].next \in Content
    => job[w].base.lifecycle # "tombstone"

Tombstones == RenderedOnly /\ OneTombstone /\ NoTombstoneEdited

LEMMA TombstonesKept ==
  ASSUME Inv, CallsOK', Tombstones, NEW w \in Writers, Kept(w)
  PROVE  Tombstones'
<1> USE DEF Tombstones, Others, SameCall
<1>0. /\ None \notin Content
      /\ catalog \in [Memories -> Content \cup {None}]
      /\ order \in [Memories -> Content \cup {None}]
  BY NoContentAssumption DEF Inv, Types, TypeOK
<1>1. Idle.kind = "none" /\ Idle.next = None
  BY IdleCall
<1>2. NoneNew => OneTombstone'
  BY DEF NoneNew, OneTombstone
<1>3. CASE Calm(w)
  <2>1. RenderedOnly' /\ NoTombstoneEdited'
    BY <1>0, <1>1, <1>3 DEF Calm, RenderedOnly, NoTombstoneEdited
  <2> QED BY <1>2, <1>3, <2>1, CalmStep
<1>4. CASE Starts(w)
  <2>1. job'[w].kind = "purge" => job'[w].base \in Content
    BY <1>1 DEF CallsOK, CallOK, WriteCall, ReconcileCall, PurgeCall, Idle
  <2>2. RenderedOnly' /\ NoTombstoneEdited'
    BY <1>0, <1>4, <2>1 DEF Starts, RenderedOnly, NoTombstoneEdited
  <2> QED BY <1>2, <1>4, <2>2, StartsStep
<1>5. CASE Renders(w)
  <2> DEFINE n == job'[w].next
  <2>1. ASSUME NEW c, Shown(c)', c # n PROVE Shown(c) /\ c.revision # n.revision
    <3>1. Shown(c)
      BY <1>0, <1>5, <2>1 DEF Shown, Renders
    <3>2. fresh \in Nat /\ c.revision \in Nat
      BY <3>1, VaultAssumption DEF Inv, Types, TypeOK, Shown, Content
    <3> QED BY <1>5, <3>1, <3>2 DEF Renders, Inv, Sound, Lineage
  <2>2. n.edit = 0
    BY <1>5 DEF Renders
  <2>3. OneTombstone'
    BY <2>1, <2>2 DEF OneTombstone
  <2>4. RenderedOnly'
    BY <1>0, <1>5 DEF Renders, RenderedOnly
  <2>5. NoTombstoneEdited'
    <3> SUFFICES ASSUME job'[w].kind = "reconcile", job[w].base.lifecycle = "tombstone",
                        job'[w].base = job[w].base
                 PROVE  FALSE
      BY <1>5 DEF Renders, NoTombstoneEdited
    <3> DEFINE found == file[job[w].memory]
    <3>1. /\ job[w].kind = "reconcile" /\ job[w].memory \in Memories /\ found \in Content
          /\ found # job[w].base /\ found.revision = job[w].base.revision
      BY <1>5 DEF Renders
    <3>2. job[w].base \in Content
      BY <1>1, <3>1 DEF Inv, CallsOK, CallOK, WriteCall, ReconcileCall, PurgeCall
    <3>3. Buried(job[w].memory, job[w].base) /\ Shown(job[w].base) /\ Shown(found)
      BY <3>1, <3>2 DEF Buried, Shown
    <3>4. found.lifecycle = "tombstone"
      BY <3>1, <3>3 DEF Inv, Sound, BuriedStays
    <3> QED BY <3>1, <3>3, <3>4 DEF OneTombstone
  <2> QED BY <2>3, <2>4, <2>5
<1>6. CASE Targets(w)
  <2> DEFINE n == job'[w].next
             found == file[job[w].memory]
  <2>1. found \in Content /\ Shown(found) /\ n \in Content
    BY <1>6 DEF Targets, Shown
  <2>2. ASSUME NEW c, Shown(c)' PROVE Shown(c) \/ c = n
    BY <1>0, <1>6, <2>2 DEF Shown, Targets
  <2>3. \/ n = found /\ n.lifecycle = "tombstone"
        \/ /\ found = job[w].base /\ n.lifecycle = "tombstone" /\ n.purged = found.revision
           /\ n.revision = found.revision /\ n.author = found.author /\ n.edit = found.edit
    BY <1>6 DEF Targets
  <2>4. n.edit = 0
    BY <1>6, <2>1, <2>3 DEF Targets, RenderedOnly, OneTombstone
  <2>5. OneTombstone'
    <3>1. CASE n = found
      BY <2>1, <2>2, <3>1 DEF OneTombstone
    <3>2. CASE n # found
      <4>1. found.lifecycle # "tombstone" /\ n.purged = n.revision
        BY <1>6, <2>3, <3>2 DEF RenderedOnly, Targets
      <4>2. ASSUME NEW d, Shown(d), d.revision = n.revision, d.lifecycle = "tombstone"
            PROVE  d = n
        <5>1. d \in Content /\ d.edit = 0 /\ d.purged = d.revision
          BY <2>1, <2>3, <3>2, <4>1, <4>2 DEF OneTombstone, Shown
        <5>2. d.author = found.author
          BY <2>1, <2>3, <3>2, <4>2 DEF Inv, Sound, Lineage
        <5> HIDE DEF n, found
        <5> QED BY <2>1, <2>3, <2>4, <3>2, <4>1, <4>2, <5>1, <5>2 DEF Content
      <4> HIDE DEF n, found
      <4> QED BY <2>2, <2>3, <2>4, <3>2, <4>1, <4>2 DEF OneTombstone
    <3> QED BY <3>1, <3>2
  <2>6. RenderedOnly' /\ NoTombstoneEdited'
    BY <1>0, <1>6, <2>4 DEF Targets, RenderedOnly, NoTombstoneEdited
  <2> QED BY <2>5, <2>6
<1>7. CASE Writes(w)
  <2>1. RenderedOnly' /\ NoTombstoneEdited'
    BY <1>7 DEF Writes, RenderedOnly, NoTombstoneEdited
  <2> QED BY <1>2, <1>7, <2>1, WritesStep
<1>8. CASE Shows(w) \/ Buries(w)
  <2>1. RenderedOnly' /\ NoTombstoneEdited'
    BY <1>0, <1>8 DEF Shows, Buries, RenderedOnly, NoTombstoneEdited
  <2> QED BY <1>2, <1>8, <2>1, ShowsStep, BuriesStep
<1> QED BY <1>3, <1>4, <1>5, <1>6, <1>7, <1>8 DEF Kept

LEMMA TombstonesElse ==
  ASSUME Inv, Tombstones, NEW k \in Memories, OrderPurge(k) \/ Edit(k)
  PROVE  Tombstones'
<1> USE DEF Tombstones, vault, records
<1>0. /\ None \notin Content
      /\ file \in [Memories -> Content \cup {None}]
      /\ catalog \in [Memories -> Content \cup {None}]
      /\ order \in [Memories -> Content \cup {None}]
  BY NoContentAssumption DEF Inv, Types, TypeOK
<1>1. CASE OrderPurge(k)
  <2>1. NoneNew
    BY <1>1, OrderStep
  <2>2. OneTombstone'
    BY <2>1 DEF NoneNew, OneTombstone
  <2> QED BY <1>0, <1>1, <2>2 DEF OrderPurge, RenderedOnly, NoTombstoneEdited
<1>2. CASE Edit(k)
  <2>1. file[k] \in Content /\ file[k].lifecycle # "tombstone"
    BY <1>0, <1>2 DEF Edit
  <2>2. PICK lifecycle \in {"active", "archived"} :
          file' = [file EXCEPT ![k] = [file[k] EXCEPT !.edit = edits + 1, !.lifecycle = lifecycle]]
    BY <1>0, <1>2 DEF Edit
  <2>3. /\ file'[k].lifecycle = lifecycle /\ file'[k].revision = file[k].revision
        /\ \A m \in Memories \ {k} : file'[m] = file[m]
    BY <1>0, <2>1, <2>2 DEF Content, Lifecycles
  <2>4. ASSUME NEW c, Shown(c)' PROVE Shown(c) \/ c = file'[k]
    BY <1>2, <2>3, <2>4 DEF Shown, Edit
  <2>5. Shown(file[k])
    BY <2>1 DEF Shown
  <2>6. OneTombstone'
    BY <2>1, <2>3, <2>4, <2>5 DEF OneTombstone
  <2> QED BY <1>2, <2>6 DEF Edit, RenderedOnly, NoTombstoneEdited
<1> QED BY <1>1, <1>2

-----------------------------------------------------------------------------
(***************************************************************************)
(* A Memory nobody ordered to be purged.                                    *)
(***************************************************************************)
Untouched(m) == order[m] = None /\ (catalog[m] = None \/ catalog[m].lifecycle # "tombstone")

(***************************************************************************)
(* Its file shows a body, and no call purges it.                            *)
(***************************************************************************)
NeverPurged ==
  \A m \in Memories : Untouched(m) =>
    /\ file[m] # None => file[m].lifecycle # "tombstone"
    /\ \A w \in Writers : job[w].memory = m =>
         /\ job[w].kind # "purge"
         /\ job[w].next # None => job[w].next.lifecycle # "tombstone"

LEMMA UntouchedBefore ==
  ASSUME Inv, CallsOK', NEW w \in Writers, Kept(w), BuriedForGood,
         NEW m \in Memories, Untouched(m)'
  PROVE  Untouched(m)
<1>0. /\ None \notin Content
      /\ catalog \in [Memories -> Content \cup {None}]
      /\ order \in [Memories -> Content \cup {None}]
  BY NoContentAssumption DEF Inv, Types, TypeOK
<1>1. CASE Calm(w) \/ Starts(w) \/ Renders(w) \/ Targets(w) \/ Writes(w)
  BY <1>1 DEF Calm, Starts, Renders, Targets, Writes, Untouched
<1>2. CASE Shows(w)
  BY <1>0, <1>2 DEF Shows, Untouched, BuriedForGood
<1>3. CASE Buries(w)
  <2>1. job[w].next.lifecycle = "tombstone"
    BY <1>3, CallAt DEF Buries, WriteCall, ReconcileCall, PurgeCall
  <2> QED BY <1>0, <1>3, <2>1 DEF Buries, Untouched
<1> QED BY <1>1, <1>2, <1>3 DEF Kept

LEMMA NeverPurgedKept ==
  ASSUME Inv, CallsOK', NeverPurged, NEW w \in Writers, Kept(w), BuriedForGood
  PROVE  NeverPurged'
<1> USE DEF Others, SameCall
<1>0. None \notin Content /\ file \in [Memories -> Content \cup {None}]
  BY NoContentAssumption DEF Inv, Types, TypeOK
<1>1. Idle.kind = "none" /\ Idle.next = None
  BY IdleCall
<1> SUFFICES ASSUME NEW m \in Memories, Untouched(m)'
             PROVE  /\ file'[m] # None => file'[m].lifecycle # "tombstone"
                    /\ \A v \in Writers : job'[v].memory = m =>
                         /\ job'[v].kind # "purge"
                         /\ job'[v].next # None => job'[v].next.lifecycle # "tombstone"
  BY DEF NeverPurged
<1>2. Untouched(m)
  BY UntouchedBefore
<1>3. /\ file[m] # None => file[m].lifecycle # "tombstone"
      /\ \A v \in Writers : job[v].memory = m =>
           /\ job[v].kind # "purge"
           /\ job[v].next # None => job[v].next.lifecycle # "tombstone"
  BY <1>2 DEF NeverPurged
<1>4. CASE Calm(w)
  BY <1>1, <1>3, <1>4 DEF Calm
<1>5. CASE Starts(w)
  <2>1. job'[w].kind = "purge" => job'[w].base \in Content
    BY <1>1 DEF CallsOK, CallOK, WriteCall, ReconcileCall, PurgeCall, Idle
  <2> QED BY <1>0, <1>2, <1>3, <1>5, <2>1 DEF Starts, Untouched
<1>6. CASE Renders(w)
  <2>1. job'[w].kind = "write" => job'[w].next.lifecycle # "tombstone"
    BY <1>1 DEF CallsOK, CallOK, WriteCall, ReconcileCall, PurgeCall, Idle
  <2> QED BY <1>0, <1>3, <1>6, <2>1 DEF Renders
<1>7. CASE Targets(w)
  BY <1>3, <1>7 DEF Targets
<1>8. CASE Writes(w)
  BY <1>0, <1>3, <1>8 DEF Writes
<1>9. CASE Shows(w) \/ Buries(w)
  BY <1>3, <1>9 DEF Shows, Buries
<1> QED BY <1>4, <1>5, <1>6, <1>7, <1>8, <1>9 DEF Kept

LEMMA NeverPurgedElse ==
  ASSUME Inv, NeverPurged, NEW k \in Memories, OrderPurge(k) \/ Edit(k)
  PROVE  NeverPurged' /\ \A m \in Memories : Untouched(m)' => Untouched(m)
<1>0. /\ None \notin Content
      /\ file \in [Memories -> Content \cup {None}]
      /\ catalog \in [Memories -> Content \cup {None}]
      /\ order \in [Memories -> Content \cup {None}]
  BY NoContentAssumption DEF Inv, Types, TypeOK
<1>1. CASE OrderPurge(k)
  <2>1. \A m \in Memories : Untouched(m)' => Untouched(m)
    BY <1>0, <1>1 DEF OrderPurge, vault, records, Untouched
  <2> QED BY <1>1, <2>1 DEF OrderPurge, vault, NeverPurged
<1>2. CASE Edit(k)
  <2>1. file[k] \in Content
    BY <1>0, <1>2 DEF Edit
  <2>2. PICK lifecycle \in {"active", "archived"} :
          file' = [file EXCEPT ![k] = [file[k] EXCEPT !.edit = edits + 1, !.lifecycle = lifecycle]]
    BY <1>0, <1>2 DEF Edit
  <2>3. /\ file'[k].lifecycle = lifecycle /\ \A m \in Memories \ {k} : file'[m] = file[m]
    BY <1>0, <2>1, <2>2 DEF Content
  <2>4. \A m \in Memories : Untouched(m)' <=> Untouched(m)
    BY <1>2 DEF Edit, records, Untouched
  <2> QED BY <1>2, <2>3, <2>4 DEF Edit, NeverPurged
<1> QED BY <1>1, <1>2

-----------------------------------------------------------------------------
KeptIds(m) == {c.revision : c \in revisions[m]}

(***************************************************************************)
(* What a call has put into the Vault before it goes on: the file, the      *)
(* revision replaced, and the new one.                                      *)
(***************************************************************************)
Ready(w) ==
  \A m \in Memories : job[w].memory = m =>
    /\ job[w].pc \in {"revision", "verify", "commit"} => file[m] # None
    /\ Untouched(m) =>
         /\ /\ job[w].kind = "write" /\ job[w].seen # None
            /\ job[w].pc \in {"compare", "rename", "revision", "verify", "commit"}
            => job[w].seen.revision \in KeptIds(m)
         /\ job[w].pc \in {"verify", "commit"} => job[w].next.revision \in KeptIds(m)

(***************************************************************************)
(* What the catalog records of a Memory is in the Vault.                    *)
(***************************************************************************)
Recorded ==
  \A m \in Memories :
    /\ catalog[m] # None => file[m] # None
    /\ Untouched(m) => \A r \in rows[m] : r.revision \in KeptIds(m)
    /\ catalog[m] # None /\ catalog[m].lifecycle = "tombstone" /\ order[m] = None
         => rows[m] = {}

AllReady == \A w \in Writers : Ready(w)

(***************************************************************************)
(* Files stay, and kept revisions too unless the Memory is being purged.    *)
(***************************************************************************)
Grows ==
  \A m \in Memories :
    /\ file[m] # None => file'[m] # None
    /\ Untouched(m)' => Untouched(m) /\ KeptIds(m) \subseteq KeptIds(m)'

LEMMA GrowsStep ==
  ASSUME Inv, CallsOK', NeverPurged, NEW w \in Writers, Step(w), Kept(w), BuriedForGood
  PROVE  Grows
<1>0. /\ None \notin Content /\ file \in [Memories -> Content \cup {None}]
      /\ revisions \in [Memories -> SUBSET Content]
  BY NoContentAssumption DEF Inv, Types, TypeOK
<1>1. \A m \in Memories : file[m] # None => file'[m] # None
  BY <1>0 DEF Kept, Calm, Starts, Renders, Targets, Writes, Shows, Buries
<1>2. ASSUME NEW m \in Memories, Untouched(m)'
      PROVE  revisions[m] \subseteq revisions'[m]
  <2>1. Untouched(m)
    BY <1>2, UntouchedBefore
  <2>2. CASE EraseRevisions(w)
    <3>1. job[w].pc = "erase" /\ revisions' = [revisions EXCEPT ![job[w].memory] = {}]
      BY <2>2 DEF EraseRevisions, At, Target
    <3>2. job[w].kind = "purge"
      BY <3>1, CallAt DEF WriteCall, ReconcileCall, PurgeCall
    <3> QED BY <1>0, <2>1, <3>1, <3>2 DEF NeverPurged
  <2>3. CASE KeepPrevious(w) \/ WriteRevision(w)
    BY <1>0, <2>3 DEF KeepPrevious, WriteRevision
  <2>4. CASE ~EraseRevisions(w) /\ ~KeepPrevious(w) /\ ~WriteRevision(w)
    BY <2>4 DEF Step, BeginWrite, RecoverAdmissions, Reserve, ReadFile, CheckReconciled,
       CheckUnowned, LinkFile, Compare, Rename, Verify, CommitCatalog, Fail,
       Finish, BeginReconcile, ReadEdit, BeginPurge, ReadTarget, CommitTombstone, Crash, vault
  <2> QED BY <2>2, <2>3, <2>4
<1>3. \A m \in Memories : revisions[m] \subseteq revisions'[m] => KeptIds(m) \subseteq KeptIds(m)'
  BY DEF KeptIds
<1> QED BY <1>1, <1>2, <1>3, UntouchedBefore DEF Grows

(***************************************************************************)
(* The other calls stay ready.                                              *)
(***************************************************************************)
LEMMA OthersReady ==
  ASSUME AllReady, Grows, NEW v \in Writers, job'[v] = job[v]
  PROVE  Ready(v)'
  BY DEF AllReady, Grows, Ready

LEMMA ReadyStep ==
  ASSUME Inv, AllReady, NEW w \in Writers, Step(w), Kept(w), Grows
  PROVE  AllReady'
<1> USE DEF At, Target
<1>0. /\ None \notin Content /\ file \in [Memories -> Content \cup {None}]
      /\ revisions \in [Memories -> SUBSET Content] /\ job \in [Writers -> Calls]
  BY NoContentAssumption DEF Inv, Types, TypeOK
<1>1. \A v \in Writers \ {w} : Ready(v)'
  BY OthersReady DEF Kept, Others
<1> SUFFICES Ready(w)'
  BY <1>1 DEF AllReady
<1>2. CASE \/ job'[w].pc \notin {"compare", "rename", "revision", "verify", "commit"}
           \/ job'[w].kind # "write" /\ job'[w].pc = "compare"
  BY <1>2 DEF Ready
<1>3. ASSUME NEW pc \in Pcs, Goto(w, pc)
      PROVE  SameCall(w) /\ job'[w].pc = pc /\ job'[w].seen = job[w].seen
  BY <1>0, <1>3, GotoFields
<1>4. {"revision", "verify", "commit", "compare", "rename", "failed", "erase", "done",
       "reserve", "read", "reconciled", "keep", "unowned", "link", "idle", "tombstone"} \subseteq Pcs
  BY DEF Pcs
<1>5. CASE KeepPrevious(w)
  <2>1. job[w].pc = "keep" /\ Goto(w, "compare")
        /\ revisions' = [revisions EXCEPT ![job[w].memory] =
             IF \E c \in @ : c.revision = job[w].seen.revision
             THEN @ ELSE @ \cup {job[w].seen}]
    BY <1>5 DEF KeepPrevious
  <2>2. job[w].memory \in Memories
    BY <2>1, CallFields
  <2>3. \E c \in revisions'[job[w].memory] : c.revision = job[w].seen.revision
    BY <1>0, <2>1, <2>2
  <2> QED BY <1>3, <1>4, <2>1, <2>3 DEF Ready, SameCall, KeptIds
<1>6. CASE LinkFile(w)
  <2>1. job[w].pc = "link"
    BY <1>6 DEF LinkFile
  <2>2. job[w].memory \in Memories /\ job[w].next \in Content /\ job[w].seen = None
    BY <2>1, CallAt DEF WriteCall, ReconcileCall, PurgeCall
  <2>3. CASE Goto(w, "failed")
    BY <1>2, <1>3, <1>4, <2>3
  <2>4. CASE Goto(w, "revision") /\ file' = [file EXCEPT ![job[w].memory] = job[w].next]
    <3>1. file'[job[w].memory] # None
      BY <1>0, <2>2, <2>4
    <3> QED BY <1>3, <1>4, <2>2, <2>4, <3>1 DEF Ready, SameCall
  <2> QED BY <1>6, <2>3, <2>4 DEF LinkFile
<1>7. CASE Compare(w)
  <2>1. job[w].pc = "compare"
    BY <1>7 DEF Compare
  <2>2. CASE Goto(w, "failed")
    BY <1>2, <1>3, <1>4, <2>2
  <2>3. CASE Goto(w, "rename")
    BY <1>3, <1>4, <2>1, <2>3 DEF AllReady, Ready, SameCall, Grows
  <2> QED BY <1>7, <2>2, <2>3 DEF Compare
<1>8. CASE Rename(w)
  <2>1. job[w].pc = "rename" /\ file' = [file EXCEPT ![job[w].memory] = job[w].next]
    BY <1>8 DEF Rename
  <2>2. job[w].memory \in Memories /\ job[w].next \in Content
    BY <2>1, CallFields
  <2>3. file'[job[w].memory] # None
    BY <1>0, <2>1, <2>2
  <2>4. CASE Goto(w, "erase")
    BY <1>2, <1>3, <1>4, <2>4
  <2>5. CASE Goto(w, "revision")
    BY <1>3, <1>4, <2>1, <2>3, <2>5 DEF AllReady, Ready, SameCall, Grows
  <2> QED BY <1>8, <2>4, <2>5 DEF Rename
<1>9. CASE WriteRevision(w)
  <2>1. job[w].pc = "revision" /\ Goto(w, "verify")
        /\ revisions' = [revisions EXCEPT ![job[w].memory] = @ \cup {job[w].next}]
    BY <1>9 DEF WriteRevision
  <2>2. job[w].memory \in Memories
    BY <2>1, CallFields
  <2>3. \E c \in revisions'[job[w].memory] : c.revision = job[w].next.revision
    BY <1>0, <2>1, <2>2
  <2> QED BY <1>3, <1>4, <2>1, <2>3 DEF AllReady, Ready, SameCall, Grows, KeptIds
<1>10. CASE Verify(w)
  <2>1. job[w].pc = "verify"
    BY <1>10 DEF Verify
  <2>2. CASE Goto(w, "failed")
    BY <1>2, <1>3, <1>4, <2>2
  <2>3. CASE Goto(w, "commit")
    BY <1>3, <1>4, <2>1, <2>3 DEF AllReady, Ready, SameCall, Grows
  <2> QED BY <1>10, <2>2, <2>3 DEF Verify
<1>11. ASSUME NEW pc \in {"reserve", "read", "failed", "reconciled", "keep", "unowned", "link",
                          "done", "tombstone"}, Goto(w, pc)
       PROVE  Ready(w)'
  BY <1>2, <1>3, <1>4, <1>11
<1>12. CASE \/ RecoverAdmissions(w) \/ CheckReconciled(w) \/ CheckUnowned(w)
            \/ CommitCatalog(w) \/ Fail(w) \/ EraseRevisions(w) \/ CommitTombstone(w)
  BY <1>11, <1>12 DEF RecoverAdmissions, CheckReconciled, CheckUnowned, CommitCatalog, Fail,
     EraseRevisions, CommitTombstone
<1>13. CASE Finish(w) \/ Crash(w)
  <2>1. job'[w] = Idle
    BY <1>0, <1>13, IdleCall DEF Finish, Crash
  <2> QED BY <1>2, <2>1 DEF Idle
<1>14. CASE Reserve(w) \/ ReadFile(w)
  <2>1. job[w] \in Calls
    BY <1>0
  <2>2. \A pc \in Pcs : [job[w] EXCEPT !.pc = pc, !.admitted = TRUE].pc = pc
                       /\ [job[w] EXCEPT !.seen = file[job[w].memory], !.pc = pc].pc = pc
    BY <2>1 DEF Calls
  <2>3. CASE job' = [job EXCEPT ![w] = Idle]
    <3>1. job'[w].pc = "idle"
      BY <1>0, <2>3, IdleCall DEF Idle
    <3> QED BY <1>2, <3>1
  <2>4. CASE job' = [job EXCEPT ![w] = [job[w] EXCEPT !.pc = "read", !.admitted = TRUE]]
    <3>1. job'[w].pc = "read"
      BY <1>0, <1>4, <2>2, <2>4
    <3> QED BY <1>2, <3>1
  <2>5. CASE job' = [job EXCEPT ![w] = [job[w] EXCEPT !.seen = file[job[w].memory],
                                                      !.pc = "reconciled"]]
    <3>1. job'[w].pc = "reconciled"
      BY <1>0, <1>4, <2>2, <2>5
    <3> QED BY <1>2, <3>1
  <2> QED BY <1>11, <1>14, <2>3, <2>4, <2>5 DEF Reserve, ReadFile
<1>15. ASSUME NEW m \in Memories, BeginWrite(w, m) \/ BeginReconcile(w, m) \/ BeginPurge(w, m)
       PROVE  Ready(w)'
  <2>1. CASE BeginWrite(w, m)
    <3>1. job'[w].pc \in {"recover", "read"}
      BY <1>0, <2>1 DEF BeginWrite
    <3> QED BY <1>2, <3>1
  <2>2. CASE BeginReconcile(w, m)
    <3>1. job'[w].pc = "edited"
      BY <1>0, <2>2 DEF BeginReconcile, Idle
    <3> QED BY <1>2, <3>1
  <2>3. CASE BeginPurge(w, m)
    <3>1. job'[w].pc = "target"
      BY <1>0, <2>3 DEF BeginPurge, Idle
    <3> QED BY <1>2, <3>1
  <2> QED BY <1>15, <2>1, <2>2, <2>3
<1>16. CASE ReadEdit(w) \/ ReadTarget(w)
  <2>1. job[w] \in Calls /\ job[w].kind # "write"
    BY <1>0, <1>16, CallAt DEF ReadEdit, ReadTarget, WriteCall, ReconcileCall, PurgeCall
  <2> DEFINE found == file[job[w].memory]
  <2>2. ASSUME NEW j, job' = [job EXCEPT ![w] = j],
               (j.kind # "write" /\ j.pc = "compare") \/ j.pc = "erase"
        PROVE  Ready(w)'
    BY <1>0, <1>2, <2>2
  <2>3. CASE Goto(w, "failed")
    BY <1>11, <2>3
  <2>4. CASE ReadEdit(w)
    <3> DEFINE j == [job[w] EXCEPT !.seen = found, !.pc = "compare",
                       !.next = [found EXCEPT !.revision = fresh, !.edit = 0, !.author = "human"]]
    <3>1. j.pc = "compare" /\ j.kind = job[w].kind
      BY <2>1 DEF Calls
    <3>2. CASE job' = [job EXCEPT ![w] = j]
      BY <2>1, <2>2, <3>1, <3>2
    <3> QED BY <2>3, <2>4, <3>2 DEF ReadEdit
  <2>5. CASE ReadTarget(w)
    <3> DEFINE i == [job[w] EXCEPT !.seen = found, !.pc = "compare",
                       !.next = [found EXCEPT !.lifecycle = "tombstone", !.purged = found.revision]]
               j == [job[w] EXCEPT !.seen = found, !.next = found, !.pc = "erase"]
    <3>1. i.pc = "compare" /\ i.kind = job[w].kind /\ j.pc = "erase"
      BY <2>1 DEF Calls
    <3>2. CASE job' = [job EXCEPT ![w] = i]
      BY <2>1, <2>2, <3>1, <3>2
    <3>3. CASE job' = [job EXCEPT ![w] = j]
      BY <2>2, <3>1, <3>3
    <3> QED BY <2>3, <2>5, <3>2, <3>3 DEF ReadTarget
  <2> QED BY <1>16, <2>4, <2>5
<1> QED BY <1>5, <1>6, <1>7, <1>8, <1>9, <1>10, <1>12, <1>13, <1>14, <1>15, <1>16 DEF Step

LEMMA RecordedStep ==
  ASSUME Inv, Tombstones, NeverPurged, AllReady, Recorded, NEW w \in Writers, Kept(w), Grows
  PROVE  Recorded'
<1> USE DEF Others, SameCall
<1>0. /\ None \notin Content
      /\ catalog \in [Memories -> Content \cup {None}]
      /\ order \in [Memories -> Content \cup {None}]
      /\ rows \in [Memories -> SUBSET [revision: 1..MaxRevision, predecessor: 0..MaxRevision]]
  BY NoContentAssumption DEF Inv, Types, TypeOK
<1>1. CASE Calm(w) \/ Starts(w) \/ Renders(w) \/ Targets(w) \/ Writes(w)
  <2>1. UNCHANGED <<catalog, rows, order>>
    BY <1>1 DEF Calm, Starts, Renders, Targets, Writes
  <2> QED BY <2>1 DEF Recorded, Grows
<1>2. CASE Shows(w)
  <2> PICK k \in Memories : k = job[w].memory
    BY <1>2 DEF Shows
  <2>1. /\ k \in Memories /\ job[w].pc = "commit" /\ job[w].next \in Content
        /\ catalog'[k] = job[w].next /\ rows'[k] = RowsAfter(w)
        /\ \A m \in Memories \ {k} : catalog'[m] = catalog[m] /\ rows'[m] = rows[m]
        /\ UNCHANGED <<file, order>>
    BY <1>0, <1>2 DEF Shows
  <2>2. \A m \in Memories \ {k} :
          /\ catalog'[m] # None => file'[m] # None
          /\ Untouched(m)' => \A r \in rows'[m] : r.revision \in KeptIds(m)'
          /\ catalog'[m] # None /\ catalog'[m].lifecycle = "tombstone" /\ order'[m] = None
               => rows'[m] = {}
    BY <2>1 DEF Recorded, Grows
  <2>3. file'[k] # None
    BY <2>1 DEF AllReady, Ready
  <2>4. ASSUME Untouched(k)', NEW r \in rows'[k]
        PROVE  r.revision \in KeptIds(k)'
    <3>1. Untouched(k) /\ KeptIds(k) \subseteq KeptIds(k)'
      BY <2>1, <2>4 DEF Grows
    <3>2. /\ \A s \in rows[k] : s.revision \in KeptIds(k)
          /\ job[w].next.revision \in KeptIds(k)
          /\ job[w].kind = "write" /\ job[w].seen # None
               => job[w].seen.revision \in KeptIds(k)
      BY <2>1, <3>1 DEF Recorded, AllReady, Ready
    <3>3. job[w].kind \in {"write", "reconcile"}
      BY <1>2 DEF Shows
    <3>4. r.revision \in KeptIds(k)
      BY <2>1, <2>4, <3>2, <3>3 DEF RowsAfter, Target
    <3> QED BY <3>1, <3>4
  <2>5. ~(catalog'[k].lifecycle = "tombstone" /\ order'[k] = None)
    <3> SUFFICES ASSUME job[w].next.lifecycle = "tombstone", order[k] = None
                 PROVE  FALSE
      BY <2>1
    <3>1. ~Untouched(k)
      BY <1>0, <2>1 DEF NeverPurged
    <3>2. catalog[k] \in Content /\ catalog[k].lifecycle = "tombstone" /\ catalog[k] = job[w].base
      BY <1>0, <1>2, <2>1, <3>1 DEF Untouched, Shows
    <3>3. job[w].kind = "reconcile"
      <4>1. job[w].pc = "commit" /\ job[w].base # None
        BY <1>0, <2>1, <3>2
      <4>2. WriteCall(job[w]) \/ ReconcileCall(job[w]) \/ PurgeCall(job[w])
        BY <4>1, CallAt
      <4> QED BY <3>2, <4>1, <4>2 DEF WriteCall, ReconcileCall, PurgeCall
    <3> QED BY <2>1, <3>2, <3>3 DEF Tombstones, NoTombstoneEdited
  <2> QED BY <2>2, <2>3, <2>4, <2>5 DEF Recorded
<1>3. CASE Buries(w)
  <2> PICK k \in Memories : k = job[w].memory
    BY <1>3 DEF Buries
  <2>1. /\ k \in Memories /\ catalog[k] # None /\ rows'[k] = {}
        /\ \A m \in Memories \ {k} : /\ catalog'[m] = catalog[m] /\ rows'[m] = rows[m]
                                     /\ order'[m] = order[m]
        /\ UNCHANGED file
    BY <1>0, <1>3 DEF Buries
  <2> QED BY <2>1 DEF Recorded, Grows
<1> QED BY <1>1, <1>2, <1>3 DEF Kept

LEMMA RecordedElse ==
  ASSUME Inv, NeverPurged, AllReady, Recorded, NEW k \in Memories, OrderPurge(k) \/ Edit(k)
  PROVE  AllReady' /\ Recorded'
<1>0. None \notin Content /\ file \in [Memories -> Content \cup {None}]
      /\ order \in [Memories -> Content \cup {None}]
  BY NoContentAssumption DEF Inv, Types, TypeOK
<1>1. UNCHANGED <<revisions, catalog, rows, job>>
  BY DEF OrderPurge, Edit, vault, records
<1>2. \A m \in Memories : file[m] # None => file'[m] # None
  <2>1. CASE OrderPurge(k)
    BY <2>1 DEF OrderPurge, vault
  <2>2. CASE Edit(k)
    <3>1. file[k] \in Content
      BY <1>0, <2>2 DEF Edit
    <3>2. PICK lifecycle \in {"active", "archived"} :
            file' = [file EXCEPT ![k] = [file[k] EXCEPT !.edit = edits + 1,
                                                        !.lifecycle = lifecycle]]
      BY <1>0, <2>2 DEF Edit
    <3>3. edits + 1 \in 0..MaxEdits
      BY <2>2, VaultAssumption DEF Edit, Inv, Types, TypeOK
    <3>4. [file[k] EXCEPT !.edit = edits + 1, !.lifecycle = lifecycle] \in Content
      BY <3>1, <3>3 DEF Content, Lifecycles
    <3> QED BY <1>0, <3>2, <3>4
  <2> QED BY <2>1, <2>2
<1>3. \A m \in Memories : Untouched(m)' => Untouched(m)
  BY NeverPurgedElse
<1>4. \A m \in Memories : order'[m] = None => order[m] = None
  BY <1>0 DEF OrderPurge, Edit
<1>5. AllReady'
  BY <1>1, <1>2, <1>3 DEF AllReady, Ready, KeptIds
<1>6. Recorded'
  BY <1>1, <1>2, <1>3, <1>4 DEF Recorded, KeptIds
<1> QED BY <1>5, <1>6

Rebuildable == Tombstones /\ NeverPurged /\ AllReady /\ Recorded

LEMMA RebuildableStep ==
  ASSUME Inv, Rebuildable, [Next]_vars
  PROVE  Rebuildable'
<1> USE DEF Rebuildable
<1>1. ASSUME NEW w \in Writers, Step(w) PROVE Rebuildable'
  <2>1. Kept(w)
    BY <1>1, KeptSteps
  <2>2. CallsOK'
    BY <2>1, SoundStep
  <2>3. BuriedForGood
    BY AuthorityStep
  <2>4. Grows
    BY <1>1, <2>1, <2>2, <2>3, GrowsStep
  <2>5. Tombstones' /\ NeverPurged'
    BY <2>1, <2>2, <2>3, TombstonesKept, NeverPurgedKept
  <2>6. AllReady'
    BY <1>1, <2>1, <2>4, ReadyStep
  <2>7. Recorded'
    BY <2>1, <2>4, RecordedStep
  <2> QED BY <2>5, <2>6, <2>7
<1>2. ASSUME NEW m \in Memories, OrderPurge(m) \/ Edit(m) PROVE Rebuildable'
  <2>1. Tombstones' /\ NeverPurged'
    BY <1>2, TombstonesElse, NeverPurgedElse
  <2>2. AllReady' /\ Recorded'
    BY <1>2, RecordedElse
  <2> QED BY <2>1, <2>2
<1>3. CASE UNCHANGED vars
  <2> USE <1>3 DEF vars
  <2>1. Tombstones'
    BY DEF Tombstones, RenderedOnly, OneTombstone, NoTombstoneEdited, Shown
  <2>2. NeverPurged' /\ AllReady' /\ Recorded'
    BY DEF NeverPurged, AllReady, Ready, Recorded, Untouched, KeptIds
  <2> QED BY <2>1, <2>2
<1> QED BY <1>1, <1>2, <1>3 DEF Next

LEMMA RebuildableInit == Init => Rebuildable
<1> SUFFICES ASSUME Init PROVE Rebuildable
  OBVIOUS
<1> USE DEF Init
<1>1. \A c : ~Shown(c)
  BY NoContentAssumption, IdleCall DEF Shown
<1>2. Tombstones
  BY <1>1, NoContentAssumption, IdleCall DEF Tombstones, RenderedOnly, OneTombstone, NoTombstoneEdited
<1>3. Idle.pc = "idle"
  BY DEF Idle
<1>4. NeverPurged /\ AllReady /\ Recorded
  BY <1>3, IdleCall DEF NeverPurged, AllReady, Ready, Recorded, KeptIds
<1> QED BY <1>2, <1>4 DEF Rebuildable

(***************************************************************************)
(* Whatever call a crash interrupted and however writes, edits and purges   *)
(* interleaved before, rebuilding the database from the files finds every   *)
(* revision that the catalog records of a Memory not ordered to be purged   *)
(* (writeCanonicalMemory puts the replaced and the new revision into the    *)
(* Vault before it commits, vault/index.ts:1018).                           *)
(***************************************************************************)
THEOREM RebuildKeepsRevisionsAlways == Spec => []RebuildKeepsRevisions
<1>1. Init => Inv /\ Rebuildable
  BY InvInit, RebuildableInit
<1>2. (Inv /\ Rebuildable) /\ [Next]_vars => (Inv /\ Rebuildable)'
  BY InvStep, RebuildableStep
<1>3. Inv /\ Rebuildable => RebuildKeepsRevisions
  <2> SUFFICES ASSUME Inv, Rebuildable, NEW m \in Memories, catalog[m] # None, order[m] = None,
                      NEW r \in rows[m]
               PROVE  r.revision \in RebuiltRevisions(m)
    BY DEF RebuildKeepsRevisions
  <2>1. Recorded /\ NeverPurged
    BY DEF Rebuildable
  <2>2. Untouched(m)
    BY <2>1 DEF Recorded, Untouched
  <2>3. file[m] # None /\ file[m].lifecycle # "tombstone" /\ r.revision \in KeptIds(m)
    BY <2>1, <2>2 DEF Recorded, NeverPurged
  <2> QED BY <2>3 DEF RebuiltRevisions, KeptIds
<1> QED BY <1>1, <1>2, <1>3, PTL DEF Spec

(***************************************************************************)
(* The Vault is sound in every state: within its limit, without forks and   *)
(* enough to rebuild the database.                                          *)
(***************************************************************************)
THEOREM VaultSafeAlways == Spec => []VaultSafe
  BY ActiveWithinLimitAlways, OneSuccessorAlways, RebuildKeepsRevisionsAlways, PTL
  DEF VaultSafe
=============================================================================
