------------------------ MODULE EditCommandsInvariant ------------------------
(***************************************************************************)
(* The lower layers of an inductive invariant of EditCommands, for any     *)
(* number of processes, files and contents, any depth of the undo stack    *)
(* and any bounds.  Turns and Effects say of every step what it does to    *)
(* the commands, the files and the records; the layers rest on them.       *)
(*                                                                         *)
(*   Typed       types, and what a command has in memory at each step      *)
(*   Locked      who holds the barrier, and who the lock of the stack      *)
(*   Identified  no two transactions have the same id                      *)
(*   Records     pending-<id>.json of a command, and its file lock         *)
(***************************************************************************)
EXTENDS EditCommands, TLAPS

\* Before a plan is made, and from the comparison of an undo to its end.
Before == {"idle", "barrier", "file", "plan"}
Undoing == {"guard", "restore", "rewrite", "save", "saved"}

\* Where a command walks through the files of its plan.
Walking == {"publish", "swap", "back", "backSwap", "restore", "rewrite"}

\* Where an edit reads and writes the undo stack.
Recording == {"stackLock", "readStack", "writeStack", "forget"}

Fits(j) ==
  /\ j.step = "idle" => j = Idle
  /\ j.step # "idle" => j.verb \in Verbs
  /\ j.step \in Before <=> j.tid = 0
  /\ j.step \notin Walking => j.idx = 1
  /\ j.step \notin Before \/ j.verb = "edit" => j.plan \in Plans /\ j.idx \in DOMAIN j.plan
  /\ j.verb = "edit" => j.idx = 1 /\ (j.step \notin Recording => Len(j.plan) = 1)
  /\ j.step \in {"file", "fill"} => j.verb = "edit"
  /\ j.step \notin Before => (j.verb = "undo" <=> j.step \in Undoing)
  /\ j.step \in {"publish", "swap"} => j.verb \in {"edit", "patch"}
  /\ j.step \in {"back", "backSwap", "abandon"} => j.verb = "patch"
  /\ j.step = "publishAll" => j.verb = "rename"
  /\ j.step \in Undoing => j.pos \in 1..Len(j.mem) /\ j.mem[j.pos] = [id |-> j.tid, entries |-> j.plan]

Shape == \A p \in Proc : Fits(job[p])

Typed == TypeOK /\ Shape

-----------------------------------------------------------------------------
(* Sequences and plans.                                                    *)

\* The elements of a sequence.
LEMMA ElementOfSeq ==
  ASSUME NEW S, NEW s \in Seq(S), NEW i \in 1..Len(s) PROVE s[i] \in S
OBVIOUS

\* Two sequences one after the other.
LEMMA Concatenation ==
  ASSUME NEW S, NEW s \in Seq(S), NEW t \in Seq(S)
  PROVE  /\ s \o t \in Seq(S) /\ Len(s \o t) = Len(s) + Len(t)
         /\ \A i \in 1..Len(s) + Len(t) : (s \o t)[i] = IF i <= Len(s) THEN s[i] ELSE t[i - Len(s)]
<1>1. s \o t \in Seq(S) /\ Len(s \o t) = Len(s) + Len(t)
  OBVIOUS
<1>2. \A i \in 1..Len(s) + Len(t) : (s \o t)[i] = IF i <= Len(s) THEN s[i] ELSE t[i - Len(s)]
  OBVIOUS
<1> QED
  BY <1>1, <1>2

\* A plan is a sequence of one to MaxFiles transitions of different files.
LEMMA PlanFacts ==
  ASSUME NEW ts \in Plans
  PROVE  /\ ts \in Seq(Transition) /\ Len(ts) \in 1..MaxFiles /\ DOMAIN ts = 1..Len(ts)
         /\ \A i \in DOMAIN ts : ts[i] \in Transition
         /\ Distinct(ts)
<1>1. PICK n \in 1..MaxFiles : ts \in [1..n -> Transition]
  BY Zenon DEF Plans
<1>2. n \in Nat /\ MaxFiles \in Nat
  BY <1>1, CommandAssumption
<1>3. ts \in Seq(Transition) /\ Len(ts) = n
  BY <1>1, <1>2
<1> QED
  BY <1>1, <1>2, <1>3 DEF Plans

\* Other images for the same files make a plan again.
LEMMA Replan ==
  ASSUME NEW ts \in Plans, NEW us, us = [i \in DOMAIN ts |-> us[i]],
         \A i \in DOMAIN ts : us[i] \in Transition /\ us[i].file = ts[i].file
  PROVE  us \in Plans
<1>1. PICK n \in 1..MaxFiles : ts \in [1..n -> Transition]
  BY Zenon DEF Plans
<1>2. us \in [1..n -> Transition]
  BY <1>1
<1>3. Distinct(us)
  BY PlanFacts DEF Distinct
<1> QED
  BY Zenon, <1>2, <1>3 DEF Plans

\* One transition is a plan.
LEMMA SinglePlan ==
  ASSUME NEW t \in Transition PROVE <<t>> \in Plans
<1>1. 1 \in 1..MaxFiles
  BY CommandAssumption
<1>2. <<t>> \in [1..1 -> Transition]
  OBVIOUS
<1>3. Distinct(<<t>>)
  BY DEF Distinct
<1> QED
  BY Zenon, <1>1, <1>2, <1>3 DEF Plans

-----------------------------------------------------------------------------
(* The memory of a command.                                                *)

\* A step changes the memory of one process.
Only(p) == job' = [job EXCEPT ![p] = job'[p]] /\ job'[p] \in Job

\* Most steps change only where a command is.
Moves(p, s, i, c) ==
  LET j == job[p]
      k == job'[p] IN
  /\ Only(p) /\ k.step = s /\ k.idx = i /\ k.clash = c
  /\ k.verb = j.verb /\ k.plan = j.plan /\ k.tid = j.tid /\ k.mem = j.mem /\ k.pos = j.pos

\* Any way of writing such a step down.
LEMMA Moved ==
  ASSUME NEW p \in Proc, job \in [Proc -> Job], NEW j \in Job, j = job[p],
         NEW s \in Steps, NEW i \in 1..MaxFiles, NEW c \in {"no", "yes"},
         NEW k, job' = [job EXCEPT ![p] = k],
         \/ k = [j EXCEPT !.step = s] /\ i = j.idx /\ c = j.clash
         \/ k = [j EXCEPT !.idx = i, !.step = s] /\ c = j.clash
         \/ k = [j EXCEPT !.step = s, !.idx = i] /\ c = j.clash
         \/ k = [j EXCEPT !.idx = i, !.step = s, !.clash = c]
         \/ k = [j EXCEPT !.step = s, !.clash = c] /\ i = j.idx
  PROVE  Moves(p, s, i, c)
<1>1. job'[p] = k /\ job' = [job EXCEPT ![p] = job'[p]]
  BY Zenon
<1>2. /\ k.step = s /\ k.idx = i /\ k.clash = c /\ k.verb = j.verb /\ k.plan = j.plan
      /\ k.tid = j.tid /\ k.mem = j.mem /\ k.pos = j.pos
  BY ZenonT(30) DEF Job
<1>3. k \in Job
  BY ZenonT(40) DEF Job
<1> QED
  BY Zenon, <1>1, <1>2, <1>3 DEF Moves, Only

\* Which steps these are.
LEMMA MoveKinds ==
  ASSUME NEW p \in Proc, job \in [Proc -> Job]
  PROVE  LET j == job[p] IN
         /\ \A s \in Steps : Go(p, s) => Moves(p, s, j.idx, j.clash)
         /\ j.plan \in Plans /\ j.idx \in DOMAIN j.plan =>
              /\ Advance(p) => IF j.idx < Len(j.plan) THEN Moves(p, "publish", j.idx + 1, j.clash)
                               ELSE Moves(p, "close", 1, j.clash)
              /\ NextRestore(p) => IF j.idx < Len(j.plan) THEN Moves(p, "restore", j.idx + 1, j.clash)
                                   ELSE Moves(p, "save", 1, j.clash)
         /\ \A c \in {"no", "yes"} :
              NextBack(p, c) => IF j.idx > 1 THEN Moves(p, "back", j.idx - 1, c)
                                ELSE Moves(p, "abandon", j.idx, c)
         /\ FailPublish(p) /\ j.idx # 1 => Moves(p, "back", j.idx - 1, j.clash)
<1> DEFINE j == job[p]
<1>1. /\ j \in Job /\ j.idx \in 1..MaxFiles /\ j.clash \in {"no", "yes"} /\ MaxFiles \in Nat \ {0}
      /\ 1 \in 1..MaxFiles /\ (j.idx # 1 => j.idx - 1 \in 1..MaxFiles)
  BY CommandAssumption DEF Job
<1>2. {"publish", "close", "restore", "save", "back", "abandon"} \subseteq Steps
  BY Zenon DEF Steps
<1>3. \A s \in Steps : Go(p, s) => Moves(p, s, j.idx, j.clash)
  <2> SUFFICES ASSUME NEW s \in Steps, Go(p, s) PROVE Moves(p, s, j.idx, j.clash)
    BY Zenon
  <2>1. job' = [job EXCEPT ![p] = [j EXCEPT !.step = s]]
    BY Zenon DEF Go
  <2> QED
    BY Zenon, <1>1, <2>1, Moved
<1>4. ASSUME j.plan \in Plans, j.idx \in DOMAIN j.plan, j.idx < Len(j.plan) PROVE j.idx + 1 \in 1..MaxFiles
  BY SMTT(30), <1>1, <1>4, PlanFacts
<1>5. ASSUME j.plan \in Plans, j.idx \in DOMAIN j.plan, Advance(p)
      PROVE IF j.idx < Len(j.plan) THEN Moves(p, "publish", j.idx + 1, j.clash)
            ELSE Moves(p, "close", 1, j.clash)
  <2>1. CASE j.idx < Len(j.plan)
    <3>1. job' = [job EXCEPT ![p] = [j EXCEPT !.idx = j.idx + 1, !.step = "publish"]]
      BY Zenon, <1>5, <2>1 DEF Advance
    <3> QED
      BY Zenon, <1>1, <1>2, <1>4, <1>5, <2>1, <3>1, Moved
  <2>2. CASE ~(j.idx < Len(j.plan))
    <3>1. job' = [job EXCEPT ![p] = [j EXCEPT !.idx = 1, !.step = "close"]]
      BY Zenon, <1>5, <2>2 DEF Advance
    <3> QED
      BY Zenon, <1>1, <1>2, <2>2, <3>1, Moved
  <2> QED
    BY Zenon, <2>1, <2>2
<1>6. ASSUME j.plan \in Plans, j.idx \in DOMAIN j.plan, NextRestore(p)
      PROVE IF j.idx < Len(j.plan) THEN Moves(p, "restore", j.idx + 1, j.clash)
            ELSE Moves(p, "save", 1, j.clash)
  <2>1. CASE j.idx < Len(j.plan)
    <3>1. job' = [job EXCEPT ![p] = [j EXCEPT !.idx = j.idx + 1, !.step = "restore"]]
      BY Zenon, <1>6, <2>1 DEF NextRestore
    <3> QED
      BY Zenon, <1>1, <1>2, <1>4, <1>6, <2>1, <3>1, Moved
  <2>2. CASE ~(j.idx < Len(j.plan))
    <3>1. job' = [job EXCEPT ![p] = [j EXCEPT !.idx = 1, !.step = "save"]]
      BY Zenon, <1>6, <2>2 DEF NextRestore
    <3> QED
      BY Zenon, <1>1, <1>2, <2>2, <3>1, Moved
  <2> QED
    BY Zenon, <2>1, <2>2
<1>7. ASSUME NEW c \in {"no", "yes"}, NextBack(p, c)
      PROVE IF j.idx > 1 THEN Moves(p, "back", j.idx - 1, c) ELSE Moves(p, "abandon", j.idx, c)
  <2>1. CASE j.idx > 1
    <3>1. job' = [job EXCEPT ![p] = [j EXCEPT !.idx = j.idx - 1, !.step = "back", !.clash = c]]
      BY Zenon, <1>7, <2>1 DEF NextBack
    <3>2. j.idx - 1 \in 1..MaxFiles
      BY <1>1, <2>1
    <3> QED
      BY Zenon, <1>1, <1>2, <2>1, <3>1, <3>2, Moved
  <2>2. CASE ~(j.idx > 1)
    <3>1. job' = [job EXCEPT ![p] = [j EXCEPT !.step = "abandon", !.clash = c]]
      BY Zenon, <1>7, <2>2 DEF NextBack
    <3> QED
      BY Zenon, <1>1, <1>2, <2>2, <3>1, Moved
  <2> QED
    BY Zenon, <2>1, <2>2
<1>8. ASSUME FailPublish(p), j.idx # 1 PROVE Moves(p, "back", j.idx - 1, j.clash)
  <2>1. job' = [job EXCEPT ![p] = [j EXCEPT !.step = "back", !.idx = j.idx - 1]]
    BY Zenon, <1>8 DEF FailPublish
  <2> QED
    BY Zenon, <1>1, <1>2, <1>8, <2>1, Moved
<1> QED
  BY Zenon, <1>3, <1>5, <1>6, <1>7, <1>8

\* A command starts.
LEMMA Starts ==
  ASSUME NEW p \in Proc, job \in [Proc -> Job], Shape, Start(p)
  PROVE  LET k == job'[p] IN
         /\ Only(p) /\ k.step = "barrier" /\ k.verb \in Verbs /\ k.idx = 1 /\ k.tid = 0 /\ k.clash = "no"
         /\ job[p].step = "idle" /\ (k.verb = "edit" => k.plan \in Plans /\ Len(k.plan) = 1)
<1>0. job[p].step = "idle" /\ Fits(job[p]) /\ job[p] \in Job
  BY Zenon DEF Start, StartEdit, StartWide, At, Shape
<1>1. job[p].idx = 1 /\ job[p].tid = 0 /\ job[p].clash = "no"
  BY <1>0 DEF Fits, Idle
<1>2. "barrier" \in Steps
  BY Zenon DEF Steps
<1>3. CASE \E f \in File : "edit" \in Verbs /\ StartEdit(p, f)
  <2>1. PICK f \in File : "edit" \in Verbs /\ StartEdit(p, f)
    BY Zenon, <1>3
  <2> DEFINE ts == <<[file |-> f, before |-> Absent, after |-> Absent]>>
             k == [job[p] EXCEPT !.step = "barrier", !.verb = "edit", !.plan = ts]
  <2>2. ts \in Plans /\ Len(ts) = 1
    BY SinglePlan DEF Transition, Image
  <2>3. job' = [job EXCEPT ![p] = k]
    BY Zenon, <2>1 DEF StartEdit
  <2>4. job'[p] = k /\ job' = [job EXCEPT ![p] = job'[p]]
    BY Zenon, <2>3
  <2> HIDE DEF ts
  <2>5. k \in Job
    BY Zenon, <1>0, <1>2, <2>1, <2>2 DEF Job
  <2>6. k.step = "barrier" /\ k.verb = "edit" /\ k.plan = ts /\ k.idx = 1 /\ k.tid = 0 /\ k.clash = "no"
    BY Zenon, <1>0, <1>1 DEF Job
  <2> QED
    BY Zenon, <1>0, <2>1, <2>2, <2>4, <2>5, <2>6 DEF Only
<1>4. CASE \E verb \in Verbs \ {"edit"} : StartWide(p, verb)
  <2>1. PICK verb \in Verbs \ {"edit"} : StartWide(p, verb)
    BY Zenon, <1>4
  <2> DEFINE k == [job[p] EXCEPT !.step = "barrier", !.verb = verb]
  <2>2. job'[p] = k /\ job' = [job EXCEPT ![p] = job'[p]]
    BY Zenon, <2>1 DEF StartWide
  <2>3. k \in Job
    BY Zenon, <1>0, <1>2, <2>1 DEF Job
  <2>4. k.step = "barrier" /\ k.verb = verb /\ k.idx = 1 /\ k.tid = 0 /\ k.clash = "no"
    BY Zenon, <1>0, <1>1 DEF Job
  <2> QED
    BY Zenon, <1>0, <2>1, <2>2, <2>3, <2>4 DEF Only
<1> QED
  BY Zenon, <1>3, <1>4 DEF Start

\* The other steps put a plan, an id or the stack into memory.
Loads(p, s, ts, t, m, n) ==
  LET j == job[p]
      k == job'[p] IN
  /\ Only(p) /\ k.step = s /\ k.plan = ts /\ k.tid = t /\ k.mem = m /\ k.pos = n
  /\ k.verb = j.verb /\ k.idx = j.idx /\ k.clash = j.clash

\* Any way of writing such a step down.
LEMMA Loaded ==
  ASSUME NEW p \in Proc, job \in [Proc -> Job], NEW j \in Job, j = job[p],
         NEW s \in Steps, NEW ts \in Plans, NEW t \in Id \cup {0}, NEW m \in Seq(Record), NEW n \in Nat,
         NEW k, job' = [job EXCEPT ![p] = k],
         \/ k = [j EXCEPT !.plan = ts, !.tid = t, !.step = s] /\ m = j.mem /\ n = j.pos
         \/ k = [j EXCEPT !.step = s, !.plan = ts] /\ t = j.tid /\ m = j.mem /\ n = j.pos
         \/ k = [j EXCEPT !.step = s, !.mem = m] /\ ts = j.plan /\ t = j.tid /\ n = j.pos
         \/ k = [j EXCEPT !.step = s, !.mem = m, !.pos = n, !.tid = t, !.plan = ts]
  PROVE  Loads(p, s, ts, t, m, n)
<1>1. job'[p] = k /\ job' = [job EXCEPT ![p] = job'[p]]
  BY Zenon
<1>2. /\ k.step = s /\ k.plan = ts /\ k.tid = t /\ k.mem = m /\ k.pos = n
      /\ k.verb = j.verb /\ k.idx = j.idx /\ k.clash = j.clash
  BY ZenonT(30) DEF Job
<1>3. k \in Job
  BY ZenonT(40) DEF Job
<1> QED
  BY Zenon, <1>1, <1>2, <1>3 DEF Loads, Only

SameBefore(es, ts) ==
  DOMAIN es = DOMAIN ts /\ \A i \in DOMAIN es : es[i].file = ts[i].file /\ es[i].before = ts[i].before

\* Other images after for the files of a plan.
LEMMA Refilled ==
  ASSUME NEW es \in Plans, NEW a, \A i \in DOMAIN es : a[i] \in Image,
         NEW ts, ts = [i \in DOMAIN es |-> [es[i] EXCEPT !.after = a[i]]]
  PROVE  ts \in Plans /\ SameBefore(ts, es)
<1>1. \A i \in DOMAIN es : es[i] \in Transition
  BY Zenon, PlanFacts
<1>2. \A i \in DOMAIN es : ts[i] \in Transition /\ ts[i].file = es[i].file /\ ts[i].before = es[i].before
  BY <1>1 DEF Transition
<1>3. DOMAIN ts = DOMAIN es /\ ts = [i \in DOMAIN es |-> ts[i]]
  BY Zenon
<1> QED
  BY Zenon, <1>2, <1>3, Replan DEF SameBefore

\* Which steps these are.
LEMMA LoadKinds ==
  ASSUME NEW p \in Proc, TypeOK, Shape
  PROVE  LET j == job[p] IN
         /\ Plan(p) =>
              \/ Return(p) /\ UNCHANGED <<next, lapses>>
              \/ /\ next \in Id /\ next' = next + 1 /\ UNCHANGED locks
                 /\ \E ts \in Planned(j.verb) :
                      /\ j.verb = "edit" => Len(ts) = 1 /\ ts[1].file = Item(p).file
                      /\ "unread" \notin lapses' => \A i \in DOMAIN ts : ts[i].before = live[ts[i].file]
                      /\ Loads(p, IF j.verb = "rename" THEN "publishAll" ELSE "open", ts, next, j.mem, j.pos)
         /\ Close(p) => \E r \in pending : \E ts \in Plans :
                          /\ r.id = j.tid /\ SameBefore(ts, r.entries)
                          /\ \A i \in DOMAIN ts : ts[i].after = live[ts[i].file]
                          /\ Loads(p, "stackLock", ts, j.tid, j.mem, j.pos)
         /\ IgnoredInside(p) /\ At(p, "close") =>
              \E r \in pending : \E ts \in Plans :
                /\ r.id = j.tid /\ SameBefore(ts, r.entries)
                /\ Loads(p, "stackLock", ts, j.tid, j.mem, j.pos)
         /\ ReadStack(p) /\ stack # Unreadable => Loads(p, "writeStack", j.plan, j.tid, stack, j.pos)
         /\ IgnoredInside(p) /\ At(p, "readStack") => Loads(p, "writeStack", j.plan, j.tid, <<>>, j.pos)
         /\ Select(p) /\ ~Return(p) =>
              /\ UNCHANGED locks /\ stack # Unreadable
              /\ \E i \in 1..Len(stack) :
                   /\ lapses' = IF i = Len(stack) THEN lapses ELSE lapses \cup {"byId"}
                   /\ Loads(p, "guard", stack[i].entries, stack[i].id, stack, i)
<1> DEFINE j == job[p]
<1>1. /\ j \in Job /\ j.tid \in Id \cup {0} /\ j.mem \in Seq(Record) /\ j.pos \in Nat
      /\ job \in [Proc -> Job] /\ pending \subseteq Record
  BY Zenon DEF TypeOK, Job
<1>2. {"publishAll", "open", "stackLock", "writeStack", "guard"} \subseteq Steps
  BY Zenon DEF Steps
<1>3. ASSUME Plan(p)
      PROVE \/ Return(p) /\ UNCHANGED <<next, lapses>>
            \/ /\ next \in Id /\ next' = next + 1 /\ UNCHANGED locks
               /\ \E ts \in Planned(j.verb) :
                    /\ j.verb = "edit" => Len(ts) = 1 /\ ts[1].file = Item(p).file
                    /\ "unread" \notin lapses' => \A i \in DOMAIN ts : ts[i].before = live[ts[i].file]
                    /\ Loads(p, IF j.verb = "rename" THEN "publishAll" ELSE "open", ts, next, j.mem, j.pos)
  <2>1. CASE Return(p) /\ UNCHANGED <<next, lapses>>
    BY Zenon, <2>1
  <2>2. CASE ~(Return(p) /\ UNCHANGED <<next, lapses>>)
    <3> DEFINE s == IF j.verb = "rename" THEN "publishAll" ELSE "open"
    <3>1. PICK ts \in Planned(j.verb) :
            /\ next <= MaxIds /\ next' = next + 1 /\ UNCHANGED locks
            /\ j.verb = "edit" => Len(ts) = 1 /\ ts[1].file = Item(p).file
            /\ "unread" \notin lapses' => \A i \in DOMAIN ts : ts[i].before = live[ts[i].file]
            /\ job' = [job EXCEPT ![p].plan = ts, ![p].tid = next, ![p].step = s]
      BY Zenon, <1>3, <2>2 DEF Plan
    <3>2. next \in Id
      BY <3>1, CommandAssumption DEF TypeOK, Id
    <3>3. ts \in Plans /\ s \in Steps
      BY Zenon, <1>2, <3>1 DEF Planned
    <3> HIDE DEF s
    <3>4. job' = [job EXCEPT ![p] = [j EXCEPT !.plan = ts, !.tid = next, !.step = s]]
      BY Zenon, <3>1
    <3>5. Loads(p, s, ts, next, j.mem, j.pos)
      BY Zenon, <1>1, <3>2, <3>3, <3>4, Loaded
    <3> QED
      BY Zenon, <3>1, <3>2, <3>5 DEF s
  <2> QED
    BY Zenon, <2>1, <2>2
<1>4. ASSUME Close(p)
      PROVE \E r \in pending : \E ts \in Plans :
              /\ r.id = j.tid /\ SameBefore(ts, r.entries)
              /\ \A i \in DOMAIN ts : ts[i].after = live[ts[i].file]
              /\ Loads(p, "stackLock", ts, j.tid, j.mem, j.pos)
  <2>1. PICK r \in pending :
          /\ r.id = j.tid
          /\ job' = [job EXCEPT ![p].step = "stackLock", ![p].plan =
               [i \in DOMAIN r.entries |-> [r.entries[i] EXCEPT !.after = live[r.entries[i].file]]]]
    BY Zenon, <1>4 DEF Close
  <2> DEFINE es == r.entries
             ts == [i \in DOMAIN es |-> [es[i] EXCEPT !.after = live[es[i].file]]]
             a == [i \in DOMAIN es |-> live[es[i].file]]
  <2>2. es \in Plans
    BY Zenon, <1>1 DEF Record
  <2>3. \A i \in DOMAIN es : a[i] \in Image
    BY <2>2, PlanFacts DEF TypeOK, Transition
  <2>4. ts = [i \in DOMAIN es |-> [es[i] EXCEPT !.after = a[i]]]
    BY Zenon
  <2> HIDE DEF ts, a
  <2>5. ts \in Plans /\ SameBefore(ts, es)
    BY Zenon, <2>2, <2>3, <2>4, Refilled
  <2>6. \A i \in DOMAIN ts : ts[i].after = live[ts[i].file]
    <3>1. \A i \in DOMAIN es : ts[i].after = a[i]
      BY <2>2, <2>4, PlanFacts DEF Transition
    <3> QED
      BY Zenon, <2>5, <3>1 DEF SameBefore, a
  <2>7. job' = [job EXCEPT ![p].step = "stackLock", ![p].plan = ts]
    BY Zenon, <2>1 DEF ts
  <2>8. job' = [job EXCEPT ![p] = [j EXCEPT !.step = "stackLock", !.plan = ts]]
    BY Zenon, <2>7
  <2> QED
    <3>1. Loads(p, "stackLock", ts, j.tid, j.mem, j.pos)
      BY Zenon, <1>1, <1>2, <2>5, <2>8, Loaded
    <3> QED
      BY Zenon, <2>1, <2>5, <2>6, <3>1
<1>5. ASSUME ReadStack(p), stack # Unreadable
      PROVE Loads(p, "writeStack", j.plan, j.tid, stack, j.pos)
  <2>1. j.plan \in Plans /\ stack \in Seq(Record)
    BY Zenon, <1>5 DEF ReadStack, At, Shape, Fits, Before, TypeOK
  <2>2. job' = [job EXCEPT ![p] = [j EXCEPT !.step = "writeStack", !.mem = stack]]
    BY Zenon, <1>5 DEF ReadStack
  <2> QED
    BY Zenon, <1>1, <1>2, <2>1, <2>2, Loaded
<1>6. ASSUME Select(p), ~Return(p)
      PROVE /\ UNCHANGED locks /\ stack # Unreadable
            /\ \E i \in 1..Len(stack) :
                 /\ lapses' = IF i = Len(stack) THEN lapses ELSE lapses \cup {"byId"}
                 /\ Loads(p, "guard", stack[i].entries, stack[i].id, stack, i)
  <2>1. PICK i \in 1..Len(stack) :
          /\ job' = [job EXCEPT ![p].step = "guard", ![p].mem = stack, ![p].pos = i,
                                ![p].tid = stack[i].id, ![p].plan = stack[i].entries]
          /\ lapses' = IF i = Len(stack) THEN lapses ELSE lapses \cup {"byId"}
          /\ UNCHANGED locks /\ stack # Unreadable
    BY Zenon, <1>6 DEF Select
  <2> DEFINE ts == stack[i].entries
             t == stack[i].id
  <2>2. stack \in Seq(Record) /\ i \in Nat /\ ts \in Plans /\ t \in Id
    <3>1. stack \in Seq(Record)
      BY Zenon, <2>1 DEF TypeOK
    <3>2. i \in Nat
      BY <3>1
    <3>3. stack[i] \in Record
      BY Zenon, <3>1, ElementOfSeq
    <3> QED
      BY Zenon, <3>1, <3>2, <3>3 DEF Record
  <2>3. job' = [job EXCEPT ![p].step = "guard", ![p].mem = stack, ![p].pos = i, ![p].tid = t, ![p].plan = ts]
    BY Zenon, <2>1
  <2> HIDE DEF ts, t
  <2>4. job' = [job EXCEPT ![p] = [j EXCEPT !.step = "guard", !.mem = stack, !.pos = i, !.tid = t, !.plan = ts]]
    BY Zenon, <2>3
  <2>5. Loads(p, "guard", ts, t, stack, i)
    BY Zenon, <1>1, <1>2, <2>2, <2>4, Loaded
  <2> QED
    BY Zenon, <2>1, <2>5 DEF ts, t
<1>7. ASSUME IgnoredInside(p), At(p, "close")
      PROVE \E r \in pending : \E ts \in Plans :
              r.id = j.tid /\ SameBefore(ts, r.entries) /\ Loads(p, "stackLock", ts, j.tid, j.mem, j.pos)
  <2>1. PICK r \in pending : \E i \in DOMAIN r.entries :
          /\ r.id = j.tid
          /\ job' = [job EXCEPT ![p].step = "stackLock", ![p].plan =
               [k \in DOMAIN r.entries |-> [r.entries[k] EXCEPT !.after =
                                              IF k = i THEN Absent ELSE live[r.entries[k].file]]]]
    BY Zenon, <1>7 DEF IgnoredInside, CreatedHere, At
  <2>2. PICK i \in DOMAIN r.entries :
          /\ r.id = j.tid
          /\ job' = [job EXCEPT ![p].step = "stackLock", ![p].plan =
               [k \in DOMAIN r.entries |-> [r.entries[k] EXCEPT !.after =
                                              IF k = i THEN Absent ELSE live[r.entries[k].file]]]]
    BY Zenon, <2>1
  <2> DEFINE es == r.entries
             a == [k \in DOMAIN es |-> IF k = i THEN Absent ELSE live[es[k].file]]
             ts == [k \in DOMAIN es |-> [es[k] EXCEPT !.after = IF k = i THEN Absent ELSE live[es[k].file]]]
  <2>3. es \in Plans
    BY Zenon, <1>1 DEF Record
  <2>4. \A k \in DOMAIN es : a[k] \in Image
    BY <2>3, PlanFacts DEF TypeOK, Transition, Image
  <2>5. ts = [k \in DOMAIN es |-> [es[k] EXCEPT !.after = a[k]]]
    BY Zenon
  <2> HIDE DEF ts, a
  <2>6. ts \in Plans /\ SameBefore(ts, es)
    BY Zenon, <2>3, <2>4, <2>5, Refilled
  <2>7. job' = [job EXCEPT ![p].step = "stackLock", ![p].plan = ts]
    BY Zenon, <2>2 DEF ts
  <2>8. job' = [job EXCEPT ![p] = [j EXCEPT !.step = "stackLock", !.plan = ts]]
    BY Zenon, <2>7
  <2> QED
    <3>1. Loads(p, "stackLock", ts, j.tid, j.mem, j.pos)
      BY Zenon, <1>1, <1>2, <2>6, <2>8, Loaded
    <3> QED
      BY Zenon, <2>2, <2>6, <3>1
<1>8. ASSUME IgnoredInside(p), At(p, "readStack")
      PROVE Loads(p, "writeStack", j.plan, j.tid, <<>>, j.pos)
  <2>1. j.plan \in Plans
    BY Zenon, <1>8 DEF At, Shape, Fits, Before
  <2>2. job' = [job EXCEPT ![p] = [j EXCEPT !.step = "writeStack", !.mem = <<>>]]
    BY Zenon, <1>8 DEF IgnoredInside, CreatedHere, At
  <2>3. <<>> \in Seq(Record)
    OBVIOUS
  <2> QED
    BY Zenon, <1>1, <1>2, <2>1, <2>2, <2>3, Loaded
<1> QED
  BY Zenon, <1>3, <1>4, <1>5, <1>6, <1>7, <1>8

\* The order of the steps of a command once it has its plan.
Follows(s, t) ==
  \/ s = "publishAll" /\ t = "open"
  \/ s = "open" /\ t \in {"publish", "close"}
  \/ s \in {"publish", "swap", "fill"} /\ t \in {"publish", "close", "back"}
  \/ s = "publish" /\ t \in {"swap", "fill"}
  \/ s \in {"back", "backSwap"} /\ t \in {"back", "abandon"}
  \/ s = "back" /\ t = "backSwap"
  \/ s = "stackLock" /\ t = "readStack"
  \/ s = "writeStack" /\ t = "forget"
  \/ s = "guard" /\ t = "restore"
  \/ s \in {"restore", "rewrite"} /\ t \in {"restore", "save"}
  \/ s = "restore" /\ t = "rewrite"
  \/ s = "save" /\ t = "saved"

\* The step and the file that a command with a plan may turn to.
Allowed(p, s, i) ==
  /\ Follows(job[p].step, s) /\ i \in DOMAIN job[p].plan
  /\ s \notin Walking \/ job[p].verb = "edit" => i = 1
  /\ s = "fill" => job[p].verb = "edit"
  /\ s \in {"publish", "swap"} => job[p].verb \in {"edit", "patch"}
  /\ s \in {"back", "backSwap", "abandon"} => job[p].verb = "patch"
  /\ s = "readStack" => StackLock(p)
  /\ job[p].step = "open" => Open(p)

\* Such a step is one of these.
Does(p) ==
  \/ Open(p) \/ Publish(p) \/ Swap(p) \/ Fill(p) \/ PublishError(p) \/ Back(p) \/ BackSwap(p) \/ BackError(p)
  \/ PublishAll(p) \/ StackLock(p) \/ WriteStack(p) \/ Guard(p) \/ Restore(p) \/ Rewrite(p)
  \/ (IgnoredInside(p) /\ CreatedHere(p)) \/ Save(p)

\* How a command comes to its end.
Ends(p) ==
  /\ Return(p)
  /\ \/ Plan(p) \/ Select(p) \/ Guard(p) \/ PublishAll(p) \/ Publish(p) \/ Swap(p) \/ PublishError(p)
     \/ ReadStack(p) \/ Abandon(p) \/ Forget(p) \/ Saved(p)
     \/ Deadline(p) \/ PublishPart(p) \/ Crash(p) \/ ReturnError(p) \/ IgnoredAtEnd(p)

\* What a step does to the commands and the locks.
Turns ==
  \/ UNCHANGED <<job, locks>>
  \/ \E p \in Proc : Ends(p) \/ Start(p) \/ AcquireBarrier(p) \/ AcquireFile(p)
  \/ \E p \in Proc, s \in Steps, i \in 1..MaxFiles, c \in {"no", "yes"} :
       Moves(p, s, i, c) /\ Allowed(p, s, i) /\ Does(p) /\ (UNCHANGED locks \/ StackLock(p))
  \/ \E p \in Proc :
       /\ Plan(p) \/ Close(p) \/ (IgnoredInside(p) /\ ~CreatedHere(p)) \/ ReadStack(p) \/ Select(p)
       /\ Only(p) /\ UNCHANGED locks /\ job'[p].verb = job[p].verb
       /\ job[p].step \in {"plan", "close", "readStack"}
       /\ job'[p].step \in {"open", "publishAll", "stackLock", "writeStack", "guard"}
       /\ job'[p].step = "writeStack" => job[p].step = "readStack"

\* Every step is one of these and leaves each process a memory that fits its step.
LEMMA JobsNext ==
  ASSUME Typed, [Next]_vars PROVE job' \in [Proc -> Job] /\ Shape' /\ Turns
<1>0. TypeOK /\ Shape /\ job \in [Proc -> Job]
  BY Zenon DEF Typed, TypeOK
<1> DEFINE Goal == job' \in [Proc -> Job] /\ Shape' /\ Turns
<1>1. ASSUME NEW p \in Proc, Only(p), Fits(job'[p]) PROVE job' \in [Proc -> Job] /\ Shape'
  <2>1. job' = [job EXCEPT ![p] = job'[p]] /\ job'[p] \in Job
    BY Zenon, <1>1 DEF Only
  <2>2. job' \in [Proc -> Job] /\ \A q \in Proc : q # p => job'[q] = job[q]
    BY Zenon, <1>0, <2>1
  <2> QED
    BY Zenon, <1>0, <1>1, <2>2 DEF Shape
<1>2. UNCHANGED <<job, locks>> => Goal
  BY Zenon, <1>0 DEF Shape, Turns
<1>3. ASSUME NEW p \in Proc, Ends(p) PROVE Goal
  <2>1. Idle \in Job /\ Fits(Idle)
    BY CommandAssumption DEF Idle, Job, Steps, Fits, Before, Walking, Undoing, Recording
  <2>2. job'[p] = Idle /\ job' = [job EXCEPT ![p] = job'[p]]
    BY Zenon, <1>0, <1>3 DEF Ends, Return
  <2> QED
    BY Zenon, <1>1, <1>3, <2>1, <2>2 DEF Only, Turns
<1>4. ASSUME NEW p \in Proc, Start(p) PROVE Goal
  <2>1. Fits(job'[p])
    BY <1>0, <1>4, Starts, PlanFacts DEF Fits, Before, Walking, Undoing, Recording
  <2> QED
    BY Zenon, <1>0, <1>1, <1>4, <2>1, Starts DEF Turns
\* A command that has its plan goes on.
<1>5. ASSUME NEW p \in Proc, NEW s, NEW i, NEW c, Moves(p, s, i, c), Allowed(p, s, i), Does(p),
             UNCHANGED locks \/ StackLock(p)
      PROVE Goal
  <2>1. Fits(job[p])
    BY Zenon, <1>0 DEF Shape
  <2>2. /\ job[p].step \notin Before /\ s \notin Before \cup {"publishAll"}
        /\ s \in Undoing <=> job[p].step \in Undoing
        /\ job[p].step \in Recording => s \in Recording
    BY Zenon, <1>5 DEF Allowed, Follows, Before, Undoing, Recording
  <2>3. Fits(job'[p])
    BY <1>5, <2>1, <2>2 DEF Fits, Moves, Before, Allowed
  <2>4. s \in Steps /\ i \in 1..MaxFiles /\ c \in {"no", "yes"}
    BY Zenon, <1>5 DEF Moves, Only, Job
  <2> QED
    BY Zenon, <1>1, <1>5, <2>3, <2>4 DEF Moves, Turns
<1>6. ASSUME NEW p \in Proc, AcquireBarrier(p) \/ AcquireFile(p) PROVE Goal
  <2>1. PICK s \in {"file", "plan"} : Go(p, s) /\ (s = "file" => job[p].verb = "edit")
    BY Zenon, <1>6 DEF AcquireBarrier, AcquireFile
  <2>2. Moves(p, s, job[p].idx, job[p].clash)
    BY Zenon, <1>0, <2>1, MoveKinds DEF Steps
  <2>3. Fits(job[p]) /\ job[p].step \in {"barrier", "file"}
    BY Zenon, <1>0, <1>6 DEF Shape, AcquireBarrier, AcquireFile, At
  <2>4. Fits(job'[p])
    BY <2>1, <2>2, <2>3 DEF Fits, Moves, Before, Walking, Undoing, Recording
  <2> QED
    BY Zenon, <1>1, <1>6, <2>2, <2>4 DEF Moves, Turns
<1>7. ASSUME NEW p \in Proc, NEW s, NEW ts, NEW t, NEW m, NEW n, Loads(p, s, ts, t, m, n), ts \in Plans,
             s \in {"open", "publishAll", "stackLock", "writeStack", "guard"},
             job[p].step \in {"plan", "close", "readStack"}, t # 0,
             s = "guard" <=> job[p].verb = "undo", s = "publishAll" => job[p].verb = "rename",
             s = "guard" => n \in 1..Len(m) /\ m[n] = [id |-> t, entries |-> ts],
             job[p].verb = "edit" /\ s \notin Recording => Len(ts) = 1,
             Plan(p) \/ Close(p) \/ (IgnoredInside(p) /\ ~CreatedHere(p)) \/ ReadStack(p) \/ Select(p),
             UNCHANGED locks, s = "writeStack" => job[p].step = "readStack"
      PROVE Goal
  <2>1. Fits(job[p]) /\ 1 \in DOMAIN ts
    BY SMTT(30), <1>0, <1>7, PlanFacts DEF Shape
  <2>2. Fits(job'[p])
    BY <1>7, <2>1 DEF Fits, Loads, Before, Walking, Undoing
  <2> QED
    BY Zenon, <1>1, <1>7, <2>2 DEF Loads, Turns
<1>8. ASSUME NEW p \in Proc, Plan(p) PROVE Goal
  <2>1. CASE Return(p)
    BY Zenon, <1>3, <1>8, <2>1 DEF Ends
  <2>2. CASE ~Return(p)
    <3>1. PICK ts \in Planned(job[p].verb) :
            /\ next \in Id /\ UNCHANGED locks
            /\ job[p].verb = "edit" => Len(ts) = 1
            /\ Loads(p, IF job[p].verb = "rename" THEN "publishAll" ELSE "open", ts, next, job[p].mem, job[p].pos)
      BY Zenon, <1>0, <1>8, <2>2, LoadKinds
    <3>2. ts \in Plans /\ next # 0 /\ job[p].step = "plan" /\ job[p].verb # "undo"
      <4>1. next # 0
        BY <3>1 DEF Id
      <4> QED
        BY Zenon, <1>8, <3>1, <4>1 DEF Planned, Plan, At
    <3>3. PICK s \in {"open", "publishAll"} :
            /\ Loads(p, s, ts, next, job[p].mem, job[p].pos) /\ (s = "publishAll" => job[p].verb = "rename")
      BY Zenon, <3>1
    <3>4. s # "guard" /\ s \in {"open", "publishAll", "stackLock", "writeStack", "guard"}
      BY Zenon, <3>3
    <3> QED
      BY Zenon, <1>7, <1>8, <3>1, <3>2, <3>3, <3>4
  <2> QED
    BY Zenon, <2>1, <2>2
<1>9. ASSUME NEW p \in Proc, Close(p) \/ (IgnoredInside(p) /\ At(p, "close")) PROVE Goal
  <2>1. PICK r \in pending : \E ts \in Plans : Loads(p, "stackLock", ts, job[p].tid, job[p].mem, job[p].pos)
    BY Zenon, <1>0, <1>9, LoadKinds
  <2>2. PICK ts \in Plans : Loads(p, "stackLock", ts, job[p].tid, job[p].mem, job[p].pos)
    BY Zenon, <2>1
  <2>3. job[p].step = "close" /\ Fits(job[p]) /\ UNCHANGED locks
    BY Zenon, <1>0, <1>9 DEF Shape, Close, IgnoredInside, At
  <2>4. job[p].tid # 0 /\ job[p].verb # "undo"
    BY Zenon, <2>3 DEF Fits, Before, Undoing
  <2> QED
    BY Zenon, <1>7, <1>9, <2>2, <2>3, <2>4 DEF Recording, CreatedHere, At
<1>10. ASSUME NEW p \in Proc, ReadStack(p) \/ (IgnoredInside(p) /\ At(p, "readStack")) PROVE Goal
  <2>1. CASE ReadStack(p) /\ stack = Unreadable
    BY Zenon, <1>3, <1>10, <2>1 DEF ReadStack, Ends
  <2>2. CASE ~(ReadStack(p) /\ stack = Unreadable)
    <3>1. PICK m : Loads(p, "writeStack", job[p].plan, job[p].tid, m, job[p].pos)
      BY Zenon, <1>0, <1>10, <2>2, LoadKinds
    <3>2. job[p].step = "readStack" /\ Fits(job[p]) /\ UNCHANGED locks /\ ~CreatedHere(p)
      BY Zenon, <1>0, <1>10, <2>2 DEF Shape, ReadStack, IgnoredInside, CreatedHere, At
    <3>3. job[p].tid # 0 /\ job[p].verb # "undo" /\ job[p].plan \in Plans
      BY Zenon, <3>2 DEF Fits, Before, Undoing
    <3> QED
      BY Zenon, <1>7, <1>10, <3>1, <3>2, <3>3 DEF Recording
  <2> QED
    BY Zenon, <2>1, <2>2
<1>11. ASSUME NEW p \in Proc, Select(p) PROVE Goal
  <2>1. CASE Return(p)
    BY Zenon, <1>3, <1>11, <2>1 DEF Ends
  <2>2. CASE ~Return(p)
    <3>0. stack # Unreadable /\ UNCHANGED locks
      BY Zenon, <1>0, <1>11, <2>2, LoadKinds
    <3>1. PICK i \in 1..Len(stack) : Loads(p, "guard", stack[i].entries, stack[i].id, stack, i)
      BY Zenon, <1>0, <1>11, <2>2, LoadKinds
    <3>2. stack[i] \in Record
      BY Zenon, <1>0, <3>0, <3>1, ElementOfSeq DEF TypeOK
    <3>3. /\ stack[i].entries \in Plans /\ stack[i].id # 0
          /\ stack[i] = [id |-> stack[i].id, entries |-> stack[i].entries]
      BY <3>2 DEF Record, Id
    <3>4. job[p].step = "plan" /\ job[p].verb = "undo"
      BY Zenon, <1>11 DEF Select, At
    <3> QED
      BY Zenon, <1>7, <1>11, <3>0, <3>1, <3>3, <3>4
  <2> QED
    BY Zenon, <2>1, <2>2
<1>12. ASSUME NEW p \in Proc, Open(p) \/ StackLock(p) \/ WriteStack(p) \/ Save(p) PROVE Goal
  <2>1. PICK s \in {"close", "publish", "readStack", "forget", "saved"} :
          /\ Go(p, s) /\ (s = "publish" => job[p].verb # "rename") /\ Follows(job[p].step, s)
          /\ (UNCHANGED locks \/ StackLock(p)) /\ (s = "readStack" => StackLock(p))
          /\ job[p].step = "open" => Open(p)
    BY Zenon, <1>12 DEF Open, StackLock, WriteStack, Save, At, Follows
  <2>2. Moves(p, s, job[p].idx, job[p].clash)
    BY Zenon, <1>0, <2>1, MoveKinds DEF Steps
  <2>3. Fits(job[p]) /\ job[p].step \in {"open", "stackLock", "writeStack", "save"}
    BY Zenon, <1>0, <1>12 DEF Shape, Open, StackLock, WriteStack, Save, At
  <2>4. job[p].idx = 1 /\ job[p].idx \in DOMAIN job[p].plan
    BY Zenon, <2>3 DEF Fits, Before, Walking
  <2>5. s = "publish" => job[p].verb \in {"edit", "patch"}
    BY Zenon, <2>1, <2>3, CommandAssumption DEF Follows, Fits, Before, Undoing
  <2>6. Allowed(p, s, job[p].idx)
    BY Zenon, <2>1, <2>4, <2>5 DEF Allowed, Follows, Walking
  <2> QED
    BY Zenon, <1>5, <1>12, <2>1, <2>2, <2>4, <2>5, <2>6 DEF Does
<1>13. ASSUME NEW p \in Proc, PublishAll(p) \/ Guard(p) PROVE Goal
  <2>1. CASE Return(p)
    BY Zenon, <1>3, <1>13, <2>1 DEF Ends
  <2>2. CASE ~Return(p)
    <3>1. PICK s \in {"open", "restore"} : Go(p, s) /\ Follows(job[p].step, s) /\ UNCHANGED locks
      BY Zenon, <1>13, <2>2 DEF PublishAll, Guard, At, Follows
    <3>2. Moves(p, s, job[p].idx, job[p].clash)
      BY Zenon, <1>0, <3>1, MoveKinds DEF Steps
    <3>3. Fits(job[p]) /\ job[p].step \in {"publishAll", "guard"}
      BY Zenon, <1>0, <1>13 DEF Shape, PublishAll, Guard, At
    <3>4. job[p].step \notin Before /\ job[p].idx = 1 /\ job[p].idx \in DOMAIN job[p].plan
      BY Zenon, <3>3 DEF Fits, Before, Walking
    <3>5. Allowed(p, s, job[p].idx)
      BY Zenon, <3>1, <3>3, <3>4 DEF Allowed, Follows, Walking
    <3> QED
      BY Zenon, <1>5, <1>13, <3>1, <3>2, <3>3, <3>4, <3>5 DEF Does
  <2> QED
    BY Zenon, <2>1, <2>2
\* The steps of a walk over the files of a plan.
<1>14. ASSUME NEW p \in Proc, job[p].step \in Walking \cup {"fill"}
       PROVE /\ Fits(job[p]) /\ job[p].plan \in Plans /\ job[p].idx \in DOMAIN job[p].plan
             /\ 1 \in DOMAIN job[p].plan
             /\ job[p].idx < Len(job[p].plan) => job[p].idx + 1 \in DOMAIN job[p].plan /\ job[p].verb # "edit"
             /\ job[p].idx # 1 => job[p].idx - 1 \in DOMAIN job[p].plan /\ job[p].idx > 1 /\ job[p].verb # "edit"
  <2>1. Fits(job[p]) /\ job[p].step \notin Before \cup Recording
    BY Zenon, <1>0, <1>14 DEF Shape, Before, Walking, Recording
  <2>2. job[p].plan \in Plans /\ job[p].idx \in DOMAIN job[p].plan
    BY Zenon, <2>1 DEF Fits
  <2>3. job[p].verb = "edit" => job[p].idx = 1 /\ Len(job[p].plan) = 1
    BY Zenon, <2>1 DEF Fits
  <2>4. Len(job[p].plan) \in 1..MaxFiles /\ DOMAIN job[p].plan = 1..Len(job[p].plan) /\ MaxFiles \in Nat
    BY Zenon, <2>2, PlanFacts, CommandAssumption
  <2> DEFINE n == Len(job[p].plan)
             i == job[p].idx
  <2>5. n \in 1..MaxFiles /\ i \in 1..n /\ MaxFiles \in Nat
    BY Zenon, <2>2, <2>4
  <2> HIDE DEF n, i
  <2>6. 1 \in 1..n /\ (i < n => i + 1 \in 1..n) /\ (i # 1 => i - 1 \in 1..n /\ i > 1) /\ (i < n => i # 1 \/ n # 1)
    BY <2>5
  <2> QED
    BY Zenon, <2>1, <2>2, <2>3, <2>4, <2>6 DEF n, i
<1>15. ASSUME NEW p \in Proc, job[p].step \in {"publish", "swap", "fill"}, Advance(p), UNCHANGED locks, Does(p)
       PROVE Goal
  <2>1. job[p].verb \in {"edit", "patch"}
    BY Zenon, <1>14, <1>15 DEF Fits, Walking
  <2>2. CASE job[p].idx < Len(job[p].plan)
    <3>1. Moves(p, "publish", job[p].idx + 1, job[p].clash)
      BY Zenon, <1>0, <1>14, <1>15, <2>2, MoveKinds DEF Walking
    <3>2. Allowed(p, "publish", job[p].idx + 1)
      BY Zenon, <1>14, <1>15, <2>1, <2>2 DEF Allowed, Follows, Walking
    <3> QED
      BY Zenon, <1>5, <1>14, <1>15, <2>1, <2>2, <3>1, <3>2
  <2>3. CASE ~(job[p].idx < Len(job[p].plan))
    <3>1. Moves(p, "close", 1, job[p].clash)
      BY Zenon, <1>0, <1>14, <1>15, <2>3, MoveKinds DEF Walking
    <3>2. Allowed(p, "close", 1)
      BY Zenon, <1>14, <1>15, <2>1 DEF Allowed, Follows, Walking
    <3> QED
      BY Zenon, <1>5, <1>14, <1>15, <2>1, <3>1, <3>2
  <2> QED
    BY Zenon, <2>2, <2>3
<1>16. ASSUME NEW p \in Proc, job[p].step \in {"publish", "swap", "fill"}, FailPublish(p),
              Publish(p) \/ Swap(p) \/ PublishError(p)
       PROVE Goal
  <2>1. job[p].verb \in {"edit", "patch"}
    BY Zenon, <1>14, <1>16 DEF Fits, Walking
  <2>2. CASE job[p].idx = 1
    BY Zenon, <1>3, <1>16, <2>2 DEF FailPublish, Ends
  <2>3. CASE job[p].idx # 1
    <3>1. Moves(p, "back", job[p].idx - 1, job[p].clash) /\ UNCHANGED locks
      BY Zenon, <1>0, <1>16, <2>3, MoveKinds DEF FailPublish
    <3>2. Allowed(p, "back", job[p].idx - 1)
      BY Zenon, <1>14, <1>16, <2>1, <2>3 DEF Allowed, Follows, Walking
    <3> QED
      BY Zenon, <1>5, <1>14, <1>16, <2>1, <2>3, <3>1, <3>2 DEF Does
  <2> QED
    BY Zenon, <2>2, <2>3
<1>17. ASSUME NEW p \in Proc, Publish(p) \/ Swap(p) \/ Fill(p) \/ PublishError(p) PROVE Goal
  <2>1. job[p].step \in {"publish", "swap", "fill"}
    BY Zenon, <1>17 DEF Publish, Swap, Fill, PublishError, At
  <2>2. \/ FailPublish(p) /\ (Publish(p) \/ Swap(p) \/ PublishError(p))
        \/ /\ UNCHANGED locks
           /\ \/ Advance(p)
              \/ Go(p, "swap") /\ job[p].step = "publish"
              \/ Go(p, "fill") /\ job[p].verb = "edit" /\ job[p].step = "publish"
    BY Zenon, <1>17 DEF Publish, Swap, Fill, PublishError, At
  <2>3. ASSUME NEW s \in {"swap", "fill"}, Go(p, s), job[p].step = "publish", s = "fill" => job[p].verb = "edit",
               UNCHANGED locks, Does(p)
        PROVE Goal
    <3>1. Moves(p, s, job[p].idx, job[p].clash)
      BY Zenon, <1>0, <2>3, MoveKinds DEF Steps
    <3>2. job[p].verb \in {"edit", "patch"} /\ (job[p].verb = "edit" => job[p].idx = 1)
      BY Zenon, <1>14, <2>3 DEF Fits, Walking
    <3>3. Allowed(p, s, job[p].idx)
      BY Zenon, <1>14, <2>3, <3>2 DEF Allowed, Follows, Walking
    <3> QED
      BY Zenon, <1>5, <1>14, <2>3, <3>1, <3>2, <3>3
  <2>4. Does(p)
    BY Zenon, <1>17 DEF Does
  <2> QED
    BY Zenon, <1>15, <1>16, <2>1, <2>2, <2>3, <2>4
<1>18. ASSUME NEW p \in Proc, Back(p) \/ BackSwap(p) \/ BackError(p) PROVE Goal
  <2>1. job[p].step \in {"back", "backSwap"} /\ job[p].clash \in {"no", "yes"}
    BY Zenon, <1>0, <1>18 DEF Back, BackSwap, BackError, At, Job
  <2>2. job[p].verb = "patch" /\ UNCHANGED locks
    BY Zenon, <1>14, <1>18, <2>1 DEF Fits, Walking, Back, BackSwap, BackError
  <2>3. (Go(p, "backSwap") /\ job[p].step = "back") \/ \E c \in {"no", "yes"} : NextBack(p, c)
    BY Zenon, <1>18, <2>1 DEF Back, BackSwap, BackError, At
  <2>4. CASE Go(p, "backSwap") /\ job[p].step = "back"
    <3>1. Moves(p, "backSwap", job[p].idx, job[p].clash)
      BY Zenon, <1>0, <2>4, MoveKinds DEF Steps
    <3>2. Allowed(p, "backSwap", job[p].idx)
      BY Zenon, <1>14, <2>1, <2>2, <2>4 DEF Allowed, Follows, Walking
    <3> QED
      BY Zenon, <1>5, <1>18, <1>14, <2>1, <2>2, <2>4, <3>1, <3>2 DEF Does
  <2>5. ASSUME NEW c \in {"no", "yes"}, NextBack(p, c) PROVE Goal
    <3>1. CASE job[p].idx > 1
      <4>1. Moves(p, "back", job[p].idx - 1, c)
        BY Zenon, <1>0, <2>5, <3>1, MoveKinds
      <4>2. job[p].idx # 1
        BY <3>1
      <4>3. Allowed(p, "back", job[p].idx - 1)
        BY Zenon, <1>14, <2>1, <2>2, <4>2 DEF Allowed, Follows, Walking
      <4> QED
        BY Zenon, <1>5, <1>18, <1>14, <2>1, <2>2, <4>1, <4>2, <4>3 DEF Does
    <3>2. CASE ~(job[p].idx > 1)
      <4>1. Moves(p, "abandon", job[p].idx, c)
        BY Zenon, <1>0, <2>5, <3>2, MoveKinds
      <4>2. job[p].idx = 1
        BY Zenon, <1>14, <2>1, <3>2 DEF Walking
      <4>3. Allowed(p, "abandon", job[p].idx)
        BY Zenon, <1>14, <2>1, <2>2, <4>2 DEF Allowed, Follows, Walking
      <4> QED
        BY Zenon, <1>5, <1>18, <1>14, <2>1, <2>2, <4>1, <4>2, <4>3 DEF Does
    <3> QED
      BY Zenon, <3>1, <3>2
  <2> QED
    BY Zenon, <2>3, <2>4, <2>5
<1>19. ASSUME NEW p \in Proc, Restore(p) \/ Rewrite(p) \/ (IgnoredInside(p) /\ CreatedHere(p)) PROVE Goal
  <2>1. job[p].step \in {"restore", "rewrite"}
    BY Zenon, <1>19 DEF Restore, Rewrite, CreatedHere, At
  <2>2. job[p].verb = "undo" /\ UNCHANGED locks
    BY Zenon, <1>14, <1>19, <2>1 DEF Fits, Before, Undoing, Walking, Restore, Rewrite, IgnoredInside
  <2>3. (Go(p, "rewrite") /\ job[p].step = "restore") \/ NextRestore(p)
    BY Zenon, <1>19 DEF Restore, Rewrite, IgnoredInside, CreatedHere, At
  <2>4. CASE Go(p, "rewrite") /\ job[p].step = "restore"
    <3>1. Moves(p, "rewrite", job[p].idx, job[p].clash)
      BY Zenon, <1>0, <2>4, MoveKinds DEF Steps
    <3>2. Allowed(p, "rewrite", job[p].idx)
      BY Zenon, <1>14, <2>1, <2>2, <2>4 DEF Allowed, Follows, Walking
    <3> QED
      BY Zenon, <1>5, <1>19, <1>14, <2>1, <2>2, <2>4, <3>1, <3>2 DEF Does
  <2>5. CASE NextRestore(p)
    <3>1. CASE job[p].idx < Len(job[p].plan)
      <4>1. Moves(p, "restore", job[p].idx + 1, job[p].clash)
        BY Zenon, <1>0, <1>14, <2>1, <2>5, <3>1, MoveKinds DEF Walking
      <4>2. Allowed(p, "restore", job[p].idx + 1)
        BY Zenon, <1>14, <2>1, <2>2, <3>1 DEF Allowed, Follows, Walking
      <4> QED
        BY Zenon, <1>5, <1>19, <1>14, <2>1, <2>2, <3>1, <4>1, <4>2 DEF Does
    <3>2. CASE ~(job[p].idx < Len(job[p].plan))
      <4>1. Moves(p, "save", 1, job[p].clash)
        BY Zenon, <1>0, <1>14, <2>1, <2>5, <3>2, MoveKinds DEF Walking
      <4>2. Allowed(p, "save", 1)
        BY Zenon, <1>14, <2>1, <2>2 DEF Allowed, Follows, Walking
      <4> QED
        BY Zenon, <1>5, <1>19, <1>14, <2>1, <2>2, <4>1, <4>2 DEF Does
    <3> QED
      BY Zenon, <3>1, <3>2
  <2> QED
    BY Zenon, <2>3, <2>4, <2>5
<1>20. ASSUME NEW p \in Proc, Deadline(p) \/ PublishPart(p) \/ ReturnError(p) \/ IgnoredAtEnd(p) \/ Crash(p)
                               \/ Abandon(p) \/ Forget(p) \/ Saved(p)
       PROVE Goal
  <2>1. Return(p)
    BY Zenon, <1>20 DEF Deadline, PublishPart, ReturnError, IgnoredAtEnd, Crash, Abandon, Forget, Saved
  <2> QED
    BY Zenon, <1>3, <1>20, <2>1 DEF Ends
<1>21. ASSUME NEW p \in Proc, Start(p) \/ Progress(p) PROVE Goal
  BY Zenon, <1>4, <1>6, <1>8, <1>9, <1>10, <1>11, <1>12, <1>13, <1>17, <1>18, <1>19, <1>20, <1>21 DEF Progress
<1>22. ASSUME Fault PROVE Goal
  <2>1. ASSUME NEW p \in Proc, IgnoredInside(p) PROVE Goal
    BY Zenon, <1>9, <1>10, <1>19, <2>1 DEF IgnoredInside
  <2> QED
    BY Zenon, <1>2, <1>17, <1>18, <1>20, <1>22, <2>1 DEF Fault, IoError, ForeignWrite
<1> QED
  BY Zenon, <1>2, <1>21, <1>22 DEF Next, vars, locks

-----------------------------------------------------------------------------
(* What a step changes.                                                    *)

\* Which steps change the files, the records and the undo stack.
Effects ==
  /\ \/ UNCHANGED <<live, applied>>
     \/ \E p \in Proc : \/ Publish(p) \/ Swap(p) \/ Fill(p) \/ Back(p) \/ BackSwap(p)
                        \/ PublishAll(p) \/ PublishPart(p) \/ Restore(p) \/ Rewrite(p)
     \/ \E f \in Outside, image \in Content \cup {Absent} : ForeignWrite(f, image)
  /\ \/ UNCHANGED pending
     \/ \E p \in Proc :
          \/ Open(p)
          \/ /\ job[p].step \in {"publish", "swap", "fill", "abandon", "forget"}
             /\ pending' = WithoutPending(p) /\ Return(p)
  /\ UNCHANGED evidence \/ \E p \in Proc : Abandon(p)
  /\ UNCHANGED <<stack, trimmed>> \/ \E p \in Proc : WriteStack(p) \/ Save(p) \/ Saved(p)
  /\ UNCHANGED next \/ \E p \in Proc : Plan(p)
  /\ \/ UNCHANGED recorded
     \/ \E p \in Proc : At(p, "forget") /\ Return(p) /\ recorded' = recorded \cup {job[p].tid}
  /\ \/ UNCHANGED undone
     \/ \E p \in Proc : /\ job[p].step \in {"save", "saved"} /\ Return(p)
                        /\ undone' = undone \cup {job[p].tid}
  /\ lapses' = lapses \/ \E l \in Lapses : lapses' = lapses \cup {l}

\* Every step is one of these.
LEMMA Changes ==
  ASSUME [Next]_vars PROVE Effects
<1> USE DEF Effects
<1>1. CASE UNCHANGED vars
  BY Zenon, <1>1 DEF vars
<1>2. ASSUME NEW p \in Proc, Start(p) PROVE Effects
  BY Zenon, <1>2 DEF Start, StartEdit, StartWide, files, history
<1>3. ASSUME NEW p \in Proc, AcquireBarrier(p) \/ AcquireFile(p) \/ Close(p) \/ StackLock(p) \/ Guard(p) PROVE Effects
  BY Zenon, <1>3 DEF AcquireBarrier, AcquireFile, Close, StackLock, Guard, files, history
<1>4. ASSUME NEW p \in Proc, Deadline(p) \/ ReadStack(p) \/ Select(p) \/ Crash(p) PROVE Effects
  BY Zenon, <1>4 DEF Deadline, ReadStack, Select, Crash, Lapses, files, history
<1>5. ASSUME NEW p \in Proc, Plan(p) PROVE Effects
  BY Zenon, <1>5 DEF Plan, Lapses, files
<1>6. ASSUME NEW p \in Proc, Open(p) PROVE Effects
  BY Zenon, <1>6 DEF Open, files, history
<1>7. ASSUME NEW p \in Proc, Publish(p) PROVE Effects
  BY Zenon, <1>7 DEF Publish, FailPublish, At, files, history
<1>8. ASSUME NEW p \in Proc, Swap(p) PROVE Effects
  BY Zenon, <1>8 DEF Swap, FailPublish, At, files, history
<1>9. ASSUME NEW p \in Proc, Fill(p) \/ Back(p) \/ BackSwap(p) \/ PublishAll(p) \/ Restore(p) \/ Rewrite(p) PROVE Effects
  BY Zenon, <1>9 DEF Fill, Back, BackSwap, PublishAll, Restore, Rewrite, files, history
<1>9a. ASSUME NEW p \in Proc, PublishPart(p) PROVE Effects
  BY Zenon, <1>9a DEF PublishPart, Lapses, files
<1>10. ASSUME NEW p \in Proc, Abandon(p) \/ Forget(p) PROVE Effects
  BY Zenon, <1>10 DEF Abandon, Forget, At, files, history
<1>11. ASSUME NEW p \in Proc, WriteStack(p) \/ Save(p) PROVE Effects
  BY Zenon, <1>11 DEF WriteStack, Save, files, history
<1>12. ASSUME NEW p \in Proc, Saved(p) PROVE Effects
  BY Zenon, <1>12 DEF Saved, At, files, history
<1>13. ASSUME NEW p \in Proc, IoError(p) PROVE Effects
  <2>1. CASE ReturnError(p)
    BY Zenon, <1>13, <2>1 DEF IoError, ReturnError, Lapses
  <2>2. CASE PublishError(p)
    BY Zenon, <1>13, <2>2 DEF IoError, PublishError, FailPublish, Lapses
  <2>3. CASE BackError(p)
    BY Zenon, <1>13, <2>3 DEF IoError, BackError, Lapses
  <2>4. CASE IgnoredAtEnd(p)
    BY Zenon, <1>13, <2>4 DEF IoError, IgnoredAtEnd, At, Lapses
  <2>5. CASE IgnoredInside(p)
    BY Zenon, <1>13, <2>5 DEF IoError, IgnoredInside, Lapses
  <2> QED
    BY Zenon, <1>13, <2>1, <2>2, <2>3, <2>4, <2>5 DEF IoError
<1>14. ASSUME NEW f \in Outside, NEW image \in Content \cup {Absent}, ForeignWrite(f, image) PROVE Effects
  BY Zenon, <1>14 DEF ForeignWrite, files, Lapses
<1> HIDE DEF Effects
<1>15. ASSUME NEW p \in Proc, Start(p) \/ Progress(p) PROVE Effects
  BY Zenon, <1>2, <1>3, <1>4, <1>5, <1>6, <1>7, <1>8, <1>9, <1>10, <1>11, <1>12, <1>15 DEF Progress
<1>16. ASSUME Fault PROVE Effects
  BY Zenon, <1>4, <1>9a, <1>13, <1>14, <1>16 DEF Fault
<1> QED
  BY Zenon, <1>1, <1>15, <1>16 DEF Next

\* A command that has its plan.
LEMMA ItemFacts ==
  ASSUME Typed, NEW p \in Proc, job[p].step \notin Before
  PROVE  /\ job[p].plan \in Plans /\ job[p].idx \in DOMAIN job[p].plan /\ Item(p) \in Transition
         /\ job[p].tid \in Id /\ job[p].verb \in Verbs
         /\ Item(p).file \in File /\ Item(p).before \in Image /\ Item(p).after \in Image
<1>1. Fits(job[p]) /\ job[p].tid \in Id \cup {0} /\ job[p].step # "idle"
  BY Zenon DEF Typed, Shape, TypeOK, Job, Before
<1>2. job[p].plan \in Plans /\ job[p].idx \in DOMAIN job[p].plan /\ job[p].tid \in Id /\ job[p].verb \in Verbs
  BY Zenon, <1>1 DEF Fits
<1>3. Item(p) \in Transition
  BY Zenon, <1>2, PlanFacts DEF Item
<1> QED
  BY <1>2, <1>3 DEF Transition

\* A command writes the files of its plan, and nothing else.
LEMMA WriteFacts ==
  ASSUME Typed, NEW p \in Proc,
         \/ Publish(p) \/ Swap(p) \/ Fill(p) \/ Back(p) \/ BackSwap(p)
         \/ PublishAll(p) \/ PublishPart(p) \/ Restore(p) \/ Rewrite(p)
  PROVE  /\ live' \in [File -> Image] /\ applied' \subseteq Change /\ (~PublishPart(p) => UNCHANGED lapses)
         /\ job[p].step \notin Before
         /\ \A f \in File : (\A i \in DOMAIN job[p].plan : job[p].plan[i].file # f) => live'[f] = live[f]
         /\ ~At(p, "publishAll") => \A f \in File : f # Item(p).file => live'[f] = live[f]
<1> DEFINE j == job[p]
           t == Item(p)
<1>1. job[p].step \notin Before
  BY Zenon DEF Publish, Swap, Fill, Back, BackSwap, PublishAll, PublishPart, Restore, Rewrite, At, Before
<1>2. live \in [File -> Image] /\ applied \subseteq Change
  BY Zenon DEF Typed, TypeOK
<1>3. Made(p) \subseteq Change
  <2>1. live[t.file] \in Image
    BY Zenon, <1>1, <1>2, ItemFacts
  <2> QED
    BY <1>1, <2>1, ItemFacts DEF Made, Change
<1>4. ~PublishPart(p) => UNCHANGED lapses
  BY Zenon DEF Publish, Swap, Fill, Back, BackSwap, PublishAll, Restore, Rewrite, history
<1>5. CASE ~PublishAll(p) /\ ~PublishPart(p)
  <2>1. UNCHANGED live \/ \E v \in Image : live' = [live EXCEPT ![t.file] = v]
    <3>1. Absent \in Image /\ Torn \in Image /\ t.after \in Image /\ t.before \in Image /\ live[t.file] \in Image
      BY Zenon, <1>1, <1>2, ItemFacts DEF Image
    <3>2. Publish(p) => UNCHANGED live \/ \E v \in Image : live' = [live EXCEPT ![t.file] = v]
      BY Zenon, <3>1 DEF Publish
    <3>3. Fill(p) \/ Rewrite(p) => \E v \in Image : live' = [live EXCEPT ![t.file] = v]
      BY Zenon, <3>1 DEF Fill, Rewrite, Filled
    <3> QED
      BY Zenon, <1>5, <3>1, <3>2, <3>3 DEF Swap, Back, BackSwap, Restore
  <2>2. applied' = applied \/ applied' = applied \cup Made(p) \/ applied' = applied \ MadeTo(p, t.file)
    BY Zenon, <1>5 DEF Publish, Swap, Fill, Back, BackSwap, Restore, Rewrite, history
  <2>3. j.plan[j.idx].file = t.file /\ j.idx \in DOMAIN j.plan /\ t.file \in File
    BY Zenon, <1>1, ItemFacts DEF Item
  <2>4. live' \in [File -> Image] /\ \A f \in File : f # t.file => live'[f] = live[f]
    BY Zenon, <1>2, <2>1, <2>3
  <2> QED
    BY Zenon, <1>1, <1>2, <1>3, <1>4, <2>2, <2>3, <2>4
<1>6. CASE PublishAll(p)
  <2>1. CASE UNCHANGED <<live, applied>>
    BY Zenon, <1>1, <1>2, <1>4, <2>1
  <2>2. CASE ~UNCHANGED <<live, applied>>
    <3> DEFINE ts == j.plan
    <3>1. /\ live' = [f \in File |->
               IF \E i \in DOMAIN ts : ts[i].file = f
               THEN ts[CHOOSE i \in DOMAIN ts : ts[i].file = f].after ELSE live[f]]
          /\ applied' = applied \cup
               {[id |-> job[p].tid, verb |-> "rename", file |-> ts[i].file,
                 before |-> live[ts[i].file], after |-> ts[i].after] : i \in DOMAIN ts}
      BY Zenon, <1>6, <2>2 DEF PublishAll
    <3>2. \A i \in DOMAIN ts : ts[i].file \in File /\ ts[i].after \in Image /\ live[ts[i].file] \in Image
      BY <1>1, <1>2, ItemFacts, PlanFacts DEF Transition
    <3>3. j.tid \in Id /\ "rename" \in Verbs /\ At(p, "publishAll")
      BY ZenonT(30), <1>1, <1>6, ItemFacts DEF PublishAll, Typed, Shape, Fits, At
    <3>4. applied' \subseteq Change
      BY <1>2, <3>1, <3>2, <3>3 DEF Change
    <3>5. live' \in [File -> Image]
      BY Zenon, <1>2, <3>1, <3>2
    <3>6. \A f \in File : (\A i \in DOMAIN job[p].plan : job[p].plan[i].file # f) => live'[f] = live[f]
      BY Zenon, <3>1
    <3> QED
      BY Zenon, <1>1, <1>4, <3>3, <3>4, <3>5, <3>6
  <2> QED
    BY Zenon, <2>1, <2>2
<1>7. CASE PublishPart(p)
  <2> DEFINE ts == j.plan
  <2>1. PICK done \in SUBSET (1..Len(ts) - 1), cut \in SUBSET (1..Len(ts) - 1) :
          /\ live' = [f \in File |->
               IF \E i \in cut : ts[i].file = f THEN Torn
               ELSE IF \E i \in done : ts[i].file = f
               THEN ts[CHOOSE i \in done : ts[i].file = f].after ELSE live[f]]
          /\ applied' = applied \cup
               {[id |-> job[p].tid, verb |-> "rename", file |-> ts[i].file,
                 before |-> live[ts[i].file], after |-> live'[ts[i].file]] : i \in done \cup cut}
    BY Zenon, <1>7 DEF PublishPart
  <2>2. done \cup cut \subseteq DOMAIN ts
    BY SMTT(30), <1>1, ItemFacts, PlanFacts
  <2>3. \A i \in DOMAIN ts : ts[i].file \in File /\ ts[i].after \in Image /\ live[ts[i].file] \in Image
    BY <1>1, <1>2, ItemFacts, PlanFacts DEF Transition
  <2>4. j.tid \in Id /\ "rename" \in Verbs /\ At(p, "publishAll")
    BY ZenonT(30), <1>1, <1>7, ItemFacts DEF PublishPart, Typed, Shape, Fits, At
  <2>5. live' \in [File -> Image]
    BY Zenon, <1>2, <2>1, <2>2, <2>3 DEF Image
  <2>6. \A i \in done \cup cut : live'[ts[i].file] \in Image /\ ts[i].file \in File /\ live[ts[i].file] \in Image
    BY Zenon, <2>2, <2>3, <2>5
  <2>7. applied' \subseteq Change
    <3>1. ASSUME NEW i \in done \cup cut, NEW old \in Image, NEW new \in Image
          PROVE [id |-> j.tid, verb |-> "rename", file |-> ts[i].file, before |-> old, after |-> new] \in Change
      <4>1. ts[i].file \in File
        BY Zenon, <2>6
      <4> QED
        BY SMTT(30), <2>4, <4>1 DEF Change
    <3>2. ASSUME NEW c \in applied', c \notin applied PROVE c \in Change
      <4>1. PICK i \in done \cup cut :
              c = [id |-> j.tid, verb |-> "rename", file |-> ts[i].file,
                   before |-> live[ts[i].file], after |-> live'[ts[i].file]]
        BY Zenon, <2>1, <3>2
      <4>2. live[ts[i].file] \in Image /\ live'[ts[i].file] \in Image
        BY Zenon, <2>6
      <4> QED
        BY Zenon, <3>1, <4>1, <4>2
    <3> QED
      BY Zenon, <1>2, <3>2
  <2>8. \A f \in File : (\A i \in DOMAIN job[p].plan : job[p].plan[i].file # f) => live'[f] = live[f]
    BY Zenon, <2>1, <2>2
  <2> QED
    BY Zenon, <1>1, <1>7, <2>4, <2>5, <2>7, <2>8
<1> QED
  BY Zenon, <1>5, <1>6, <1>7

\* What is left of the undo stack without one of its transactions.
LEMMA WithoutFacts ==
  ASSUME NEW m \in Seq(Record), NEW n \in 1..Len(m)
  PROVE  LET w == Without(m, n) IN
         /\ w \in Seq(Record) /\ Len(w) = Len(m) - 1
         /\ \A k \in 1..Len(w) : w[k] = IF k < n THEN m[k] ELSE m[k + 1]
<1> DEFINE a == SubSeq(m, 1, n - 1)
           b == SubSeq(m, n + 1, Len(m))
<1>1. Len(m) \in Nat /\ n \in Nat /\ n >= 1 /\ n <= Len(m)
  OBVIOUS
<1>2. a \in Seq(Record) /\ Len(a) = n - 1 /\ \A k \in 1..n - 1 : a[k] = m[k]
  BY <1>1
<1>3. b \in Seq(Record) /\ Len(b) = Len(m) - n /\ \A k \in 1..Len(m) - n : b[k] = m[n + k]
  BY <1>1
<1> HIDE DEF a, b
<1>4. /\ a \o b \in Seq(Record) /\ Len(a \o b) = Len(a) + Len(b)
      /\ \A k \in 1..Len(a) + Len(b) : (a \o b)[k] = IF k <= Len(a) THEN a[k] ELSE b[k - Len(a)]
  BY Zenon, <1>2, <1>3, Concatenation
<1>5. Without(m, n) = a \o b
  BY Zenon DEF Without, a, b
<1>6. Len(a \o b) = Len(m) - 1
  BY SMTT(30), <1>1, <1>2, <1>3, <1>4
<1>7. ASSUME NEW k \in 1..Len(a \o b) PROVE (a \o b)[k] = IF k < n THEN m[k] ELSE m[k + 1]
  BY SMTT(30), <1>1, <1>2, <1>3, <1>4, <1>6
<1> QED
  BY Zenon, <1>4, <1>5, <1>6, <1>7

\* The undo stack after a transaction was appended and the oldest ones dropped.
LEMMA WrittenFacts ==
  ASSUME Typed, NEW p \in Proc, WriteStack(p)
  PROVE  LET all == Append(job[p].mem, [id |-> job[p].tid, entries |-> job[p].plan]) IN
         \E n \in 0..Len(job[p].mem) :
           /\ all \in Seq(Record) /\ Len(all) = Len(job[p].mem) + 1
           /\ \A k \in 1..Len(job[p].mem) : all[k] = job[p].mem[k]
           /\ all[Len(all)] = [id |-> job[p].tid, entries |-> job[p].plan]
           /\ stack' \in Seq(Record) /\ Len(stack') = Len(all) - n /\ Len(stack') <= Depth
           /\ \A k \in 1..Len(stack') : stack'[k] = all[n + k]
           /\ trimmed' = trimmed \cup {all[k].id : k \in 1..n}
<1> DEFINE m == job[p].mem
           r == [id |-> job[p].tid, entries |-> job[p].plan]
           all == Append(m, r)
           n == IF Len(all) > Depth THEN Len(all) - Depth ELSE 0
<1>1. job[p].step \notin Before
  BY Zenon DEF WriteStack, At, Before
<1>2. r \in Record
  BY <1>1, ItemFacts DEF Record
<1>3. m \in Seq(Record)
  BY Zenon DEF Typed, TypeOK, Job
<1>4. stack' = SubSeq(all, n + 1, Len(all)) /\ trimmed' = trimmed \cup {all[k].id : k \in 1..n}
  BY Zenon DEF WriteStack
<1> HIDE DEF m, r
<1>5. /\ all \in Seq(Record) /\ Len(all) = Len(m) + 1 /\ all[Len(all)] = r
      /\ \A k \in 1..Len(m) : all[k] = m[k]
  BY SMTT(30), <1>2, <1>3
<1> HIDE DEF all
<1>6. Len(m) \in Nat /\ n \in 0..Len(m) /\ Len(all) - n <= Depth /\ Len(all) - n \in Nat
  BY SMTT(30), <1>3, <1>5, CommandAssumption
<1> HIDE DEF n
<1>7. /\ stack' \in Seq(Record) /\ Len(stack') = Len(all) - n
      /\ \A k \in 1..Len(stack') : stack'[k] = all[n + k]
  <2>1. stack' \in Seq(Record) /\ Len(stack') = Len(all) - n
    BY SMTT(30), <1>4, <1>5, <1>6
  <2>2. \A k \in 1..(Len(all) - n) : stack'[k] = all[n + k]
    BY SMTT(30), <1>4, <1>5, <1>6
  <2> QED
    BY Zenon, <2>1, <2>2
<1> QED
  BY Zenon, <1>4, <1>5, <1>6, <1>7 DEF m, r, all

\* The record a command opens.
LEMMA OpenedFacts ==
  ASSUME Typed, NEW p \in Proc, Open(p)
  PROVE  \E es \in Plans : /\ SameBefore(es, job[p].plan)
                           /\ [id |-> job[p].tid, entries |-> es] \in Record
                           /\ pending' = pending \cup {[id |-> job[p].tid, entries |-> es]}
<1> DEFINE es == [i \in DOMAIN job[p].plan |-> [job[p].plan[i] EXCEPT !.after = Absent]]
           a == [i \in DOMAIN job[p].plan |-> Absent]
<1>1. job[p].plan \in Plans /\ job[p].tid \in Id
  BY Zenon, ItemFacts DEF Open, At, Before
<1>2. \A i \in DOMAIN job[p].plan : a[i] \in Image
  BY Zenon DEF Image
<1>3. es = [i \in DOMAIN job[p].plan |-> [job[p].plan[i] EXCEPT !.after = a[i]]]
  BY Zenon
<1>4. pending' = pending \cup {[id |-> job[p].tid, entries |-> es]}
  BY Zenon DEF Open
<1> HIDE DEF es, a
<1>5. es \in Plans /\ SameBefore(es, job[p].plan)
  BY Zenon, <1>1, <1>2, <1>3, Refilled
<1>6. [id |-> job[p].tid, entries |-> es] \in Record
  BY SMTT(30), <1>1, <1>5 DEF Record
<1> QED
  BY Zenon, <1>4, <1>5, <1>6

\* The types are kept.
LEMMA TypesNext ==
  ASSUME Typed, [Next]_vars PROVE Typed'
<1>1. TypeOK /\ Effects /\ Turns /\ job' \in [Proc -> Job] /\ Shape'
  BY Zenon, Changes, JobsNext DEF Typed
<1>2. live' \in [File -> Image] /\ applied' \subseteq Change
  <2>1. live \in [File -> Image] /\ applied \subseteq Change
    BY Zenon, <1>1 DEF TypeOK
  <2>2. ASSUME NEW f \in Outside, NEW image \in Content \cup {Absent}, ForeignWrite(f, image)
        PROVE live' \in [File -> Image] /\ applied' \subseteq Change
    BY Zenon, <2>1, <2>2 DEF ForeignWrite, Image
  <2> QED
    BY Zenon, <1>1, <2>1, <2>2, WriteFacts DEF Effects
<1>3. pending' \subseteq Record /\ evidence' \subseteq Record
  <2>1. pending \subseteq Record /\ evidence \subseteq Record
    BY Zenon, <1>1 DEF TypeOK
  <2>2. ASSUME NEW p \in Proc, Open(p) PROVE pending' \subseteq Record
    BY Zenon, <2>1, <2>2, OpenedFacts
  <2>3. pending' \subseteq Record
    BY Zenon, <1>1, <2>1, <2>2 DEF Effects, WithoutPending
  <2> QED
    BY Zenon, <1>1, <2>1, <2>3 DEF Effects, Abandon
<1>4. stack' \in Seq(Record) \cup {Unreadable} /\ trimmed' \subseteq Id
  <2>1. stack \in Seq(Record) \cup {Unreadable} /\ trimmed \subseteq Id
    BY Zenon, <1>1 DEF TypeOK
  <2>2. ASSUME NEW p \in Proc, WriteStack(p) PROVE stack' \in Seq(Record) /\ trimmed' \subseteq Id
    <3> DEFINE all == Append(job[p].mem, [id |-> job[p].tid, entries |-> job[p].plan])
    <3>1. PICK n \in 0..Len(job[p].mem) :
            /\ all \in Seq(Record) /\ Len(all) = Len(job[p].mem) + 1 /\ stack' \in Seq(Record)
            /\ trimmed' = trimmed \cup {all[k].id : k \in 1..n}
      BY Zenon, <2>2, WrittenFacts
    <3>2. job[p].mem \in Seq(Record)
      BY Zenon, <1>1 DEF TypeOK, Job
    <3> HIDE DEF all
    <3>3. \A k \in 1..n : all[k] \in Record
      BY <3>1, <3>2
    <3> QED
      BY Zenon, <2>1, <3>1, <3>3 DEF Record
  <2>3. ASSUME NEW p \in Proc, Saved(p) PROVE stack' \in Seq(Record) /\ UNCHANGED trimmed
    <3>1. stack' = Without(job[p].mem, job[p].pos) /\ UNCHANGED trimmed /\ job[p].step \in Undoing
      BY Zenon, <2>3 DEF Saved, At, Undoing
    <3>2. job[p].mem \in Seq(Record) /\ job[p].pos \in 1..Len(job[p].mem)
      BY Zenon, <1>1, <3>1 DEF TypeOK, Typed, Shape, Fits, Job
    <3> QED
      BY Zenon, <3>1, <3>2, WithoutFacts
  <2>4. ASSUME NEW p \in Proc, Save(p) PROVE stack' = Unreadable /\ UNCHANGED trimmed
    BY Zenon, <2>4 DEF Save, history
  <2> QED
    BY Zenon, <1>1, <2>1, <2>2, <2>3, <2>4 DEF Effects
<1>5. next' \in 1..MaxIds + 1
  <2>1. next \in 1..MaxIds + 1 /\ \A p \in Proc : Plan(p) => next' = next \/ (next <= MaxIds /\ next' = next + 1)
    BY Zenon, <1>1 DEF TypeOK, Plan
  <2>2. next' = next \/ (next <= MaxIds /\ next' = next + 1)
    BY Zenon, <1>1, <2>1 DEF Effects
  <2> QED
    BY <2>1, <2>2, CommandAssumption
<1>6. recorded' \subseteq Id /\ undone' \subseteq Id
  <2>1. recorded \subseteq Id /\ undone \subseteq Id
    BY Zenon, <1>1 DEF TypeOK
  <2>2. \A p \in Proc : job[p].step \in {"forget", "save", "saved"} => job[p].tid \in Id
    BY Zenon, ItemFacts DEF Before
  <2> QED
    BY Zenon, <1>1, <2>1, <2>2 DEF Effects, At
<1>7. lapses' \subseteq Lapses
  BY Zenon, <1>1 DEF TypeOK, Effects
<1>8. faults' \in 0..MaxFaults
  <2>1. faults \in 0..MaxFaults /\ MaxFaults \in Nat
    BY Zenon, <1>1, CommandAssumption DEF TypeOK
  <2>2. faults' = faults \/ (faults < MaxFaults /\ faults' = faults + 1)
    BY Zenon DEF Next, Fault, vars
  <2> QED
    BY <2>1, <2>2
<1>9. /\ barrier' \in [Proc -> {"free", "shared", "exclusive"}]
      /\ owner' \in [File -> Proc \cup {NoProc}] /\ stackLock' \in Proc \cup {NoProc}
  <2> DEFINE Goal == /\ barrier' \in [Proc -> {"free", "shared", "exclusive"}]
                     /\ owner' \in [File -> Proc \cup {NoProc}] /\ stackLock' \in Proc \cup {NoProc}
  <2>1. /\ barrier \in [Proc -> {"free", "shared", "exclusive"}]
        /\ owner \in [File -> Proc \cup {NoProc}] /\ stackLock \in Proc \cup {NoProc}
    BY Zenon, <1>1 DEF TypeOK
  <2>2. UNCHANGED locks => Goal
    BY Zenon, <2>1 DEF locks
  <2>3. ASSUME NEW p \in Proc, Return(p) PROVE Goal
    BY Zenon, <2>1, <2>3 DEF Return
  <2>4. ASSUME NEW p \in Proc, Start(p) \/ AcquireBarrier(p) \/ AcquireFile(p) \/ StackLock(p) PROVE Goal
    BY Zenon, <2>1, <2>2, <2>4 DEF Start, StartEdit, StartWide, AcquireBarrier, AcquireFile, StackLock
  <2> QED
    BY Zenon, <1>1, <2>2, <2>3, <2>4 DEF Turns, Ends
<1> QED
  BY Zenon, <1>1, <1>2, <1>3, <1>4, <1>5, <1>6, <1>7, <1>8, <1>9 DEF Typed, TypeOK

\* And they hold initially.
LEMMA TypesInit ==
  ASSUME Init PROVE Typed
<1>1. Idle \in Job /\ Fits(Idle)
  BY CommandAssumption DEF Idle, Job, Steps, Fits, Before, Walking, Undoing, Recording
<1>2. Shape /\ job \in [Proc -> Job]
  BY Zenon, <1>1 DEF Init, Shape
<1>3. live \in [File -> Image]
  BY DEF Init, Image
<1>4. next \in 1..MaxIds + 1 /\ faults \in 0..MaxFaults
  BY CommandAssumption DEF Init
<1>5. stack \in Seq(Record)
  BY DEF Init
<1> QED
  BY Zenon, <1>2, <1>3, <1>4, <1>5 DEF Init, Typed, TypeOK

-----------------------------------------------------------------------------
(* The locks.                                                              *)

\* How a process holds the barrier.
Held(j) ==
  IF j.step \in {"idle", "barrier"} THEN "free" ELSE IF j.verb = "edit" THEN "shared" ELSE "exclusive"

\* The barrier and the lock on the undo stack.
Locked ==
  /\ \A p \in Proc : barrier[p] = Held(job[p])
  /\ \A p \in Proc : job[p].step \in {"readStack", "writeStack", "forget"} => stackLock = p
  /\ \A p, q \in Proc : p # q /\ barrier[p] = "exclusive" => barrier[q] = "free"

\* The locks are taken and released where the invariant says.
LEMMA LockedNext ==
  ASSUME Typed, Locked, [Next]_vars PROVE Locked'
<1>1. job \in [Proc -> Job] /\ barrier \in [Proc -> {"free", "shared", "exclusive"}] /\ Turns
  BY Zenon, JobsNext DEF Typed, TypeOK
<1>2. CASE UNCHANGED <<job, locks>>
  BY Zenon, <1>2 DEF Locked, locks
\* A command goes on with the locks it has.
<1>3. ASSUME NEW p \in Proc, Only(p), UNCHANGED locks, Held(job'[p]) = Held(job[p]),
             job'[p].step \in {"readStack", "writeStack", "forget"} =>
               job[p].step \in {"readStack", "writeStack", "forget"}
      PROVE Locked'
  <2>1. \A q \in Proc : q # p => job'[q] = job[q]
    BY Zenon, <1>1, <1>3 DEF Only
  <2>2. UNCHANGED <<barrier, stackLock>>
    BY Zenon, <1>3 DEF locks
  <2> QED
    BY Zenon, <1>3, <2>1, <2>2 DEF Locked
<1>4. ASSUME NEW p \in Proc, Ends(p) PROVE Locked'
  <2>1. job'[p] = Idle /\ barrier'[p] = "free" /\ Held(Idle) = "free" /\ Idle.step = "idle"
    BY <1>1, <1>4 DEF Ends, Return, Held, Idle
  <2>2. \A q \in Proc : q # p => job'[q] = job[q] /\ barrier'[q] = barrier[q]
    BY Zenon, <1>1, <1>4 DEF Ends, Return
  <2>3. \A q \in Proc : q # p /\ stackLock = q => stackLock' = q
    BY Zenon, <1>4 DEF Ends, Return
  <2> QED
    BY Zenon, <2>1, <2>2, <2>3 DEF Locked
<1>5. ASSUME NEW p \in Proc, Start(p) PROVE Locked'
  <2>1. Only(p) /\ job[p].step = "idle" /\ job'[p].step = "barrier" /\ UNCHANGED locks
    BY Zenon, <1>1, <1>5, Starts DEF Start, StartEdit, StartWide, Typed
  <2> QED
    BY Zenon, <1>3, <2>1 DEF Held
<1>6. ASSUME NEW p \in Proc, AcquireBarrier(p) PROVE Locked'
  <2>1. \E s \in {"file", "plan"} : Go(p, s)
    BY Zenon, <1>6 DEF AcquireBarrier
  <2>2. \E s \in {"file", "plan"} : Moves(p, s, job[p].idx, job[p].clash)
    BY Zenon, <1>1, <2>1, MoveKinds DEF Steps
  <2>3. Only(p) /\ job'[p].step \in {"file", "plan"} /\ job'[p].verb = job[p].verb /\ UNCHANGED stackLock
    BY Zenon, <1>6, <2>2 DEF Moves, AcquireBarrier
  <2>4. \A q \in Proc : q # p => job'[q] = job[q] /\ barrier'[q] = barrier[q]
    BY Zenon, <1>1, <1>6, <2>3 DEF Only, AcquireBarrier
  <2>5. CASE job[p].verb = "edit"
    <3>1. barrier'[p] = "shared" /\ \A q \in Proc : barrier[q] # "exclusive"
      BY Zenon, <1>1, <1>6, <2>5 DEF AcquireBarrier
    <3>2. barrier'[p] = Held(job'[p])
      BY Zenon, <2>3, <2>5, <3>1 DEF Held
    <3> QED
      BY Zenon, <2>3, <2>4, <3>1, <3>2 DEF Locked
  <2>6. CASE job[p].verb # "edit"
    <3>1. barrier'[p] = "exclusive" /\ \A q \in Proc : barrier[q] = "free"
      BY Zenon, <1>1, <1>6, <2>6 DEF AcquireBarrier
    <3>2. barrier'[p] = Held(job'[p])
      BY Zenon, <2>3, <2>6, <3>1 DEF Held
    <3>3. \A q \in Proc : q # p => barrier'[q] = "free"
      BY Zenon, <2>4, <3>1
    <3> QED
      BY Zenon, <2>3, <2>4, <3>1, <3>2, <3>3 DEF Locked
  <2> QED
    BY Zenon, <2>5, <2>6
<1>7. ASSUME NEW p \in Proc, AcquireFile(p) PROVE Locked'
  <2>1. Moves(p, "plan", job[p].idx, job[p].clash) /\ job[p].step = "file"
    BY Zenon, <1>1, <1>7, MoveKinds DEF Steps, AcquireFile, At
  <2>2. Only(p) /\ job'[p].step = "plan" /\ job'[p].verb = job[p].verb /\ UNCHANGED <<barrier, stackLock>>
    BY Zenon, <1>7, <2>1 DEF Moves, AcquireFile
  <2>3. \A q \in Proc : q # p => job'[q] = job[q]
    BY Zenon, <1>1, <2>2 DEF Only
  <2>4. Held(job'[p]) = Held(job[p])
    BY Zenon, <2>1, <2>2 DEF Held
  <2> QED
    BY Zenon, <2>2, <2>3, <2>4 DEF Locked
<1>8. ASSUME NEW p \in Proc, NEW s \in Steps, NEW i, NEW c, Moves(p, s, i, c), Allowed(p, s, i),
             UNCHANGED locks \/ StackLock(p)
      PROVE Locked'
  <2>1. Only(p) /\ job'[p].step = s /\ job'[p].verb = job[p].verb /\ Held(job'[p]) = Held(job[p])
    BY Zenon, <1>8 DEF Moves, Allowed, Follows, Held
  <2>2. CASE StackLock(p)
    <3>1. stackLock = NoProc /\ stackLock' = p /\ UNCHANGED barrier
      BY Zenon, <2>2 DEF StackLock
    <3>2. \A q \in Proc : job[q].step \notin {"readStack", "writeStack", "forget"}
      BY Zenon, <3>1, CommandAssumption DEF Locked
    <3>3. \A q \in Proc : q # p => job'[q] = job[q]
      BY Zenon, <1>1, <2>1 DEF Only
    <3> QED
      BY Zenon, <2>1, <3>1, <3>2, <3>3 DEF Locked
  <2>3. CASE ~StackLock(p)
    <3>1. s \in {"readStack", "writeStack", "forget"} => job[p].step \in {"readStack", "writeStack", "forget"}
      BY Zenon, <1>8, <2>3 DEF Allowed, Follows
    <3> QED
      BY Zenon, <1>3, <1>8, <2>1, <2>3, <3>1
  <2> QED
    BY Zenon, <2>2, <2>3
<1>9. ASSUME NEW p \in Proc, Only(p), UNCHANGED locks, job'[p].verb = job[p].verb,
             job[p].step \in {"plan", "close", "readStack"},
             job'[p].step \in {"open", "publishAll", "stackLock", "writeStack", "guard"},
             job'[p].step = "writeStack" => job[p].step = "readStack"
      PROVE Locked'
  <2>1. Held(job'[p]) = Held(job[p])
    BY Zenon, <1>9 DEF Held
  <2> QED
    BY Zenon, <1>3, <1>9, <2>1
<1> QED
  BY Zenon, <1>1, <1>2, <1>4, <1>5, <1>6, <1>7, <1>8, <1>9 DEF Turns

-----------------------------------------------------------------------------
(* The memory of a command, step by step.                                  *)

\* What the step of one process does to its memory.
JobStep(p) ==
  LET j == job[p]
      k == job'[p] IN
  \/ Ends(p) /\ k = Idle
  \/ (Start(p) \/ AcquireBarrier(p) \/ AcquireFile(p)) /\ k.step \in Before /\ k.tid = 0
  \/ \E s \in Steps, i \in 1..MaxFiles, c \in {"no", "yes"} : 
       Moves(p, s, i, c) /\ Allowed(p, s, i) /\ Does(p)
  \/ /\ Plan(p) /\ j.step = "plan" /\ j.verb # "undo" /\ k.step \in {"open", "publishAll"}
     /\ next \in Id /\ next' = next + 1 /\ k.tid = next /\ k.verb = j.verb /\ k.idx = j.idx
     /\ k.plan \in Planned(j.verb) /\ k.mem = j.mem
     /\ j.verb = "edit" => Len(k.plan) = 1 /\ k.plan[1].file = Item(p).file
     /\ "unread" \notin lapses' => \A i \in DOMAIN k.plan : k.plan[i].before = live[k.plan[i].file]
  \/ /\ j.step = "close" /\ k.step = "stackLock" /\ k.plan \in Plans
     /\ \E r \in pending : r.id = j.tid /\ SameBefore(k.plan, r.entries)
     /\ Close(p) => \A i \in DOMAIN k.plan : k.plan[i].after = live[k.plan[i].file]
     /\ k.tid = j.tid /\ k.verb = j.verb /\ k.idx = j.idx /\ k.mem = j.mem /\ k.clash = j.clash
  \/ /\ j.step = "readStack" /\ k.step = "writeStack"
     /\ \/ ReadStack(p) /\ stack # Unreadable /\ k.mem = stack
        \/ IgnoredInside(p) /\ "overlooked" \in lapses' /\ k.mem = <<>>
     /\ k.plan = j.plan /\ k.tid = j.tid /\ k.verb = j.verb /\ k.idx = j.idx /\ k.clash = j.clash
  \/ /\ Select(p) /\ j.step = "plan" /\ j.verb = "undo" /\ k.step = "guard" /\ stack # Unreadable
     /\ k.mem = stack /\ k.pos \in 1..Len(stack) /\ k.tid = stack[k.pos].id /\ k.plan = stack[k.pos].entries
     /\ lapses' = IF k.pos = Len(stack) THEN lapses ELSE lapses \cup {"byId"}
     /\ k.verb = j.verb /\ k.idx = j.idx /\ k.clash = j.clash

\* Every step is the step of one process, or leaves all of them as they are.
LEMMA JobSteps ==
  ASSUME Typed, [Next]_vars
  PROVE  \/ UNCHANGED <<job, locks>>
         \/ \E p \in Proc : (\A q \in Proc : q # p => job'[q] = job[q]) /\ JobStep(p)
<1>1. TypeOK /\ Shape /\ job \in [Proc -> Job] /\ Turns
  BY Zenon, JobsNext DEF Typed, TypeOK
<1> DEFINE Goal == \E p \in Proc : (\A q \in Proc : q # p => job'[q] = job[q]) /\ JobStep(p)
<1>2. ASSUME NEW p \in Proc, Only(p) PROVE \A q \in Proc : q # p => job'[q] = job[q]
  BY Zenon, <1>1, <1>2 DEF Only
<1>3. ASSUME NEW p \in Proc, Ends(p) PROVE Goal
  <2>1. job'[p] = Idle /\ \A q \in Proc : q # p => job'[q] = job[q]
    BY Zenon, <1>1, <1>3 DEF Ends, Return
  <2> QED
    BY Zenon, <1>3, <2>1 DEF JobStep
<1>4. ASSUME NEW p \in Proc, Start(p) PROVE Goal
  <2>1. Only(p) /\ job'[p].step \in Before /\ job'[p].tid = 0
    BY Zenon, <1>1, <1>4, Starts DEF Before
  <2> QED
    BY Zenon, <1>2, <1>4, <2>1 DEF JobStep
<1>5. ASSUME NEW p \in Proc, AcquireBarrier(p) \/ AcquireFile(p) PROVE Goal
  <2>1. \E s \in {"file", "plan"} : Go(p, s)
    BY Zenon, <1>5 DEF AcquireBarrier, AcquireFile
  <2>2. \E s \in {"file", "plan"} : Moves(p, s, job[p].idx, job[p].clash)
    BY Zenon, <1>1, <2>1, MoveKinds DEF Steps
  <2>3. job[p].tid = 0
    BY Zenon, <1>1, <1>5 DEF Shape, Fits, AcquireBarrier, AcquireFile, At, Before
  <2>4. Only(p) /\ job'[p].step \in Before /\ job'[p].tid = 0
    BY Zenon, <2>2, <2>3 DEF Moves, Before
  <2> QED
    BY Zenon, <1>2, <1>5, <2>4 DEF JobStep
<1>6. ASSUME NEW p \in Proc, NEW s \in Steps, NEW i \in 1..MaxFiles, NEW c \in {"no", "yes"},
             Moves(p, s, i, c), Allowed(p, s, i), Does(p)
      PROVE Goal
  <2>1. Only(p)
    BY Zenon, <1>6 DEF Moves
  <2> QED
    BY Zenon, <1>2, <1>6, <2>1 DEF JobStep
<1>7. ASSUME NEW p \in Proc, Plan(p), ~Return(p) PROVE Goal
  <2>1. PICK ts \in Planned(job[p].verb) : \E s \in {"open", "publishAll"} :
          /\ next \in Id /\ next' = next + 1
          /\ job[p].verb = "edit" => Len(ts) = 1 /\ ts[1].file = Item(p).file
          /\ "unread" \notin lapses' => \A i \in DOMAIN ts : ts[i].before = live[ts[i].file]
          /\ Loads(p, s, ts, next, job[p].mem, job[p].pos)
    BY Zenon, <1>1, <1>7, LoadKinds
  <2>2. Only(p) /\ job[p].step = "plan" /\ job[p].verb # "undo"
    BY Zenon, <1>7, <2>1 DEF Loads, Plan, At
  <2>3. PICK s \in {"open", "publishAll"} : Loads(p, s, ts, next, job[p].mem, job[p].pos)
    BY Zenon, <2>1
  <2>4. /\ job'[p].step \in {"open", "publishAll"} /\ job'[p].verb = job[p].verb
        /\ job'[p].plan = ts /\ job'[p].tid = next /\ job'[p].idx = job[p].idx /\ job'[p].mem = job[p].mem
    BY Zenon, <2>3 DEF Loads
  <2> QED
    BY Zenon, <1>2, <1>7, <2>1, <2>2, <2>4 DEF JobStep
<1>8. ASSUME NEW p \in Proc, Close(p) \/ (IgnoredInside(p) /\ At(p, "close")) PROVE Goal
  <2>1. \E r \in pending : \E ts \in Plans :
          /\ r.id = job[p].tid /\ SameBefore(ts, r.entries)
          /\ Loads(p, "stackLock", ts, job[p].tid, job[p].mem, job[p].pos)
          /\ Close(p) => \A i \in DOMAIN ts : ts[i].after = live[ts[i].file]
    BY Zenon, <1>1, <1>8, LoadKinds
  <2>2. PICK ts \in Plans :
          /\ \E r \in pending : r.id = job[p].tid /\ SameBefore(ts, r.entries)
          /\ Loads(p, "stackLock", ts, job[p].tid, job[p].mem, job[p].pos)
          /\ Close(p) => \A i \in DOMAIN ts : ts[i].after = live[ts[i].file]
    BY Zenon, <2>1
  <2>3. Only(p) /\ job[p].step = "close"
    BY Zenon, <1>8, <2>2 DEF Loads, Close, IgnoredInside, At
  <2> QED
    BY Zenon, <1>2, <2>2, <2>3 DEF JobStep, Loads
<1>9. ASSUME NEW p \in Proc, ReadStack(p), ~Return(p) PROVE Goal
  <2>1. stack # Unreadable /\ job[p].step = "readStack"
    BY Zenon, <1>9 DEF ReadStack, At
  <2>2. Loads(p, "writeStack", job[p].plan, job[p].tid, stack, job[p].pos)
    BY Zenon, <1>1, <1>9, <2>1, LoadKinds
  <2>3. Only(p)
    BY Zenon, <2>2 DEF Loads
  <2> QED
    BY Zenon, <1>2, <1>9, <2>1, <2>2, <2>3 DEF JobStep, Loads
<1>9a. ASSUME NEW p \in Proc, IgnoredInside(p), At(p, "readStack") PROVE Goal
  <2>1. "overlooked" \in lapses' /\ job[p].step = "readStack"
    BY Zenon, <1>9a DEF IgnoredInside, CreatedHere, At
  <2>2. Loads(p, "writeStack", job[p].plan, job[p].tid, <<>>, job[p].pos)
    BY Zenon, <1>1, <1>9a, LoadKinds
  <2>3. Only(p)
    BY Zenon, <2>2 DEF Loads
  <2> QED
    BY Zenon, <1>2, <1>9a, <2>1, <2>2, <2>3 DEF JobStep, Loads
<1>10. ASSUME NEW p \in Proc, Select(p), ~Return(p) PROVE Goal
  <2>1. stack # Unreadable /\ job[p].step = "plan" /\ job[p].verb = "undo"
    BY Zenon, <1>1, <1>10, LoadKinds DEF Select, At
  <2>2. PICK i \in 1..Len(stack) :
          /\ lapses' = IF i = Len(stack) THEN lapses ELSE lapses \cup {"byId"}
          /\ Loads(p, "guard", stack[i].entries, stack[i].id, stack, i)
    BY Zenon, <1>1, <1>10, LoadKinds
  <2>3. Only(p)
    BY Zenon, <2>2 DEF Loads
  <2> QED
    BY Zenon, <1>2, <1>10, <2>1, <2>2, <2>3 DEF JobStep, Loads
<1>11. ASSUME NEW p \in Proc, IgnoredInside(p), ~CreatedHere(p) PROVE Goal
  BY Zenon, <1>8, <1>9a, <1>11 DEF IgnoredInside
<1> QED
  BY Zenon, <1>1, <1>3, <1>4, <1>5, <1>6, <1>7, <1>8, <1>9, <1>10, <1>11 DEF Turns, Ends

-----------------------------------------------------------------------------
(* Transactions.                                                           *)

\* No two transactions have the same id.
Identified ==
  /\ \A p \in Proc : job[p].tid < next
  /\ \A p, q \in Proc : p # q /\ job[p].tid # 0 => job[p].tid # job[q].tid
  /\ \A r \in pending : r.id < next
  /\ stack # Unreadable => \A i \in 1..Len(stack) : stack[i].id < next
  /\ \A p \in Proc : job[p].step \in Undoing \cup {"writeStack"} =>
       \A i \in 1..Len(job[p].mem) : job[p].mem[i].id < next

\* A command that holds the barrier alone has no company.
LEMMA Alone ==
  ASSUME Typed, Locked, NEW p \in Proc, NEW q \in Proc, p # q,
         job[p].step \notin {"idle", "barrier"}, job[p].verb # "edit"
  PROVE  job[q].step \in {"idle", "barrier"} /\ job[q].tid = 0
<1>1. barrier[p] = "exclusive" /\ barrier[q] = "free"
  BY Zenon DEF Locked, Held
<1>2. job[q].step \in {"idle", "barrier"}
  BY Zenon, <1>1 DEF Locked, Held
<1> QED
  BY Zenon, <1>2 DEF Typed, Shape, Fits, Before

\* A new transaction takes a new id; an undo takes one from the stack while it is alone.
LEMMA IdentifiedNext ==
  ASSUME Typed, Locked, Identified, [Next]_vars PROVE Identified'
<1>1. TypeOK /\ Effects /\ job \in [Proc -> Job] /\ job' \in [Proc -> Job] /\ pending \subseteq Record
  BY Zenon, Changes, JobsNext DEF Typed, TypeOK
<1>2. /\ next \in Nat /\ next > 0
      /\ next' = next \/ next' = next + 1
  <2>1. next' = next \/ next' = next + 1
    BY Zenon, <1>1 DEF Effects, Plan
  <2> QED
    BY <1>1, <2>1, CommandAssumption DEF TypeOK
<1>3. /\ \A p \in Proc : job[p].tid \in Nat /\ job'[p].tid \in Nat
      /\ \A r \in Record : r.id \in Nat /\ r.id > 0
  BY <1>1, CommandAssumption DEF Job, Record, Id
<1>4. \A x \in Nat : x < next => x < next'
  BY <1>2
<1>5. /\ \A p \in Proc : job'[p].tid < next'
      /\ \A p, q \in Proc : p # q /\ job'[p].tid # 0 => job'[p].tid # job'[q].tid
  <2>1. CASE UNCHANGED <<job, locks>>
    BY Zenon, <1>3, <1>4, <2>1 DEF Identified
  <2>2. CASE \E p \in Proc : (\A q \in Proc : q # p => job'[q] = job[q]) /\ JobStep(p)
    <3>1. PICK p \in Proc : (\A q \in Proc : q # p => job'[q] = job[q]) /\ JobStep(p)
      BY Zenon, <2>2
    <3>2. Idle.tid = 0
      BY DEF Idle
    <3>3. ASSUME Select(p), job[p].step = "plan", job[p].verb = "undo", stack # Unreadable,
                 NEW n \in 1..Len(stack), job'[p].tid = stack[n].id
          PROVE job'[p].tid < next /\ \A q \in Proc : q # p => job[q].tid = 0
      <4>1. \A q \in Proc : q # p => job[q].tid = 0
        BY Zenon, <3>3, Alone
      <4> QED
        BY Zenon, <3>3, <4>1 DEF Identified
    <3>4. \/ job'[p].tid \in {0, job[p].tid}
          \/ job'[p].tid = next /\ next' = next + 1
          \/ job'[p].tid < next /\ \A q \in Proc : q # p => job[q].tid = 0
      BY Zenon, <3>1, <3>2, <3>3 DEF JobStep, Moves
    <3>5. job'[p].tid < next'
      BY <1>2, <1>3, <3>4 DEF Identified
    <3>6. \A q \in Proc : q # p /\ job'[p].tid # 0 => job'[p].tid # job[q].tid
      <4>1. \A q \in Proc : job[q].tid # next
        BY <1>2, <1>3 DEF Identified
      <4> QED
        BY Zenon, <3>4, <4>1 DEF Identified
    <3> QED
      BY Zenon, <1>3, <1>4, <3>1, <3>5, <3>6 DEF Identified
  <2> QED
    BY Zenon, <2>1, <2>2, JobSteps
<1>6. \A r \in pending' : r.id < next'
  <2>1. ASSUME NEW p \in Proc, Open(p) PROVE \A r \in pending' : r.id < next'
    <3>1. PICK es : pending' = pending \cup {[id |-> job[p].tid, entries |-> es]}
      BY Zenon, <2>1 DEF Open
    <3>2. [id |-> job[p].tid, entries |-> es].id = job[p].tid
      OBVIOUS
    <3> QED
      BY Zenon, <1>1, <1>3, <1>4, <3>1, <3>2 DEF Identified
  <2>2. CASE pending' \subseteq pending
    BY Zenon, <1>1, <1>3, <1>4, <2>2 DEF Identified
  <2> QED
    BY Zenon, <1>1, <2>1, <2>2 DEF Effects, WithoutPending
<1>7. stack' # Unreadable => \A i \in 1..Len(stack') : stack'[i].id < next'
  <2>1. ASSUME NEW p \in Proc, WriteStack(p) PROVE \A i \in 1..Len(stack') : stack'[i].id < next'
    <3> DEFINE m == job[p].mem
               r == [id |-> job[p].tid, entries |-> job[p].plan]
               all == Append(m, r)
    <3>1. PICK n \in 0..Len(m) :
            /\ all \in Seq(Record) /\ Len(all) = Len(m) + 1 /\ (\A k \in 1..Len(m) : all[k] = m[k])
            /\ all[Len(all)] = r /\ Len(stack') = Len(all) - n /\ \A k \in 1..Len(stack') : stack'[k] = all[n + k]
      BY Zenon, <2>1, WrittenFacts
    <3>2. m \in Seq(Record) /\ \A k \in 1..Len(m) : m[k].id < next
      BY Zenon, <1>1, <2>1 DEF Identified, WriteStack, At, Job
    <3>3. r.id < next
      BY DEF Identified
    <3> HIDE DEF m, r, all
    <3>4. Len(m) \in Nat /\ \A k \in 1..Len(all) : all[k].id < next /\ all[k] \in Record
      BY <3>1, <3>2, <3>3
    <3>5. \A k \in 1..Len(stack') : stack'[k].id < next /\ stack'[k] \in Record
      BY <3>1, <3>4
    <3> QED
      BY Zenon, <1>3, <1>4, <3>5
  <2>2. ASSUME NEW p \in Proc, Saved(p) PROVE \A i \in 1..Len(stack') : stack'[i].id < next'
    <3> DEFINE m == job[p].mem
               n == job[p].pos
    <3>1. stack' = Without(m, n) /\ job[p].step \in Undoing
      BY Zenon, <2>2 DEF Saved, At, Undoing
    <3>2. m \in Seq(Record) /\ n \in 1..Len(m) /\ \A k \in 1..Len(m) : m[k].id < next
      BY Zenon, <1>1, <3>1 DEF Typed, Shape, Fits, Job, Identified
    <3>3. Len(stack') = Len(m) - 1 /\ \A k \in 1..Len(stack') : stack'[k] = IF k < n THEN m[k] ELSE m[k + 1]
      BY Zenon, <3>1, <3>2, WithoutFacts
    <3> HIDE DEF m, n
    <3>4. \A k \in 1..Len(stack') : stack'[k].id < next /\ stack'[k] \in Record
      BY SMTT(30), <3>2, <3>3
    <3> QED
      BY Zenon, <1>3, <1>4, <3>4
  <2>3. CASE UNCHANGED stack
    <3>1. stack # Unreadable => \A i \in 1..Len(stack) : stack[i] \in Record
      BY Zenon, <1>1, ElementOfSeq DEF TypeOK
    <3> QED
      BY Zenon, <1>3, <1>4, <2>3, <3>1 DEF Identified
  <2>4. ASSUME NEW p \in Proc, Save(p) PROVE stack' = Unreadable
    BY Zenon, <2>4 DEF Save
  <2> QED
    BY Zenon, <1>1, <2>1, <2>2, <2>3, <2>4 DEF Effects
<1>8. ASSUME NEW p \in Proc, job'[p].step \in Undoing \cup {"writeStack"}
      PROVE \A i \in 1..Len(job'[p].mem) : job'[p].mem[i].id < next'
  <2>1. \/ job[p].step \in Undoing \cup {"writeStack"} /\ job'[p].mem = job[p].mem
        \/ job'[p].mem = stack /\ stack # Unreadable
        \/ job'[p].mem = <<>>
    <3>1. Idle.step = "idle"
      BY DEF Idle
    <3>2. CASE job'[p] = job[p]
      BY Zenon, <1>8, <3>2
    <3>3. ASSUME NEW s, NEW i, NEW c, Moves(p, s, i, c), Allowed(p, s, i)
          PROVE job[p].step \in Undoing \cup {"writeStack"} /\ job'[p].mem = job[p].mem
      BY Zenon, <1>8, <3>3 DEF Moves, Allowed, Follows, Undoing
    <3>4. CASE JobStep(p)
      BY Zenon, <1>8, <3>1, <3>3, <3>4 DEF JobStep, Undoing, Before
    <3> QED
      BY Zenon, <3>2, <3>4, JobSteps
  <2>2. \A i \in 1..Len(job'[p].mem) : job'[p].mem[i].id < next
    <3>1. 1..Len(<<>>) = {}
      OBVIOUS
    <3> QED
      BY Zenon, <2>1, <3>1 DEF Identified
  <2>3. \A i \in 1..Len(job'[p].mem) : job'[p].mem[i] \in Record
    BY Zenon, <1>1, ElementOfSeq DEF Job
  <2> QED
    BY Zenon, <1>3, <1>4, <2>2, <2>3
<1> QED
  BY Zenon, <1>5, <1>6, <1>7, <1>8 DEF Identified

\* Where the record of a command is in pending-<id>.json.
Logged == {"publish", "swap", "fill", "back", "backSwap", "abandon", "close"} \cup Recording

\* pending-<id>.json holds the record of a command from edit_journal_open until it
\* is closed or abandoned, with the bytes the command replaces; a symbol edit holds
\* the lock of the one file it changes.
Records ==
  /\ \A p \in Proc : job[p].step \in {"open", "publishAll"} => \A r \in pending : r.id # job[p].tid
  /\ \A p \in Proc : job[p].step \in Logged =>
       /\ \E r \in pending : r.id = job[p].tid
       /\ \A r \in pending : r.id = job[p].tid => SameBefore(r.entries, job[p].plan)
  /\ \A p \in Proc : job[p].verb = "edit" /\ job[p].step \notin {"idle", "barrier", "file"} =>
       Len(job[p].plan) = 1 /\ owner[job[p].plan[1].file] = p

\* A step of another process does not open a record under this id, nor drop the one there is.
LEMMA PendingKept ==
  ASSUME Typed, Identified, [Next]_vars
  PROVE  \/ \E p \in Proc : Open(p)
         \/ /\ pending' \subseteq pending
            /\ \A q \in Proc : job'[q].step # "idle" /\ job[q].tid # 0 =>
                 \A r \in pending : r.id = job[q].tid => r \in pending'
<1>1. Effects /\ job \in [Proc -> Job] /\ Idle.step = "idle"
  BY Zenon, Changes DEF Typed, TypeOK, Idle
<1>2. ASSUME NEW p \in Proc, pending' = WithoutPending(p), Return(p), NEW q \in Proc, job'[q].step # "idle",
             job[q].tid # 0, NEW r \in pending, r.id = job[q].tid
      PROVE r \in pending'
  <2>1. q # p
    BY Zenon, <1>1, <1>2 DEF Return
  <2> QED
    BY Zenon, <1>2, <2>1 DEF Identified, WithoutPending
<1> QED
  BY Zenon, <1>1, <1>2 DEF Effects, WithoutPending

\* Which command gets to a step that has a record, or waits for one.
LEMMA LoggedSteps ==
  ASSUME Typed, [Next]_vars, NEW q \in Proc, ~Open(q)
  PROVE  /\ job'[q].step \in {"open", "publishAll"} =>
              \/ job[q].step \in {"open", "publishAll"} /\ job'[q].tid = job[q].tid
              \/ job'[q].tid = next
         /\ job'[q].step \in Logged =>
              /\ job[q].step \in Logged /\ job'[q].tid = job[q].tid
              /\ \/ job'[q].plan = job[q].plan
                 \/ \E r \in pending : r.id = job[q].tid /\ SameBefore(job'[q].plan, r.entries)
<1>1. Idle.step = "idle"
  BY DEF Idle
<1>2. ASSUME NEW s, NEW i, NEW c, Moves(q, s, i, c), Allowed(q, s, i)
      PROVE /\ job'[q].step = s /\ job'[q].tid = job[q].tid /\ job'[q].plan = job[q].plan
            /\ s \in {"open", "publishAll"} => job[q].step \in {"open", "publishAll"}
            /\ s \in Logged => job[q].step \in Logged
  BY Zenon, <1>2 DEF Moves, Allowed, Follows, Logged, Recording
<1>3. CASE JobStep(q)
  BY Zenon, <1>1, <1>2, <1>3 DEF JobStep, Before, Logged, Recording
<1> QED
  BY Zenon, <1>3, JobSteps

\* A record is opened under a new id and stays until its command has ended.
LEMMA LogsNext ==
  ASSUME Typed, Identified, Records, [Next]_vars, NEW q \in Proc
  PROVE  /\ job'[q].step \in {"open", "publishAll"} => \A r \in pending' : r.id # job'[q].tid
         /\ job'[q].step \in Logged =>
              /\ \E r \in pending' : r.id = job'[q].tid
              /\ \A r \in pending' : r.id = job'[q].tid => SameBefore(r.entries, job'[q].plan)
<1>1. job \in [Proc -> Job] /\ pending \subseteq Record /\ Shape
  BY Zenon DEF Typed, TypeOK
<1>2. \A r \in pending : r.id # next
  <2>1. \A r \in Record : r.id \in Nat
    BY CommandAssumption DEF Record, Id
  <2>2. next \in Nat
    BY DEF Typed, TypeOK
  <2> QED
    BY <1>1, <2>1, <2>2 DEF Identified
<1>3. job[q].step \in Logged => job[q].tid # 0
  BY Zenon, <1>1 DEF Shape, Fits, Logged, Recording, Before
<1>4. ASSUME NEW p \in Proc, Open(p)
      PROVE  /\ job'[q].step \in {"open", "publishAll"} => \A r \in pending' : r.id # job'[q].tid
             /\ job'[q].step \in Logged =>
                  /\ \E r \in pending' : r.id = job'[q].tid
                  /\ \A r \in pending' : r.id = job'[q].tid => SameBefore(r.entries, job'[q].plan)
  <2>1. PICK es \in Plans : /\ SameBefore(es, job[p].plan)
                            /\ pending' = pending \cup {[id |-> job[p].tid, entries |-> es]}
    BY Zenon, <1>4, OpenedFacts
  <2> DEFINE r0 == [id |-> job[p].tid, entries |-> es]
  <2>2. r0.id = job[p].tid /\ r0.entries = es
    OBVIOUS
  <2> HIDE DEF r0
  <2>3. pending' = pending \cup {r0}
    BY Zenon, <2>1 DEF r0
  <2>4. job[p].step = "open" /\ \E s \in {"close", "publish"} : Go(p, s)
    BY Zenon, <1>4 DEF Open, At
  <2>5. \E s \in {"close", "publish"} : Moves(p, s, job[p].idx, job[p].clash)
    BY Zenon, <1>1, <2>4, MoveKinds DEF Steps
  <2>6. /\ job'[p].step \in {"close", "publish"} /\ job'[p].tid = job[p].tid /\ job'[p].plan = job[p].plan
        /\ Only(p)
    BY Zenon, <2>5 DEF Moves
  <2>7. job[p].tid # 0
    BY Zenon, <1>1, <2>4 DEF Shape, Fits, Before
  <2>8. CASE q = p
    BY Zenon, <2>1, <2>2, <2>3, <2>4, <2>6, <2>8 DEF Records
  <2>9. CASE q # p
    <3>1. job'[q] = job[q] /\ job[q].tid # job[p].tid
      BY Zenon, <1>1, <2>6, <2>7, <2>9 DEF Only, Identified
    <3>2. /\ job[q].step \in {"open", "publishAll"} => \A r \in pending : r.id # job[q].tid
          /\ job[q].step \in Logged =>
               /\ \E r \in pending : r.id = job[q].tid
               /\ \A r \in pending : r.id = job[q].tid => SameBefore(r.entries, job[q].plan)
      BY Zenon DEF Records
    <3>3. \A r \in pending' : r.id = job[q].tid => r \in pending
      BY Zenon, <2>2, <2>3, <3>1
    <3> QED
      BY Zenon, <2>3, <3>1, <3>2, <3>3
  <2> QED
    BY Zenon, <2>8, <2>9
<1>5. CASE ~\E p \in Proc : Open(p)
  <2>1. /\ pending' \subseteq pending
        /\ \A r \in pending : job'[q].step # "idle" /\ job[q].tid # 0 /\ r.id = job[q].tid => r \in pending'
    BY Zenon, <1>5, PendingKept
  <2>2. ASSUME job'[q].step \in {"open", "publishAll"} PROVE \A r \in pending' : r.id # job'[q].tid
    <3>1. \/ job[q].step \in {"open", "publishAll"} /\ job'[q].tid = job[q].tid
          \/ job'[q].tid = next
      BY Zenon, <1>5, <2>2, LoggedSteps
    <3>2. \A r \in pending : r.id # job'[q].tid
      <4>1. CASE job[q].step \in {"open", "publishAll"} /\ job'[q].tid = job[q].tid
        BY Zenon, <4>1 DEF Records
      <4> QED
        BY Zenon, <1>2, <3>1, <4>1
    <3> QED
      BY Zenon, <2>1, <3>2
  <2>3. ASSUME job'[q].step \in Logged
        PROVE /\ \E r \in pending' : r.id = job'[q].tid
              /\ \A r \in pending' : r.id = job'[q].tid => SameBefore(r.entries, job'[q].plan)
    <3>1. /\ job[q].step \in Logged /\ job'[q].tid = job[q].tid
          /\ \/ job'[q].plan = job[q].plan
             \/ \E r \in pending : r.id = job[q].tid /\ SameBefore(job'[q].plan, r.entries)
      BY Zenon, <1>5, <2>3, LoggedSteps
    <3>2. job'[q].step # "idle"
      BY Zenon, <2>3 DEF Logged, Recording
    <3>3. \E r \in pending' : r.id = job'[q].tid
      <4>1. PICK r \in pending : r.id = job[q].tid
        BY Zenon, <3>1 DEF Records
      <4> QED
        BY Zenon, <1>3, <2>1, <3>1, <3>2, <4>1
    <3>4. ASSUME NEW r \in pending', r.id = job'[q].tid PROVE SameBefore(r.entries, job'[q].plan)
      <4>1. r \in pending /\ SameBefore(r.entries, job[q].plan)
        BY Zenon, <2>1, <3>1, <3>4 DEF Records
      <4>2. ASSUME NEW r1 \in pending, r1.id = job[q].tid, SameBefore(job'[q].plan, r1.entries)
            PROVE SameBefore(r.entries, job'[q].plan)
        <5>1. SameBefore(r1.entries, job[q].plan)
          BY Zenon, <3>1, <4>2 DEF Records
        <5> QED
          BY Zenon, <4>1, <4>2, <5>1 DEF SameBefore
      <4> QED
        BY Zenon, <3>1, <4>1, <4>2
    <3> QED
      BY Zenon, <3>3, <3>4
  <2> QED
    BY Zenon, <2>2, <2>3
<1> QED
  BY Zenon, <1>4, <1>5

\* The lock on a file stays with its command.
LEMMA OwnersKept ==
  ASSUME Typed, [Next]_vars, NEW q \in Proc, NEW f \in File, owner[f] = q, ~Return(q)
  PROVE  owner'[f] = q
<1>1. Turns /\ owner \in [File -> Proc \cup {NoProc}] /\ q # NoProc
  BY Zenon, JobsNext, CommandAssumption DEF Typed, TypeOK
<1>2. UNCHANGED locks => UNCHANGED owner
  BY Zenon DEF locks
<1>3. ASSUME NEW p \in Proc, Start(p) \/ AcquireBarrier(p) \/ StackLock(p) PROVE UNCHANGED owner
  BY Zenon, <1>2, <1>3 DEF Start, StartEdit, StartWide, AcquireBarrier, StackLock
<1>4. ASSUME NEW p \in Proc, AcquireFile(p) PROVE owner'[f] = q
  BY Zenon, <1>1, <1>4 DEF AcquireFile
<1>5. ASSUME NEW p \in Proc, Ends(p) PROVE owner'[f] = q
  BY Zenon, <1>1, <1>5 DEF Ends, Return
<1> QED
  BY Zenon, <1>1, <1>2, <1>3, <1>4, <1>5 DEF Turns

\* An edit owns the file it changes.
LEMMA OwnsNext ==
  ASSUME Typed, Records, [Next]_vars, NEW q \in Proc, job'[q].verb = "edit",
         job'[q].step \notin {"idle", "barrier", "file"}
  PROVE  Len(job'[q].plan) = 1 /\ owner'[job'[q].plan[1].file] = q
<1> DEFINE Mine == Len(job[q].plan) = 1 /\ owner[job[q].plan[1].file] = q
<1>1. Shape /\ job \in [Proc -> Job] /\ job' \in [Proc -> Job] /\ Shape' /\ Idle.step = "idle"
  BY Zenon, JobsNext DEF Typed, TypeOK, Idle
<1>2. ~Return(q) /\ ~Ends(q)
  BY Zenon, <1>1 DEF Ends, Return
<1>3. ASSUME NEW ts \in Plans, Len(ts) = 1, owner[ts[1].file] = q PROVE owner'[ts[1].file] = q
  <2>1. ts[1].file \in File
    BY <1>3, PlanFacts DEF Transition
  <2> QED
    BY Zenon, <1>2, <1>3, <2>1, OwnersKept
<1>4. ASSUME job[q].verb = "edit", job[q].step \notin {"idle", "barrier", "file"}
      PROVE Mine /\ job[q].plan \in Plans /\ owner'[job[q].plan[1].file] = q
  <2>1. Mine /\ job[q].plan \in Plans
    BY Zenon, <1>1, <1>4 DEF Records, Shape, Fits
  <2> QED
    BY Zenon, <1>3, <2>1
<1>5. CASE job'[q] = job[q]
  BY Zenon, <1>4, <1>5
<1>6. CASE Start(q) \/ AcquireBarrier(q)
  <2>1. job'[q].step \in {"barrier", "file"} \/ job'[q].verb # "edit"
    <3>1. CASE Start(q)
      BY Zenon, <1>1, <3>1, Starts
    <3>2. CASE AcquireBarrier(q)
      <4>1. \E s \in {"file", "plan"} : Go(q, s) /\ (s = "plan" => job[q].verb # "edit")
        BY Zenon, <3>2 DEF AcquireBarrier
      <4>2. PICK s \in {"file", "plan"} : Go(q, s) /\ (s = "plan" => job[q].verb # "edit")
        BY Zenon, <4>1
      <4>3. Moves(q, s, job[q].idx, job[q].clash)
        BY Zenon, <1>1, <4>2, MoveKinds DEF Steps
      <4> QED
        BY Zenon, <4>2, <4>3 DEF Moves
    <3> QED
      BY Zenon, <1>6, <3>1, <3>2
  <2> QED
    BY Zenon, <2>1
<1>7. CASE AcquireFile(q)
  <2>1. Moves(q, "plan", job[q].idx, job[q].clash) /\ job[q].step = "file"
    BY Zenon, <1>1, <1>7, MoveKinds DEF AcquireFile, At, Steps
  <2>2. job'[q].plan = job[q].plan /\ job[q].verb = "edit"
    BY Zenon, <2>1 DEF Moves
  <2>3. Len(job[q].plan) = 1 /\ job[q].idx = 1 /\ job[q].plan \in Plans
    BY Zenon, <1>1, <2>1, <2>2 DEF Shape, Fits, Recording
  <2>4. job[q].plan[1].file \in File
    BY <2>3, PlanFacts DEF Transition
  <2>5. owner' = [owner EXCEPT ![job[q].plan[1].file] = q] /\ owner \in [File -> Proc \cup {NoProc}]
    BY Zenon, <1>7, <2>3 DEF AcquireFile, Item, Typed, TypeOK
  <2> QED
    BY Zenon, <2>2, <2>3, <2>4, <2>5
<1>8. ASSUME NEW s, NEW i, NEW c, Moves(q, s, i, c), Allowed(q, s, i)
      PROVE Len(job'[q].plan) = 1 /\ owner'[job'[q].plan[1].file] = q
  BY Zenon, <1>4, <1>8 DEF Moves, Allowed, Follows
<1>9. ASSUME job[q].step = "plan", job'[q].verb = job[q].verb, Len(job'[q].plan) = 1,
             job'[q].plan[1].file = Item(q).file
      PROVE Len(job'[q].plan) = 1 /\ owner'[job'[q].plan[1].file] = q
  <2>1. job[q].idx = 1
    BY Zenon, <1>1, <1>9 DEF Shape, Fits
  <2> QED
    BY Zenon, <1>4, <1>9, <2>1 DEF Item
<1>10. ASSUME job[q].step = "close", job'[q].verb = job[q].verb, job'[q].plan \in Plans,
              NEW r \in pending, r.id = job[q].tid, SameBefore(job'[q].plan, r.entries)
       PROVE Len(job'[q].plan) = 1 /\ owner'[job'[q].plan[1].file] = q
  <2>1. Mine /\ job[q].plan \in Plans /\ owner'[job[q].plan[1].file] = q
    BY Zenon, <1>4, <1>10
  <2>2. SameBefore(r.entries, job[q].plan)
    BY Zenon, <1>10 DEF Records, Logged
  <2>3. DOMAIN job'[q].plan = DOMAIN job[q].plan /\ \A i \in DOMAIN job[q].plan : job'[q].plan[i].file = job[q].plan[i].file
    BY Zenon, <1>10, <2>2 DEF SameBefore
  <2>4. DOMAIN job[q].plan = 1..1 /\ Len(job'[q].plan) = 1
    BY <1>10, <2>1, <2>3, PlanFacts
  <2> QED
    BY <2>1, <2>3, <2>4
<1>11. CASE JobStep(q)
  BY Zenon, <1>2, <1>4, <1>6, <1>7, <1>8, <1>9, <1>10, <1>11 DEF JobStep
<1> QED
  BY Zenon, <1>5, <1>11, JobSteps

\* The pending records and the file locks stay with the commands they belong to.
LEMMA RecordsNext ==
  ASSUME Typed, Identified, Records, [Next]_vars PROVE Records'
BY Zenon, LogsNext, OwnsNext DEF Records
=============================================================================
