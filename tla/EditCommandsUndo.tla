-------------------------- MODULE EditCommandsUndo --------------------------
(***************************************************************************)
(* What makes the latest transaction of EditCommands reversible: two more  *)
(* layers on the inductive invariant of EditCommandsProofs.                *)
(*                                                                         *)
(*   Pictures    which files of its plan a command has written             *)
(*   Linked      the images in the undo stack meet, one transaction after  *)
(*               another, and the newest ones are what the files contain   *)
(***************************************************************************)
EXTENDS EditCommandsProofs

-----------------------------------------------------------------------------
(* The undo stack as a chain of images.                                    *)

Names(ts, f) == \E i \in DOMAIN ts : ts[i].file = f

\* The newest of the first n transactions of the stack s that changes f leaves v there.
EndsAt(s, n, f, v) ==
  \A k \in 1..n : \A i \in DOMAIN s[k].entries :
    s[k].entries[i].file = f /\ (\A m \in k + 1..n : ~Names(s[m].entries, f)) => s[k].entries[i].after = v

\* Every transaction began where the one before it ended.
Chain(s) ==
  \A k \in 1..Len(s) : \A i \in DOMAIN s[k].entries :
    EndsAt(s, k - 1, s[k].entries[i].file, s[k].entries[i].before)

\* The oldest transactions may go.
LEMMA EndsShift ==
  ASSUME NEW s, NEW t, NEW a \in Nat, NEW n \in Nat, \A k \in 1..n : t[k] = s[a + k],
         NEW f, NEW v
  PROVE  EndsAt(s, a + n, f, v) => EndsAt(t, n, f, v)
<1> SUFFICES ASSUME EndsAt(s, a + n, f, v), NEW k \in 1..n, NEW i \in DOMAIN t[k].entries, t[k].entries[i].file = f,
                    \A m \in k + 1..n : ~Names(t[m].entries, f)
             PROVE  t[k].entries[i].after = v
  BY Zenon DEF EndsAt
<1>1. a + k \in 1..a + n /\ t[k] = s[a + k]
  BY SMTT(30)
<1>2. ASSUME NEW m \in (a + k) + 1..a + n PROVE ~Names(s[m].entries, f)
  <2>1. m - a \in k + 1..n /\ m - a \in 1..n /\ a + (m - a) = m
    BY SMTT(30), <1>2
  <2> QED
    BY Zenon, <2>1
<1> QED
  BY Zenon, <1>1, <1>2 DEF EndsAt

\* The newest transaction may go for the files it does not change.
LEMMA EndsBefore ==
  ASSUME NEW s, NEW n \in Nat, n >= 1, NEW f, ~Names(s[n].entries, f), NEW v
  PROVE  EndsAt(s, n, f, v) => EndsAt(s, n - 1, f, v)
<1> SUFFICES ASSUME EndsAt(s, n, f, v), NEW k \in 1..n - 1, NEW i \in DOMAIN s[k].entries, s[k].entries[i].file = f,
                    \A m \in k + 1..n - 1 : ~Names(s[m].entries, f)
             PROVE  s[k].entries[i].after = v
  BY Zenon DEF EndsAt
<1>1. k \in 1..n /\ \A m \in k + 1..n : m = n \/ m \in k + 1..n - 1
  BY SMTT(30)
<1>2. \A m \in k + 1..n : ~Names(s[m].entries, f)
  BY Zenon, <1>1
<1> QED
  BY Zenon, <1>1, <1>2 DEF EndsAt

\* A new transaction matters only to the files it changes.
LEMMA EndsAfter ==
  ASSUME NEW s, NEW n \in Nat, n >= 1, NEW f, ~Names(s[n].entries, f), NEW v
  PROVE  EndsAt(s, n - 1, f, v) => EndsAt(s, n, f, v)
<1> SUFFICES ASSUME EndsAt(s, n - 1, f, v), NEW k \in 1..n, NEW i \in DOMAIN s[k].entries, s[k].entries[i].file = f,
                    \A m \in k + 1..n : ~Names(s[m].entries, f)
             PROVE  s[k].entries[i].after = v
  BY Zenon DEF EndsAt
<1>1. k # n
  BY Zenon DEF Names
<1>2. k \in 1..n - 1 /\ \A m \in k + 1..n - 1 : m \in k + 1..n
  BY SMTT(30), <1>1
<1> QED
  BY Zenon, <1>2 DEF EndsAt

\* What the newest transaction leaves is the last of its file.
LEMMA EndsHere ==
  ASSUME NEW s, NEW n \in Nat, n >= 1, s[n].entries \in Plans, NEW i \in DOMAIN s[n].entries
  PROVE  EndsAt(s, n, s[n].entries[i].file, s[n].entries[i].after)
<1> DEFINE f == s[n].entries[i].file
<1> SUFFICES ASSUME NEW k \in 1..n, NEW j \in DOMAIN s[k].entries, s[k].entries[j].file = f,
                    \A m \in k + 1..n : ~Names(s[m].entries, f)
             PROVE  s[k].entries[j].after = s[n].entries[i].after
  BY Zenon DEF EndsAt
<1>1. k # n => n \in k + 1..n
  BY SMTT(30)
<1>2. Names(s[n].entries, f)
  BY Zenon DEF Names
<1>3. k = n
  BY Zenon, <1>1, <1>2
<1>4. Distinct(s[n].entries)
  BY Zenon, PlanFacts
<1> QED
  BY Zenon, <1>3, <1>4 DEF Distinct

\* And the other way round.
LEMMA EndsLast ==
  ASSUME NEW s, NEW n \in Nat, n >= 1, NEW i \in DOMAIN s[n].entries, NEW v,
         EndsAt(s, n, s[n].entries[i].file, v)
  PROVE  s[n].entries[i].after = v
<1>1. n \in 1..n /\ \A m \in n + 1..n : FALSE
  BY SMTT(30)
<1> QED
  BY Zenon, <1>1 DEF EndsAt

\* A part of a chain is a chain.
LEMMA ChainPart ==
  ASSUME NEW s, NEW t, NEW a \in Nat, Len(s) \in Nat, Len(t) \in Nat, a + Len(t) <= Len(s),
         \A k \in 1..Len(t) : t[k] = s[a + k], Chain(s)
  PROVE  Chain(t)
<1> SUFFICES ASSUME NEW k \in 1..Len(t), NEW i \in DOMAIN t[k].entries
             PROVE  EndsAt(t, k - 1, t[k].entries[i].file, t[k].entries[i].before)
  BY Zenon DEF Chain
<1>0. PICK n : n = k - 1
  BY Zenon
<1>1. a + k \in 1..Len(s) /\ n \in Nat /\ a + n = (a + k) - 1 /\ \A l \in 1..n : l \in 1..Len(t)
  BY SMTT(30), <1>0
<1>2. t[k] = s[a + k]
  BY Zenon
<1>3. EndsAt(s, (a + k) - 1, s[a + k].entries[i].file, s[a + k].entries[i].before)
  BY Zenon, <1>1, <1>2 DEF Chain
<1>4. EndsAt(s, a + n, t[k].entries[i].file, t[k].entries[i].before)
  BY Zenon, <1>1, <1>2, <1>3
<1>5. \A l \in 1..n : t[l] = s[a + l]
  BY Zenon, <1>1
<1>6. ASSUME NEW f, NEW v PROVE EndsAt(s, a + n, f, v) => EndsAt(t, n, f, v)
  BY Zenon, <1>1, <1>5, EndsShift
<1> QED
  BY Zenon, <1>0, <1>4, <1>6

\* The stack keeps its images when it is copied or continued.
LEMMA EndsSame ==
  ASSUME NEW s, NEW t, NEW n \in Nat, \A k \in 1..n : t[k] = s[k], NEW f, NEW v
  PROVE  EndsAt(s, n, f, v) => EndsAt(t, n, f, v)
<1>1. 0 \in Nat /\ 0 + n = n /\ \A k \in 1..n : 0 + k = k
  BY SMTT(30)
<1>2. \A k \in 1..n : t[k] = s[0 + k]
  BY Zenon, <1>1
<1>3. EndsAt(s, 0 + n, f, v) => EndsAt(t, n, f, v)
  BY Zenon, <1>1, <1>2, EndsShift
<1> QED
  BY Zenon, <1>1, <1>3

\* A transaction that begins where the stack ends continues the chain.
LEMMA ChainMore ==
  ASSUME NEW s, NEW t, Len(s) \in Nat, Len(t) = Len(s) + 1, \A k \in 1..Len(s) : t[k] = s[k], Chain(s),
         \A i \in DOMAIN t[Len(t)].entries :
           EndsAt(s, Len(s), t[Len(t)].entries[i].file, t[Len(t)].entries[i].before)
  PROVE  Chain(t)
<1> SUFFICES ASSUME NEW k \in 1..Len(t), NEW i \in DOMAIN t[k].entries
             PROVE  EndsAt(t, k - 1, t[k].entries[i].file, t[k].entries[i].before)
  BY Zenon DEF Chain
<1>1. k - 1 \in Nat /\ (k = Len(t) => k - 1 = Len(s)) /\ (k # Len(t) => k \in 1..Len(s))
  BY SMTT(30)
<1>2. \A l \in 1..k - 1 : l \in 1..Len(s)
  BY SMTT(30)
<1>3. EndsAt(s, k - 1, t[k].entries[i].file, t[k].entries[i].before)
  <2>1. CASE k = Len(t)
    BY Zenon, <1>1, <2>1
  <2>2. CASE k # Len(t)
    <3>1. k \in 1..Len(s) /\ t[k] = s[k]
      BY Zenon, <1>1, <2>2
    <3> QED
      BY Zenon, <3>1 DEF Chain
  <2> QED
    BY Zenon, <2>1, <2>2
<1>4. \A l \in 1..k - 1 : t[l] = s[l]
  BY Zenon, <1>2
<1>5. ASSUME NEW f, NEW v PROVE EndsAt(s, k - 1, f, v) => EndsAt(t, k - 1, f, v)
  BY Zenon, <1>1, <1>4, EndsSame
<1> QED
  BY Zenon, <1>3, <1>5

-----------------------------------------------------------------------------
(* The files of a plan.                                                    *)

\* The files of a plan as the command found them, and as it leaves them.
Pictured(j) ==
  \A i \in DOMAIN j.plan :
    /\ j.step \in {"publish", "swap"} /\ i < j.idx => live[j.plan[i].file] = j.plan[i].after
    /\ j.step \in {"back", "backSwap"} /\ i <= j.idx => live[j.plan[i].file] = j.plan[i].after
    /\ j.step \in {"back", "backSwap"} /\ i > j.idx => live[j.plan[i].file] = j.plan[i].before
    /\ j.step = "abandon" => live[j.plan[i].file] = j.plan[i].before
    /\ j.step \in {"stackLock", "readStack", "writeStack"} => live[j.plan[i].file] = j.plan[i].after

\* So it is in the ordinary course.
Pictures == lapses = {} => \A p \in Proc : Pictured(job[p])

\* The steps at which it says something.
Shown == {"publish", "swap", "back", "backSwap", "abandon", "stackLock", "readStack", "writeStack"}

\* The position of a command in its plan, as numbers.
LEMMA Positions ==
  ASSUME Typed, NEW q \in Proc, job[q].step \notin Before
  PROVE  /\ job[q].idx \in Nat /\ job[q].idx >= 1 /\ DOMAIN job[q].plan \subseteq Nat
         /\ \A i \in DOMAIN job[q].plan : i >= 1 /\ i <= Len(job[q].plan)
         /\ \A i, j \in DOMAIN job[q].plan : i # j => job[q].plan[i].file # job[q].plan[j].file
<1>1. job[q].plan \in Plans /\ job[q].idx \in DOMAIN job[q].plan
  BY Zenon, ItemFacts
<1>2. /\ Len(job[q].plan) \in Nat /\ DOMAIN job[q].plan = 1..Len(job[q].plan) /\ Distinct(job[q].plan)
  BY <1>1, PlanFacts, CommandAssumption
<1>3. /\ job[q].idx \in Nat /\ job[q].idx >= 1 /\ DOMAIN job[q].plan \subseteq Nat
      /\ \A i \in DOMAIN job[q].plan : i >= 1 /\ i <= Len(job[q].plan)
  BY SMTT(30), <1>1, <1>2
<1>4. \A i, j \in DOMAIN job[q].plan : i # j => job[q].plan[i].file # job[q].plan[j].file
  BY Zenon, <1>2 DEF Distinct
<1> QED
  BY Zenon, <1>3, <1>4

\* A publication that fails: what is behind is published, what is ahead is not.
LEMMA PicturedFail ==
  ASSUME Typed, Fresh, lapses = {}, NEW q \in Proc, job[q].step \in {"publish", "swap"}, Pictured(job[q]),
         FailPublish(q), \A i \in DOMAIN job[q].plan : live'[job[q].plan[i].file] = live[job[q].plan[i].file]
  PROVE  Pictured(job[q])'
<1> DEFINE j == job[q]
           k == job'[q]
<1>1. job \in [Proc -> Job] /\ Idle.step = "idle" /\ j.step \notin Before
  BY Zenon DEF Typed, TypeOK, Idle, Before
<1>2. CASE j.idx = 1
  <2>1. k.step = "idle"
    BY Zenon, <1>1, <1>2 DEF FailPublish, Return
  <2> QED
    BY Zenon, <2>1 DEF Pictured
<1>3. CASE j.idx # 1
  <2>1. Moves(q, "back", j.idx - 1, j.clash)
    BY Zenon, <1>1, <1>3, MoveKinds
  <2>2. k.step = "back" /\ k.idx = j.idx - 1 /\ k.plan = j.plan
    BY Zenon, <2>1 DEF Moves
  <2>3. \A i \in DOMAIN j.plan : (i <= j.idx - 1 <=> i < j.idx) /\ (i > j.idx - 1 <=> i >= j.idx)
    BY SMTT(30), <1>1, Positions
  <2>4. \A i \in DOMAIN j.plan : i >= j.idx => live[j.plan[i].file] = j.plan[i].before
    BY Zenon DEF Fresh, Unwritten
  <2>5. \A i \in DOMAIN j.plan : i < j.idx => live[j.plan[i].file] = j.plan[i].after
    BY Zenon DEF Pictured
  <2>6. \A i \in DOMAIN k.plan :
          /\ i <= k.idx => live'[k.plan[i].file] = k.plan[i].after
          /\ i > k.idx => live'[k.plan[i].file] = k.plan[i].before
    BY Zenon, <2>2, <2>3, <2>4, <2>5
  <2> QED
    BY Zenon, <2>2, <2>6 DEF Pictured
<1> QED
  BY Zenon, <1>2, <1>3

\* A publication.
LEMMA PicturedOn ==
  ASSUME Typed, NEW q \in Proc, job[q].step \in {"publish", "swap"}, Pictured(job[q]), Advance(q),
         live' = [live EXCEPT ![Item(q).file] = Item(q).after]
  PROVE  Pictured(job[q])'
<1> DEFINE j == job[q]
           k == job'[q]
<1>1. /\ job \in [Proc -> Job] /\ j.step \notin Before /\ live \in [File -> Image]
      /\ Item(q).file \in File /\ j.plan \in Plans /\ j.idx \in DOMAIN j.plan
  BY Zenon, ItemFacts DEF Typed, TypeOK, Before
<1>2. CASE ~(j.idx < Len(j.plan))
  <2>1. Moves(q, "close", 1, j.clash)
    BY Zenon, <1>1, <1>2, MoveKinds
  <2>2. k.step = "close"
    BY Zenon, <2>1 DEF Moves
  <2> QED
    BY Zenon, <2>2 DEF Pictured
<1>3. CASE j.idx < Len(j.plan)
  <2>1. Moves(q, "publish", j.idx + 1, j.clash)
    BY Zenon, <1>1, <1>3, MoveKinds
  <2>2. k.step = "publish" /\ k.idx = j.idx + 1 /\ k.plan = j.plan
    BY Zenon, <2>1 DEF Moves
  <2>3. \A i \in DOMAIN j.plan : i < j.idx + 1 => i = j.idx \/ (i # j.idx /\ i < j.idx)
    BY SMTT(30), <1>1, Positions
  <2>4. live'[j.plan[j.idx].file] = j.plan[j.idx].after
    BY Zenon, <1>1 DEF Item
  <2>5. \A i \in DOMAIN j.plan : i # j.idx => live'[j.plan[i].file] = live[j.plan[i].file]
    <3>1. \A i \in DOMAIN j.plan : i # j.idx => j.plan[i].file # Item(q).file
      BY Zenon, <1>1, Positions DEF Item
    <3>2. \A i \in DOMAIN j.plan : j.plan[i].file \in File
      BY Zenon, <1>1, PlanFacts DEF Transition
    <3> QED
      BY Zenon, <1>1, <3>1, <3>2
  <2>6. \A i \in DOMAIN j.plan : i < j.idx => live[j.plan[i].file] = j.plan[i].after
    BY Zenon DEF Pictured
  <2>7. \A i \in DOMAIN k.plan : i < k.idx => live'[k.plan[i].file] = k.plan[i].after
    BY Zenon, <2>2, <2>3, <2>4, <2>5, <2>6
  <2> QED
    BY Zenon, <2>2, <2>7 DEF Pictured
<1> QED
  BY Zenon, <1>2, <1>3

\* A file is taken back.
LEMMA PicturedBack ==
  ASSUME Typed, NEW q \in Proc, job[q].step \in {"back", "backSwap"}, Pictured(job[q]),
         NEW c \in {"no", "yes"}, NextBack(q, c), live'[Item(q).file] = Item(q).before,
         \A f \in File : f # Item(q).file => live'[f] = live[f]
  PROVE  Pictured(job[q])'
<1> DEFINE j == job[q]
           k == job'[q]
<1>1. job \in [Proc -> Job] /\ j.step \notin Before /\ j.plan \in Plans /\ j.idx \in DOMAIN j.plan
  BY Zenon, ItemFacts DEF Typed, TypeOK, Before
<1>2. \A i \in DOMAIN j.plan : i # j.idx => live'[j.plan[i].file] = live[j.plan[i].file]
  <2>1. \A i \in DOMAIN j.plan : i # j.idx => j.plan[i].file # Item(q).file
    BY Zenon, <1>1, Positions DEF Item
  <2>2. \A i \in DOMAIN j.plan : j.plan[i].file \in File
    BY Zenon, <1>1, PlanFacts DEF Transition
  <2> QED
    BY Zenon, <2>1, <2>2
<1>3. live'[j.plan[j.idx].file] = j.plan[j.idx].before
  BY Zenon DEF Item
<1>4. \A i \in DOMAIN j.plan : /\ i <= j.idx => live[j.plan[i].file] = j.plan[i].after
                               /\ i > j.idx => live[j.plan[i].file] = j.plan[i].before
  BY Zenon DEF Pictured
<1>5. CASE j.idx > 1
  <2>1. Moves(q, "back", j.idx - 1, c)
    BY Zenon, <1>1, <1>5, MoveKinds
  <2>2. k.step = "back" /\ k.idx = j.idx - 1 /\ k.plan = j.plan
    BY Zenon, <2>1 DEF Moves
  <2>3. \A i \in DOMAIN j.plan : /\ i <= j.idx - 1 => i # j.idx /\ i <= j.idx
                                 /\ i > j.idx - 1 => i = j.idx \/ (i # j.idx /\ i > j.idx)
    BY SMTT(30), <1>1, Positions
  <2>4. \A i \in DOMAIN j.plan : i <= j.idx - 1 => live'[j.plan[i].file] = j.plan[i].after
    BY Zenon, <1>2, <1>4, <2>3
  <2>5. ASSUME NEW i \in DOMAIN j.plan, i > j.idx - 1 PROVE live'[j.plan[i].file] = j.plan[i].before
    <3>1. CASE i = j.idx
      BY Zenon, <1>3, <3>1
    <3>2. CASE i # j.idx /\ i > j.idx
      BY Zenon, <1>2, <1>4, <3>2
    <3> QED
      BY Zenon, <2>3, <2>5, <3>1, <3>2
  <2> QED
    BY Zenon, <2>2, <2>4, <2>5 DEF Pictured
<1>6. CASE ~(j.idx > 1)
  <2>1. Moves(q, "abandon", j.idx, c)
    BY Zenon, <1>1, <1>6, MoveKinds
  <2>2. k.step = "abandon" /\ k.plan = j.plan
    BY Zenon, <2>1 DEF Moves
  <2>3. \A i \in DOMAIN j.plan : i = j.idx \/ (i # j.idx /\ i > j.idx)
    BY SMTT(30), <1>1, <1>6, Positions
  <2>4. ASSUME NEW i \in DOMAIN j.plan PROVE live'[j.plan[i].file] = j.plan[i].before
    <3>1. CASE i = j.idx
      BY Zenon, <1>3, <3>1
    <3>2. CASE i # j.idx /\ i > j.idx
      BY Zenon, <1>2, <1>4, <3>2
    <3> QED
      BY Zenon, <2>3, <3>1, <3>2
  <2> QED
    BY Zenon, <2>2, <2>4 DEF Pictured
<1> QED
  BY Zenon, <1>5, <1>6

\* A command that closes its record reads its files, or leaves a trace of not having done so.
LEMMA ClosedReading ==
  ASSUME Typed, [Next]_vars, NEW q \in Proc, job[q].step = "close", job'[q].step = "stackLock", "misread" \notin lapses'
  PROVE  Close(q)
<1>1. job \in [Proc -> Job] /\ Turns /\ Idle.step = "idle"
  BY Zenon, JobsNext DEF Typed, TypeOK, Idle
<1>2. ASSUME NEW p \in Proc, Only(p) PROVE p = q
  BY Zenon, <1>1, <1>2 DEF Only
<1>3. ASSUME NEW p \in Proc, Ends(p) PROVE FALSE
  BY Zenon, <1>1, <1>3 DEF Ends, Return
<1>4. ASSUME NEW p \in Proc, Start(p) \/ AcquireBarrier(p) \/ AcquireFile(p) PROVE FALSE
  BY Zenon, <1>1, <1>4 DEF Start, StartEdit, StartWide, AcquireBarrier, AcquireFile, Go, At
<1>5. ASSUME NEW p \in Proc, NEW s, NEW i, NEW c, Moves(p, s, i, c), Allowed(p, s, i) PROVE FALSE
  BY Zenon, <1>2, <1>5 DEF Moves, Allowed, Follows
<1>6. ASSUME NEW p \in Proc, Only(p),
             Plan(p) \/ Close(p) \/ (IgnoredInside(p) /\ ~CreatedHere(p)) \/ ReadStack(p) \/ Select(p)
      PROVE Close(q)
  BY Zenon, <1>2, <1>6 DEF Plan, IgnoredInside, CreatedHere, ReadStack, Select, At
<1>7. ~UNCHANGED <<job, locks>>
  BY Zenon
<1> QED
  BY Zenon, <1>1, <1>3, <1>4, <1>5, <1>6, <1>7 DEF Turns

\* A command that writes.
LEMMA PicturedWrites ==
  ASSUME Typed, Fresh, lapses = {}, NEW q \in Proc, Pictured(job[q]), Writes(q)
  PROVE  Pictured(job[q])'
<1> DEFINE j == job[q]
           k == job'[q]
           t == Item(q)
<1>1. /\ job \in [Proc -> Job] /\ Idle.step = "idle" /\ j.step \notin Before /\ live \in [File -> Image]
      /\ t.file \in File /\ j.plan \in Plans /\ j.idx \in DOMAIN j.plan /\ j.clash \in {"no", "yes"}
  <2>1. j.step \notin Before
    BY Zenon, WriteFacts DEF Writes
  <2> QED
    BY Zenon, <2>1, ItemFacts DEF Typed, TypeOK, Idle, Job
<1>2. ASSUME k.step \notin Shown PROVE Pictured(job[q])'
  BY Zenon, <1>2 DEF Shown, Pictured
<1>3. ASSUME NEW s \in Steps, Go(q, s), UNCHANGED live,
             (j.step = "publish" /\ s = "swap") \/ (j.step = "back" /\ s = "backSwap")
      PROVE Pictured(job[q])'
  <2>1. Moves(q, s, j.idx, j.clash)
    BY Zenon, <1>1, <1>3, MoveKinds
  <2>2. k.step = s /\ k.idx = j.idx /\ k.plan = j.plan
    BY Zenon, <2>1 DEF Moves
  <2> QED
    BY Zenon, <1>3, <2>2 DEF Pictured
<1>4. ASSUME NEW s \in Steps \ Shown, Go(q, s) PROVE Pictured(job[q])'
  <2>1. Moves(q, s, j.idx, j.clash)
    BY Zenon, <1>1, <1>4, MoveKinds
  <2>2. k.step = s
    BY Zenon, <2>1 DEF Moves
  <2> QED
    BY Zenon, <1>2, <1>4, <2>2
<1>5. {"swap", "backSwap"} \subseteq Steps /\ {"fill", "open", "rewrite"} \subseteq Steps \ Shown
  BY Zenon DEF Steps, Shown
<1>6. CASE Publish(q)
  <2>0. j.step = "publish"
    BY Zenon, <1>6 DEF Publish, At
  <2>1. CASE live[t.file] # t.before
    BY Zenon, <1>6, <2>0, <2>1, PicturedFail DEF Publish
  <2>2. CASE live[t.file] = t.before /\ t.before # Absent
    <3>1. Go(q, "swap") /\ live' = live
      BY Zenon, <1>6, <2>2 DEF Publish
    <3> QED
      BY Zenon, <1>3, <1>5, <2>0, <3>1
  <2>3. CASE live[t.file] = t.before /\ t.before = Absent /\ j.verb = "edit"
    BY Zenon, <1>4, <1>5, <1>6, <2>3 DEF Publish
  <2>4. CASE live[t.file] = t.before /\ t.before = Absent /\ j.verb # "edit"
    <3>1. Advance(q) /\ live' = [live EXCEPT ![Item(q).file] = Item(q).after]
      BY Zenon, <1>6, <2>4 DEF Publish
    <3> QED
      BY Zenon, <2>0, <3>1, PicturedOn
  <2> QED
    BY Zenon, <2>1, <2>2, <2>3, <2>4
<1>7. CASE Swap(q)
  <2>0. j.step = "swap"
    BY Zenon, <1>7 DEF Swap, At
  <2>1. CASE t.after = Absent /\ live[t.file] = Absent
    BY Zenon, <1>7, <2>0, <2>1, PicturedFail DEF Swap
  <2>2. CASE ~(t.after = Absent /\ live[t.file] = Absent)
    BY Zenon, <1>7, <2>0, <2>2, PicturedOn DEF Swap
  <2> QED
    BY Zenon, <2>1, <2>2
<1>8. CASE Back(q)
  <2>0. j.step = "back" /\ j.step \in {"back", "backSwap"}
    BY Zenon, <1>8 DEF Back, At
  <2>1. live[t.file] = t.after
    <3>1. j.idx <= j.idx
      BY SMTT(30), <1>1, Positions
    <3> QED
      BY Zenon, <1>1, <2>0, <3>1 DEF Pictured, Item
  <2>2. CASE t.after # Absent
    BY Zenon, <1>3, <1>5, <1>8, <2>0, <2>1, <2>2 DEF Back
  <2>3. CASE t.after = Absent
    <3>1. NextBack(q, j.clash) /\ live' = [live EXCEPT ![t.file] = t.before]
      BY Zenon, <1>8, <2>1, <2>3 DEF Back
    <3>2. live'[t.file] = t.before /\ \A f \in File : f # t.file => live'[f] = live[f]
      BY Zenon, <1>1, <3>1
    <3> QED
      BY Zenon, <1>1, <2>0, <3>1, <3>2, PicturedBack
  <2> QED
    BY Zenon, <2>2, <2>3
<1>9. CASE BackSwap(q)
  <2>0. j.step \in {"back", "backSwap"}
    BY Zenon, <1>9 DEF BackSwap, At
  <2>1. CASE t.before = Absent /\ live[t.file] = Absent
    <3>1. NextBack(q, "yes") /\ live' = live
      BY Zenon, <1>9, <2>1 DEF BackSwap
    <3>2. live'[t.file] = t.before /\ \A f \in File : f # t.file => live'[f] = live[f]
      BY Zenon, <2>1, <3>1
    <3> QED
      BY Zenon, <2>0, <3>1, <3>2, PicturedBack
  <2>2. CASE ~(t.before = Absent /\ live[t.file] = Absent)
    <3>1. NextBack(q, j.clash) /\ live' = [live EXCEPT ![t.file] = t.before]
      BY Zenon, <1>9, <2>2 DEF BackSwap
    <3>2. live'[t.file] = t.before /\ \A f \in File : f # t.file => live'[f] = live[f]
      BY Zenon, <1>1, <3>1
    <3> QED
      BY Zenon, <1>1, <2>0, <3>1, <3>2, PicturedBack
  <2> QED
    BY Zenon, <2>1, <2>2
<1>10. CASE PublishAll(q)
  <2>1. Return(q) => k.step = "idle"
    BY Zenon, <1>1 DEF Return
  <2> QED
    BY Zenon, <1>2, <1>4, <1>5, <1>10, <2>1 DEF PublishAll, Shown
<1>11. ASSUME NextRestore(q) PROVE Pictured(job[q])'
  <2>1. Moves(q, "restore", j.idx + 1, j.clash) \/ Moves(q, "save", 1, j.clash)
    BY Zenon, <1>1, <1>11, MoveKinds
  <2>2. k.step \in {"restore", "save"}
    BY Zenon, <2>1 DEF Moves
  <2> QED
    BY Zenon, <1>2, <2>2 DEF Shown
<1>12. CASE Restore(q) \/ Rewrite(q)
  BY Zenon, <1>4, <1>5, <1>11, <1>12 DEF Restore, Rewrite
<1>13. CASE Fill(q)
  <2>1. j.step = "fill" /\ Advance(q) /\ Shape
    BY Zenon, <1>13 DEF Fill, At, Typed
  <2>2. j.verb = "edit" /\ j.idx = 1 /\ Len(j.plan) = 1
    BY Zenon, <2>1 DEF Shape, Fits, Recording
  <2>3. ~(1 < 1)
    BY SMTT(30)
  <2>4. Moves(q, "close", 1, j.clash)
    BY Zenon, <1>1, <2>1, <2>2, <2>3, MoveKinds
  <2>5. k.step = "close"
    BY Zenon, <2>4 DEF Moves
  <2> QED
    BY Zenon, <1>2, <2>5 DEF Shown
<1>14. CASE PublishPart(q)
  <2>1. k.step = "idle"
    BY Zenon, <1>1, <1>14 DEF PublishPart, Return
  <2> QED
    BY Zenon, <1>2, <2>1 DEF Shown
<1> QED
  BY Zenon, <1>6, <1>7, <1>8, <1>9, <1>10, <1>12, <1>13, <1>14 DEF Writes

\* The files of a plan stay in the picture.
LEMMA PicturesNext ==
  ASSUME Typed, Locked, Records, Fresh, Pictures, [Next]_vars PROVE Pictures'
<1> SUFFICES ASSUME lapses' = {}, NEW q \in Proc PROVE Pictured(job[q])'
  BY Zenon DEF Pictures
<1> DEFINE j == job[q]
           k == job'[q]
<1>1. lapses = {}
  BY Zenon, Changes DEF Effects
<1>2. job \in [Proc -> Job] /\ Shape /\ Idle.step = "idle" /\ Pictured(j)
  BY Zenon, <1>1 DEF Typed, TypeOK, Idle, Pictures
<1>3. ASSUME k.step \notin Shown PROVE Pictured(job[q])'
  BY Zenon, <1>3 DEF Shown, Pictured
<1>4. CASE Writes(q)
  BY Zenon, <1>1, <1>2, <1>4, PicturedWrites
<1>5. CASE ~Writes(q)
  <2>1. ASSUME j.step \notin Before
        PROVE \A i \in DOMAIN j.plan : live'[j.plan[i].file] = live[j.plan[i].file]
    BY Zenon, <1>5, <2>1, Untouched
  <2>2. ASSUME k.plan = j.plan, \/ k.step = j.step /\ k.idx = j.idx
                                \/ {j.step, k.step} \subseteq {"stackLock", "readStack", "writeStack"}
        PROVE Pictured(job[q])'
    <3>1. CASE k.step \in Shown
      <4>1. j.step \notin Before
        BY Zenon, <2>2, <3>1 DEF Shown, Before
      <4> QED
        BY Zenon, <1>2, <2>1, <2>2, <4>1 DEF Pictured
    <3> QED
      BY Zenon, <1>3, <3>1
  <2>3. ASSUME NEW s, NEW i, NEW c, Moves(q, s, i, c), Allowed(q, s, i), Does(q) PROVE Pictured(job[q])'
    <3>1. k.step = s /\ k.idx = i /\ k.plan = j.plan
      BY Zenon, <2>3 DEF Moves
    <3>2. CASE Open(q)
      <4>1. s \in {"publish", "close"} /\ (s = "publish" => i = 1) /\ j.step \notin Before
        <5>1. j.step = "open" /\ j.idx = 1 /\ Go(q, IF j.verb = "rename" THEN "close" ELSE "publish")
          BY Zenon, <1>2, <3>2 DEF Open, At, Shape, Fits, Walking
        <5>2. {"close", "publish"} \subseteq Steps
          BY Zenon DEF Steps
        <5>3. k.idx = j.idx
          <6>1. Moves(q, "close", j.idx, j.clash) \/ Moves(q, "publish", j.idx, j.clash)
            BY Zenon, <1>2, <5>1, <5>2, MoveKinds
          <6> QED
            BY Zenon, <6>1 DEF Moves
        <5> QED
          BY Zenon, <2>3, <3>1, <5>1, <5>3 DEF Allowed, Follows, Before
      <4>2. CASE s = "publish"
        <5>1. \A n \in DOMAIN k.plan : ~(n < k.idx)
          <6>1. k.plan = j.plan /\ k.idx = 1
            BY Zenon, <3>1, <4>1, <4>2
          <6> QED
            BY SMTT(30), <4>1, <6>1, Positions
        <5> QED
          BY Zenon, <3>1, <4>2, <5>1 DEF Pictured
      <4> QED
        BY Zenon, <1>3, <3>1, <4>1, <4>2 DEF Shown
    <3>3. CASE PublishError(q)
      <4>1. FailPublish(q) /\ j.step \in {"publish", "swap", "fill"}
        BY Zenon, <3>3 DEF PublishError
      <4>2. CASE j.step \in {"publish", "swap"}
        <5>1. j.step \notin Before
          BY Zenon, <4>2 DEF Before
        <5> QED
          BY Zenon, <1>1, <1>2, <2>1, <4>1, <4>2, <5>1, PicturedFail
      <4>3. CASE j.step = "fill"
        BY Zenon, <1>2, <1>3, <3>1, <4>1, <4>3 DEF Shape, Fits, FailPublish, Return, Shown
      <4> QED
        BY Zenon, <4>1, <4>2, <4>3
    <3>4. CASE BackError(q) \/ (IgnoredInside(q) /\ CreatedHere(q))
      BY Zenon, <3>4 DEF BackError, IgnoredInside, CreatedHere
    <3>5. CASE StackLock(q)
      <4>1. j.step = "stackLock" /\ k.step = "readStack"
        BY Zenon, <2>3, <3>1, <3>5 DEF StackLock, At, Allowed, Follows
      <4> QED
        BY Zenon, <2>2, <3>1, <4>1
    <3>6. CASE WriteStack(q) \/ Guard(q) \/ Save(q)
      BY Zenon, <1>3, <2>3, <3>1, <3>6 DEF WriteStack, Guard, Save, At, Allowed, Follows, Shown
    <3> QED
      BY Zenon, <1>5, <2>3, <3>2, <3>3, <3>4, <3>5, <3>6 DEF Does, Writes
  <2>4. CASE /\ j.step = "close" /\ k.step = "stackLock"
             /\ Close(q) => \A i \in DOMAIN k.plan : k.plan[i].after = live[k.plan[i].file]
    <3>1. Close(q)
      BY Zenon, <2>4, ClosedReading
    <3>2. UNCHANGED live
      BY Zenon, <3>1 DEF Close
    <3> QED
      BY Zenon, <2>4, <3>1, <3>2 DEF Pictured
  <2>5. CASE JobStep(q)
    BY Zenon, <1>2, <1>3, <2>2, <2>3, <2>4, <2>5 DEF JobStep, Before, Shown
  <2> QED
    BY Zenon, <2>2, <2>5, JobSteps
<1> QED
  BY Zenon, <1>4, <1>5

\* all is s with the transaction ts on top; t is all without its n oldest transactions.
Pushed(s, all, t, n, ts) ==
  /\ Len(s) \in Nat /\ Len(all) = Len(s) + 1 /\ n \in Nat /\ n <= Len(s) /\ Len(t) = Len(all) - n
  /\ \A k \in 1..Len(s) : all[k] = s[k]
  /\ all[Len(all)].entries = ts
  /\ \A k \in 1..Len(t) : t[k] = all[n + k]

\* w is m without the transaction ts on top.
Popped(m, w, ts) ==
  /\ Len(m) \in Nat /\ Len(m) >= 1 /\ Len(w) = Len(m) - 1
  /\ \A k \in 1..Len(w) : w[k] = m[k]
  /\ m[Len(m)].entries = ts

\* A transaction that begins where the stack ends goes on top.
LEMMA AppendLinks ==
  ASSUME NEW s, NEW all, NEW t, NEW n, NEW ts, Pushed(s, all, t, n, ts), ts \in Plans, Chain(s),
         \A i \in DOMAIN ts : EndsAt(s, Len(s), ts[i].file, ts[i].before)
  PROVE  /\ Chain(t)
         /\ \A f, v : EndsAt(s, Len(s), f, v) /\ ~Names(ts, f) => EndsAt(t, Len(t), f, v)
         /\ \A i \in DOMAIN ts : EndsAt(t, Len(t), ts[i].file, ts[i].after)
<1> USE DEF Pushed
<1>1. /\ Len(all) \in Nat /\ Len(t) \in Nat /\ Len(all) >= 1 /\ Len(all) - 1 = Len(s)
      /\ n + Len(t) = Len(all) /\ n + Len(t) <= Len(all)
  BY SMTT(30)
<1>2. Chain(all)
  BY Zenon, ChainMore
<1>3. Chain(t)
  BY Zenon, <1>1, <1>2, ChainPart
<1>4. ASSUME NEW f, NEW v, EndsAt(all, Len(all), f, v) PROVE EndsAt(t, Len(t), f, v)
  <2>1. EndsAt(all, n + Len(t), f, v) => EndsAt(t, Len(t), f, v)
    BY Zenon, <1>1, EndsShift
  <2> QED
    BY Zenon, <1>1, <1>4, <2>1
<1>5. ASSUME NEW f, NEW v, EndsAt(s, Len(s), f, v), ~Names(ts, f) PROVE EndsAt(all, Len(all), f, v)
  <2>1. EndsAt(s, Len(s), f, v) => EndsAt(all, Len(s), f, v)
    BY Zenon, EndsSame
  <2>2. ~Names(all[Len(all)].entries, f)
    BY Zenon, <1>5
  <2>3. EndsAt(all, Len(all) - 1, f, v) => EndsAt(all, Len(all), f, v)
    BY Zenon, <1>1, <2>2, EndsAfter
  <2> QED
    BY Zenon, <1>1, <1>5, <2>1, <2>3
<1>6. ASSUME NEW i \in DOMAIN ts PROVE EndsAt(all, Len(all), ts[i].file, ts[i].after)
  <2>1. all[Len(all)].entries \in Plans /\ i \in DOMAIN all[Len(all)].entries
    BY Zenon
  <2>2. EndsAt(all, Len(all), all[Len(all)].entries[i].file, all[Len(all)].entries[i].after)
    BY Zenon, <1>1, <2>1, EndsHere
  <2> QED
    BY Zenon, <2>2
<1> QED
  BY Zenon, <1>3, <1>4, <1>5, <1>6

\* The transaction on top of the stack goes.
LEMMA RemoveLinks ==
  ASSUME NEW m, NEW w, NEW ts, Popped(m, w, ts), Chain(m)
  PROVE  /\ Chain(w)
         /\ \A f, v : EndsAt(m, Len(m), f, v) /\ ~Names(ts, f) => EndsAt(w, Len(w), f, v)
         /\ \A i \in DOMAIN ts : EndsAt(w, Len(w), ts[i].file, ts[i].before)
<1> USE DEF Popped
<1>1. Len(w) \in Nat /\ Len(w) <= Len(m) /\ Len(m) \in 1..Len(m)
  BY SMTT(30)
<1>2. Chain(w)
  <2>1. 0 \in Nat /\ 0 + Len(w) <= Len(m) /\ \A k \in 1..Len(w) : 0 + k = k
    BY SMTT(30), <1>1
  <2>2. \A k \in 1..Len(w) : w[k] = m[0 + k]
    BY Zenon, <2>1
  <2> QED
    BY Zenon, <1>1, <2>1, <2>2, ChainPart
<1>3. ASSUME NEW f, NEW v, EndsAt(m, Len(m) - 1, f, v) PROVE EndsAt(w, Len(w), f, v)
  <2>1. EndsAt(m, Len(w), f, v) => EndsAt(w, Len(w), f, v)
    BY Zenon, <1>1, EndsSame
  <2> QED
    BY Zenon, <1>3, <2>1
<1>4. ASSUME NEW f, NEW v, EndsAt(m, Len(m), f, v), ~Names(ts, f) PROVE EndsAt(m, Len(m) - 1, f, v)
  <2>1. ~Names(m[Len(m)].entries, f)
    BY Zenon, <1>4
  <2> QED
    BY Zenon, <1>4, <2>1, EndsBefore
<1>5. ASSUME NEW i \in DOMAIN ts PROVE EndsAt(m, Len(m) - 1, ts[i].file, ts[i].before)
  BY Zenon, <1>1, <1>5 DEF Chain
<1> QED
  BY Zenon, <1>2, <1>3, <1>4, <1>5

-----------------------------------------------------------------------------
(* The undo stack and the files.                                           *)

\* A command between its plan and the record of it.
Busy(j) == j.step \notin Before \cup Undoing \cup {"forget"}

\* A command is changing the file.
Changing(f) == \E p \in Proc : (Busy(job[p]) \/ job[p].step \in Undone) /\ Names(job[p].plan, f)

\* In the ordinary course the stack is a chain, which the files and the plans continue.
Linked ==
  lapses = {} =>
    /\ stack # Unreadable =>
         /\ Chain(stack)
         /\ \A p \in Proc : Busy(job[p]) => \A i \in DOMAIN job[p].plan :
              EndsAt(stack, Len(stack), job[p].plan[i].file, job[p].plan[i].before)
         /\ \A f \in File : ~Changing(f) => EndsAt(stack, Len(stack), f, live[f])
    /\ \A p \in Proc :
         /\ job[p].step \in Undoing => job[p].pos = Len(job[p].mem)
         /\ job[p].step = "saved" =>
              /\ Chain(job[p].mem)
              /\ \A f \in File : ~Names(job[p].plan, f) => EndsAt(job[p].mem, Len(job[p].mem), f, live[f])

\* A command records its transaction.
LEMMA WrittenLinks ==
  ASSUME Typed, Stacks, Linked, lapses = {}, NEW p \in Proc, WriteStack(p)
  PROVE  /\ Chain(stack')
         /\ \A f, v : EndsAt(stack, Len(stack), f, v) /\ ~Names(job[p].plan, f) => EndsAt(stack', Len(stack'), f, v)
         /\ \A i \in DOMAIN job[p].plan : EndsAt(stack', Len(stack'), job[p].plan[i].file, job[p].plan[i].after)
<1> DEFINE m == job[p].mem
           ts == job[p].plan
           all == Append(m, [id |-> job[p].tid, entries |-> ts])
<1>1. job[p].step = "writeStack" /\ job[p].step \notin Before /\ Busy(job[p])
  BY Zenon DEF WriteStack, At, Before, Busy, Undoing
<1>2. stack # Unreadable /\ m = stack
  BY Zenon, <1>1 DEF Stacks, Knows
<1>3. m \in Seq(Record) /\ ts \in Plans
  BY Zenon, <1>1, ItemFacts DEF Typed, TypeOK, Job
<1>4. Len(m) \in Nat
  BY <1>3
<1>5. Chain(m) /\ \A i \in DOMAIN ts : EndsAt(m, Len(m), ts[i].file, ts[i].before)
  BY Zenon, <1>1, <1>2 DEF Linked
<1>6. PICK n \in 0..Len(m) :
        /\ Len(all) = Len(m) + 1 /\ \A k \in 1..Len(m) : all[k] = m[k]
        /\ all[Len(all)] = [id |-> job[p].tid, entries |-> ts]
        /\ Len(stack') = Len(all) - n /\ \A k \in 1..Len(stack') : stack'[k] = all[n + k]
  BY Zenon, WrittenFacts
<1>7. all[Len(all)].entries = ts /\ n \in Nat /\ n <= Len(m)
  <2>1. n \in Nat /\ n <= Len(m)
    BY SMTT(30), <1>4, <1>6
  <2>2. [id |-> job[p].tid, entries |-> ts].entries = ts
    BY Zenon
  <2> HIDE DEF all
  <2> QED
    BY Zenon, <1>6, <2>1, <2>2
<1> HIDE DEF m, all, ts
<1>8. Pushed(m, all, stack', n, ts)
  BY Zenon, <1>4, <1>6, <1>7 DEF Pushed
<1>9. /\ Chain(stack')
      /\ \A f, v : EndsAt(m, Len(m), f, v) /\ ~Names(ts, f) => EndsAt(stack', Len(stack'), f, v)
      /\ \A i \in DOMAIN ts : EndsAt(stack', Len(stack'), ts[i].file, ts[i].after)
  BY Zenon, <1>3, <1>5, <1>8, AppendLinks
<1> QED
  BY Zenon, <1>2, <1>9 DEF m, ts

\* An undo takes its transaction off the stack.
LEMMA SavedLinks ==
  ASSUME Typed, Linked, lapses = {}, NEW p \in Proc, Saved(p)
  PROVE  /\ Chain(stack')
         /\ \A f, v : EndsAt(job[p].mem, Len(job[p].mem), f, v) /\ ~Names(job[p].plan, f) =>
              EndsAt(stack', Len(stack'), f, v)
         /\ \A i \in DOMAIN job[p].plan : EndsAt(stack', Len(stack'), job[p].plan[i].file, job[p].plan[i].before)
<1> DEFINE m == job[p].mem
           ts == job[p].plan
<1>1. job[p].step = "saved" /\ job[p].step \in Undoing /\ stack' = Without(m, job[p].pos)
  BY Zenon DEF Saved, At, Undoing
<1>2. m \in Seq(Record) /\ job[p].pos \in 1..Len(m) /\ m[job[p].pos] = [id |-> job[p].tid, entries |-> ts]
  BY Zenon, <1>1 DEF Typed, TypeOK, Job, Shape, Fits
<1>3. job[p].pos = Len(m) /\ Chain(m)
  BY Zenon, <1>1 DEF Linked
<1>4. Len(m) \in 1..Len(m) /\ m[Len(m)].entries = ts
  <2>1. [id |-> job[p].tid, entries |-> ts].entries = ts
    BY Zenon
  <2> HIDE DEF m
  <2> QED
    BY Zenon, <1>2, <1>3, <2>1
<1>5. Len(m) \in Nat /\ Len(m) >= 1
  BY SMTT(30), <1>2, <1>4
<1>6. /\ Len(stack') = Len(m) - 1
      /\ \A k \in 1..Len(stack') : stack'[k] = IF k < Len(m) THEN m[k] ELSE m[k + 1]
  BY Zenon, <1>1, <1>2, <1>3, <1>4, WithoutFacts
<1>7. \A k \in 1..Len(stack') : k < Len(m)
  BY SMTT(30), <1>5, <1>6
<1>8. \A k \in 1..Len(stack') : stack'[k] = m[k]
  BY Zenon, <1>6, <1>7
<1> HIDE DEF m, ts
<1>9. Popped(m, stack', ts)
  BY Zenon, <1>4, <1>5, <1>6, <1>8 DEF Popped
<1>10. /\ Chain(stack')
       /\ \A f, v : EndsAt(m, Len(m), f, v) /\ ~Names(ts, f) => EndsAt(stack', Len(stack'), f, v)
       /\ \A i \in DOMAIN ts : EndsAt(stack', Len(stack'), ts[i].file, ts[i].before)
  BY Zenon, <1>3, <1>9, RemoveLinks
<1> QED
  BY Zenon, <1>10 DEF m, ts

\* A command that ends where it would have written has not written, and had not before.
LEMMA NotWritten ==
  ASSUME Typed, lapses' = {}, NEW q \in Proc, Writes(q), job'[q].step = "idle"
  PROVE  /\ live' = live /\ job[q].step \in {"publish", "swap", "publishAll"}
         /\ job[q].step # "publishAll" => job[q].idx = 1
<1> DEFINE j == job[q]
           k == job'[q]
<1>1. job \in [Proc -> Job] /\ j.plan \in Plans /\ j.idx \in DOMAIN j.plan /\ j.clash \in {"no", "yes"}
  <2>1. j.step \notin Before
    BY Zenon, WriteFacts DEF Writes
  <2> QED
    BY Zenon, <2>1, ItemFacts DEF Typed, TypeOK, Job
<1>2. ASSUME NEW s, NEW i, NEW c, Moves(q, s, i, c), s # "idle" PROVE FALSE
  BY Zenon, <1>2 DEF Moves
<1>3. ASSUME NEW s \in Steps \ {"idle"}, Go(q, s) PROVE FALSE
  <2>1. Moves(q, s, j.idx, j.clash)
    BY Zenon, <1>1, <1>3, MoveKinds
  <2> QED
    BY Zenon, <1>2, <1>3, <2>1
<1>4. {"swap", "fill", "backSwap", "open", "rewrite"} \subseteq Steps \ {"idle"}
  BY Zenon DEF Steps
<1>5. ~Advance(q) /\ ~NextRestore(q)
  <2>1. Advance(q) => Moves(q, "publish", j.idx + 1, j.clash) \/ Moves(q, "close", 1, j.clash)
    BY Zenon, <1>1, MoveKinds
  <2>2. NextRestore(q) => Moves(q, "restore", j.idx + 1, j.clash) \/ Moves(q, "save", 1, j.clash)
    BY Zenon, <1>1, MoveKinds
  <2> QED
    BY Zenon, <1>2, <2>1, <2>2
<1>6. ASSUME NEW c \in {"no", "yes"}, NextBack(q, c) PROVE FALSE
  <2>1. Moves(q, "back", j.idx - 1, c) \/ Moves(q, "abandon", j.idx, c)
    BY Zenon, <1>1, <1>6, MoveKinds
  <2> QED
    BY Zenon, <1>2, <2>1
<1>7. FailPublish(q) => j.idx = 1
  <2>1. FailPublish(q) /\ j.idx # 1 => Moves(q, "back", j.idx - 1, j.clash)
    BY Zenon, <1>1, MoveKinds
  <2> QED
    BY Zenon, <1>2, <2>1
<1>8. CASE Publish(q)
  BY Zenon, <1>3, <1>4, <1>5, <1>7, <1>8 DEF Publish, At
<1>9. CASE Swap(q)
  BY Zenon, <1>5, <1>7, <1>9 DEF Swap, At
<1>10. CASE PublishAll(q)
  BY Zenon, <1>3, <1>4, <1>10 DEF PublishAll, At
<1>11. ~Fill(q) /\ ~Rewrite(q)
  BY Zenon, <1>5 DEF Fill, Rewrite
<1>12. ~Restore(q)
  BY Zenon, <1>3, <1>4, <1>5 DEF Restore
<1>13. ~Back(q)
  BY Zenon, <1>1, <1>3, <1>4, <1>6 DEF Back
<1>14. ~BackSwap(q)
  BY Zenon, <1>1, <1>6 DEF BackSwap
<1>15. ~PublishPart(q)
  BY Zenon DEF PublishPart
<1> QED
  BY Zenon, <1>8, <1>9, <1>10, <1>11, <1>12, <1>13, <1>14, <1>15 DEF Writes

\* Nobody writes a file that no command is changing.
LEMMA NotChanged ==
  ASSUME Typed, [Next]_vars, lapses' = {}, NEW f \in File, ~Changing(f)
  PROVE  live'[f] = live[f]
<1>1. Effects
  BY Zenon, Changes
<1>2. ASSUME NEW g, NEW image, ForeignWrite(g, image) PROVE FALSE
  BY Zenon, <1>2 DEF ForeignWrite
<1>3. ASSUME NEW p \in Proc, Writes(p) PROVE live'[f] = live[f]
  <2>1. \A g \in File : (\A i \in DOMAIN job[p].plan : job[p].plan[i].file # g) => live'[g] = live[g]
    BY Zenon, <1>3, WriteFacts DEF Writes
  <2>2. job[p].step \in {"publish", "swap", "fill", "back", "backSwap", "publishAll", "restore", "rewrite"}
    BY Zenon, <1>3 DEF Writes, Publish, Swap, Fill, Back, BackSwap, PublishAll, PublishPart, Restore, Rewrite, At
  <2>3. Busy(job[p]) \/ job[p].step \in Undone
    BY Zenon, <2>2 DEF Busy, Undone, Before, Undoing
  <2>4. ~Names(job[p].plan, f)
    BY Zenon, <2>3 DEF Changing
  <2> QED
    BY Zenon, <2>1, <2>4 DEF Names
<1> QED
  BY Zenon, <1>1, <1>2, <1>3 DEF Effects, Writes

\* The command that writes the stack is the one that moves.
LEMMA StackMover ==
  ASSUME Typed, NEW p \in Proc, WriteStack(p) \/ Save(p) \/ Saved(p)
  PROVE  /\ \A q \in Proc : q # p => job'[q] = job[q]
         /\ WriteStack(p) => job[p].step = "writeStack" /\ job'[p].step = "forget" /\ live' = live
         /\ Save(p) => job[p].step = "save" /\ job'[p].step = "saved" /\ live' = live /\ stack' = Unreadable
         /\ Saved(p) => job[p].step = "saved" /\ job'[p].step = "idle" /\ live' = live
<1>1. job \in [Proc -> Job] /\ Idle.step = "idle"
  BY Zenon DEF Typed, TypeOK, Idle
<1>2. CASE WriteStack(p) \/ Save(p)
  <2>1. /\ WriteStack(p) => Go(p, "forget") /\ job[p].step = "writeStack" /\ live' = live
        /\ Save(p) => Go(p, "saved") /\ job[p].step = "save" /\ live' = live /\ stack' = Unreadable
        /\ ~Saved(p)
    BY Zenon, <1>2 DEF WriteStack, Save, Saved, At
  <2>2. {"forget", "saved"} \subseteq Steps
    BY Zenon DEF Steps
  <2>3. \A s \in Steps : Go(p, s) => Moves(p, s, job[p].idx, job[p].clash)
    BY Zenon, <1>1, MoveKinds
  <2>4. \A s \in Steps : Go(p, s) => job'[p].step = s /\ \A q \in Proc : q # p => job'[q] = job[q]
    BY Zenon, <1>1, <2>3 DEF Moves, Only
  <2> QED
    BY Zenon, <1>2, <2>1, <2>2, <2>4
<1>3. CASE Saved(p)
  <2>1. job[p].step = "saved" /\ Return(p) /\ live' = live /\ ~WriteStack(p) /\ ~Save(p)
    BY Zenon, <1>3 DEF Saved, WriteStack, Save, At
  <2>2. job'[p].step = "idle" /\ \A q \in Proc : q # p => job'[q] = job[q]
    BY Zenon, <1>1, <2>1 DEF Return
  <2> QED
    BY Zenon, <2>1, <2>2
<1> QED
  BY Zenon, <1>2, <1>3

\* A command that gets its plan changes files that no other command is changing.
LEMMA PlannedApart ==
  ASSUME Typed, Locked, Records, NEW q \in Proc, job[q].step = "plan", job[q].verb # "undo", NEW ts \in Plans,
         job[q].verb = "edit" => Len(ts) = 1 /\ ts[1].file = Item(q).file
  PROVE  \A i \in DOMAIN ts : ~Changing(ts[i].file)
<1> SUFFICES ASSUME NEW i \in DOMAIN ts, NEW p \in Proc, Busy(job[p]) \/ job[p].step \in Undone,
                    Names(job[p].plan, ts[i].file)
             PROVE  FALSE
  BY Zenon DEF Changing
<1>1. job[p].step \notin Before /\ p # q
  BY Zenon DEF Busy, Undone, Before
<1>2. job[p].verb = "edit" /\ job[q].verb = "edit"
  BY Zenon, <1>1, Alone DEF Before
<1>3. /\ Len(job[p].plan) = 1 /\ owner[job[p].plan[1].file] = p /\ job[p].plan \in Plans
      /\ owner[job[q].plan[1].file] = q /\ Len(ts) = 1 /\ ts[1].file = Item(q).file
  BY Zenon, <1>1, <1>2, ItemFacts DEF Records, Before
<1>4. DOMAIN job[p].plan = {1} /\ DOMAIN ts = {1}
  BY <1>3, PlanFacts
<1>5. job[q].idx = 1
  BY Zenon DEF Typed, Shape, Fits, Walking
<1>6. ts[i].file = job[q].plan[1].file
  BY Zenon, <1>3, <1>4, <1>5 DEF Item
<1> QED
  BY Zenon, <1>1, <1>3, <1>4, <1>6 DEF Names

\* Where the plan of a busy command comes from.
LEMMA BusyPlans ==
  ASSUME Typed, Locked, Records, [Next]_vars, NEW q \in Proc, Busy(job'[q]), lapses' = {}
  PROVE  \/ Busy(job[q]) /\ SameBefore(job'[q].plan, job[q].plan)
         \/ /\ Plan(q)
            /\ \A i \in DOMAIN job'[q].plan :
                 LET t == job'[q].plan[i] IN t.file \in File /\ t.before = live[t.file] /\ ~Changing(t.file)
<1> DEFINE j == job[q]
           k == job'[q]
<1>1. k.step \notin Before /\ k.step \notin Undoing /\ Idle.step = "idle"
  BY Zenon DEF Busy, Idle
<1>2. ASSUME k.plan = j.plan, Busy(j) PROVE Busy(j) /\ SameBefore(k.plan, j.plan)
  BY Zenon, <1>2 DEF SameBefore
<1>3. ASSUME NEW s, NEW i, NEW c, Moves(q, s, i, c), Allowed(q, s, i) PROVE k.plan = j.plan /\ Busy(j)
  BY Zenon, <1>3 DEF Moves, Allowed, Follows, Busy, Before, Undoing
<1>4. ASSUME Plan(q), j.step = "plan", j.verb # "undo", k.plan \in Planned(j.verb),
             j.verb = "edit" => Len(k.plan) = 1 /\ k.plan[1].file = Item(q).file,
             "unread" \notin lapses' => \A i \in DOMAIN k.plan : k.plan[i].before = live[k.plan[i].file]
      PROVE \A i \in DOMAIN k.plan :
              k.plan[i].file \in File /\ k.plan[i].before = live[k.plan[i].file] /\ ~Changing(k.plan[i].file)
  <2>1. k.plan \in Plans /\ \A i \in DOMAIN k.plan : k.plan[i].before = live[k.plan[i].file]
    BY Zenon, <1>4 DEF Planned
  <2>2. \A i \in DOMAIN k.plan : k.plan[i].file \in File
    BY Zenon, <2>1, PlanFacts DEF Transition
  <2>3. \A i \in DOMAIN k.plan : ~Changing(k.plan[i].file)
    BY Zenon, <1>4, <2>1, PlannedApart
  <2> QED
    BY Zenon, <2>1, <2>2, <2>3
<1>5. ASSUME j.step = "close", NEW r \in pending, r.id = j.tid, SameBefore(k.plan, r.entries)
      PROVE Busy(j) /\ SameBefore(k.plan, j.plan)
  <2>1. SameBefore(r.entries, j.plan)
    BY Zenon, <1>5 DEF Records, Logged
  <2>2. Busy(j)
    BY Zenon, <1>5 DEF Busy, Before, Undoing
  <2> QED
    BY Zenon, <1>5, <2>1, <2>2 DEF SameBefore
<1>6. j.step = "readStack" => Busy(j)
  BY Zenon DEF Busy, Before, Undoing
<1>7. CASE JobStep(q)
  BY Zenon, <1>1, <1>2, <1>3, <1>4, <1>5, <1>6, <1>7 DEF JobStep, Before, Undoing
<1>8. CASE k = j
  BY Zenon, <1>2, <1>8
<1> QED
  BY Zenon, <1>7, <1>8, JobSteps

\* How a busy command ends in the ordinary course: recorded, or with its files as they were.
LEMMA BusyEnds ==
  ASSUME Typed, Locked, Records, Fresh, Pictures, [Next]_vars, lapses' = {}, NEW q \in Proc, Busy(job[q]), ~Busy(job'[q])
  PROVE  \/ WriteStack(q)
         \/ /\ job'[q].step = "idle"
            /\ \A i \in DOMAIN job[q].plan :
                 LET t == job[q].plan[i] IN live'[t.file] = t.before /\ live[t.file] = t.before
<1> DEFINE j == job[q]
           k == job'[q]
<1>1. lapses = {} /\ Shape /\ j.step \notin Before /\ Idle.step = "idle"
  BY Zenon, Changes DEF Effects, Typed, Busy, Idle
<1>2. CASE Ends(q) /\ k = Idle
  <2>1. k.step = "idle"
    BY Zenon, <1>1, <1>2
  <2>2. ~MidChange(q) \/ j.step = "abandon" \/ Publish(q) \/ Swap(q) \/ PublishError(q)
    <3>1. j.step \notin {"barrier", "file", "plan", "guard", "forget", "save", "saved"}
      BY Zenon DEF Busy, Before, Undoing
    <3>2. ~(ReadStack(q) /\ k.step = "idle") /\ ~Plan(q) /\ ~Select(q) /\ ~Guard(q) /\ ~Forget(q) /\ ~Saved(q)
      <4>1. ReadStack(q) => k.step # "idle"
        <5>1. ReadStack(q) => stack # Unreadable
          BY Zenon DEF ReadStack
        <5>2. ReadStack(q) /\ stack # Unreadable => Loads(q, "writeStack", j.plan, j.tid, stack, j.pos)
          BY Zenon, LoadKinds DEF Typed
        <5> QED
          BY Zenon, <5>1, <5>2 DEF Loads
      <4> QED
        BY Zenon, <3>1, <4>1 DEF Plan, Select, Guard, Forget, Saved, At
    <3>3. PublishAll(q) \/ PublishPart(q) => ~MidChange(q)
      BY Zenon DEF PublishAll, PublishPart, At, MidChange
    <3>4. Abandon(q) \/ IgnoredAtEnd(q) => j.step = "abandon"
      BY Zenon, <3>1 DEF Abandon, IgnoredAtEnd, At
    <3>5. Deadline(q) \/ Crash(q) \/ ReturnError(q) => ~MidChange(q)
      BY Zenon, <3>1 DEF Deadline, Crash, ReturnError, At, MidChange
    <3> QED
      BY Zenon, <1>2, <2>1, <3>2, <3>3, <3>4, <3>5 DEF Ends
  <2>3. PublishError(q) => j.step \in {"publish", "swap"} /\ j.idx = 1
    <3>1. PublishError(q) => FailPublish(q) /\ j.step \in {"publish", "swap"}
      BY Zenon DEF PublishError, At
    <3>2. FailPublish(q) => j.idx = 1
      <4>1. FailPublish(q) /\ j.idx # 1 => Moves(q, "back", j.idx - 1, j.clash)
        BY Zenon, MoveKinds DEF Typed, TypeOK
      <4> QED
        BY Zenon, <2>1, <4>1 DEF Moves
    <3> QED
      BY Zenon, <3>1, <3>2
  <2>4. Publish(q) \/ Swap(q) => j.step \in {"publish", "swap"} /\ j.idx = 1
    <3>1. Publish(q) \/ Swap(q) => Writes(q) /\ j.step \in {"publish", "swap"}
      BY Zenon DEF Writes, Publish, Swap, At
    <3> QED
      BY Zenon, <2>1, <3>1, NotWritten
  <2>5. j.idx = 1 \/ j.idx > 1
    BY SMTT(30), <1>1, Positions
  <2>6. j.step = "abandon" \/ (Unwritten(j) /\ j.idx = 1)
    <3>1. CASE MidChange(q)
      BY Zenon, <2>2, <2>3, <2>4, <3>1 DEF Unwritten
    <3>2. CASE ~MidChange(q)
      <4>1. j.step \in {"publish", "swap", "publishAll", "open"}
        <5>1. j.step \in Steps
          BY Zenon DEF Typed, TypeOK, Job
        <5> QED
          BY Zenon, <3>2, <5>1 DEF MidChange, Steps, Busy, Before, Undoing
      <4>2. j.step \in {"publishAll", "open"} => j.idx = 1
        BY Zenon, <1>1 DEF Shape, Fits, Walking
      <4> QED
        BY Zenon, <2>5, <3>2, <4>1, <4>2 DEF MidChange, Unwritten
    <3> QED
      BY Zenon, <3>1, <3>2
  <2>7. \A i \in DOMAIN j.plan : i >= 1
    BY Zenon, <1>1, Positions
  <2>8. \A i \in DOMAIN j.plan : live[j.plan[i].file] = j.plan[i].before
    <3>1. CASE j.step = "abandon"
      BY Zenon, <1>1, <3>1 DEF Pictures, Pictured
    <3>2. CASE Unwritten(j) /\ j.idx = 1
      BY Zenon, <1>1, <2>7, <3>2 DEF Fresh
    <3> QED
      BY Zenon, <2>6, <3>1, <3>2
  <2>9. \A i \in DOMAIN j.plan : live'[j.plan[i].file] = live[j.plan[i].file]
    <3>1. CASE Writes(q)
      BY Zenon, <2>1, <3>1, NotWritten
    <3>2. CASE ~Writes(q)
      BY Zenon, <1>1, <3>2, Untouched
    <3> QED
      BY Zenon, <3>1, <3>2
  <2> QED
    BY Zenon, <2>1, <2>8, <2>9
<1>3. ASSUME NEW s, NEW i, NEW c, Moves(q, s, i, c), Allowed(q, s, i), Does(q) PROVE WriteStack(q)
  <2>1. j.step = "writeStack" /\ s = "forget"
    BY Zenon, <1>3 DEF Moves, Allowed, Follows, Busy, Before, Undoing
  <2> QED
    BY Zenon, <1>3, <2>1 DEF Does, Open, Publish, Swap, Fill, PublishError, Back, BackSwap, BackError, PublishAll,
         StackLock, Guard, Restore, Rewrite, CreatedHere, Save, At
<1>4. j.step \notin {"idle", "barrier", "file", "plan"}
  BY Zenon, <1>1 DEF Before
<1>5. {"stackLock", "writeStack"} \cap (Before \cup Undoing \cup {"forget"}) = {}
  BY Zenon DEF Before, Undoing
<1>6. k.step \notin {"stackLock", "writeStack"}
  BY Zenon DEF Busy, Before, Undoing
<1>7. CASE JobStep(q)
  BY Zenon, <1>2, <1>3, <1>4, <1>6, <1>7 DEF JobStep, Start, StartEdit, StartWide, AcquireBarrier, AcquireFile, At
<1>8. k # j
  BY Zenon
<1> QED
  BY Zenon, <1>7, <1>8, JobSteps

\* How an undo ends in the ordinary course: reported, or before its first file.
LEMMA UndoneEnds ==
  ASSUME Typed, Locked, Records, Restoring, [Next]_vars, lapses' = {}, NEW q \in Proc, job[q].step \in Undone
  PROVE  \/ job'[q].step \in Undone /\ job'[q].plan = job[q].plan
         \/ Saved(q)
         \/ /\ job[q].step = "restore" /\ job'[q].step = "idle"
            /\ \A i \in DOMAIN job[q].plan : LET t == job[q].plan[i] IN live'[t.file] = t.after
<1> DEFINE j == job[q]
           k == job'[q]
<1>1. lapses = {} /\ Shape /\ j.step \notin Before /\ Idle.step = "idle"
  BY Zenon, Changes DEF Effects, Typed, Undone, Before, Idle
<1>2. CASE Ends(q) /\ k = Idle
  <2>1. k.step = "idle"
    BY Zenon, <1>1, <1>2
  <2>2. Saved(q) \/ ~MidChange(q)
    BY Zenon, <1>1, <1>2 DEF Ends, Plan, Select, Guard, PublishAll, Publish, Swap, PublishError, ReadStack, Abandon,
         Forget, Deadline, PublishPart, Crash, ReturnError, IgnoredAtEnd, At, MidChange, Undone
  <2>3. CASE ~MidChange(q)
    <3>1. j.step = "restore" /\ ~(j.idx > 1)
      BY Zenon, <2>3 DEF MidChange, Undone
    <3>2. \A i \in DOMAIN j.plan : i >= j.idx
      BY SMTT(30), <1>1, <3>1, Positions
    <3>3. \A i \in DOMAIN j.plan : live[j.plan[i].file] = j.plan[i].after
      BY Zenon, <1>1, <3>1, <3>2 DEF Restoring, Restores, Ahead, Undone
    <3>4. ~Writes(q)
      BY Zenon, <2>1, <3>1, NotWritten
    <3>5. \A i \in DOMAIN j.plan : live'[j.plan[i].file] = live[j.plan[i].file]
      BY Zenon, <1>1, <3>4, Untouched
    <3> QED
      BY Zenon, <2>1, <3>1, <3>3, <3>5
  <2> QED
    BY Zenon, <2>2, <2>3
<1>3. ASSUME NEW s, NEW i, NEW c, Moves(q, s, i, c), Allowed(q, s, i) PROVE k.step \in Undone /\ k.plan = j.plan
  BY Zenon, <1>3 DEF Moves, Allowed, Follows, Undone
<1>4. j.step \notin {"idle", "barrier", "file", "plan", "close", "readStack"}
  BY Zenon DEF Undone
<1>5. CASE JobStep(q)
  BY Zenon, <1>2, <1>3, <1>4, <1>5 DEF JobStep, Start, StartEdit, StartWide, AcquireBarrier, AcquireFile, At
<1> QED
  BY Zenon, <1>5, JobSteps

\* What may happen to the stack.
LEMMA StackSteps ==
  ASSUME Typed, Stacks, [Next]_vars, lapses' = {}, stack' # Unreadable
  PROVE  /\ lapses = {}
         /\ \/ stack' = stack /\ stack # Unreadable
            \/ \E p \in Proc : WriteStack(p) /\ stack # Unreadable
            \/ \E p \in Proc : Saved(p)
<1>1. lapses = {} /\ (UNCHANGED <<stack, trimmed>> \/ \E p \in Proc : WriteStack(p) \/ Save(p) \/ Saved(p))
  BY Zenon, Changes DEF Effects
<1>2. ASSUME NEW p \in Proc, WriteStack(p) PROVE stack # Unreadable
  BY Zenon, <1>1, <1>2, StackMover DEF Stacks, Knows
<1>3. ASSUME NEW p \in Proc, Save(p) PROVE FALSE
  BY Zenon, <1>3, StackMover
<1> QED
  BY Zenon, <1>1, <1>2, <1>3

\* Commands that are busy at the same time have different files.
LEMMA BusyApart ==
  ASSUME Typed, Locked, Records, NEW p \in Proc, NEW q \in Proc, p # q, Busy(job[p]), Busy(job[q]),
         NEW i \in DOMAIN job[q].plan
  PROVE  ~Names(job[p].plan, job[q].plan[i].file)
<1>1. job[p].step \notin Before /\ job[q].step \notin Before
  BY Zenon DEF Busy
<1>2. job[p].verb = "edit" /\ job[q].verb = "edit"
  BY Zenon, <1>1, Alone DEF Before
<1>3. /\ Len(job[p].plan) = 1 /\ owner[job[p].plan[1].file] = p /\ job[p].plan \in Plans
      /\ Len(job[q].plan) = 1 /\ owner[job[q].plan[1].file] = q /\ job[q].plan \in Plans
  BY Zenon, <1>1, <1>2, ItemFacts DEF Records, Before
<1>4. DOMAIN job[p].plan = {1} /\ DOMAIN job[q].plan = {1}
  BY <1>3, PlanFacts
<1> QED
  BY Zenon, <1>3, <1>4 DEF Names

\* An undo runs alone.
LEMMA UndoAlone ==
  ASSUME Typed, Locked, NEW p \in Proc, job[p].step \in Undoing
  PROVE  \A q \in Proc : q # p => ~Busy(job[q]) /\ job[q].step \notin Undone
<1>1. job[p].verb # "edit" /\ job[p].step \notin {"idle", "barrier"}
  BY Zenon DEF Typed, Shape, Fits, Before, Undoing
<1>2. \A q \in Proc : q # p => job[q].step \in {"idle", "barrier"}
  BY Zenon, <1>1, Alone
<1> QED
  BY Zenon, <1>2 DEF Busy, Before, Undone

\* The plans continue the stack.
LEMMA LinkedPlans ==
  ASSUME Typed, Locked, Records, Stacks, Linked, [Next]_vars, lapses' = {}, stack' # Unreadable,
         NEW q \in Proc, Busy(job'[q]), NEW i \in DOMAIN job'[q].plan
  PROVE  EndsAt(stack', Len(stack'), job'[q].plan[i].file, job'[q].plan[i].before)
<1> DEFINE t == job'[q].plan[i]
<1>1. lapses = {}
  BY Zenon, StackSteps
<1>2. CASE Busy(job[q]) /\ SameBefore(job'[q].plan, job[q].plan)
  <2>1. i \in DOMAIN job[q].plan /\ job[q].plan[i].file = t.file /\ job[q].plan[i].before = t.before
    BY Zenon, <1>2 DEF SameBefore
  <2>2. stack # Unreadable => EndsAt(stack, Len(stack), t.file, t.before)
    <3>1. stack # Unreadable => EndsAt(stack, Len(stack), job[q].plan[i].file, job[q].plan[i].before)
      BY Zenon, <1>1, <1>2, <2>1 DEF Linked
    <3> QED
      BY Zenon, <2>1, <3>1
  <2>3. CASE stack' = stack /\ stack # Unreadable
    BY Zenon, <2>2, <2>3
  <2>4. ASSUME NEW p \in Proc, WriteStack(p), stack # Unreadable PROVE EndsAt(stack', Len(stack'), t.file, t.before)
    <3>1. job[p].step = "writeStack" /\ job'[p].step = "forget"
      BY Zenon, <2>4, StackMover
    <3>2. p # q /\ Busy(job[p])
      BY Zenon, <3>1 DEF Busy, Before, Undoing
    <3>3. ~Names(job[p].plan, t.file)
      BY Zenon, <1>2, <2>1, <3>2, BusyApart
    <3> QED
      BY Zenon, <1>1, <2>2, <2>4, <3>3, WrittenLinks
  <2>5. ASSUME NEW p \in Proc, Saved(p) PROVE FALSE
    <3>1. job[p].step = "saved" /\ job'[p].step = "idle"
      BY Zenon, <2>5, StackMover
    <3>2. job[p].step \in Undoing /\ p # q
      BY Zenon, <3>1 DEF Undoing, Busy, Before
    <3> QED
      BY Zenon, <1>2, <3>2, UndoAlone
  <2> QED
    BY Zenon, <2>3, <2>4, <2>5, StackSteps
<1>3. CASE Plan(q) /\ t.file \in File /\ t.before = live[t.file] /\ ~Changing(t.file)
  <2>1. stack' = stack
    BY Zenon, <1>3 DEF Plan, files
  <2>2. EndsAt(stack, Len(stack), t.file, live[t.file])
    BY Zenon, <1>1, <1>3, <2>1 DEF Linked
  <2> QED
    BY Zenon, <1>3, <2>1, <2>2
<1> QED
  BY Zenon, <1>2, <1>3, BusyPlans

\* The files continue the stack.
LEMMA LinkedFiles ==
  ASSUME Typed, Locked, Records, Fresh, Restoring, Stacks, Pictures, Linked, [Next]_vars, lapses' = {},
         stack' # Unreadable, NEW f \in File, ~Changing(f)'
  PROVE  EndsAt(stack', Len(stack'), f, live'[f])
<1>1. lapses = {}
  BY Zenon, StackSteps
\* Nobody was changing the file.
<1>2. CASE ~Changing(f)
  <2>1. live'[f] = live[f]
    BY Zenon, <1>2, NotChanged
  <2>2. stack # Unreadable => EndsAt(stack, Len(stack), f, live[f])
    BY Zenon, <1>1, <1>2 DEF Linked
  <2>3. ASSUME NEW p \in Proc, WriteStack(p), stack # Unreadable PROVE EndsAt(stack', Len(stack'), f, live[f])
    <3>1. job[p].step = "writeStack"
      BY Zenon, <2>3, StackMover
    <3>2. ~Names(job[p].plan, f)
      BY Zenon, <1>2, <3>1 DEF Changing, Busy, Before, Undoing
    <3> QED
      BY Zenon, <1>1, <2>2, <2>3, <3>2, WrittenLinks
  <2>4. ASSUME NEW p \in Proc, Saved(p) PROVE EndsAt(stack', Len(stack'), f, live[f])
    <3>1. job[p].step = "saved"
      BY Zenon, <2>4, StackMover
    <3>2. ~Names(job[p].plan, f)
      BY Zenon, <1>2, <3>1 DEF Changing, Undone
    <3>3. EndsAt(job[p].mem, Len(job[p].mem), f, live[f])
      BY Zenon, <1>1, <3>1, <3>2 DEF Linked
    <3> QED
      BY Zenon, <1>1, <2>4, <3>2, <3>3, SavedLinks
  <2> QED
    BY Zenon, <2>1, <2>2, <2>3, <2>4, StackSteps
\* Somebody was.
<1>3. ASSUME NEW p \in Proc, Busy(job[p]) \/ job[p].step \in Undone, Names(job[p].plan, f)
      PROVE EndsAt(stack', Len(stack'), f, live'[f])
  <2>1. PICK i \in DOMAIN job[p].plan : job[p].plan[i].file = f
    BY Zenon, <1>3 DEF Names
  <2>2. job[p].step \in Undone => job[p].step \in Undoing /\ ~Busy(job[p])
    BY Zenon DEF Undone, Undoing, Busy
  <2>3. job'[p].step = "idle" => ~WriteStack(p)
    BY Zenon, StackMover
  \* The command that ends leaves the stack alone, unless it is an undo that is reported.
  <2>4. ASSUME job'[p].step = "idle", ~Saved(p) PROVE stack' = stack /\ stack # Unreadable
    <3>1. ASSUME NEW w \in Proc, WriteStack(w) \/ Saved(w) PROVE FALSE
      <4>1. w # p
        BY Zenon, <2>3, <2>4, <3>1
      <4>2. job'[p] = job[p]
        BY Zenon, <3>1, <4>1, StackMover
      <4> QED
        BY Zenon, <1>3, <2>4, <4>2 DEF Busy, Before, Undone
    <3> QED
      BY Zenon, <3>1, StackSteps
  <2>5. CASE Busy(job[p])
    <3>1. CASE Busy(job'[p])
      <4>1. SameBefore(job'[p].plan, job[p].plan)
        <5>1. ~Plan(p)
          BY Zenon, <2>5 DEF Plan, At, Busy, Before
        <5> QED
          BY Zenon, <3>1, <5>1, BusyPlans
      <4>2. Names(job'[p].plan, f)
        BY Zenon, <2>1, <4>1 DEF SameBefore, Names
      <4> QED
        BY Zenon, <3>1, <4>2 DEF Changing
    <3>2. CASE WriteStack(p)
      <4>1. job[p].step = "writeStack" /\ live' = live
        BY Zenon, <3>2, StackMover
      <4>2. live[f] = job[p].plan[i].after
        BY Zenon, <1>1, <2>1, <4>1 DEF Pictures, Pictured
      <4>3. EndsAt(stack', Len(stack'), job[p].plan[i].file, job[p].plan[i].after)
        BY Zenon, <1>1, <3>2, WrittenLinks
      <4> QED
        BY Zenon, <2>1, <4>1, <4>2, <4>3
    <3>3. CASE job'[p].step = "idle" /\ live'[f] = job[p].plan[i].before
      <4>1. stack' = stack /\ stack # Unreadable
        <5>1. ~Saved(p)
          BY Zenon, <2>5 DEF Saved, At, Busy, Undoing
        <5> QED
          BY Zenon, <2>4, <3>3, <5>1
      <4>2. EndsAt(stack, Len(stack), job[p].plan[i].file, job[p].plan[i].before)
        BY Zenon, <1>1, <2>5, <4>1 DEF Linked
      <4> QED
        BY Zenon, <2>1, <3>3, <4>1, <4>2
    <3> QED
      BY Zenon, <2>1, <2>5, <3>1, <3>2, <3>3, BusyEnds
  <2>6. CASE job[p].step \in Undone
    <3>1. CASE job'[p].step \in Undone /\ job'[p].plan = job[p].plan
      BY Zenon, <1>3, <3>1 DEF Changing
    <3>2. CASE Saved(p)
      <4>1. job[p].step = "saved" /\ live' = live
        BY Zenon, <3>2, StackMover
      <4>2. live[f] = job[p].plan[i].before
        BY Zenon, <1>1, <2>1, <2>6, <4>1 DEF Restoring, Restores, Behind
      <4>3. EndsAt(stack', Len(stack'), job[p].plan[i].file, job[p].plan[i].before)
        BY Zenon, <1>1, <3>2, SavedLinks
      <4> QED
        BY Zenon, <2>1, <4>1, <4>2, <4>3
    <3>3. CASE ~Saved(p) /\ job[p].step = "restore" /\ job'[p].step = "idle" /\ live'[f] = job[p].plan[i].after
      <4>1. stack' = stack /\ stack # Unreadable
        BY Zenon, <2>4, <3>3
      <4>2. /\ job[p].mem \in Seq(Record) /\ job[p].pos \in 1..Len(job[p].mem) /\ job[p].plan \in Plans
            /\ job[p].mem[job[p].pos] = [id |-> job[p].tid, entries |-> job[p].plan]
        <5>1. job[p].step \notin Before
          BY Zenon, <3>3 DEF Before
        <5> QED
          BY Zenon, <2>2, <2>6, <5>1, ItemFacts DEF Typed, TypeOK, Job, Shape, Fits
      <4>3. job[p].pos = Len(job[p].mem) /\ stack = job[p].mem
        BY Zenon, <1>1, <2>2, <2>6, <3>3 DEF Linked, Stacks, Knows
      <4>4. Len(stack) \in Nat /\ Len(stack) >= 1
        BY SMTT(30), <4>2, <4>3
      <4>5. stack[Len(stack)].entries = job[p].plan
        <5>1. [id |-> job[p].tid, entries |-> job[p].plan].entries = job[p].plan
          BY Zenon
        <5> QED
          BY Zenon, <4>2, <4>3, <5>1
      <4>6. EndsAt(stack, Len(stack), stack[Len(stack)].entries[i].file, stack[Len(stack)].entries[i].after)
        BY Zenon, <2>1, <4>2, <4>4, <4>5, EndsHere
      <4> QED
        BY Zenon, <2>1, <3>3, <4>1, <4>5, <4>6
    <3> QED
      BY Zenon, <2>1, <2>6, <3>1, <3>2, <3>3, UndoneEnds
  <2> QED
    BY Zenon, <1>3, <2>5, <2>6
<1> QED
  BY Zenon, <1>2, <1>3 DEF Changing

\* An undo that is not told otherwise takes the transaction on top, and knows the chain below it.
LEMMA LinkedUndo ==
  ASSUME Typed, Locked, Stacks, Linked, [Next]_vars, lapses' = {}, NEW q \in Proc
  PROVE  /\ job'[q].step \in Undoing => job'[q].pos = Len(job'[q].mem)
         /\ job'[q].step = "saved" =>
              /\ Chain(job'[q].mem)
              /\ \A f \in File : ~Names(job'[q].plan, f) => EndsAt(job'[q].mem, Len(job'[q].mem), f, live'[f])
<1> DEFINE j == job[q]
           k == job'[q]
<1>1. lapses = {} /\ Idle.step = "idle"
  BY Zenon, Changes DEF Effects, Idle
<1>2. j.step \in Undoing => j.pos = Len(j.mem)
  BY Zenon, <1>1 DEF Linked
<1>3. ASSUME NEW s, NEW i, NEW c, Moves(q, s, i, c), Allowed(q, s, i)
      PROVE k.step \in Undoing => k.pos = Len(k.mem)
  <2>1. k.step = s /\ k.mem = j.mem /\ k.pos = j.pos
    BY Zenon, <1>3 DEF Moves
  <2>2. s \in Undoing => j.step \in Undoing
    BY Zenon, <1>3 DEF Allowed, Follows, Undoing
  <2> QED
    BY Zenon, <1>2, <2>1, <2>2
<1>4. ASSUME k.mem = stack, lapses' = IF k.pos = Len(stack) THEN lapses ELSE lapses \cup {"byId"}
      PROVE k.pos = Len(k.mem)
  BY Zenon, <1>4
<1>5. ASSUME k.step \in Undoing PROVE k.pos = Len(k.mem)
  <2>1. k.step \notin Before \cup {"open", "publishAll", "stackLock", "writeStack"}
    BY Zenon, <1>5 DEF Undoing, Before
  <2>2. CASE JobStep(q)
    BY Zenon, <1>1, <1>3, <1>4, <1>5, <2>1, <2>2 DEF JobStep, Before
  <2>3. CASE k = j
    BY Zenon, <1>2, <1>5, <2>3
  <2> QED
    BY Zenon, <2>2, <2>3, JobSteps
<1>6. ASSUME k.step = "saved" PROVE (Save(q) \/ k = j) /\ k.mem = j.mem /\ k.plan = j.plan
  <2>1. ASSUME NEW s, NEW i, NEW c, Moves(q, s, i, c), Allowed(q, s, i), Does(q)
        PROVE Save(q) /\ k.mem = j.mem /\ k.plan = j.plan
    <3>1. j.step = "save" /\ s = "saved"
      BY Zenon, <1>6, <2>1 DEF Moves, Allowed, Follows
    <3> QED
      BY Zenon, <2>1, <3>1 DEF Moves, Does, Open, Publish, Swap, Fill, PublishError, Back, BackSwap, BackError, PublishAll,
           StackLock, WriteStack, Guard, Restore, Rewrite, CreatedHere, At
  <2>2. k.step \notin Before \cup {"open", "publishAll", "stackLock", "writeStack", "guard"}
    BY Zenon, <1>6 DEF Before
  <2>3. CASE JobStep(q)
    BY Zenon, <1>1, <2>1, <2>2, <2>3 DEF JobStep, Before
  <2> QED
    BY Zenon, <2>3, JobSteps
<1>7. ASSUME k.step = "saved", NEW f \in File, ~Names(j.plan, f) PROVE ~Changing(f) /\ live'[f] = live[f]
  <2>1. j.step \in Undoing
    BY Zenon, <1>6, <1>7, StackMover DEF Undoing
  <2>2. ~Changing(f)
    BY Zenon, <1>7, <2>1, UndoAlone DEF Changing
  <2> QED
    BY Zenon, <2>2, NotChanged
<1>8. ASSUME k.step = "saved", Save(q)
      PROVE Chain(j.mem) /\ \A f \in File : ~Names(j.plan, f) => EndsAt(j.mem, Len(j.mem), f, live[f])
  <2>1. stack = j.mem
    BY Zenon, <1>8, StackMover DEF Stacks, Knows, Undoing
  <2>2. stack # Unreadable
    <3>1. j.mem \in Seq(Record)
      BY Zenon DEF Typed, TypeOK, Job
    <3> QED
      BY Zenon, <2>1, <3>1, CommandAssumption
  <2>3. Chain(stack) /\ \A f \in File : ~Changing(f) => EndsAt(stack, Len(stack), f, live[f])
    BY Zenon, <1>1, <2>2 DEF Linked
  <2> QED
    BY Zenon, <1>7, <1>8, <2>1, <2>3
<1>9. ASSUME k.step = "saved", k = j
      PROVE Chain(j.mem) /\ \A f \in File : ~Names(j.plan, f) => EndsAt(j.mem, Len(j.mem), f, live[f])
  BY Zenon, <1>1, <1>9 DEF Linked
<1>10. ASSUME k.step = "saved"
       PROVE /\ Chain(k.mem)
             /\ \A f \in File : ~Names(k.plan, f) => EndsAt(k.mem, Len(k.mem), f, live'[f])
  <2>1. Chain(j.mem) /\ \A f \in File : ~Names(j.plan, f) => EndsAt(j.mem, Len(j.mem), f, live[f])
    BY Zenon, <1>6, <1>8, <1>9, <1>10
  <2>2. \A f \in File : ~Names(j.plan, f) => EndsAt(j.mem, Len(j.mem), f, live'[f])
    BY Zenon, <1>7, <1>10, <2>1
  <2>3. k.mem = j.mem /\ k.plan = j.plan
    BY Zenon, <1>6, <1>10
  <2> QED
    BY Zenon, <2>1, <2>2, <2>3
<1> QED
  BY Zenon, <1>5, <1>10

\* The stack stays a chain that the files and the plans continue.
LEMMA LinkedNext ==
  ASSUME Typed, Locked, Records, Fresh, Restoring, Stacks, Pictures, Linked, [Next]_vars PROVE Linked'
<1>1. ASSUME lapses' = {}, stack' # Unreadable PROVE Chain(stack')
  <2>1. lapses = {} /\ (stack # Unreadable => Chain(stack))
    BY Zenon, <1>1, StackSteps DEF Linked
  <2>2. ASSUME NEW p \in Proc, WriteStack(p) PROVE Chain(stack')
    BY Zenon, <2>1, <2>2, WrittenLinks
  <2>3. ASSUME NEW p \in Proc, Saved(p) PROVE Chain(stack')
    BY Zenon, <2>1, <2>3, SavedLinks
  <2> QED
    BY Zenon, <1>1, <2>1, <2>2, <2>3, StackSteps
<1>2. ASSUME lapses' = {}, stack' # Unreadable
      PROVE \A q \in Proc : Busy(job'[q]) => \A i \in DOMAIN job'[q].plan :
              EndsAt(stack', Len(stack'), job'[q].plan[i].file, job'[q].plan[i].before)
  BY Zenon, <1>2, LinkedPlans
<1>3. ASSUME lapses' = {}, stack' # Unreadable
      PROVE \A f \in File : ~Changing(f)' => EndsAt(stack', Len(stack'), f, live'[f])
  BY Zenon, <1>3, LinkedFiles
<1> QED
  BY Zenon, <1>1, <1>2, <1>3, LinkedUndo DEF Linked

-----------------------------------------------------------------------------
(* The theorems.                                                           *)

\* The inductive invariant, with the layers of this module.
UndoInv == CommandsInv /\ Pictures /\ Linked

\* The invariant holds when nothing has happened yet.
LEMMA UndoInit ==
  ASSUME Init PROVE UndoInv
<1>1. /\ \A p \in Proc : job[p] = Idle
      /\ Idle.step = "idle" /\ Idle.tid = 0 /\ applied = {} /\ stack = <<>>
  BY Zenon DEF Init, Idle
<1>2. Len(stack) = 0 /\ \A k \in 1..Len(stack) : FALSE
  BY SMTT(30), <1>1
<1>3. \A n : n = Len(stack) => \A k \in 1..n : FALSE
  BY Zenon, <1>2
<1>4. Pictures
  <2>1. \A p \in Proc : job[p].step \notin Shown
    BY Zenon, <1>1 DEF Shown
  <2> QED
    BY Zenon, <2>1 DEF Pictures, Pictured, Shown
<1>5. Linked
  <2>1. \A p \in Proc : ~Busy(job[p]) /\ job[p].step \notin Undoing /\ job[p].step # "saved"
    BY Zenon, <1>1 DEF Busy, Before, Undoing
  <2>2. Chain(stack) /\ \A f, v : EndsAt(stack, Len(stack), f, v)
    BY Zenon, <1>2 DEF Chain, EndsAt
  <2> QED
    BY Zenon, <2>1, <2>2 DEF Linked
<1> QED
  BY Zenon, <1>4, <1>5, CommandsInit DEF UndoInv

\* In the ordinary course of edits, patches, renames and undos that run side by side, the
\* images in stack.json meet, one transaction after another, up to what the files contain
\* (edit_journal_close, edit_journal_restore).
THEOREM UndoInvariant == Spec => []UndoInv
<1>1. UndoInv /\ [Next]_vars => UndoInv'
  <2> SUFFICES ASSUME UndoInv, [Next]_vars PROVE UndoInv'
    BY Zenon
  <2>1. CommandsInv' /\ Typed /\ Locked /\ Identified /\ Records /\ Fresh /\ Restoring /\ Stacks
    BY Zenon, TypesNext, LockedNext, IdentifiedNext, RecordsNext, FreshNext, RestoringNext, StacksNext,
       PreimagesNext DEF CommandsInv, UndoInv
  <2>2. Pictures /\ Linked
    BY Zenon DEF UndoInv
  <2> QED
    BY Zenon, <2>1, <2>2, PicturesNext, LinkedNext DEF UndoInv
<1> QED
  BY <1>1, UndoInit, PTL DEF Spec

\* In the ordinary course the comparison that run_edit_undo makes before it writes succeeds:
\* every file of the latest transaction is as that transaction left it.
THEOREM UndoAcceptedHolds == Spec => []UndoAccepted
<1>1. UndoInv => UndoAccepted
  <2> SUFFICES ASSUME UndoInv, lapses = {}, NEW p \in Proc, At(p, "guard"), NEW i \in DOMAIN job[p].plan
               PROVE  live[job[p].plan[i].file] = job[p].plan[i].after
    BY Zenon DEF UndoAccepted
  <2> DEFINE m == job[p].mem
             f == job[p].plan[i].file
  <2>1. Typed /\ Locked /\ Stacks /\ Linked
    BY Zenon DEF UndoInv, CommandsInv
  <2>2. job[p].step \in Undoing \ {"saved"} /\ job[p].step \notin Before /\ ~Busy(job[p]) /\ job[p].step \notin Undone
    BY Zenon DEF At, Undoing, Before, Busy, Undone
  <2>3. m \in Seq(Record) /\ job[p].pos \in 1..Len(m) /\ m[job[p].pos] = [id |-> job[p].tid, entries |-> job[p].plan]
    BY Zenon, <2>1, <2>2 DEF Typed, TypeOK, Job, Shape, Fits
  <2>4. job[p].pos = Len(m) /\ stack = m
    BY Zenon, <2>1, <2>2 DEF Linked, Stacks, Knows
  <2>5. stack # Unreadable
    BY Zenon, <2>3, <2>4, CommandAssumption
  <2>6. ~Changing(f)
    BY Zenon, <2>1, <2>2, UndoAlone DEF Changing
  <2>7. f \in File
    BY Zenon, <2>1, <2>2, ItemFacts, PlanFacts DEF Transition
  <2>8. EndsAt(stack, Len(stack), f, live[f])
    BY Zenon, <2>1, <2>5, <2>6, <2>7 DEF Linked
  <2>9. Len(m) \in Nat /\ Len(m) >= 1
    BY SMTT(30), <2>3
  <2>10. m[Len(m)].entries = job[p].plan
    <3>1. [id |-> job[p].tid, entries |-> job[p].plan].entries = job[p].plan
      BY Zenon
    <3> HIDE DEF m
    <3> QED
      BY Zenon, <2>3, <2>4, <3>1
  <2>11. i \in DOMAIN m[Len(m)].entries /\ EndsAt(m, Len(m), m[Len(m)].entries[i].file, live[f])
    BY Zenon, <2>4, <2>8, <2>10
  <2> HIDE DEF m, f
  <2>12. m[Len(m)].entries[i].after = live[f]
    BY Zenon, <2>9, <2>11, EndsLast
  <2> QED
    BY Zenon, <2>10, <2>12 DEF f
<1> QED
  BY <1>1, UndoInvariant, PTL
=============================================================================
