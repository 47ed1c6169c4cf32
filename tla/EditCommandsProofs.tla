------------------------- MODULE EditCommandsProofs -------------------------
(***************************************************************************)
(* An inductive invariant of EditCommands, and the properties that follow  *)
(* from it.  Each layer rests on the ones before it: those of              *)
(* EditCommandsInvariant, and                                              *)
(*                                                                         *)
(*   Fresh       what a command is about to replace is what it has read    *)
(*   Restoring   which files an undo has put back                          *)
(*   Stacks      the undo stack on disk, and what the commands know of it  *)
(*   Preimages   the bytes a change replaced are on disk                   *)
(***************************************************************************)
EXTENDS EditCommandsInvariant

-----------------------------------------------------------------------------
(* The files.                                                              *)

\* The steps that write files.
Writes(p) ==
  Publish(p) \/ Swap(p) \/ Fill(p) \/ Back(p) \/ BackSwap(p) \/ PublishAll(p)
  \/ PublishPart(p) \/ Restore(p) \/ Rewrite(p)

\* Nobody but the command itself writes the files of its plan.
LEMMA Untouched ==
  ASSUME Typed, Locked, Records, [Next]_vars, "foreign" \notin lapses',
         NEW q \in Proc, job[q].step \notin Before, ~Writes(q)
  PROVE  \A i \in DOMAIN job[q].plan : live'[job[q].plan[i].file] = live[job[q].plan[i].file]
<1>1. Effects
  BY Zenon, Changes
<1>2. ASSUME NEW f, NEW image, ForeignWrite(f, image) PROVE FALSE
  BY Zenon, <1>2 DEF ForeignWrite
<1>3. ASSUME NEW p \in Proc, Writes(p)
      PROVE \A i \in DOMAIN job[q].plan : live'[job[q].plan[i].file] = live[job[q].plan[i].file]
  <2>1. /\ p # q /\ job[p].step \notin Before
        /\ \A f \in File : (\A i \in DOMAIN job[p].plan : job[p].plan[i].file # f) => live'[f] = live[f]
    BY Zenon, <1>3, WriteFacts DEF Writes
  <2>2. job[p].verb = "edit" /\ job[q].verb = "edit"
    BY Zenon, <2>1, Alone DEF Before
  <2>3. /\ Len(job[p].plan) = 1 /\ owner[job[p].plan[1].file] = p /\ job[p].plan \in Plans
        /\ Len(job[q].plan) = 1 /\ owner[job[q].plan[1].file] = q /\ job[q].plan \in Plans
    BY Zenon, <2>1, <2>2, ItemFacts DEF Records, Before
  <2>4. DOMAIN job[p].plan = {1} /\ DOMAIN job[q].plan = {1} /\ job[q].plan[1].file \in File
    BY <2>3, PlanFacts DEF Transition
  <2> QED
    BY Zenon, <2>1, <2>3, <2>4
<1> QED
  BY Zenon, <1>1, <1>2, <1>3 DEF Effects, Writes

\* A publication that fails is not tried again.
LEMMA Failed ==
  ASSUME Typed, NEW q \in Proc, FailPublish(q) PROVE job'[q].step \in {"idle", "back"}
<1>1. job \in [Proc -> Job] /\ Idle.step = "idle"
  BY Zenon DEF Typed, TypeOK, Idle
<1>2. CASE job[q].idx = 1
  BY Zenon, <1>1, <1>2 DEF FailPublish, Return
<1>3. CASE job[q].idx # 1
  BY Zenon, <1>1, <1>3, MoveKinds DEF Moves
<1> QED
  BY Zenon, <1>2, <1>3

\* The plan is not carried out yet, from the file at hand on.
Unwritten(j) == j.step \in {"publish", "swap", "publishAll"} \/ (j.step = "open" /\ j.verb # "rename")

\* What a command has still to write is what it read, until somebody outside greppy
\* writes a file; a rename may have been unable to read one.
Fresh ==
  "foreign" \notin lapses =>
    \A p \in Proc : Unwritten(job[p]) /\ (job[p].step = "publishAll" => "unread" \notin lapses) =>
      \A i \in DOMAIN job[p].plan : i >= job[p].idx => live[job[p].plan[i].file] = job[p].plan[i].before

\* A command gets to the next file of its plan; that one is not written yet.
LEMMA FreshStep ==
  ASSUME Typed, NEW q \in Proc, Publish(q) \/ Swap(q), Unwritten(job'[q]),
         \A i \in DOMAIN job[q].plan : i >= job[q].idx => live[job[q].plan[i].file] = job[q].plan[i].before
  PROVE  \A i \in DOMAIN job'[q].plan : i >= job'[q].idx => live'[job'[q].plan[i].file] = job'[q].plan[i].before
<1> DEFINE ts == job[q].plan
           n == job[q].idx
<1>1. job[q].step \in {"publish", "swap"} /\ job \in [Proc -> Job]
  BY Zenon DEF Publish, Swap, At, Typed, TypeOK
<1>2. /\ ts \in Plans /\ n \in DOMAIN ts /\ Distinct(ts) /\ n \in Nat /\ DOMAIN ts \subseteq Nat
      /\ \A i \in DOMAIN ts : ts[i].file \in File
      /\ \A f \in File : f # ts[n].file => live'[f] = live[f]
  <2>1. ts \in Plans /\ n \in DOMAIN ts
    BY Zenon, <1>1, ItemFacts DEF Before
  <2>2. DOMAIN ts = 1..Len(ts) /\ Len(ts) \in Nat /\ Distinct(ts) /\ \A i \in DOMAIN ts : ts[i].file \in File
    BY <2>1, PlanFacts, CommandAssumption DEF Transition
  <2>3. \A f \in File : f # ts[n].file => live'[f] = live[f]
    BY Zenon, <1>1, WriteFacts DEF At, Item
  <2> QED
    BY <2>1, <2>2, <2>3
<1>3. Unwritten(job'[q]) => job'[q].step \notin {"idle", "back", "close", "fill"}
  BY Zenon DEF Unwritten
<1>4. CASE Go(q, "swap") /\ UNCHANGED live
  <2>1. Moves(q, "swap", n, job[q].clash)
    BY Zenon, <1>1, <1>4, MoveKinds DEF Steps
  <2> QED
    BY Zenon, <1>4, <2>1 DEF Moves
<1>5. CASE Advance(q)
  <2>1. Moves(q, "publish", n + 1, job[q].clash)
    BY Zenon, <1>1, <1>2, <1>3, <1>5, MoveKinds DEF Moves
  <2>2. job'[q].plan = ts /\ job'[q].idx = n + 1
    BY Zenon, <2>1 DEF Moves
  <2>3. \A i \in DOMAIN ts : i >= n + 1 => i >= n /\ i # n
    BY SMTT(30), <1>2
  <2>4. \A i \in DOMAIN ts : i # n => ts[i].file # ts[n].file
    BY Zenon, <1>2 DEF Distinct
  <2> QED
    BY Zenon, <1>2, <2>2, <2>3, <2>4
<1>6. CASE Go(q, "fill")
  <2>1. Moves(q, "fill", n, job[q].clash)
    BY Zenon, <1>1, <1>6, MoveKinds DEF Steps
  <2> QED
    BY Zenon, <1>3, <2>1 DEF Moves
<1>7. CASE FailPublish(q)
  BY Zenon, <1>3, <1>7, Failed
<1> QED
  BY Zenon, <1>4, <1>5, <1>6, <1>7 DEF Publish, Swap

\* A plan stays true until it is carried out.
LEMMA FreshNext ==
  ASSUME Typed, Locked, Records, Fresh, [Next]_vars PROVE Fresh'
<1> SUFFICES ASSUME "foreign" \notin lapses', NEW q \in Proc, Unwritten(job'[q]),
                    job'[q].step = "publishAll" => "unread" \notin lapses'
             PROVE \A i \in DOMAIN job'[q].plan :
                     i >= job'[q].idx => live'[job'[q].plan[i].file] = job'[q].plan[i].before
  BY Zenon DEF Fresh
<1> DEFINE Goal == \A i \in DOMAIN job'[q].plan :
                     i >= job'[q].idx => live'[job'[q].plan[i].file] = job'[q].plan[i].before
<1>1. "foreign" \notin lapses /\ lapses \subseteq lapses'
  BY Zenon, Changes DEF Effects
<1>2. job \in [Proc -> Job] /\ Shape /\ Idle.step = "idle"
  BY Zenon DEF Typed, TypeOK, Idle
<1>3. ASSUME Unwritten(job[q]), job[q].step = "publishAll" => "unread" \notin lapses
      PROVE job[q].step \notin Before
            /\ \A i \in DOMAIN job[q].plan : i >= job[q].idx => live[job[q].plan[i].file] = job[q].plan[i].before
  BY Zenon, <1>1, <1>3 DEF Fresh, Unwritten, Before
<1>4. CASE Publish(q) \/ Swap(q)
  <2>1. Unwritten(job[q]) /\ job[q].step # "publishAll"
    BY Zenon, <1>4 DEF Publish, Swap, At, Unwritten
  <2> QED
    BY Zenon, <1>3, <1>4, <2>1, FreshStep
\* The other steps that write end elsewhere.
<1>5. CASE ~Publish(q) /\ ~Swap(q) /\ Writes(q)
  <2>1. /\ job[q].step \in {"fill", "back", "backSwap", "publishAll", "restore", "rewrite"}
        /\ job[q].step = "publishAll" => job[q].verb = "rename"
        /\ job[q].step = "fill" => Advance(q) /\ job[q].verb = "edit"
    BY Zenon, <1>2, <1>5 DEF Writes, Fill, Back, BackSwap, PublishAll, PublishPart, Restore, Rewrite, At,
         Shape, Fits
  <2>2. CASE job[q].step = "fill"
    <3>1. job[q].plan \in Plans /\ job[q].idx \in DOMAIN job[q].plan /\ Len(job[q].plan) = 1 /\ job[q].idx = 1
      BY Zenon, <1>2, <2>1, <2>2 DEF Shape, Fits, Before, Recording
    <3>2. ~(job[q].idx < Len(job[q].plan))
      BY <3>1
    <3>3. job'[q].step = "close"
      BY Zenon, <1>2, <2>1, <2>2, <3>1, <3>2, MoveKinds DEF Moves
    <3> QED
      BY Zenon, <3>3 DEF Unwritten
  <2>3. CASE job[q].step # "fill"
    <3>1. ASSUME NEW s, NEW i, NEW c, Moves(q, s, i, c), Allowed(q, s, i) PROVE FALSE
      BY Zenon, <2>1, <2>3, <3>1 DEF Moves, Allowed, Follows, Unwritten
    <3>2. JobStep(q) => FALSE
      BY Zenon, <1>2, <2>1, <3>1 DEF JobStep, Unwritten, Before, Start, StartEdit, StartWide, AcquireBarrier, AcquireFile, At
    <3>3. job'[q] # job[q]
      <4>1. PublishAll(q) \/ PublishPart(q) => job'[q].step \in {"idle", "open"}
        <5>1. PublishAll(q) \/ PublishPart(q) => Return(q) \/ Go(q, "open")
          BY Zenon DEF PublishAll, PublishPart
        <5>2. Go(q, "open") => job'[q].step = "open"
          BY Zenon, <1>2, MoveKinds DEF Moves, Steps
        <5>3. Return(q) => job'[q].step = "idle"
          BY Zenon, <1>2 DEF Return
        <5> QED
          BY Zenon, <5>1, <5>2, <5>3
      <4>2. job[q].step = "publishAll" => PublishAll(q) \/ PublishPart(q)
        BY Zenon, <1>5 DEF Writes, Fill, Back, BackSwap, Restore, Rewrite, At
      <4> QED
        BY Zenon, <2>1, <4>1, <4>2 DEF Unwritten
    <3> QED
      BY Zenon, <3>2, <3>3, JobSteps
  <2> QED
    BY Zenon, <2>2, <2>3
\* Nobody writes the files of the plan.
<1>6. CASE ~Writes(q)
  <2>1. CASE /\ Unwritten(job[q]) /\ job'[q].plan = job[q].plan /\ (job'[q].idx = job[q].idx \/ job[q].idx = 1)
             /\ job[q].step = "publishAll" => job'[q].step = "publishAll"
    <3>0. job[q].step = "publishAll" => "unread" \notin lapses
      BY Zenon, <1>1, <2>1
    <3>1. \A i \in DOMAIN job[q].plan : i >= job'[q].idx => i >= job[q].idx
      <4>1. job[q].plan \in Plans
        BY Zenon, <1>3, <2>1, <3>0, ItemFacts
      <4>2. \A i \in DOMAIN job[q].plan : i >= 1
        BY <4>1, PlanFacts
      <4> QED
        BY Zenon, <2>1, <4>2
    <3>2. \A i \in DOMAIN job[q].plan : live'[job[q].plan[i].file] = live[job[q].plan[i].file]
      BY Zenon, <1>3, <1>6, <2>1, <3>0, Untouched
    <3>3. \A i \in DOMAIN job[q].plan : i >= job[q].idx => live[job[q].plan[i].file] = job[q].plan[i].before
      BY Zenon, <1>3, <2>1, <3>0
    <3>4. job'[q].plan = job[q].plan
      BY <2>1
    <3> QED
      BY Zenon, <3>1, <3>2, <3>3, <3>4
  <2>2. ASSUME NEW s, NEW i, NEW c, Moves(q, s, i, c), Allowed(q, s, i), Does(q) PROVE Goal
    <3>1. CASE job[q].step = "open"
      <4>1. job[q].verb \in {"edit", "patch"} /\ job[q].idx = 1
        BY Zenon, <1>2, <2>2, <3>1 DEF Moves, Allowed, Follows, Unwritten, Shape, Fits, Walking
      <4> QED
        BY Zenon, <2>1, <2>2, <3>1, <4>1 DEF Moves, Unwritten
    <3>2. CASE job[q].step # "open"
      <4>1. job[q].step \in {"publish", "swap", "fill", "publishAll"}
        BY Zenon, <2>2, <3>2 DEF Moves, Allowed, Follows, Unwritten
      <4>2. FailPublish(q)
        BY Zenon, <1>6, <2>2, <4>1 DEF Does, Writes, Open, PublishError, BackError, StackLock, WriteStack, Guard,
             CreatedHere, Save, At
      <4> QED
        BY Zenon, <4>2, Failed DEF Unwritten
    <3> QED
      BY Zenon, <3>1, <3>2
  <2>3. ASSUME Plan(q), job'[q].plan \in Planned(job[q].verb), job'[q].verb = job[q].verb,
               job'[q].step \in {"open", "publishAll"},
               "unread" \notin lapses' =>
                 \A i \in DOMAIN job'[q].plan : job'[q].plan[i].before = live[job'[q].plan[i].file]
        PROVE Goal
    <3>1. UNCHANGED live
      BY Zenon, <2>3 DEF Plan
    <3>2. CASE "unread" \notin lapses'
      BY Zenon, <2>3, <3>1, <3>2
    <3>3. CASE job[q].verb # "rename"
      BY Zenon, <2>3, <3>1, <3>3 DEF Planned
    <3> QED
      BY Zenon, <2>3, <3>2, <3>3 DEF Unwritten
  <2>4. CASE JobStep(q)
    BY Zenon, <1>2, <2>2, <2>3, <2>4 DEF JobStep, Unwritten, Before
  <2> QED
    BY Zenon, <2>1, <2>4, JobSteps
<1> QED
  BY Zenon, <1>4, <1>5, <1>6

-----------------------------------------------------------------------------
(* Undo, file after file.                                                  *)

\* The steps of an undo that has compared the files.
Undone == {"restore", "rewrite", "save", "saved"}

\* The files that an undo has still to put back, and those it has put back.
Ahead(j, i) == j.step \in {"restore", "rewrite"} /\ i >= j.idx /\ ~(j.step = "rewrite" /\ i = j.idx)
Behind(j, i) == j.step \in {"save", "saved"} \/ i < j.idx

\* The files ahead are as the transaction left them, those behind as they were before it.
Restores(j) ==
  \A i \in DOMAIN j.plan :
    /\ Ahead(j, i) => live[j.plan[i].file] = j.plan[i].after
    /\ Behind(j, i) /\ "kept" \notin lapses => live[j.plan[i].file] = j.plan[i].before
    /\ j.step = "rewrite" /\ i = j.idx => live[j.plan[i].file] = Torn

\* So it is with every undo, unless somebody outside greppy has written a file.
Restoring == "foreign" \notin lapses => \A p \in Proc : job[p].step \in Undone => Restores(job[p])

\* An undo goes on to the next file, or to the stack after the last one.
LEMMA RestoredNext ==
  ASSUME Typed, NEW q \in Proc, job[q].step \in {"restore", "rewrite"}, NextRestore(q), Restores(job[q]),
         lapses \subseteq lapses',
         \A i \in DOMAIN job[q].plan : i # job[q].idx =>
           live'[job[q].plan[i].file] = live[job[q].plan[i].file],
         "kept" \notin lapses' => live'[Item(q).file] = Item(q).before
  PROVE  Restores(job[q])' /\ job'[q].step \in {"restore", "save"}
<1> DEFINE ts == job[q].plan
           n == job[q].idx
           k == job'[q]
<1>1. ts \in Plans /\ n \in DOMAIN ts /\ job \in [Proc -> Job]
  BY Zenon, ItemFacts DEF Before, Typed, TypeOK
<1>2. n \in Nat /\ Len(ts) \in Nat /\ DOMAIN ts \subseteq Nat /\ \A i \in DOMAIN ts : i <= Len(ts)
  BY SMTT(30), <1>1, PlanFacts
<1>3. /\ \A i \in DOMAIN ts : i >= n + 1 => Ahead(job[q], i) /\ i # n
      /\ \A i \in DOMAIN ts : i < n + 1 => Behind(job[q], i) \/ i = n
  BY <1>2 DEF Ahead, Behind
<1>4. \A i \in DOMAIN ts : Ahead(job[q], i) /\ i # n => live'[ts[i].file] = ts[i].after
  BY Zenon DEF Restores
<1>5. \A i \in DOMAIN ts : "kept" \notin lapses' /\ (Behind(job[q], i) \/ i = n) => live'[ts[i].file] = ts[i].before
  <2> SUFFICES ASSUME NEW i \in DOMAIN ts, "kept" \notin lapses', Behind(job[q], i) \/ i = n
               PROVE live'[ts[i].file] = ts[i].before
    BY Zenon
  <2>1. CASE i = n
    BY Zenon, <2>1 DEF Item
  <2>2. CASE i # n
    BY Zenon, <2>2 DEF Restores
  <2> QED
    BY Zenon, <2>1, <2>2
<1>6. CASE n < Len(ts)
  <2>1. k.step = "restore" /\ k.idx = n + 1 /\ k.plan = ts
    BY Zenon, <1>1, <1>6, MoveKinds DEF Moves
  <2>2. \A i : (Ahead(k, i) => i >= n + 1) /\ (Behind(k, i) => i < n + 1)
    BY Zenon, <2>1 DEF Ahead, Behind
  <2> QED
    BY Zenon, <1>3, <1>4, <1>5, <2>1, <2>2 DEF Restores, Ahead, Behind
<1>7. CASE ~(n < Len(ts))
  <2>1. k.step = "save" /\ k.plan = ts
    BY Zenon, <1>1, <1>7, MoveKinds DEF Moves
  <2>2. \A i \in DOMAIN ts : i < n + 1
    BY <1>2, <1>7
  <2> QED
    BY Zenon, <1>3, <1>5, <2>1, <2>2 DEF Restores, Ahead
<1> QED
  BY Zenon, <1>6, <1>7

\* A command writes one file at a time: the others of its plan stay.
LEMMA OtherFiles ==
  ASSUME Typed, NEW q \in Proc, Restore(q) \/ Rewrite(q)
  PROVE  \A i \in DOMAIN job[q].plan : i # job[q].idx =>
           live'[job[q].plan[i].file] = live[job[q].plan[i].file]
<1> DEFINE ts == job[q].plan
<1>1. job[q].step \notin Before /\ ~At(q, "publishAll")
  BY Zenon DEF Restore, Rewrite, At, Before
<1>2. ts \in Plans /\ job[q].idx \in DOMAIN ts
  BY Zenon, <1>1, ItemFacts
<1>3. Distinct(ts) /\ \A i \in DOMAIN ts : ts[i].file \in File
  BY <1>2, PlanFacts DEF Transition
<1>4. \A f \in File : f # ts[job[q].idx].file => live'[f] = live[f]
  BY Zenon, <1>1, WriteFacts DEF Item
<1> QED
  BY Zenon, <1>2, <1>3, <1>4 DEF Distinct

\* Undo replaces only what its transaction left, and leaves what was there before it.
LEMMA RestoringNext ==
  ASSUME Typed, Locked, Records, Restoring, [Next]_vars PROVE Restoring'
<1> SUFFICES ASSUME "foreign" \notin lapses', NEW q \in Proc, job'[q].step \in Undone
             PROVE Restores(job[q])'
  BY Zenon DEF Restoring
<1>1. "foreign" \notin lapses /\ lapses \subseteq lapses'
  BY Zenon, Changes DEF Effects
<1>2. job \in [Proc -> Job] /\ live \in [File -> Image] /\ Shape /\ Idle.step = "idle"
  BY Zenon DEF Typed, TypeOK, Idle
<1>3. job[q].step \in Undone => job[q].step \notin Before /\ Restores(job[q])
  BY Zenon, <1>1 DEF Restoring, Undone, Before
<1>4. CASE Restore(q)
  <2>1. job[q].step = "restore" /\ Restores(job[q]) /\ UNCHANGED lapses
    BY Zenon, <1>3, <1>4 DEF Restore, At, Undone
  <2>2. CASE Item(q).before = Absent
    <3>1. NextRestore(q) /\ live' = [live EXCEPT ![Item(q).file] = Absent]
      BY Zenon, <1>4, <2>2 DEF Restore
    <3>2. live'[Item(q).file] = Item(q).before
      BY Zenon, <1>2, <1>3, <2>1, <2>2, <3>1, ItemFacts DEF Undone
    <3> QED
      BY Zenon, <1>1, <1>4, <2>1, <3>1, <3>2, OtherFiles, RestoredNext
  <2>3. CASE Item(q).before # Absent
    <3>1. Go(q, "rewrite") /\ live' = [live EXCEPT ![Item(q).file] = Torn]
      BY Zenon, <1>4, <2>3 DEF Restore
    <3>2. live'[Item(q).file] = Torn
      BY Zenon, <1>2, <1>3, <2>1, <3>1, ItemFacts DEF Undone
    <3>3. job'[q].step = "rewrite" /\ job'[q].plan = job[q].plan /\ job'[q].idx = job[q].idx
      BY Zenon, <1>2, <3>1, MoveKinds DEF Moves, Steps
    <3>4. \A i : Ahead(job'[q], i) => Ahead(job[q], i) /\ i # job[q].idx
      BY Zenon, <2>1, <3>3 DEF Ahead
    <3>5. \A i \in DOMAIN job[q].plan : Behind(job'[q], i) => Behind(job[q], i) /\ i # job[q].idx
      <4>1. job[q].plan \in Plans /\ job[q].idx \in DOMAIN job[q].plan
        BY Zenon, <1>3, <2>1, ItemFacts DEF Undone
      <4>2. \A i \in DOMAIN job[q].plan : i < job[q].idx => i # job[q].idx
        BY SMTT(30), <4>1, PlanFacts
      <4> QED
        BY Zenon, <3>3, <4>2 DEF Behind
    <3>6. \A i \in DOMAIN job[q].plan : i # job[q].idx =>
            live'[job[q].plan[i].file] = live[job[q].plan[i].file]
      BY Zenon, <1>4, OtherFiles
    <3> QED
      BY Zenon, <2>1, <3>2, <3>3, <3>4, <3>5, <3>6 DEF Restores, Item
  <2> QED
    BY Zenon, <2>2, <2>3
<1>5. CASE Rewrite(q)
  <2>1. job[q].step = "rewrite" /\ Restores(job[q]) /\ UNCHANGED lapses /\ NextRestore(q)
    BY Zenon, <1>3, <1>5 DEF Rewrite, At, Undone
  <2>2. live[Item(q).file] = Torn /\ Item(q).file \in File
    BY Zenon, <1>3, <2>1, ItemFacts DEF Restores, Item, Undone
  <2>3. live'[Item(q).file] = Item(q).before
    BY Zenon, <1>2, <1>5, <2>2 DEF Rewrite, Filled
  <2> QED
    BY Zenon, <1>1, <1>5, <2>1, <2>3, OtherFiles, RestoredNext
<1>6. CASE ~Restore(q) /\ ~Rewrite(q)
  <2>1. job[q].step \in Undoing => ~Writes(q)
    BY Zenon, <1>6 DEF Writes, Publish, Swap, Fill, Back, BackSwap, PublishAll, PublishPart, At, Undoing
  <2>2. job[q].step \in Undoing =>
          \A i \in DOMAIN job[q].plan : live'[job[q].plan[i].file] = live[job[q].plan[i].file]
    BY Zenon, <2>1, Untouched DEF Undoing, Before
  <2>3. CASE job'[q] = job[q]
    BY Zenon, <1>1, <1>3, <2>2, <2>3 DEF Restores, Undone, Undoing
  <2>4. ASSUME NEW s, NEW i, NEW c, Moves(q, s, i, c), Allowed(q, s, i), Does(q) PROVE Restores(job[q])'
    <3>1. job'[q].step = s /\ job'[q].plan = job[q].plan /\ job'[q].idx = i
      BY Zenon, <2>4 DEF Moves
    <3>2. CASE job[q].step = "guard"
      <4>1. Guard(q) /\ s = "restore"
        BY Zenon, <2>4, <3>2 DEF Does, Open, Publish, Swap, Fill, PublishError, Back, BackSwap, BackError,
             PublishAll, StackLock, WriteStack, Restore, Rewrite, CreatedHere, Save, At, Allowed, Follows
      <4>2. ~Return(q)
        BY Zenon, <1>2, <3>1, <4>1 DEF Return
      <4>3. Go(q, "restore") /\ \A k \in DOMAIN job[q].plan : live[job[q].plan[k].file] = job[q].plan[k].after
        BY Zenon, <4>1, <4>2 DEF Guard
      <4>4. i = 1
        <5>1. job[q].idx = 1
          BY Zenon, <1>2, <3>2 DEF Shape, Fits, Walking
        <5>2. Moves(q, "restore", job[q].idx, job[q].clash)
          BY Zenon, <1>2, <4>3, MoveKinds DEF Steps
        <5> QED
          BY Zenon, <3>1, <5>1, <5>2 DEF Moves
      <4>5. \A k \in DOMAIN job[q].plan : ~(k < 1)
        <5>1. job[q].plan \in Plans
          BY Zenon, <3>2, ItemFacts DEF Before
        <5> QED
          BY <5>1, PlanFacts
      <4> QED
        BY Zenon, <2>2, <3>1, <3>2, <4>1, <4>3, <4>4, <4>5 DEF Restores, Behind, Undoing
    <3>3. CASE job[q].step = "save"
      <4>1. s = "saved" /\ Restores(job[q])
        BY Zenon, <1>3, <2>4, <3>3 DEF Undone, Allowed, Follows
      <4>2. \A k : ~Ahead(job'[q], k) /\ Behind(job[q], k)
        BY Zenon, <3>1, <3>3, <4>1 DEF Ahead, Behind
      <4> QED
        <5>1. "kept" \notin lapses' => "kept" \notin lapses
          BY Zenon, <1>1
        <5>2. \A k \in DOMAIN job[q].plan : live'[job[q].plan[k].file] = live[job[q].plan[k].file]
          BY Zenon, <2>2, <3>3 DEF Undoing
        <5> QED
          BY Zenon, <3>1, <4>1, <4>2, <5>1, <5>2 DEF Restores
    <3>4. CASE job[q].step \in {"restore", "rewrite"}
      <4>1. IgnoredInside(q) /\ CreatedHere(q)
        BY Zenon, <1>6, <2>4, <3>4 DEF Does, Open, Publish, Swap, Fill, PublishError,
             Back, BackSwap, BackError, PublishAll, StackLock, WriteStack, Guard, Save, At
      <4>2. NextRestore(q) /\ "kept" \in lapses'
        BY Zenon, <3>4, <4>1 DEF IgnoredInside, CreatedHere, At
      <4> QED
        BY Zenon, <1>1, <1>3, <2>2, <3>4, <4>2, RestoredNext DEF Undone, Undoing
    <3> QED
      BY Zenon, <2>4, <3>1, <3>2, <3>3, <3>4 DEF Allowed, Follows, Undone
  <2>5. CASE JobStep(q)
    BY Zenon, <1>2, <2>4, <2>5 DEF JobStep, Undone, Before
  <2> QED
    BY Zenon, <2>3, <2>5, JobSteps
<1> QED
  BY Zenon, <1>4, <1>5, <1>6

-----------------------------------------------------------------------------
(* The undo stack.                                                         *)

\* What HistoryKept asks of the stack, wherever a copy of it is.
Kept(s) ==
  /\ "overlooked" \notin lapses => recorded \subseteq Ids(Range(s)) \cup undone \cup trimmed
  /\ Len(s) <= Depth

\* What a command knows of the stack.
Knows(j) ==
  /\ j.step = "writeStack" => Kept(j.mem) /\ ("overlooked" \notin lapses => stack # Unreadable /\ j.mem = stack)
  /\ j.step = "forget" => stack # Unreadable /\ j.tid \in Ids(Range(stack)) \cup trimmed
  /\ j.step \in Undoing => Kept(j.mem)
  /\ j.step \in Undoing \ {"saved"} => stack = j.mem
  /\ j.step = "saved" => stack = Unreadable

\* The stack on disk has what HistoryKept asks, or an undo is about to write it in place.
Stacks ==
  /\ stack # Unreadable => Kept(stack)
  /\ stack = Unreadable /\ "interrupted" \notin lapses => \E p \in Proc : At(p, "saved")
  /\ \A p \in Proc : Knows(job[p])

\* An undo that stops before the stack is written leaves a trace.
LEMMA SavedEnds ==
  ASSUME Typed, [Next]_vars, NEW p \in Proc, At(p, "saved")
  PROVE  job'[p] = job[p] \/ Saved(p) \/ "interrupted" \in lapses'
<1>1. job[p].step = "saved" /\ Shape
  BY Zenon DEF At, Typed
<1>2. CASE Ends(p)
  BY Zenon, <1>1, <1>2 DEF Ends, Plan, Select, Guard, PublishAll, Publish, Swap, PublishError, ReadStack, Abandon, Forget,
       Deadline, PublishPart, Crash, ReturnError, IgnoredAtEnd, At, MidChange
<1>3. CASE JobStep(p)
  BY Zenon, <1>1, <1>2, <1>3 DEF JobStep, Start, StartEdit, StartWide, AcquireBarrier, AcquireFile, At, Allowed, Follows
<1> QED
  BY Zenon, <1>3, JobSteps

\* The transaction is on the stack, and only the oldest ones are gone.
LEMMA StackWritten ==
  ASSUME Typed, Stacks, NEW p \in Proc, WriteStack(p)
  PROVE  Kept(stack)' /\ stack' # Unreadable /\ job[p].tid \in Ids(Range(stack')) \cup trimmed'
<1> DEFINE m == job[p].mem
           all == Append(m, [id |-> job[p].tid, entries |-> job[p].plan])
<1>1. m \in Seq(Record) /\ UNCHANGED <<recorded, undone, lapses>> /\ Kept(m)
  BY Zenon DEF Typed, TypeOK, Job, WriteStack, Stacks, Knows, At
<1>2. PICK n \in 0..Len(m) :
           /\ all \in Seq(Record) /\ Len(all) = Len(m) + 1
           /\ \A k \in 1..Len(m) : all[k] = m[k]
           /\ all[Len(all)] = [id |-> job[p].tid, entries |-> job[p].plan]
           /\ stack' \in Seq(Record) /\ Len(stack') = Len(all) - n /\ Len(stack') <= Depth
           /\ \A k \in 1..Len(stack') : stack'[k] = all[n + k]
           /\ trimmed' = trimmed \cup {all[k].id : k \in 1..n}
  BY Zenon, WrittenFacts
<1> HIDE DEF all
<1>3. Len(m) \in Nat /\ n \in Nat /\ n <= Len(m)
  BY <1>1, <1>2
<1>4. ASSUME NEW k \in 1..Len(all) PROVE all[k].id \in Ids(Range(stack')) \cup trimmed'
  <2>1. CASE k \in 1..n
    BY Zenon, <1>2, <2>1
  <2>2. CASE k \notin 1..n
    <3>1. k - n \in 1..Len(stack') /\ n + (k - n) = k
      BY SMTT(30), <1>2, <1>3, <1>4, <2>2
    <3>2. stack'[k - n] = all[k]
      BY Zenon, <1>2, <3>1
    <3>3. stack'[k - n] \in Range(stack')
      <4>1. DOMAIN stack' = 1..Len(stack')
        BY SMTT(30), <1>2
      <4> QED
        BY Zenon, <3>1, <4>1 DEF Range
    <3> QED
      BY Zenon, <3>2, <3>3 DEF Ids
  <2> QED
    BY Zenon, <2>1, <2>2
<1>5. Ids(Range(m)) \subseteq Ids(Range(stack')) \cup trimmed'
  <2>1. DOMAIN m = 1..Len(m) /\ 1..Len(m) \subseteq 1..Len(all)
    BY <1>1, <1>2, <1>3
  <2>2. ASSUME NEW x \in Ids(Range(m)) PROVE \E k \in 1..Len(m) : x = m[k].id
    BY Zenon, <2>1 DEF Ids, Range
  <2>3. \A k \in 1..Len(m) : m[k].id \in Ids(Range(stack')) \cup trimmed'
    BY Zenon, <1>2, <1>4, <2>1
  <2> QED
    BY Zenon, <2>2, <2>3
<1>6. job[p].tid \in Ids(Range(stack')) \cup trimmed'
  <2>1. Len(all) \in 1..Len(all)
    BY SMTT(30), <1>2, <1>3
  <2>2. all[Len(all)].id = job[p].tid
    BY <1>2
  <2> QED
    BY Zenon, <1>4, <2>1, <2>2
<1>7. trimmed \subseteq trimmed'
  BY Zenon, <1>2
<1>8. stack' # Unreadable
  BY Zenon, <1>2, CommandAssumption
<1>9. "overlooked" \notin lapses' => recorded' \subseteq Ids(Range(stack')) \cup undone' \cup trimmed'
  BY Zenon, <1>1, <1>5, <1>7 DEF Kept
<1> QED
  BY Zenon, <1>2, <1>6, <1>8, <1>9 DEF Kept

\* The transaction that was undone is the one the stack loses.
LEMMA StackSaved ==
  ASSUME Typed, Stacks, NEW p \in Proc, Saved(p)
  PROVE  Kept(stack)' /\ stack' # Unreadable
<1> DEFINE m == job[p].mem
           n == job[p].pos
           w == Without(m, n)
<1>1. /\ job[p].step = "saved" /\ stack' = w /\ undone' = undone \cup {job[p].tid}
      /\ UNCHANGED <<recorded, trimmed, lapses>>
  BY Zenon DEF Saved, At
<1>2. m \in Seq(Record) /\ Kept(m) /\ n \in 1..Len(m) /\ m[n] = [id |-> job[p].tid, entries |-> job[p].plan]
  BY Zenon, <1>1 DEF Typed, TypeOK, Job, Stacks, Knows, Shape, Fits, Undoing
<1>3. w \in Seq(Record) /\ Len(w) = Len(m) - 1 /\ \A k \in 1..Len(w) : w[k] = IF k < n THEN m[k] ELSE m[k + 1]
  BY Zenon, <1>2, WithoutFacts
<1> HIDE DEF w, m, n
<1>4. Len(m) \in Nat /\ n \in Nat /\ Len(w) \in Nat /\ DOMAIN w = 1..Len(w) /\ DOMAIN m = 1..Len(m)
  BY <1>2, <1>3
<1>5. ASSUME NEW k \in 1..Len(m), k # n PROVE m[k] \in Range(w)
  <2>1. CASE k < n
    <3>1. k \in 1..Len(w) /\ w[k] = m[k]
      BY <1>2, <1>3, <1>4, <1>5, <2>1
    <3> QED
      BY Zenon, <1>4, <3>1 DEF Range
  <2>2. CASE ~(k < n)
    <3>1. k - 1 \in 1..Len(w) /\ w[k - 1] = m[k]
      BY SMTT(30), <1>2, <1>3, <1>4, <1>5, <2>2
    <3> QED
      BY Zenon, <1>4, <3>1 DEF Range
  <2> QED
    BY Zenon, <2>1, <2>2
<1>6. m[n].id = job[p].tid
  BY <1>2
<1>7. "overlooked" \notin lapses' => recorded' \subseteq Ids(Range(w)) \cup undone' \cup trimmed'
  <2>1. ASSUME NEW x \in Ids(Range(m)) PROVE \E k \in 1..Len(m) : x = m[k].id
    BY Zenon, <1>4 DEF Ids, Range
  <2>2. \A k \in 1..Len(m) : m[k].id \in Ids(Range(w)) \/ m[k].id = job[p].tid
    BY Zenon, <1>5, <1>6 DEF Ids
  <2>3. Ids(Range(m)) \subseteq Ids(Range(w)) \cup undone'
    BY Zenon, <1>1, <2>1, <2>2
  <2>4. "overlooked" \notin lapses => recorded \subseteq Ids(Range(m)) \cup undone \cup trimmed
    BY Zenon, <1>2 DEF Kept
  <2> QED
    BY Zenon, <1>1, <2>3, <2>4
<1>8. Len(w) <= Depth
  BY <1>2, <1>3, <1>4, CommandAssumption DEF Kept
<1> QED
  BY Zenon, <1>1, <1>3, <1>7, <1>8, CommandAssumption DEF Kept

\* A step that does not write the stack.
LEMMA StackRead ==
  ASSUME Typed, Locked, Stacks, [Next]_vars, \A p \in Proc : ~WriteStack(p) /\ ~Save(p) /\ ~Saved(p)
  PROVE  Stacks'
<1>1. UNCHANGED <<stack, trimmed>> /\ undone \subseteq undone' /\ lapses \subseteq lapses' /\ recorded \subseteq recorded'
  BY Zenon, Changes DEF Effects
<1>2. job \in [Proc -> Job] /\ Idle.step = "idle" /\ Shape
  BY Zenon DEF Typed, TypeOK, Idle
<1>3. recorded' \subseteq recorded \/ \E p \in Proc : At(p, "forget") /\ recorded' = recorded \cup {job[p].tid}
  BY Zenon, Changes DEF Effects
<1>4. ASSUME NEW p \in Proc, At(p, "forget") PROVE stack # Unreadable /\ job[p].tid \in Ids(Range(stack)) \cup trimmed
  BY Zenon, <1>4 DEF Stacks, Knows, At
<1>5. stack' # Unreadable => Kept(stack)'
  <2> SUFFICES ASSUME stack # Unreadable PROVE Kept(stack)'
    BY Zenon, <1>1
  <2>1. Len(stack') <= Depth
    BY Zenon, <1>1 DEF Stacks, Kept
  <2>2. ASSUME "overlooked" \notin lapses' PROVE recorded' \subseteq Ids(Range(stack')) \cup undone' \cup trimmed'
    <3>1. recorded \subseteq Ids(Range(stack)) \cup undone \cup trimmed
      BY Zenon, <1>1, <2>2 DEF Stacks, Kept
    <3>2. ASSUME NEW p \in Proc, At(p, "forget"), recorded' = recorded \cup {job[p].tid}
          PROVE recorded' \subseteq Ids(Range(stack)) \cup undone \cup trimmed
      <4>1. job[p].tid \in Ids(Range(stack)) \cup trimmed
        BY Zenon, <1>4, <3>2
      <4> QED
        BY Zenon, <3>1, <3>2, <4>1
    <3>3. recorded' \subseteq Ids(Range(stack)) \cup undone \cup trimmed
      BY Zenon, <1>3, <3>1, <3>2
    <3>4. recorded' \subseteq Ids(Range(stack)) \cup undone' \cup trimmed /\ stack' = stack /\ trimmed' = trimmed
      BY Zenon, <1>1, <3>3
    <3> QED
      BY Zenon, <3>4
  <2> QED
    BY Zenon, <2>1, <2>2 DEF Kept
<1>6. stack' = Unreadable /\ "interrupted" \notin lapses' => \E p \in Proc : At(p, "saved")'
  <2> SUFFICES ASSUME stack = Unreadable, "interrupted" \notin lapses' PROVE \E p \in Proc : At(p, "saved")'
    BY Zenon, <1>1
  <2>1. PICK p \in Proc : At(p, "saved")
    BY Zenon, <1>1 DEF Stacks
  <2> QED
    BY Zenon, <2>1, SavedEnds DEF At
<1>7. ASSUME NEW q \in Proc PROVE Knows(job[q])'
  \* While an undo is under way, or another command has the lock of the stack, nobody
  \* records a transaction.
  <2>1. ASSUME NEW m, Kept(m), \/ job[q].step \in Undoing \cup {"plan"} /\ job[q].verb = "undo"
                               \/ job[q].step = "writeStack"
        PROVE Kept(m)'
    <3>1. ASSUME NEW p \in Proc, At(p, "forget") PROVE FALSE
      <4>1. CASE job[q].step = "writeStack"
        BY Zenon, <3>1, <4>1 DEF At, Locked
      <4>2. CASE job[q].step # "writeStack"
        <5>1. p # q /\ job[q].step \notin {"idle", "barrier"} /\ job[q].verb # "edit"
          BY Zenon, <2>1, <3>1, <4>2 DEF At, Undoing
        <5> QED
          BY Zenon, <3>1, <5>1, Alone DEF At
      <4> QED
        BY Zenon, <4>1, <4>2
    <3>2. recorded' \subseteq recorded
      BY Zenon, <1>3, <3>1
    <3> QED
      BY Zenon, <1>1, <2>1, <3>2 DEF Kept
  <2>2. job[q].step \in Undoing => job[q].verb = "undo" /\ Kept(job[q].mem)
    BY Zenon, <1>2 DEF Shape, Fits, Stacks, Knows, Before, Undoing
  <2>3. Knows(job[q])
    BY Zenon DEF Stacks
  <2>4. CASE job'[q] = job[q]
    BY Zenon, <1>1, <2>1, <2>2, <2>3, <2>4 DEF Knows
  <2>5. ASSUME NEW s, NEW i, NEW c, Moves(q, s, i, c), Allowed(q, s, i), Does(q) PROVE Knows(job[q])'
    <3>1. job'[q].step = s /\ job'[q].mem = job[q].mem /\ s \notin {"writeStack", "forget", "saved"}
      <4>1. s \in {"forget", "saved"} => job[q].step \in {"writeStack", "save"}
        BY Zenon, <2>5 DEF Allowed, Follows
      <4>2. job[q].step \notin {"writeStack", "save"}
        BY Zenon, <2>5 DEF Does, Open, Publish, Swap, Fill, PublishError, Back, BackSwap, BackError,
             PublishAll, StackLock, Guard, Restore, Rewrite, CreatedHere, At
      <4>3. s # "writeStack"
        BY Zenon, <2>5 DEF Allowed, Follows
      <4> QED
        BY Zenon, <2>5, <4>1, <4>2, <4>3 DEF Moves
    <3>2. s \in Undoing => job[q].step \in Undoing \ {"saved"}
      BY Zenon, <2>5 DEF Allowed, Follows, Undoing
    <3> QED
      BY Zenon, <1>1, <2>1, <2>2, <2>3, <3>1, <3>2 DEF Knows
  <2>6. ASSUME job'[q].step \in Before \cup {"open", "publishAll", "stackLock"} PROVE Knows(job[q])'
    BY Zenon, <2>6 DEF Knows, Before, Undoing
  <2>7. ASSUME job'[q].step = "writeStack", stack # Unreadable, job'[q].mem = stack PROVE Knows(job[q])'
    <3>1. Kept(stack)'
      BY Zenon, <1>1, <1>5, <2>7
    <3> QED
      BY Zenon, <1>1, <2>7, <3>1 DEF Knows, Undoing, Kept
  <2>7a. ASSUME job'[q].step = "writeStack", "overlooked" \in lapses', job'[q].mem = <<>> PROVE Knows(job[q])'
    <3>1. Len(<<>>) <= Depth
      BY SMTT(30), CommandAssumption
    <3> QED
      BY Zenon, <2>7a, <3>1 DEF Knows, Undoing, Kept
  <2>8. ASSUME job[q].step = "plan", job[q].verb = "undo", job'[q].step = "guard", stack # Unreadable,
               job'[q].mem = stack
        PROVE Knows(job[q])'
    <3>1. Kept(stack)'
      BY Zenon, <1>1, <1>5, <2>8
    <3> QED
      BY Zenon, <1>1, <2>8, <3>1 DEF Knows, Undoing, Kept
  <2>9. CASE JobStep(q)
    BY Zenon, <1>2, <2>5, <2>6, <2>7, <2>7a, <2>8, <2>9 DEF JobStep, Before
  <2> QED
    BY Zenon, <2>4, <2>9, JobSteps
<1> QED
  BY Zenon, <1>5, <1>6, <1>7 DEF Stacks

\* The stack, and what the commands know of it, stay in step.
LEMMA StacksNext ==
  ASSUME Typed, Locked, Stacks, [Next]_vars PROVE Stacks'
<1>1. job \in [Proc -> Job] /\ stack \in Seq(Record) \cup {Unreadable} /\ Idle.step = "idle" /\ Shape
  BY Zenon DEF Typed, TypeOK, Idle
<1>2. ASSUME NEW p \in Proc, WriteStack(p) PROVE Stacks'
  <2>1. Moves(p, "forget", job[p].idx, job[p].clash) /\ job[p].step = "writeStack"
    BY Zenon, <1>1, <1>2, MoveKinds DEF WriteStack, At, Steps
  <2>2. Knows(job[p])'
    BY Zenon, <1>2, <2>1, StackWritten DEF Knows, Moves, Undoing
  <2>3. ASSUME NEW q \in Proc, q # p PROVE Knows(job[q])'
    <3>1. job'[q] = job[q]
      BY Zenon, <1>1, <2>1, <2>3 DEF Moves, Only
    <3>2. job[q].step \notin {"writeStack", "forget"}
      BY Zenon, <2>1, <2>3 DEF Locked
    <3>3. job[q].step \notin Undoing
      <4>1. job[q].step \in Undoing => job[q].verb = "undo" /\ job[q].step \notin {"idle", "barrier"}
        BY Zenon, <1>1 DEF Shape, Fits, Before, Undoing
      <4> QED
        BY Zenon, <2>1, <2>3, <4>1, Alone
    <3> QED
      BY Zenon, <3>1, <3>2, <3>3 DEF Knows, Undoing
  <2> QED
    BY Zenon, <1>2, <2>2, <2>3, StackWritten DEF Stacks
\* An undo that writes the stack is alone.
<1>3. ASSUME NEW p \in Proc, job[p].step \in {"save", "saved"}, NEW q \in Proc, q # p,
             job'[q] = job[q]
      PROVE Knows(job[q])'
  <2>1. job[p].verb = "undo"
    BY Zenon, <1>1, <1>3 DEF Shape, Fits, Before, Undoing
  <2>2. job[q].step \in {"idle", "barrier"}
    BY Zenon, <1>3, <2>1, Alone
  <2> QED
    BY Zenon, <1>3, <2>2 DEF Knows, Undoing
<1>4. ASSUME NEW p \in Proc, Save(p) PROVE Stacks'
  <2>1. Moves(p, "saved", job[p].idx, job[p].clash) /\ job[p].step = "save" /\ stack' = Unreadable
    BY Zenon, <1>1, <1>4, MoveKinds DEF Save, At, Steps
  <2>2. job'[p].step = "saved" /\ job'[p].mem = job[p].mem /\ \A q \in Proc : q # p => job'[q] = job[q]
    BY Zenon, <1>1, <2>1 DEF Moves, Only
  <2>3. Kept(job[p].mem)'
    BY Zenon, <1>4, <2>1, <2>2 DEF Stacks, Knows, Kept, Undoing, Save, history
  <2>4. Knows(job[p])'
    BY Zenon, <2>1, <2>2, <2>3 DEF Knows
  <2> QED
    BY Zenon, <1>3, <2>1, <2>2, <2>4 DEF Stacks, At
<1>5. ASSUME NEW p \in Proc, Saved(p) PROVE Stacks'
  <2>1. job[p].step = "saved" /\ job'[p] = Idle /\ \A q \in Proc : q # p => job'[q] = job[q]
    BY Zenon, <1>1, <1>5 DEF Saved, Return, At
  <2>2. Knows(job[p])'
    BY Zenon, <1>1, <2>1 DEF Knows, Undoing
  <2> QED
    BY Zenon, <1>3, <1>5, <2>1, <2>2, StackSaved DEF Stacks
<1> QED
  BY Zenon, <1>2, <1>4, <1>5, StackRead

-----------------------------------------------------------------------------
(* The bytes that were replaced.                                           *)

\* Nobody else wrote, no note on a rollback was lost, and the stack was found where it is.
Quiet == lapses \cap {"foreign", "evidenceLost", "overlooked"} = {}

\* A record has the bytes that a change replaced.
Covers(r, c) ==
  r.id = c.id /\ \E i \in DOMAIN r.entries : r.entries[i].file = c.file /\ r.entries[i].before = c.before

\* A change has its pre-image, with s for the undo stack.
Covered(s, c) == c.id \in trimmed \/ \E r \in pending \cup evidence \cup Range(s) : Covers(r, c)

\* The changes that ChangesHavePreImages excepts.
Excused(c) ==
  \/ c.before = Absent /\ lapses \cap {"cutCreation", "kept"} # {}
  \/ /\ c.verb = "rename"
     /\ \/ lapses \cap {"interrupted", "unread"} # {}
        \/ \E p \in Proc : At(p, "open") /\ job[p].tid = c.id

Reversible(s) == \A c \in applied : Covered(s, c) \/ Excused(c)

\* The change is one of the plan ts, before position n.
Within(ts, n, c) == \E i \in DOMAIN ts : i < n /\ c.file = ts[i].file /\ c.before = ts[i].before

\* What a command in its step j has changed so far, c being a change of its transaction.
Traces(j, c) ==
  /\ j.step \notin Undoing => Within(j.plan, Len(j.plan) + 1, c)
  /\ j.step \in {"publish", "swap"} => Within(j.plan, j.idx, c)
  /\ j.step \in {"open", "publishAll"} => j.step = "open" /\ j.verb = "rename"
  /\ j.step \in {"back", "backSwap"} => j.clash = "yes" \/ Within(j.plan, j.idx + 1, c)
  /\ j.step = "abandon" => j.clash = "yes"
  /\ j.step = "forget" => c.id \in trimmed \/ \E r \in Range(stack) : Covers(r, c)
  /\ j.step \in Undone => \A i \in DOMAIN j.plan :
       c.file = j.plan[i].file /\ Behind(j, i) => "kept" \in lapses /\ j.plan[i].before = Absent

\* Every change has its pre-image, and every command knows which changes are its own.
Preimages ==
  /\ \A c \in applied : c.id < next
  /\ Quiet =>
       /\ stack # Unreadable => Reversible(stack)
       /\ \A p \in Proc :
            /\ job[p].step = "saved" => Reversible(job[p].mem)
            /\ job[p].step = "fill" => job[p].plan[1].before = Absent
            /\ \A c \in applied : c.id = job[p].tid /\ (c.verb = "rename" => "unread" \notin lapses) => Traces(job[p], c)

-----------------------------------------------------------------------------
(* The changes of a step.                                                  *)

\* A longer part of a plan has what a shorter one has.
LEMMA WithinMore ==
  ASSUME NEW ts \in Plans, NEW n \in Nat, NEW m \in Nat, n <= m \/ m = Len(ts) + 1, NEW c, Within(ts, n, c)
  PROVE  Within(ts, m, c)
<1>1. PICK i \in DOMAIN ts : i < n /\ c.file = ts[i].file /\ c.before = ts[i].before
  BY Zenon DEF Within
<1>2. i < m
  BY SMTT(30), <1>1, PlanFacts
<1> QED
  BY Zenon, <1>1, <1>2 DEF Within

\* A file of the plan.
LEMMA WithinAt ==
  ASSUME NEW ts \in Plans, NEW i \in DOMAIN ts, NEW c, c.file = ts[i].file, c.before = ts[i].before
  PROVE  Within(ts, i + 1, c) /\ Within(ts, Len(ts) + 1, c)
<1>1. i < i + 1 /\ i < Len(ts) + 1
  BY SMTT(30), PlanFacts
<1> QED
  BY Zenon, <1>1 DEF Within

\* The plan covers what it has within it.
LEMMA WithinCovers ==
  ASSUME NEW ts, NEW n, NEW c, Within(ts, n, c), NEW r, r.id = c.id,
         SameBefore(r.entries, ts) \/ SameBefore(ts, r.entries)
  PROVE  Covers(r, c)
BY Zenon DEF Within, SameBefore, Covers

\* A change is made by the command whose transaction it belongs to, which then goes on,
\* or is a rename that got no further.
LEMMA NewChange ==
  ASSUME Typed, Fresh, [Next]_vars, NEW c \in applied', c \notin applied
  PROVE  \E p \in Proc :
           /\ c.id = job[p].tid /\ job'[p] # job[p] /\ UNCHANGED pending
           /\ \/ c.verb = "rename" /\ "interrupted" \in lapses' /\ job'[p] = Idle
              \/ /\ job'[p].tid = job[p].tid /\ job'[p].plan = job[p].plan /\ job'[p].verb = job[p].verb
                 /\ \/ /\ job[p].step \in {"publish", "swap"}
                       /\ \/ job'[p].step = "publish" /\ job'[p].idx = job[p].idx + 1
                          \/ job'[p].step \in {"fill", "close"}
                       /\ job'[p].step = "fill" => job[p].idx = 1 /\ job[p].plan[1].before = Absent
                       /\ "foreign" \notin lapses => Within(job[p].plan, job[p].idx + 1, c)
                    \/ /\ job[p].step = "publishAll" /\ job'[p].step = "open" /\ c.verb = "rename"
                       /\ lapses \cap {"foreign", "unread"} = {} => Within(job[p].plan, Len(job[p].plan) + 1, c)
<1>1. job \in [Proc -> Job] /\ applied \subseteq Change /\ Shape
  BY Zenon DEF Typed, TypeOK
<1>2. PICK p \in Proc : Publish(p) \/ Swap(p) \/ PublishAll(p) \/ PublishPart(p)
  BY Zenon, Changes DEF Effects, Fill, Back, BackSwap, Restore, Rewrite, ForeignWrite, history
<1> DEFINE j == job[p]
           k == job'[p]
           t == Item(p)
<1>3. /\ j.step \in {"publish", "swap", "publishAll"} /\ j.plan \in Plans /\ j.idx \in DOMAIN j.plan
      /\ j.plan[j.idx] = t
  BY Zenon, <1>2, ItemFacts DEF Publish, Swap, PublishAll, PublishPart, At, Before, Item
<1>4. j.idx >= j.idx
  BY SMTT(30), <1>3, PlanFacts
<1>5. CASE Publish(p) \/ Swap(p)
  <2>1. /\ applied' = applied \cup Made(p) /\ UNCHANGED pending
        /\ Advance(p) \/ (Go(p, "fill") /\ t.before = Absent /\ j.verb = "edit")
    BY Zenon, <1>5 DEF Publish, Swap
  <2>2. c \in Made(p)
    BY Zenon, <2>1
  <2>3. c.id = j.tid /\ c.file = t.file /\ c.before = live[t.file]
    BY <2>2 DEF Made
  <2>4. j.step \in {"publish", "swap"}
    BY Zenon, <1>5 DEF Publish, Swap, At
  <2>5. "foreign" \notin lapses => Within(j.plan, j.idx + 1, c)
    <3>1. "foreign" \notin lapses => c.before = t.before
      BY Zenon, <1>3, <1>4, <2>3, <2>4 DEF Fresh, Unwritten
    <3> QED
      BY Zenon, <1>3, <2>3, <3>1, WithinAt
  <2>6. CASE Advance(p)
    <3>1. CASE j.idx < Len(j.plan)
      <4>1. Moves(p, "publish", j.idx + 1, j.clash)
        BY Zenon, <1>1, <1>3, <2>6, <3>1, MoveKinds
      <4>2. j.idx + 1 # j.idx
        BY SMTT(30), <1>3, PlanFacts
      <4> QED
        BY Zenon, <2>1, <2>3, <2>4, <2>5, <4>1, <4>2 DEF Moves
    <3>2. CASE ~(j.idx < Len(j.plan))
      <4>1. Moves(p, "close", 1, j.clash)
        BY Zenon, <1>1, <1>3, <2>6, <3>2, MoveKinds
      <4> QED
        BY Zenon, <2>1, <2>3, <2>4, <2>5, <4>1 DEF Moves
    <3> QED
      BY Zenon, <3>1, <3>2
  <2>7. CASE Go(p, "fill") /\ t.before = Absent /\ j.verb = "edit"
    <3>1. Moves(p, "fill", j.idx, j.clash)
      BY Zenon, <1>1, <2>7, MoveKinds DEF Steps
    <3>2. j.idx = 1
      BY Zenon, <1>1, <2>7 DEF Shape, Fits
    <3> QED
      BY Zenon, <1>3, <2>1, <2>3, <2>4, <2>5, <2>7, <3>1, <3>2 DEF Moves
  <2> QED
    BY Zenon, <2>1, <2>6, <2>7
<1>6. CASE PublishAll(p)
  <2>1. /\ applied' = applied \cup
               {[id |-> j.tid, verb |-> "rename", file |-> j.plan[i].file,
                 before |-> live[j.plan[i].file], after |-> j.plan[i].after] : i \in DOMAIN j.plan}
        /\ Go(p, "open") /\ UNCHANGED pending /\ j.step = "publishAll"
    BY Zenon, <1>6 DEF PublishAll, At, files
  <2>2. PICK i \in DOMAIN j.plan : c = [id |-> j.tid, verb |-> "rename", file |-> j.plan[i].file,
                 before |-> live[j.plan[i].file], after |-> j.plan[i].after]
    BY Zenon, <2>1
  <2>3. c.id = j.tid /\ c.verb = "rename" /\ c.file = j.plan[i].file /\ c.before = live[j.plan[i].file]
    BY <2>2
  <2>4. Moves(p, "open", j.idx, j.clash)
    BY Zenon, <1>1, <2>1, MoveKinds DEF Steps
  <2>5. j.idx = 1 /\ i >= 1
    <3>1. j.idx = 1
      BY Zenon, <1>1, <2>1 DEF Shape, Fits, Walking
    <3> QED
      BY SMTT(30), <1>3, <3>1, PlanFacts
  <2>6. lapses \cap {"foreign", "unread"} = {} => c.before = j.plan[i].before
    BY Zenon, <2>1, <2>3, <2>5 DEF Fresh, Unwritten
  <2>7. lapses \cap {"foreign", "unread"} = {} => Within(j.plan, Len(j.plan) + 1, c)
    BY Zenon, <1>3, <2>3, <2>6, WithinAt
  <2> QED
    BY Zenon, <2>1, <2>3, <2>4, <2>7 DEF Moves
<1>7. CASE PublishPart(p)
  <2>1. PICK xs : applied' = applied \cup
               {[id |-> j.tid, verb |-> "rename", file |-> j.plan[i].file,
                 before |-> live[j.plan[i].file], after |-> live'[j.plan[i].file]] : i \in xs}
    BY Zenon, <1>7 DEF PublishPart
  <2>2. PICK i \in xs : c = [id |-> j.tid, verb |-> "rename", file |-> j.plan[i].file,
                 before |-> live[j.plan[i].file], after |-> live'[j.plan[i].file]]
    BY Zenon, <2>1
  <2>3. c.id = j.tid /\ c.verb = "rename"
    BY <2>2
  <2>4. Return(p) /\ "interrupted" \in lapses' /\ UNCHANGED pending
    BY Zenon, <1>7 DEF PublishPart, files
  <2>5. k = Idle /\ Idle.step # j.step
    BY Zenon, <1>1, <1>3, <2>4 DEF Return, Idle
  <2> QED
    BY Zenon, <2>3, <2>4, <2>5
<1> QED
  BY Zenon, <1>2, <1>5, <1>6, <1>7

-----------------------------------------------------------------------------
(* What a command has changed.                                             *)

\* A rollback goes on to the file before, or comes to its end.
LEMMA TracesBack ==
  ASSUME Typed, NEW q \in Proc, NEW c, Traces(job[q], c), job[q].step \in {"back", "backSwap"},
         NEW d \in {"no", "yes"}, NextBack(q, d), d = "yes" \/ (d = job[q].clash /\ c.file # Item(q).file)
  PROVE  Traces(job[q], c)'
<1> DEFINE j == job[q]
           k == job'[q]
<1>1. j.plan \in Plans /\ j.idx \in DOMAIN j.plan /\ job \in [Proc -> Job] /\ j.step \notin Undoing
  BY Zenon, ItemFacts DEF Before, Undoing, Typed, TypeOK
<1>2. j.idx \in Nat /\ j.idx >= 1 /\ DOMAIN j.plan \subseteq Nat /\ \A i \in DOMAIN j.plan : i >= 1
  BY SMTT(30), <1>1, PlanFacts
<1>3. d = "yes" \/ Within(j.plan, j.idx, c)
  <2>1. d # "yes" => Within(j.plan, j.idx + 1, c) /\ c.file # Item(q).file
    BY Zenon DEF Traces
  <2>2. ASSUME NEW i \in DOMAIN j.plan, i < j.idx + 1, i # j.idx PROVE i < j.idx
    BY SMTT(30), <1>2, <2>2
  <2> QED
    BY Zenon, <2>1, <2>2 DEF Within, Item
<1>4. Within(j.plan, Len(j.plan) + 1, c)
  BY Zenon, <1>1 DEF Traces
<1>5. CASE j.idx > 1
  <2>1. k.step = "back" /\ k.idx = j.idx - 1 /\ k.plan = j.plan /\ k.clash = d
    <3>1. Moves(q, "back", j.idx - 1, d)
      BY Zenon, <1>1, <1>5, MoveKinds
    <3> QED
      BY Zenon, <3>1 DEF Moves
  <2>2. (j.idx - 1) + 1 = j.idx
    BY SMTT(30), <1>2
  <2>3. k.clash = "yes" \/ Within(k.plan, k.idx + 1, c)
    BY Zenon, <1>3, <2>1, <2>2
  <2>4. Within(k.plan, Len(k.plan) + 1, c)
    BY Zenon, <1>4, <2>1
  <2> QED
    BY Zenon, <2>1, <2>3, <2>4 DEF Traces, Undone
<1>6. CASE ~(j.idx > 1)
  <2>1. k.step = "abandon" /\ k.plan = j.plan /\ k.clash = d
    <3>1. Moves(q, "abandon", j.idx, d)
      BY Zenon, <1>1, <1>6, MoveKinds
    <3> QED
      BY Zenon, <3>1 DEF Moves
  <2>2. \A i \in DOMAIN j.plan : ~(i < j.idx)
    BY SMTT(30), <1>2, <1>6
  <2>3. d = "yes"
    BY Zenon, <1>3, <2>2 DEF Within
  <2>4. k.clash = "yes" /\ Within(k.plan, Len(k.plan) + 1, c)
    BY Zenon, <1>4, <2>1, <2>3
  <2> QED
    BY Zenon, <2>1, <2>4 DEF Traces, Undone
<1> QED
  BY Zenon, <1>5, <1>6

\* An undo goes on to the next file, or to the stack.
LEMMA TracesRestored ==
  ASSUME Typed, NEW q \in Proc, NEW c, Traces(job[q], c), job[q].step \in {"restore", "rewrite"},
         NextRestore(q), lapses \subseteq lapses',
         c.file # Item(q).file \/ ("kept" \in lapses' /\ Item(q).before = Absent)
  PROVE  Traces(job[q], c)'
<1> DEFINE j == job[q]
           k == job'[q]
<1>1. j.plan \in Plans /\ j.idx \in DOMAIN j.plan /\ job \in [Proc -> Job]
  BY Zenon, ItemFacts DEF Before, Typed, TypeOK
<1>2. j.idx \in Nat /\ Len(j.plan) \in Nat /\ DOMAIN j.plan \subseteq Nat /\ \A i \in DOMAIN j.plan : i <= Len(j.plan)
  BY SMTT(30), <1>1, PlanFacts
<1>3. ASSUME NEW i \in DOMAIN j.plan, c.file = j.plan[i].file, i < j.idx \/ i = j.idx
      PROVE  "kept" \in lapses' /\ j.plan[i].before = Absent
  BY Zenon, <1>3 DEF Traces, Undone, Behind, Item
<1>4. CASE j.idx < Len(j.plan)
  <2>1. k.step = "restore" /\ k.idx = j.idx + 1 /\ k.plan = j.plan
    BY Zenon, <1>1, <1>4, MoveKinds DEF Moves
  <2>2. \A i \in DOMAIN j.plan : i < j.idx + 1 => i < j.idx \/ i = j.idx
    BY SMTT(30), <1>2
  <2> QED
    BY Zenon, <1>3, <2>1, <2>2 DEF Traces, Undoing, Behind
<1>5. CASE ~(j.idx < Len(j.plan))
  <2>1. k.step = "save" /\ k.plan = j.plan
    BY Zenon, <1>1, <1>5, MoveKinds DEF Moves
  <2>2. \A i \in DOMAIN j.plan : i < j.idx \/ i = j.idx
    BY SMTT(30), <1>2, <1>5
  <2> QED
    BY Zenon, <1>3, <2>1, <2>2 DEF Traces, Undoing
<1> QED
  BY Zenon, <1>4, <1>5

\* A publication goes on, or is given up.
LEMMA TracesPublished ==
  ASSUME Typed, NEW q \in Proc, NEW c, Traces(job[q], c), job[q].step \in {"publish", "swap", "fill"},
         job'[q].step # "idle",
         FailPublish(q) \/ Advance(q) \/ (job[q].step = "publish" /\ (Go(q, "swap") \/ Go(q, "fill")))
  PROVE  Traces(job[q], c)'
<1> DEFINE j == job[q]
           k == job'[q]
<1>1. /\ j.plan \in Plans /\ j.idx \in DOMAIN j.plan /\ job \in [Proc -> Job] /\ j.step \notin Undoing
      /\ Idle.step = "idle" /\ Fits(j)
  BY Zenon, ItemFacts DEF Before, Undoing, Typed, TypeOK, Idle, Shape
<1>2. j.idx \in Nat /\ j.idx >= 1 /\ j.idx + 1 \in Nat /\ j.idx <= j.idx + 1 /\ (j.idx - 1) + 1 = j.idx
  BY SMTT(30), <1>1, PlanFacts
<1>3. Within(j.plan, Len(j.plan) + 1, c) /\ (j.step # "fill" => Within(j.plan, j.idx, c))
  BY Zenon, <1>1 DEF Traces
<1>4. j.step = "fill" => j.idx = 1 /\ ~(j.idx < Len(j.plan))
  <2>1. j.step = "fill" => j.idx = 1 /\ Len(j.plan) = 1
    BY Zenon, <1>1 DEF Fits, Recording
  <2>2. ~(1 < 1)
    BY SMTT(30)
  <2> QED
    BY Zenon, <2>1, <2>2
<1>5. CASE FailPublish(q)
  <2>1. j.idx # 1
    BY Zenon, <1>1, <1>5 DEF FailPublish, Return
  <2>2. k.step = "back" /\ k.idx = j.idx - 1 /\ k.plan = j.plan
    BY Zenon, <1>1, <1>5, <2>1, MoveKinds DEF Moves
  <2> QED
    BY Zenon, <1>2, <1>3, <1>4, <2>1, <2>2 DEF Traces, Undone
<1>6. CASE Advance(q)
  <2>1. CASE j.idx < Len(j.plan)
    <3>1. k.step = "publish" /\ k.idx = j.idx + 1 /\ k.plan = j.plan
      BY Zenon, <1>1, <1>6, <2>1, MoveKinds DEF Moves
    <3>2. Within(j.plan, j.idx + 1, c)
      BY Zenon, <1>1, <1>2, <1>3, <1>4, <2>1, WithinMore
    <3> QED
      BY Zenon, <1>3, <3>1, <3>2 DEF Traces, Undone
  <2>2. CASE ~(j.idx < Len(j.plan))
    <3>1. k.step = "close" /\ k.plan = j.plan
      BY Zenon, <1>1, <1>6, <2>2, MoveKinds DEF Moves
    <3> QED
      BY Zenon, <1>3, <3>1 DEF Traces, Undone
  <2> QED
    BY Zenon, <2>1, <2>2
<1>7. CASE j.step = "publish" /\ (Go(q, "swap") \/ Go(q, "fill"))
  <2>1. k.step \in {"swap", "fill"} /\ k.idx = j.idx /\ k.plan = j.plan
    BY Zenon, <1>1, <1>7, MoveKinds DEF Moves, Steps
  <2> QED
    BY Zenon, <1>3, <1>7, <2>1 DEF Traces, Undone
<1> QED
  BY Zenon, <1>5, <1>6, <1>7

\* A transaction on the stack stays there or is dropped at the bottom; the new one is there.
LEMMA WrittenRecords ==
  ASSUME Typed, NEW p \in Proc, WriteStack(p)
  PROVE  /\ trimmed \subseteq trimmed' /\ [id |-> job[p].tid, entries |-> job[p].plan] \in Range(stack')
         /\ \A r \in Range(job[p].mem) : r \in Range(stack') \/ r.id \in trimmed'
<1> DEFINE m == job[p].mem
           rec == [id |-> job[p].tid, entries |-> job[p].plan]
           all == Append(m, rec)
<1>1. m \in Seq(Record)
  BY Zenon DEF Typed, TypeOK, Job
<1>2. PICK n \in 0..Len(m) :
           /\ all \in Seq(Record) /\ Len(all) = Len(m) + 1
           /\ \A k \in 1..Len(m) : all[k] = m[k]
           /\ all[Len(all)] = rec
           /\ stack' \in Seq(Record) /\ Len(stack') = Len(all) - n
           /\ \A k \in 1..Len(stack') : stack'[k] = all[n + k]
           /\ trimmed' = trimmed \cup {all[k].id : k \in 1..n}
  BY Zenon, WrittenFacts
<1> HIDE DEF all, rec, m
<1>3. Len(m) \in Nat /\ n \in Nat /\ n <= Len(m) /\ DOMAIN stack' = 1..Len(stack') /\ DOMAIN m = 1..Len(m)
  BY SMTT(30), <1>1, <1>2
<1>4. ASSUME NEW k \in 1..Len(all) PROVE k \in 1..n \/ all[k] \in Range(stack')
  <2>1. k \notin 1..n => k - n \in 1..Len(stack') /\ n + (k - n) = k
    BY SMTT(30), <1>2, <1>3, <1>4
  <2>2. k \notin 1..n => stack'[k - n] = all[k] /\ k - n \in DOMAIN stack'
    BY Zenon, <1>2, <1>3, <2>1
  <2> QED
    BY Zenon, <2>2 DEF Range
<1>5. rec \in Range(stack')
  <2>1. Len(all) \in 1..Len(all) /\ Len(all) \notin 1..n
    BY SMTT(30), <1>2, <1>3
  <2> QED
    BY Zenon, <1>2, <1>4, <2>1
<1>6. ASSUME NEW r \in Range(m) PROVE r \in Range(stack') \/ r.id \in trimmed'
  <2>1. PICK k \in 1..Len(m) : r = m[k]
    BY Zenon, <1>3 DEF Range
  <2>2. k \in 1..Len(all)
    BY SMTT(30), <1>2, <1>3
  <2> QED
    BY Zenon, <1>2, <1>4, <2>1, <2>2
<1> QED
  BY Zenon, <1>2, <1>5, <1>6 DEF rec, m

\* A step of a command keeps track of the changes it has made.
LEMMA TracesMove ==
  ASSUME Typed, NEW q \in Proc, NEW s, NEW i, NEW d, Moves(q, s, i, d), Allowed(q, s, i), Does(q),
         lapses \subseteq lapses', NEW c, c \in applied, c \in applied', c.id = job[q].tid, Traces(job[q], c)
  PROVE  Traces(job[q], c)'
<1> DEFINE j == job[q]
           k == job'[q]
<1>1. job \in [Proc -> Job] /\ Fits(j) /\ j.clash \in {"no", "yes"} /\ Idle.step = "idle"
  BY Zenon DEF Typed, TypeOK, Shape, Job, Idle
<1>2. k.step = s /\ k.idx = i /\ k.clash = d /\ k.verb = j.verb /\ k.plan = j.plan /\ s # "idle" /\ Follows(j.step, s)
  BY Zenon DEF Moves, Allowed, Follows
<1>3. j.step \notin Undoing => Within(k.plan, Len(k.plan) + 1, c)
  BY Zenon, <1>2 DEF Traces
<1>4. CASE Open(q) \/ PublishAll(q) \/ StackLock(q)
  <2>1. j.step \in {"open", "publishAll", "stackLock"}
    BY Zenon, <1>4 DEF Open, PublishAll, StackLock, At
  <2>2. j.step # "publishAll" /\ (j.step = "open" => j.verb = "rename")
    BY Zenon DEF Traces
  <2>3. j.step = "open" => Go(q, "close")
    BY Zenon, <1>4, <2>2 DEF Open, PublishAll, StackLock, At
  <2>4. j.step = "open" => s = "close"
    BY Zenon, <1>1, <1>2, <2>3, MoveKinds DEF Moves, Steps
  <2>5. s \in {"close", "readStack"}
    BY Zenon, <1>2, <2>1, <2>2, <2>4 DEF Follows
  <2> QED
    BY Zenon, <1>2, <1>3, <2>1, <2>5 DEF Traces, Undoing, Undone
<1>5. CASE Publish(q) \/ Swap(q) \/ Fill(q) \/ PublishError(q)
  <2>1. j.step \in {"publish", "swap", "fill"}
    BY Zenon, <1>5 DEF Publish, Swap, Fill, PublishError, At
  <2>2. FailPublish(q) \/ Advance(q) \/ (j.step = "publish" /\ (Go(q, "swap") \/ Go(q, "fill")))
    BY Zenon, <1>5 DEF Publish, Swap, Fill, PublishError, At
  <2> QED
    BY Zenon, <1>2, <2>1, <2>2, TracesPublished
<1>6. CASE Back(q) \/ BackSwap(q) \/ BackError(q)
  <2>1. j.step \in {"back", "backSwap"}
    BY Zenon, <1>6 DEF Back, BackSwap, BackError, At
  <2>2. \/ NextBack(q, "yes") \/ (j.step = "back" /\ Go(q, "backSwap"))
        \/ NextBack(q, j.clash) /\ applied' = applied \ MadeTo(q, Item(q).file)
    BY Zenon, <1>6 DEF Back, BackSwap, BackError, At
  <2>3. CASE NextBack(q, "yes")
    BY Zenon, <2>1, <2>3, TracesBack
  <2>4. CASE NextBack(q, j.clash) /\ applied' = applied \ MadeTo(q, Item(q).file)
    <3>1. c.file # Item(q).file
      BY Zenon, <2>4 DEF MadeTo
    <3> QED
      BY Zenon, <1>1, <2>1, <2>4, <3>1, TracesBack
  <2>5. CASE j.step = "back" /\ Go(q, "backSwap")
    <3>1. Moves(q, "backSwap", j.idx, j.clash)
      BY Zenon, <1>1, <2>5, MoveKinds DEF Steps
    <3>2. k.step = "backSwap" /\ k.idx = j.idx /\ k.clash = j.clash
      BY Zenon, <3>1 DEF Moves
    <3>3. j.clash = "yes" \/ Within(j.plan, j.idx + 1, c)
      BY Zenon, <2>1 DEF Traces
    <3>4. k.clash = "yes" \/ Within(k.plan, k.idx + 1, c)
      BY Zenon, <1>2, <3>2, <3>3
    <3> QED
      BY Zenon, <1>3, <2>1, <3>2, <3>4 DEF Traces, Undoing, Undone
  <2> QED
    BY Zenon, <2>2, <2>3, <2>4, <2>5
<1>7. CASE WriteStack(q)
  <2>1. j.step = "writeStack" /\ s = "forget"
    BY Zenon, <1>2, <1>7 DEF WriteStack, At, Follows
  <2> DEFINE rec == [id |-> j.tid, entries |-> j.plan]
  <2>2. rec.id = j.tid /\ rec.entries = j.plan
    OBVIOUS
  <2>3. rec \in Range(stack')
    BY Zenon, <1>7, WrittenRecords
  <2> HIDE DEF rec
  <2>4. Within(j.plan, Len(j.plan) + 1, c)
    BY Zenon, <2>1 DEF Traces, Undoing
  <2>5. SameBefore(rec.entries, j.plan)
    BY Zenon, <2>2 DEF SameBefore
  <2>6. Covers(rec, c)
    BY Zenon, <2>2, <2>4, <2>5, WithinCovers
  <2> QED
    BY Zenon, <1>2, <1>3, <2>1, <2>3, <2>6 DEF Traces, Undoing, Undone
<1>8. CASE Guard(q)
  <2>1. j.step = "guard" /\ s = "restore"
    BY Zenon, <1>2, <1>8 DEF Guard, At, Follows
  <2>2. Go(q, "restore") /\ j.idx = 1 /\ j.plan \in Plans
    <3>1. ~Return(q)
      BY Zenon, <1>1, <1>2, <2>1 DEF Return
    <3> QED
      BY Zenon, <1>1, <1>8, <2>1, <3>1 DEF Guard, Fits, Walking, Before
  <2>3. Moves(q, "restore", j.idx, j.clash)
    BY Zenon, <1>1, <2>2, MoveKinds DEF Steps
  <2>4. k.idx = 1
    BY Zenon, <2>2, <2>3 DEF Moves
  <2>5. \A n \in DOMAIN j.plan : ~(n < 1)
    BY SMTT(30), <2>2, PlanFacts
  <2> QED
    BY Zenon, <1>2, <2>1, <2>4, <2>5 DEF Traces, Undoing, Undone, Behind
<1>9. CASE Restore(q) \/ Rewrite(q) \/ (IgnoredInside(q) /\ CreatedHere(q))
  <2>1. j.step \in {"restore", "rewrite"}
    BY Zenon, <1>9 DEF Restore, Rewrite, CreatedHere, At
  <2>2. \/ NextRestore(q) /\ applied' = applied \ MadeTo(q, Item(q).file)
        \/ j.step = "restore" /\ Go(q, "rewrite")
        \/ NextRestore(q) /\ "kept" \in lapses' /\ Item(q).before = Absent
    BY Zenon, <1>9 DEF Restore, Rewrite, IgnoredInside, CreatedHere, At
  <2>3. CASE NextRestore(q) /\ applied' = applied \ MadeTo(q, Item(q).file)
    <3>1. c.file # Item(q).file
      BY Zenon, <2>3 DEF MadeTo
    <3> QED
      BY Zenon, <2>1, <2>3, <3>1, TracesRestored
  <2>4. CASE j.step = "restore" /\ Go(q, "rewrite")
    <3>1. Moves(q, "rewrite", j.idx, j.clash)
      BY Zenon, <1>1, <2>4, MoveKinds DEF Steps
    <3>2. k.step = "rewrite" /\ k.idx = j.idx
      BY Zenon, <3>1 DEF Moves
    <3> QED
      BY Zenon, <1>2, <2>4, <3>2 DEF Traces, Undoing, Undone, Behind
  <2>5. CASE NextRestore(q) /\ "kept" \in lapses' /\ Item(q).before = Absent
    BY Zenon, <2>1, <2>5, TracesRestored
  <2> QED
    BY Zenon, <2>2, <2>3, <2>4, <2>5
<1>10. CASE Save(q)
  <2>1. j.step = "save" /\ s = "saved"
    BY Zenon, <1>2, <1>10 DEF Save, At, Follows
  <2> QED
    BY Zenon, <1>2, <2>1 DEF Traces, Undoing, Undone, Behind
<1> QED
  BY Zenon, <1>4, <1>5, <1>6, <1>7, <1>8, <1>9, <1>10 DEF Does

\* While a command is about to drop its pending record nobody else writes the stack.
LEMMA ForgetUndisturbed ==
  ASSUME Typed, Locked, [Next]_vars, NEW q \in Proc, job[q].step = "forget"
  PROVE  UNCHANGED <<stack, trimmed>>
<1>1. ASSUME NEW p \in Proc, WriteStack(p) PROVE FALSE
  BY Zenon, <1>1 DEF WriteStack, At, Locked
<1>2. ASSUME NEW p \in Proc, Save(p) \/ Saved(p) PROVE FALSE
  <2>1. job[p].step \in {"save", "saved"}
    BY Zenon, <1>2 DEF Save, Saved, At
  <2>2. job[p].verb # "edit"
    BY Zenon, <2>1 DEF Typed, Shape, Fits, Before, Undoing
  <2> QED
    BY Zenon, <2>1, <2>2, Alone
<1> QED
  BY Zenon, <1>1, <1>2, Changes DEF Effects

\* Every command knows which changes are its own, whoever takes a step.
LEMMA TracesNext ==
  ASSUME Typed, Locked, Identified, Records, Fresh, Preimages, Quiet', [Next]_vars,
         NEW q \in Proc, NEW c \in applied', c.id = job'[q].tid, c.verb = "rename" => "unread" \notin lapses'
  PROVE  Traces(job[q], c)'
<1> DEFINE j == job[q]
           k == job'[q]
<1>1. job \in [Proc -> Job] /\ lapses \subseteq lapses' /\ Quiet /\ "foreign" \notin lapses
  BY Zenon, Changes DEF Typed, TypeOK, Effects, Quiet
<1>2. c.id # 0 /\ Idle.tid = 0 /\ Typed'
  <2>1. Typed'
    BY Zenon, TypesNext
  <2>2. c \in Change
    BY Zenon, <2>1 DEF Typed, TypeOK
  <2>3. c.id # 0
    BY SMTT(30), <2>2, CommandAssumption DEF Change, Id
  <2> QED
    BY Zenon, <2>1, <2>3 DEF Idle
<1>3. CASE c \notin applied
  <2>0. PICK p \in Proc :
           /\ c.id = job[p].tid /\ job'[p] # job[p]
           /\ \/ job'[p] = Idle
              \/ /\ job'[p].tid = job[p].tid /\ job'[p].plan = job[p].plan /\ job'[p].verb = job[p].verb
                 /\ \/ /\ job[p].step \in {"publish", "swap"}
                       /\ \/ job'[p].step = "publish" /\ job'[p].idx = job[p].idx + 1
                          \/ job'[p].step \in {"fill", "close"}
                       /\ Within(job[p].plan, job[p].idx + 1, c)
                    \/ /\ job[p].step = "publishAll" /\ job'[p].step = "open"
                       /\ Within(job[p].plan, Len(job[p].plan) + 1, c)
    <3>1. c.verb = "rename" => lapses \cap {"foreign", "unread"} = {}
      BY Zenon, <1>1
    <3> QED
      BY Zenon, <1>1, <1>3, <3>1, NewChange
  <2>2. q = p
    <3>1. q # p => job'[q] = job[q]
      BY Zenon, <2>0, JobSteps
    <3> QED
      BY Zenon, <1>2, <2>0, <3>1 DEF Identified
  <2>1. /\ c.id = job[p].tid /\ job'[p].tid = job[p].tid /\ job'[p].plan = job[p].plan
        /\ job'[p].verb = job[p].verb
        /\ \/ /\ job[p].step \in {"publish", "swap"}
              /\ (job'[p].step = "publish" /\ job'[p].idx = job[p].idx + 1) \/ job'[p].step \in {"fill", "close"}
              /\ Within(job[p].plan, job[p].idx + 1, c)
           \/ /\ job[p].step = "publishAll" /\ job'[p].step = "open"
              /\ Within(job[p].plan, Len(job[p].plan) + 1, c)
    BY Zenon, <1>2, <2>0, <2>2
  <2>3. job[p].plan \in Plans /\ job[p].idx + 1 \in Nat /\ Len(job[p].plan) + 1 \in Nat
    <3>1. job[p].plan \in Plans /\ job[p].idx \in DOMAIN job[p].plan
      BY Zenon, <2>1, ItemFacts DEF Before
    <3> QED
      BY SMTT(30), <3>1, PlanFacts
  <2>4. Within(job[p].plan, Len(job[p].plan) + 1, c)
    BY Zenon, <2>1, <2>3, WithinMore
  <2>5. CASE job[p].step = "publishAll" /\ job'[p].step = "open"
    <3>1. job[p].verb = "rename"
      BY Zenon, <2>5 DEF Typed, Shape, Fits
    <3> QED
      BY Zenon, <2>1, <2>2, <2>4, <2>5, <3>1 DEF Traces, Undone
  <2>6. CASE job'[p].step = "publish" /\ job'[p].idx = job[p].idx + 1 /\ Within(job[p].plan, job[p].idx + 1, c)
    BY Zenon, <2>1, <2>2, <2>4, <2>6 DEF Traces, Undone
  <2>7. CASE job'[p].step \in {"fill", "close"}
    BY Zenon, <2>1, <2>2, <2>4, <2>7 DEF Traces, Undone
  <2> QED
    BY Zenon, <2>1, <2>5, <2>6, <2>7
<1>4. CASE c \in applied
  <2>1. c.id = j.tid => Traces(j, c)
    <3>1. c.verb = "rename" => "unread" \notin lapses
      BY Zenon, <1>1
    <3> QED
      BY Zenon, <1>1, <1>4, <3>1 DEF Preimages
  <2>2. CASE job'[q] = job[q]
    <3>1. Traces(j, c) /\ k = j
      BY Zenon, <2>1, <2>2
    <3>2. j.step = "forget" => UNCHANGED <<stack, trimmed>>
      BY Zenon, ForgetUndisturbed
    <3> QED
      BY Zenon, <1>1, <3>1, <3>2 DEF Traces
  <2>3. ASSUME NEW s, NEW i, NEW d, Moves(q, s, i, d), Allowed(q, s, i), Does(q) PROVE Traces(job[q], c)'
    <3>1. c.id = j.tid
      BY Zenon, <2>3 DEF Moves
    <3> QED
      BY Zenon, <1>1, <1>4, <2>1, <2>3, <3>1, TracesMove
  <2>4. ASSUME k.tid = next PROVE FALSE
    <3>1. c.id < next /\ next \in Nat
      BY <1>4, CommandAssumption DEF Preimages, Typed, TypeOK
    <3> QED
      BY SMTT(30), <2>4, <3>1
  <2>5. ASSUME j.step = "close", k.step = "stackLock", k.plan \in Plans, k.tid = j.tid,
               NEW r \in pending, r.id = j.tid, SameBefore(k.plan, r.entries)
        PROVE  Traces(job[q], c)'
    <3>1. SameBefore(r.entries, j.plan)
      BY Zenon, <2>5 DEF Records, Logged
    <3>2. Within(j.plan, Len(j.plan) + 1, c)
      BY Zenon, <2>1, <2>5 DEF Traces, Undoing
    <3>3. PICK i \in DOMAIN k.plan : c.file = k.plan[i].file /\ c.before = k.plan[i].before
      BY Zenon, <2>5, <3>1, <3>2 DEF Within, SameBefore
    <3>4. Within(k.plan, Len(k.plan) + 1, c)
      BY Zenon, <2>5, <3>3, WithinAt
    <3> QED
      BY Zenon, <2>5, <3>4 DEF Traces, Undone
  <2>6. ASSUME j.step = "readStack", k.step = "writeStack", k.plan = j.plan, k.tid = j.tid PROVE Traces(job[q], c)'
    BY Zenon, <2>1, <2>6 DEF Traces, Undone, Undoing
  <2>7. ASSUME k.step = "guard" PROVE Traces(job[q], c)'
    BY Zenon, <2>7 DEF Traces, Undone, Undoing
  <2>8. CASE JobStep(q)
    BY Zenon, <1>2, <2>3, <2>4, <2>5, <2>6, <2>7, <2>8 DEF JobStep
  <2> QED
    BY Zenon, <2>2, <2>8, JobSteps
<1> QED
  BY Zenon, <1>3, <1>4

-----------------------------------------------------------------------------
(* The pre-images.                                                         *)

\* When a pending record goes.
LEMMA Drops ==
  ASSUME Typed, [Next]_vars, NEW p \in Proc, Return(p), pending' # pending,
         job[p].step \in {"publish", "swap", "fill", "abandon", "forget"}
  PROVE  /\ job[p].step \in {"publish", "swap"} => job[p].idx = 1
         /\ job[p].step = "fill" => "cutCreation" \in lapses'
         /\ job[p].step = "abandon" => Abandon(p) \/ "evidenceLost" \in lapses'
<1>1. job \in [Proc -> Job] /\ Idle.step = "idle"
  BY Zenon DEF Typed, TypeOK, Idle
<1>2. job'[p].step = "idle"
  BY Zenon, <1>1 DEF Return
<1>3. ASSUME NEW s, NEW i, NEW d, Moves(p, s, i, d), Allowed(p, s, i) PROVE FALSE
  BY Zenon, <1>2, <1>3 DEF Moves, Allowed, Follows
<1>4. JobStep(p)
  BY Zenon, <1>2, JobSteps
<1>5. Ends(p)
  BY Zenon, <1>2, <1>3, <1>4 DEF JobStep, Start, StartEdit, StartWide, AcquireBarrier, AcquireFile, At
<1>6. ~Crash(p)
  BY Zenon DEF Crash, files
<1>7. CASE job[p].step \in {"publish", "swap", "fill"}
  <2>1. Publish(p) \/ Swap(p) \/ PublishError(p)
    BY Zenon, <1>5, <1>6, <1>7 DEF Ends, Plan, Select, Guard, PublishAll, ReadStack, Abandon, Forget, Saved,
         Deadline, PublishPart, ReturnError, IgnoredAtEnd, At
  <2>2. FailPublish(p)
    BY Zenon, <2>1 DEF Publish, Swap, PublishError
  <2>3. job[p].idx = 1
    BY Zenon, <2>2 DEF FailPublish
  <2>4. job[p].step = "fill" => "cutCreation" \in lapses'
    BY Zenon, <2>1 DEF Publish, Swap, PublishError, At
  <2> QED
    BY Zenon, <1>7, <2>3, <2>4
<1>8. CASE job[p].step = "abandon"
  <2>1. Abandon(p) \/ IgnoredAtEnd(p)
    BY Zenon, <1>5, <1>6, <1>8 DEF Ends, Plan, Select, Guard, PublishAll, ReadStack, Publish, Swap, PublishError, Forget,
         Saved, Deadline, PublishPart, ReturnError, At
  <2>2. IgnoredAtEnd(p) => "evidenceLost" \in lapses'
    BY Zenon, <1>8 DEF IgnoredAtEnd, At
  <2> QED
    BY Zenon, <1>8, <2>1, <2>2
<1> QED
  BY Zenon, <1>7, <1>8

\* A rename that ends before its record is opened leaves a trace.
LEMMA OpenEnds ==
  ASSUME Typed, [Next]_vars, NEW p \in Proc, job[p].step = "open", job[p].verb = "rename"
  PROVE  job'[p] = job[p] \/ Open(p) \/ "interrupted" \in lapses'
<1>1. CASE Ends(p)
  BY Zenon, <1>1 DEF Ends, Plan, Select, Guard, PublishAll, Publish, Swap, PublishError, ReadStack, Abandon, Forget,
       Saved, Deadline, PublishPart, Crash, ReturnError, IgnoredAtEnd, At, MidChange
<1>2. CASE JobStep(p)
  BY Zenon, <1>1, <1>2 DEF JobStep, Start, StartEdit, StartWide, AcquireBarrier, AcquireFile, At, Allowed
<1> QED
  BY Zenon, <1>2, JobSteps

\* A pre-image is not lost, with s for the undo stack: a record goes when nothing was
\* changed, when the changes were taken back, or when the stack or a note has them.
LEMMA PreservedNext ==
  ASSUME Typed, Locked, Identified, Preimages, Quiet', [Next]_vars,
         NEW s, \A p \in Proc : job[p].step = "forget" => s = stack,
         NEW c \in applied, Covered(s, c) \/ Excused(c)
  PROVE  Covered(s, c)' \/ Excused(c)'
<1> SUFFICES ASSUME c.verb = "rename" => "unread" \notin lapses' PROVE Covered(s, c)' \/ Excused(c)'
  BY Zenon DEF Excused
<1>1. Effects /\ lapses \subseteq lapses' /\ Quiet
  BY Zenon, Changes DEF Effects, Quiet
<1>2. trimmed \subseteq trimmed'
  BY Zenon, <1>1, WrittenRecords DEF Effects, Save, Saved, history
<1>3. evidence \subseteq evidence'
  BY Zenon, <1>1 DEF Effects, Abandon
<1>4. \A p \in Proc : c.id = job[p].tid => Traces(job[p], c)
  <2>1. c.verb = "rename" => "unread" \notin lapses
    BY Zenon, <1>1
  <2> QED
    BY Zenon, <1>1, <2>1 DEF Preimages
<1>5. ASSUME NEW r \in pending, Covers(r, c) PROVE Covered(s, c)' \/ Excused(c)'
  <2>1. CASE r \in pending'
    BY Zenon, <1>5, <2>1 DEF Covered
  <2>2. CASE r \notin pending'
    <3>1. PICK p \in Proc : /\ job[p].step \in {"publish", "swap", "fill", "abandon", "forget"}
                            /\ pending' = WithoutPending(p) /\ Return(p)
      BY Zenon, <1>1, <2>2, OpenedFacts DEF Effects
    <3>2. r.id = job[p].tid /\ c.id = r.id
      BY Zenon, <1>5, <2>2, <3>1 DEF WithoutPending, Covers
    <3>3. /\ Traces(job[p], c)
          /\ job[p].step \in {"publish", "swap"} => job[p].idx = 1
          /\ job[p].step = "fill" => "cutCreation" \in lapses'
          /\ job[p].step = "abandon" => Abandon(p) \/ "evidenceLost" \in lapses'
      BY Zenon, <1>4, <2>2, <3>1, <3>2, Drops
    <3>4. job[p].plan \in Plans
      BY Zenon, <3>1, ItemFacts DEF Before
    <3>5. CASE job[p].step \in {"publish", "swap"}
      <4>1. \A i \in DOMAIN job[p].plan : ~(i < 1)
        BY SMTT(30), <3>4, PlanFacts
      <4> QED
        BY Zenon, <3>3, <3>5, <4>1 DEF Traces, Within
    <3>6. CASE job[p].step = "fill"
      <4>1. Len(job[p].plan) = 1 /\ job[p].plan[1].before = Absent
        BY Zenon, <1>1, <3>6 DEF Preimages, Typed, Shape, Fits, Recording
      <4>2. DOMAIN job[p].plan = {1}
        BY SMTT(30), <3>4, <4>1, PlanFacts
      <4>3. c.before = Absent
        BY Zenon, <3>3, <3>6, <4>1, <4>2 DEF Traces, Within, Undoing
      <4> QED
        BY Zenon, <3>3, <3>6, <4>3 DEF Excused
    <3>7. CASE job[p].step = "abandon"
      <4>1. job[p].clash = "yes"
        BY Zenon, <3>3, <3>7 DEF Traces
      <4>2. Abandon(p)
        BY Zenon, <3>3, <3>7 DEF Quiet
      <4>3. r \in evidence'
        BY Zenon, <3>2, <4>1, <4>2 DEF Abandon
      <4> QED
        BY Zenon, <1>5, <4>3 DEF Covered
    <3>8. CASE job[p].step = "forget"
      <4>1. c.id \in trimmed \/ \E x \in Range(s) : Covers(x, c)
        BY Zenon, <3>3, <3>8 DEF Traces
      <4> QED
        BY Zenon, <1>2, <4>1 DEF Covered
    <3> QED
      BY Zenon, <3>1, <3>5, <3>6, <3>7, <3>8
  <2> QED
    BY Zenon, <2>1, <2>2
<1>6. CASE Covered(s, c)
  BY Zenon, <1>2, <1>3, <1>5, <1>6 DEF Covered
<1>7. CASE Excused(c)
  <2>1. CASE c.before = Absent /\ lapses \cap {"cutCreation", "kept"} # {}
    BY Zenon, <1>1, <2>1 DEF Excused
  <2>2. CASE c.verb = "rename" /\ lapses \cap {"interrupted", "unread"} # {}
    BY Zenon, <1>1, <2>2 DEF Excused
  <2>3. ASSUME c.verb = "rename", NEW p \in Proc, At(p, "open"), job[p].tid = c.id PROVE Covered(s, c)' \/ Excused(c)'
    <3>1. job[p].step = "open" /\ job[p].verb = "rename" /\ Within(job[p].plan, Len(job[p].plan) + 1, c)
      BY Zenon, <1>4, <2>3 DEF Traces, At, Undoing
    <3>2. CASE job'[p] = job[p]
      BY Zenon, <2>3, <3>2 DEF Excused, At
    <3>3. CASE "interrupted" \in lapses'
      BY Zenon, <2>3, <3>3 DEF Excused
    <3>4. CASE Open(p)
      <4>1. PICK es \in Plans : /\ SameBefore(es, job[p].plan)
                                /\ pending' = pending \cup {[id |-> job[p].tid, entries |-> es]}
        BY Zenon, <3>4, OpenedFacts
      <4> DEFINE r == [id |-> job[p].tid, entries |-> es]
      <4>2. r.id = job[p].tid /\ r.entries = es
        OBVIOUS
      <4>3. r \in pending'
        BY Zenon, <4>1
      <4> HIDE DEF r
      <4>4. SameBefore(r.entries, job[p].plan) /\ r.id = c.id
        BY Zenon, <2>3, <4>1, <4>2
      <4>5. Covers(r, c)
        BY Zenon, <3>1, <4>4, WithinCovers
      <4> QED
        BY Zenon, <4>3, <4>5 DEF Covered
    <3> QED
      BY Zenon, <3>1, <3>2, <3>3, <3>4, OpenEnds
  <2> QED
    BY Zenon, <1>7, <2>1, <2>2, <2>3 DEF Excused
<1> QED
  BY Zenon, <1>6, <1>7

\* A new change has its pre-image in the pending record, or its rename is about to open one.
LEMMA NewCovered ==
  ASSUME Typed, Records, Fresh, "foreign" \notin lapses, [Next]_vars, NEW c \in applied', c \notin applied, NEW s
  PROVE  Covered(s, c)' \/ Excused(c)'
<1>1. PICK p \in Proc :
           /\ c.id = job[p].tid /\ UNCHANGED pending
           /\ \/ job[p].step \in {"publish", "swap"} /\ Within(job[p].plan, job[p].idx + 1, c)
              \/ job'[p].step = "open" /\ job'[p].tid = job[p].tid /\ c.verb = "rename"
              \/ c.verb = "rename" /\ "interrupted" \in lapses'
  BY Zenon, NewChange
<1>2. CASE job[p].step \in {"publish", "swap"} /\ Within(job[p].plan, job[p].idx + 1, c)
  <2>1. PICK r \in pending : r.id = job[p].tid /\ SameBefore(r.entries, job[p].plan)
    BY Zenon, <1>2 DEF Records, Logged
  <2>2. Covers(r, c)
    BY Zenon, <1>1, <1>2, <2>1, WithinCovers
  <2> QED
    BY Zenon, <1>1, <2>1, <2>2 DEF Covered
<1>3. CASE job'[p].step = "open" /\ job'[p].tid = job[p].tid /\ c.verb = "rename"
  BY Zenon, <1>1, <1>3 DEF Excused, At
<1>4. CASE c.verb = "rename" /\ "interrupted" \in lapses'
  BY Zenon, <1>4 DEF Excused
<1> QED
  BY Zenon, <1>1, <1>2, <1>3, <1>4

\* The undo stack loses the transaction that was undone, and no other pre-image.
LEMMA SavedCovers ==
  ASSUME Typed, Preimages, Quiet, NEW p \in Proc, Saved(p), NEW c \in applied, Covered(job[p].mem, c)
  PROVE  Covered(stack, c)' \/ Excused(c)'
<1> SUFFICES ASSUME c.verb = "rename" => "unread" \notin lapses' PROVE Covered(stack, c)' \/ Excused(c)'
  BY Zenon DEF Excused
<1> DEFINE m == job[p].mem
           n == job[p].pos
           w == Without(m, n)
<1>1. /\ job[p].step = "saved" /\ stack' = w
      /\ UNCHANGED <<trimmed, pending, evidence, lapses, applied>>
  BY Zenon DEF Saved, At
<1>2. /\ m \in Seq(Record) /\ n \in 1..Len(m) /\ m[n] = [id |-> job[p].tid, entries |-> job[p].plan]
  BY Zenon, <1>1 DEF Typed, TypeOK, Job, Shape, Fits, Undoing
<1>3. w \in Seq(Record) /\ Len(w) = Len(m) - 1 /\ \A k \in 1..Len(w) : w[k] = IF k < n THEN m[k] ELSE m[k + 1]
  BY Zenon, <1>2, WithoutFacts
<1> HIDE DEF w, m, n
<1>4. Len(m) \in Nat /\ n \in Nat /\ DOMAIN w = 1..Len(w) /\ DOMAIN m = 1..Len(m)
  BY SMTT(30), <1>2, <1>3
<1>5. ASSUME NEW k \in 1..Len(m), k # n PROVE m[k] \in Range(w)
  <2>1. CASE k < n
    <3>1. k \in 1..Len(w) /\ w[k] = m[k]
      BY SMTT(30), <1>2, <1>3, <1>4, <1>5, <2>1
    <3> QED
      BY Zenon, <1>4, <3>1 DEF Range
  <2>2. CASE ~(k < n)
    <3>1. k - 1 \in 1..Len(w) /\ w[k - 1] = m[k]
      BY SMTT(30), <1>2, <1>3, <1>4, <1>5, <2>2
    <3> QED
      BY Zenon, <1>4, <3>1 DEF Range
  <2> QED
    BY Zenon, <2>1, <2>2
<1>6. ASSUME NEW r \in Range(m), Covers(r, c) PROVE Covered(stack, c)' \/ Excused(c)'
  <2>1. PICK k \in 1..Len(m) : r = m[k]
    BY Zenon, <1>4, <1>6 DEF Range
  <2>2. CASE k # n
    BY Zenon, <1>1, <1>5, <1>6, <2>1, <2>2 DEF Covered
  <2>3. CASE k = n
    <3>1. r.id = job[p].tid /\ r.entries = job[p].plan
      BY <1>2, <2>1, <2>3
    <3>2. PICK i \in DOMAIN job[p].plan : job[p].plan[i].file = c.file /\ job[p].plan[i].before = c.before
      BY Zenon, <1>6, <3>1 DEF Covers
    <3>3. Traces(job[p], c)
      BY Zenon, <1>1, <1>6, <3>1 DEF Preimages, Covers
    <3>4. "kept" \in lapses /\ job[p].plan[i].before = Absent
      BY Zenon, <1>1, <3>2, <3>3 DEF Traces, Undone, Behind
    <3> QED
      BY Zenon, <1>1, <3>2, <3>4 DEF Excused
  <2> QED
    BY Zenon, <2>2, <2>3
<1> QED
  BY Zenon, <1>1, <1>6 DEF Covered, m

\* Where an undo writes the stack nobody is about to drop a pending record.
LEMMA SavedAlone ==
  ASSUME Typed, Locked, NEW q \in Proc, job[q].step \in {"save", "saved"}
  PROVE  \A p \in Proc : job[p].step # "forget"
<1>1. job[q].verb # "edit"
  BY Zenon DEF Typed, Shape, Fits, Before, Undoing
<1> QED
  BY Zenon, <1>1, Alone

\* Every change keeps its pre-image.
LEMMA PreimagesNext ==
  ASSUME Typed, Locked, Identified, Records, Fresh, Stacks, Preimages, [Next]_vars PROVE Preimages'
<1>1. Effects /\ job \in [Proc -> Job] /\ applied \subseteq Change /\ next \in Nat /\ Idle.step = "idle"
  BY Changes DEF Typed, TypeOK, Idle
<1>2. ASSUME NEW c \in applied' PROVE c.id < next'
  <2>1. c.id < next
    <3>1. CASE c \in applied
      BY Zenon, <3>1 DEF Preimages
    <3>2. CASE c \notin applied
      BY Zenon, <3>2, NewChange DEF Identified
    <3> QED
      BY Zenon, <3>1, <3>2
  <2>2. next' = next \/ next' = next + 1
    BY Zenon, <1>1 DEF Effects, Plan
  <2>3. c.id \in Nat
    <3>1. c \in Change
      BY Zenon, <1>2, TypesNext DEF Typed, TypeOK
    <3> QED
      BY SMTT(30), <3>1, CommandAssumption DEF Change, Id
  <2> QED
    BY SMTT(30), <1>1, <2>1, <2>2, <2>3
<1>3. ASSUME Quiet' PROVE Quiet /\ "foreign" \notin lapses
  BY Zenon, <1>1, <1>3 DEF Effects, Quiet
<1>4. ASSUME Quiet', NEW s, \A p \in Proc : job[p].step = "forget" => s = stack, Reversible(s), NEW c \in applied'
      PROVE Covered(s, c)' \/ Excused(c)'
  <2>1. CASE c \in applied
    BY Zenon, <1>4, <2>1, PreservedNext DEF Reversible
  <2>2. CASE c \notin applied
    BY Zenon, <1>3, <1>4, <2>2, NewCovered
  <2> QED
    BY Zenon, <2>1, <2>2
<1>5. ASSUME Quiet', stack' # Unreadable PROVE Reversible(stack)'
  <2>1. CASE UNCHANGED <<stack, trimmed>>
    <3>1. PICK s : s = stack
      BY Zenon
    <3>2. Reversible(s) /\ s = stack'
      BY Zenon, <1>3, <1>5, <2>1, <3>1 DEF Preimages
    <3>3. \A c \in applied' : Covered(s, c)' \/ Excused(c)'
      BY Zenon, <1>4, <1>5, <3>1, <3>2
    <3> QED
      BY Zenon, <3>2, <3>3 DEF Reversible, Covered
  <2>2. ASSUME NEW p \in Proc, WriteStack(p) PROVE Reversible(stack)'
    <3>1. PICK s : s = stack
      BY Zenon
    <3>2. s = job[p].mem /\ stack # Unreadable
      BY Zenon, <1>3, <1>5, <2>2, <3>1 DEF WriteStack, At, Stacks, Knows, Quiet
    <3>3. Reversible(s)
      BY Zenon, <1>3, <1>5, <3>1, <3>2 DEF Preimages
    <3>4. \A c \in applied' : Covered(s, c)' \/ Excused(c)'
      BY Zenon, <1>4, <1>5, <3>1, <3>3
    <3>5. \A r \in Range(s) : r \in Range(stack') \/ r.id \in trimmed'
      BY Zenon, <2>2, <3>2, WrittenRecords
    <3>6. ASSUME NEW c, Covered(s, c)' PROVE Covered(stack, c)'
      BY Zenon, <3>5, <3>6 DEF Covered, Covers
    <3> QED
      BY Zenon, <3>4, <3>6 DEF Reversible
  <2>3. ASSUME NEW p \in Proc, Saved(p) PROVE Reversible(stack)'
    <3>1. /\ job[p].step = "saved" /\ Reversible(job[p].mem) /\ Quiet
          /\ UNCHANGED <<applied, trimmed, pending, evidence, lapses>>
      BY Zenon, <1>3, <1>5, <2>3 DEF Saved, At, Preimages
    <3>2. ASSUME NEW c \in applied, Excused(c) PROVE Excused(c)'
      <4>1. \A q \in Proc : At(q, "open") => job'[q] = job[q]
        BY Zenon, <1>1, <2>3, <3>1 DEF Saved, Return, At
      <4> QED
        BY Zenon, <3>1, <3>2, <4>1 DEF Excused, At
    <3> QED
      BY Zenon, <2>3, <3>1, <3>2, SavedCovers DEF Reversible
  <2>4. ASSUME NEW p \in Proc, Save(p) PROVE FALSE
    BY Zenon, <1>5, <2>4 DEF Save
  <2> QED
    BY Zenon, <1>1, <2>1, <2>2, <2>3, <2>4 DEF Effects
<1>6. ASSUME Quiet', NEW q \in Proc, job'[q].step = "saved" PROVE Reversible(job[q].mem)'
  <2>1. job'[q].mem = job[q].mem /\ job[q].step \in {"save", "saved"}
    <3>1. ASSUME NEW s, NEW i, NEW d, Moves(q, s, i, d), Allowed(q, s, i)
          PROVE job'[q].mem = job[q].mem /\ job[q].step \in {"save", "saved"}
      BY Zenon, <1>6, <3>1 DEF Moves, Allowed, Follows
    <3>2. CASE JobStep(q)
      BY Zenon, <1>1, <1>6, <3>1, <3>2 DEF JobStep, Before
    <3> QED
      BY Zenon, <1>6, <3>2, JobSteps
  <2>2. PICK s : s = job[q].mem
    BY Zenon
  <2>3. Reversible(s)
    <3>1. CASE job[q].step = "save"
      <4>1. stack = s
        BY Zenon, <2>2, <3>1 DEF Stacks, Knows, Undoing
      <4>2. job[q].mem \in Seq(Record)
        BY Zenon, <1>1 DEF Job
      <4>3. stack # Unreadable
        BY Zenon, <2>2, <4>1, <4>2, CommandAssumption
      <4> QED
        BY Zenon, <1>3, <1>6, <4>1, <4>3 DEF Preimages
    <3>2. CASE job[q].step = "saved"
      BY Zenon, <1>3, <1>6, <2>2, <3>2 DEF Preimages
    <3> QED
      BY Zenon, <2>1, <3>1, <3>2
  <2>4. \A c \in applied' : Covered(s, c)' \/ Excused(c)'
    BY Zenon, <1>4, <1>6, <2>1, <2>3, SavedAlone
  <2>5. s = job'[q].mem
    BY Zenon, <2>1, <2>2
  <2> QED
    BY Zenon, <2>4, <2>5 DEF Reversible, Covered
<1>7. ASSUME Quiet', NEW q \in Proc, job'[q].step = "fill" PROVE job'[q].plan[1].before = Absent
  <2>1. CASE job'[q] = job[q]
    BY Zenon, <1>3, <1>7, <2>1 DEF Preimages
  <2>2. ASSUME NEW s, NEW i, NEW d, Moves(q, s, i, d), Allowed(q, s, i), Does(q)
        PROVE job'[q].plan[1].before = Absent
    <3>1. job[q].step = "publish" /\ job'[q].plan = job[q].plan /\ job[q].verb = "edit"
      BY Zenon, <1>7, <2>2 DEF Moves, Allowed, Follows
    <3>2. Publish(q) \/ PublishError(q)
      BY Zenon, <2>2, <3>1 DEF Does, Open, Swap, Fill, Back, BackSwap, BackError, PublishAll, StackLock, WriteStack,
           Guard, Restore, Rewrite, CreatedHere, Save, At
    <3>3. ~FailPublish(q)
      BY Zenon, <1>7, Failed
    <3>4. Item(q).before = Absent
      <4>1. Go(q, "swap") => job'[q].step = "swap"
        BY Zenon, <1>1, MoveKinds DEF Moves, Steps
      <4> QED
        BY Zenon, <1>7, <3>2, <3>3, <4>1 DEF Publish, PublishError
    <3>5. job[q].idx = 1
      BY Zenon, <3>1 DEF Typed, Shape, Fits
    <3> QED
      BY Zenon, <3>1, <3>4, <3>5 DEF Item
  <2>3. CASE JobStep(q)
    BY Zenon, <1>1, <1>7, <2>2, <2>3 DEF JobStep, Before
  <2> QED
    BY Zenon, <2>1, <2>3, JobSteps
<1>8. ASSUME Quiet', NEW q \in Proc, NEW c \in applied', c.id = job'[q].tid,
             c.verb = "rename" => "unread" \notin lapses'
      PROVE Traces(job[q], c)'
  BY Zenon, <1>8, TracesNext
<1> QED
  BY Zenon, <1>2, <1>5, <1>6, <1>7, <1>8 DEF Preimages

-----------------------------------------------------------------------------
(* The theorems.                                                           *)

\* The inductive invariant.
CommandsInv ==
  /\ Typed /\ Locked /\ Identified /\ Records
  /\ Fresh /\ Restoring /\ Stacks /\ Preimages

\* The invariant holds when nothing has happened yet.
LEMMA CommandsInit ==
  ASSUME Init PROVE CommandsInv
<1>1. \A p \in Proc : job[p] = Idle
  BY Zenon DEF Init
<1>2. Idle.step = "idle" /\ Idle.verb = "none" /\ Idle.tid = 0
  BY Zenon DEF Idle
<1>3. Locked
  BY Zenon, <1>1, <1>2 DEF Init, Locked, Held
<1>4. Identified
  <2>1. stack = <<>> /\ Len(stack) = 0 /\ next = 1 /\ pending = {}
    BY SMTT(30) DEF Init
  <2>2. \A p \in Proc : job[p].tid < next
    BY <1>1, <1>2, <2>1
  <2>3. \A i \in 1..Len(stack) : stack[i].id < next
    BY <2>1
  <2>4. \A p \in Proc : job[p].step \notin Undoing \cup {"writeStack"}
    BY Zenon, <1>1, <1>2 DEF Undoing
  <2> QED
    BY Zenon, <1>1, <1>2, <2>1, <2>2, <2>3, <2>4 DEF Identified
<1>5. Records
  BY Zenon, <1>1, <1>2 DEF Records, Logged, Recording
<1>6. Fresh /\ Restoring
  BY Zenon, <1>1, <1>2 DEF Fresh, Unwritten, Restoring, Undone
<1>7. Stacks
  <2>1. stack \in Seq(Record) /\ Len(stack) <= Depth /\ recorded = {}
    BY CommandAssumption DEF Init
  <2>2. stack # Unreadable
    BY Zenon, <2>1, CommandAssumption
  <2> QED
    BY Zenon, <1>1, <1>2, <2>1, <2>2 DEF Stacks, Kept, Knows, Undoing
<1>8. Preimages
  <2>1. \A p \in Proc : job[p].step # "saved" /\ job[p].step # "fill"
    BY Zenon, <1>1, <1>2
  <2>2. applied = {}
    BY Zenon DEF Init
  <2> QED
    BY Zenon, <1>1, <2>1, <2>2 DEF Preimages, Reversible
<1> QED
  BY Zenon, <1>3, <1>4, <1>5, <1>6, <1>7, <1>8, TypesInit DEF CommandsInv

\* The locks, the records of the transactions, the files and the undo stack agree in every
\* state of any number of edits, patches, renames and undos that run, fail and die side by
\* side (edit.rs).
THEOREM CommandsInvariant == Spec => []CommandsInv
<1>1. CommandsInv /\ [Next]_vars => CommandsInv'
  BY Zenon, TypesNext, LockedNext, IdentifiedNext, RecordsNext, FreshNext, RestoringNext, StacksNext, PreimagesNext
  DEF CommandsInv
<1> QED
  BY <1>1, CommandsInit, PTL DEF Spec

\* The variables have their types.
THEOREM TypeCorrect == Spec => []TypeOK
<1>1. CommandsInv => TypeOK
  BY Zenon DEF CommandsInv, Typed
<1> QED
  BY <1>1, CommandsInvariant, PTL

\* A transaction reported as done is in the undo stack until it is undone or falls off the
\* bottom, unless a stack that is there could not be found and was written over
\* (edit_journal_close, edit_journal_restore); its depth is kept in any case.
THEOREM HistoryKeptHolds == Spec => []HistoryKept
<1>1. CommandsInv => HistoryKept
  BY Zenon DEF CommandsInv, Stacks, Kept, HistoryKept
<1> QED
  BY <1>1, CommandsInvariant, PTL

\* Every change that was made and not taken back has its pre-image in a pending record, in
\* the undo stack or in the note on a failed rollback (edit_journal_open, edit_journal_close,
\* edit_journal_restore), with the exceptions that ChangesHavePreImages names.
THEOREM ChangesHavePreImagesHolds == Spec => []ChangesHavePreImages
<1>1. CommandsInv => ChangesHavePreImages
  <2> SUFFICES ASSUME CommandsInv, stack # Unreadable, Quiet, NEW c \in applied, ~Excused(c)
               PROVE  Preserved(c)
    BY Zenon DEF ChangesHavePreImages, Excused, Quiet
  <2>1. Covered(stack, c)
    BY Zenon DEF CommandsInv, Preimages, Reversible
  <2> QED
    BY Zenon, <2>1 DEF Covered, Covers, Preserved
<1> QED
  BY <1>1, CommandsInvariant, PTL

\* No command reads the undo stack while an undo writes it in place, although the undo does
\* not take the lock of the stack (run_edit_undo).
THEOREM HalfStackUnseenHolds == Spec => []HalfStackUnseen
<1>1. CommandsInv => HalfStackUnseen
  <2> SUFFICES ASSUME CommandsInv, stack = Unreadable, "interrupted" \notin lapses, NEW q \in Proc
               PROVE ~At(q, "readStack") /\ ~(At(q, "plan") /\ job[q].verb = "undo")
    BY Zenon DEF HalfStackUnseen
  <2>1. PICK p \in Proc : job[p].step = "saved"
    BY Zenon DEF CommandsInv, Stacks, At
  <2>2. job[p].verb # "edit"
    BY Zenon, <2>1 DEF CommandsInv, Typed, Shape, Fits, Before, Undoing
  <2>3. q # p => job[q].step \in {"idle", "barrier"}
    BY Zenon, <2>1, <2>2, Alone DEF CommandsInv
  <2> QED
    BY Zenon, <2>1, <2>3 DEF At
<1> QED
  BY <1>1, CommandsInvariant, PTL

\* Undo replaces only what its transaction left there (edit_journal_restore: no command gets
\* between the comparison of all files and the writing of each).
THEOREM UndoOverwritesOnlyItsEditHolds == Spec => []UndoOverwritesOnlyItsEdit
<1>1. CommandsInv => UndoOverwritesOnlyItsEdit
  <2> SUFFICES ASSUME CommandsInv, "foreign" \notin lapses, NEW p \in Proc, At(p, "restore")
               PROVE live[Item(p).file] = Item(p).after
    BY Zenon DEF UndoOverwritesOnlyItsEdit
  <2>1. job[p].step = "restore" /\ Restores(job[p])
    BY Zenon DEF CommandsInv, Restoring, At, Undone
  <2>2. job[p].plan \in Plans /\ job[p].idx \in DOMAIN job[p].plan
    BY Zenon, <2>1, ItemFacts DEF CommandsInv, Before
  <2>3. job[p].idx >= job[p].idx
    BY <2>2, PlanFacts
  <2> QED
    BY Zenon, <2>1, <2>2, <2>3 DEF Restores, Ahead, Item
<1> QED
  BY <1>1, CommandsInvariant, PTL

\* What a command replaces is what it read when it planned its change, between the
\* comparison and the rename over the file too (publish_atomic, publish_delete_atomic).
THEOREM NoLostUpdateHolds == Spec => NoLostUpdate
<1> DEFINE Unspoilt == \A p \in Proc :
             At(p, "swap") /\ job'[p].step \in {"publish", "close"} /\ "foreign" \notin lapses =>
               live[Item(p).file] = Item(p).before
<1>1. CommandsInv /\ [Next]_vars => [Unspoilt]_vars
  <2> SUFFICES ASSUME CommandsInv, NEW p \in Proc, At(p, "swap"), "foreign" \notin lapses
               PROVE live[Item(p).file] = Item(p).before
    BY Zenon
  <2>1. job[p].step = "swap" /\ job[p].plan \in Plans /\ job[p].idx \in DOMAIN job[p].plan
    BY Zenon, ItemFacts DEF CommandsInv, Before, At
  <2>2. job[p].idx >= job[p].idx
    BY <2>1, PlanFacts
  <2> QED
    BY Zenon, <2>1, <2>2 DEF CommandsInv, Fresh, Unwritten, Item
<1>2. [][Unspoilt]_vars => NoLostUpdate
  BY Zenon DEF NoLostUpdate
<1> QED
  BY <1>1, <1>2, CommandsInvariant, PTL DEF Spec

\* A reported undo has put every file of its transaction back (edit_journal_restore).
THEOREM UndoRestoresHolds == Spec => UndoRestores
<1> DEFINE Reversed == \A p \in Proc :
             At(p, "saved") /\ job[p].tid \in undone' /\ lapses' \cap {"foreign", "kept"} = {} =>
               \A i \in DOMAIN job[p].plan : live'[job[p].plan[i].file] = job[p].plan[i].before
<1>1. CommandsInv /\ [Next]_vars => [Reversed]_vars
  <2> SUFFICES ASSUME CommandsInv, [Next]_vars, NEW p \in Proc, At(p, "saved"), lapses' \cap {"foreign", "kept"} = {},
                      NEW i \in DOMAIN job[p].plan
               PROVE live'[job[p].plan[i].file] = job[p].plan[i].before
    BY Zenon
  <2>1. "foreign" \notin lapses' /\ "foreign" \notin lapses /\ "kept" \notin lapses
    BY Zenon, Changes DEF Effects
  <2>2. job[p].step = "saved" /\ Restores(job[p])
    BY Zenon, <2>1 DEF CommandsInv, Restoring, At, Undone
  <2>3. live[job[p].plan[i].file] = job[p].plan[i].before
    BY Zenon, <2>1, <2>2 DEF Restores, Behind
  <2>4. job[p].step \notin Before /\ ~Writes(p)
    BY Zenon, <2>2 DEF Before, Writes, Publish, Swap, Fill, Back, BackSwap, PublishAll, PublishPart, Restore, Rewrite, At
  <2>5. live'[job[p].plan[i].file] = live[job[p].plan[i].file]
    BY Zenon, <2>1, <2>4, Untouched DEF CommandsInv
  <2> QED
    BY Zenon, <2>3, <2>5
<1>2. [][Reversed]_vars => UndoRestores
  BY Zenon DEF UndoRestores
<1> QED
  BY <1>1, <1>2, CommandsInvariant, PTL DEF Spec
=============================================================================
