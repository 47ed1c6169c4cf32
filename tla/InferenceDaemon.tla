--------------------------- MODULE InferenceDaemon ---------------------------
(***************************************************************************)
(* The shared inference daemon, from crates/cli/src/inference_daemon.rs,   *)
(* with the client side of embed_daemon.rs and summarize_daemon.rs.  All   *)
(* processes of a user send their requests to one daemon at one socket; a  *)
(* client that finds none starts one.                                      *)
(*                                                                         *)
(* A daemon is a process with an accepting thread, a few reading threads,  *)
(* a watchdog and the worker, its main thread.  A connection goes through  *)
(*                                                                         *)
(*   backlog   connected, not accepted                                     *)
(*   taken     accepted, not yet counted in pending_requests               *)
(*   accepted  counted, on its way through a reader                        *)
(*   queued, working                                                       *)
(*   over      answered, or closed because the daemon ended                *)
(*                                                                         *)
(* Durations (time to live, deadlines, the watchdog's timeout, the         *)
(* cooldown) are abstracted: a timer may expire at any time it runs.  The  *)
(* deadline after which a client stops to wait is left out: the daemon     *)
(* does not notice it.  Of the lifecycle states only Loading is kept: no   *)
(* code but the status report tells the others apart.                      *)
(* Threads look at the stop flag only at the top of their loops, so they   *)
(* may go on until the process ends.                                       *)
(***************************************************************************)
EXTENDS Naturals, FiniteSets, Sequences

CONSTANTS
  Daemon,     \* daemon processes; an identity is used again after the process ended
  NoDaemon,   \* nobody
  Client,     \* client ids, by which the queue takes turns
  Req,        \* requests; each is one call of request_via_daemon
  NoReq,      \* no request
  Sender,     \* the client id of each request
  Retries     \* bound: the attempts after a spawn (retry_delays has seven)

ASSUME DaemonAssumption ==
  /\ NoDaemon \notin Daemon /\ NoReq \notin Req
  /\ Sender \in [Req -> Client] /\ IsFiniteSet(Req)
  /\ Retries \in Nat \ {0}

VARIABLES
  sock,      \* the daemon that bound the socket file, dead or alive
  owner,     \* who holds the owner lock
  cooldown,  \* the cooldown file is younger than CRASH_COOLDOWN
  pc,        \* what the worker of a daemon does next
  listening, \* the daemons whose listener is open
  model,     \* the daemons that have the model in memory
  loading, active,   \* RuntimeStatus: in the state Loading, and the active request
  pending,   \* pending_requests
  byClient, rotation,   \* FairRequestQueue
  at, where, \* how far a request came, and at which daemon
  call,      \* what the client of a request does next
  tries, attempted,   \* the attempts it has left, and whether it tried to start a daemon
  overtook,  \* <<c, e>>: e was served while c waited in the queue
  late       \* the requests counted after the daemon decided to leave

files == <<sock, owner, cooldown>>
status == <<model, loading, active>>
queue == <<byClient, rotation, overtook>>
conn == <<at, where>>
client == <<call, tries, attempted>>
vars == <<files, pc, listening, status, pending, queue, conn, client, late>>

Leaving == {"leave", "unlink", "unlock", "exit"}
Worker == {"off", "start", "bind", "prewarm", "serve", "load", "handle", "hung"}
  \cup Leaving
Counted == {"accepted", "queued", "working"}
Open == {"backlog", "taken"} \cup Counted

TypeOK ==
  /\ sock \in Daemon \cup {NoDaemon} /\ owner \in Daemon \cup {NoDaemon}
  /\ cooldown \in BOOLEAN
  /\ pc \in [Daemon -> Worker] /\ listening \subseteq Daemon /\ model \subseteq Daemon
  /\ loading \subseteq Daemon
  /\ active \in [Daemon -> Req \cup {NoReq}] /\ pending \in [Daemon -> Nat]
  /\ byClient \in [Daemon -> [Client -> Seq(Req)]] /\ rotation \in [Daemon -> Seq(Client)]
  /\ overtook \in [Daemon -> SUBSET (Client \X Client)]
  /\ at \in [Req -> Open \cup {"none", "over"}]
  /\ where \in [Req -> Daemon \cup {NoDaemon}]
  /\ call \in [Req -> {"connect", "spawn", "retry", "wait", "done"}]
  /\ tries \in [Req -> 0..Retries] /\ attempted \subseteq Req /\ late \subseteq Req

Init ==
  /\ sock = NoDaemon /\ owner = NoDaemon /\ cooldown = FALSE
  /\ pc = [d \in Daemon |-> "off"] /\ listening = {} /\ model = {}
  /\ loading = {} /\ active = [d \in Daemon |-> NoReq]
  /\ pending = [d \in Daemon |-> 0]
  /\ byClient = [d \in Daemon |-> [c \in Client |-> <<>>]]
  /\ rotation = [d \in Daemon |-> <<>>] /\ overtook = [d \in Daemon |-> {}]
  /\ at = [q \in Req |-> "none"] /\ where = [q \in Req |-> NoDaemon]
  /\ call = [q \in Req |-> "connect"] /\ tries = [q \in Req |-> 0] /\ attempted = {}
  /\ late = {}

At(d, l) == pc[d] = l
Goto(d, l) == pc' = [pc EXCEPT ![d] = l]
SetActive(d, q) == active' = [active EXCEPT ![d] = q]
Held(d, S) == {q \in Req : where[q] = d /\ at[q] \in S}

-----------------------------------------------------------------------------
(* The client: request_via_daemon.                                         *)

\* The socket file leads to an open listener.
Connect(q) ==
  /\ call[q] \in {"connect", "retry"} /\ sock \in listening
  /\ call' = [call EXCEPT ![q] = "wait"] /\ tries' = [tries EXCEPT ![q] = 0]
  /\ attempted' = attempted \ {q}
  /\ at' = [at EXCEPT ![q] = "backlog"] /\ where' = [where EXCEPT ![q] = sock]
  /\ UNCHANGED <<files, pc, listening, status, pending, queue, late>>

\* There is no daemon: the client starts one, waits for it, or returns.  A client that
\* tried to start one then records the failure, which begins a cooldown.
Refused(q) ==
  /\ call[q] \in {"connect", "retry"} /\ sock \notin listening
  /\ \/ /\ call[q] = "connect" /\ call' = [call EXCEPT ![q] = "spawn"]
        /\ UNCHANGED <<tries, attempted, cooldown>>
     \/ /\ call[q] = "retry" /\ tries' = [tries EXCEPT ![q] = @ - 1]
        /\ IF tries[q] > 1 THEN UNCHANGED <<call, attempted, cooldown>>
             ELSE /\ call' = [call EXCEPT ![q] = "done"] /\ attempted' = attempted \ {q}
                  /\ cooldown' = IF q \in attempted THEN TRUE ELSE cooldown
  /\ UNCHANGED <<sock, owner, pc, listening, status, pending, queue, conn, late>>

\* spawn_once starts no daemon during a cooldown, while another client holds the spawn
\* lock, or when the lock cannot be taken; starting one may fail.  A client that only
\* wants the model loaded (prewarm_from_env) does not wait for the daemon, and starts one
\* also when a daemon was there and its ping failed.
SpawnOnce(q) ==
  /\ \/ /\ call[q] = "spawn" /\ call' = [call EXCEPT ![q] = "retry"]
        /\ tries' = [tries EXCEPT ![q] = Retries]
     \/ /\ call[q] = "spawn" \/ (call[q] = "wait" /\ at[q] = "over")
        /\ call' = [call EXCEPT ![q] = "done"] /\ UNCHANGED tries
  /\ \/ UNCHANGED <<pc, attempted>>
     \/ /\ ~cooldown /\ attempted' = {r \in attempted \cup {q} : call'[r] = "retry"}
        /\ UNCHANGED pc \/ \E d \in Daemon : At(d, "off") /\ Goto(d, "start")
  /\ UNCHANGED <<files, listening, status, pending, queue, conn, late>>

Receive(q) ==
  /\ call[q] = "wait" /\ at[q] = "over"
  /\ call' = [call EXCEPT ![q] = "done"]
  /\ UNCHANGED <<files, pc, listening, status, pending, queue, conn, tries, attempted, late>>

CooldownEnds ==
  /\ cooldown /\ cooldown' = FALSE
  /\ UNCHANGED <<sock, owner, pc, listening, status, pending, queue, conn, client, late>>

-----------------------------------------------------------------------------
(* The threads that accept and read.                                       *)

Accept(d) ==
  /\ d \in listening /\ Held(d, {"taken"}) = {}
  /\ \E q \in Held(d, {"backlog"}) : at' = [at EXCEPT ![q] = "taken"]
  /\ UNCHANGED <<files, pc, listening, status, pending, queue, where, client, late>>

Count(d) ==
  /\ \E q \in Held(d, {"taken"}) :
       /\ at' = [at EXCEPT ![q] = "accepted"]
       /\ late' = IF pc[d] \in Leaving THEN late \cup {q} ELSE late
  /\ pending' = [pending EXCEPT ![d] = @ + 1]
  /\ UNCHANGED <<files, pc, listening, status, queue, where, client>>

\* Mutant: a path calls finish_request twice.
Finish_twice(d, q) ==
  /\ at' = [at EXCEPT ![q] = "over"] /\ where' = [where EXCEPT ![q] = NoDaemon]
  /\ pending' = [pending EXCEPT ![d] = @ - 2]

\* The answer is written and the request no longer counted (finish_request).
Finish(d, q) ==
  /\ at' = [at EXCEPT ![q] = "over"] /\ where' = [where EXCEPT ![q] = NoDaemon]
  /\ pending' = [pending EXCEPT ![d] = @ - 1]

\* Mutant: a path of read_and_queue forgets finish_request.
AnswerAtOnce_forgets(d) ==
  /\ \E q \in Held(d, {"accepted"}) :
       at' = [at EXCEPT ![q] = "over"] /\ where' = [where EXCEPT ![q] = NoDaemon]
  /\ UNCHANGED <<files, pc, listening, status, pending, queue, client, late>>

\* read_and_queue answers what is not an inference: a ping, a status, what it cannot
\* read, and a connection that sends nothing until its timeout.
AnswerAtOnce(d) ==
  /\ \E q \in Held(d, {"accepted"}) : Finish(d, q)
  /\ UNCHANGED <<files, pc, listening, status, queue, client, late>>

\* Mutant: the client joins the rotation with every request.
Push_always(d) ==
  /\ \E q \in Held(d, {"accepted"}) :
       LET c == Sender[q] IN
       /\ at' = [at EXCEPT ![q] = "queued"]
       /\ byClient' = [byClient EXCEPT ![d][c] = Append(@, q)]
       /\ rotation' = [rotation EXCEPT ![d] = Append(@, c)]
  /\ UNCHANGED <<files, pc, listening, status, pending, overtook, where, client, late>>

\* FairRequestQueue::push.
Push(d) ==
  /\ \E q \in Held(d, {"accepted"}) :
       LET c == Sender[q] IN
       /\ at' = [at EXCEPT ![q] = "queued"]
       /\ byClient' = [byClient EXCEPT ![d][c] = Append(@, q)]
       /\ rotation' = [rotation EXCEPT ![d] = IF byClient[d][c] = <<>> THEN Append(@, c) ELSE @]
  /\ UNCHANGED <<files, pc, listening, status, pending, overtook, where, client, late>>

-----------------------------------------------------------------------------
(* The worker: run_server.                                                 *)

\* Mutant: a daemon goes on although another one holds the lock.
TakeOwnerLock_ignored(d) ==
  /\ At(d, "start") /\ Goto(d, "bind") /\ owner' = IF owner = NoDaemon THEN d ELSE owner
  /\ UNCHANGED <<sock, cooldown, listening, status, pending, queue, conn, client, late>>

TakeOwnerLock(d) ==
  /\ At(d, "start")
  /\ \/ owner = NoDaemon /\ owner' = d /\ Goto(d, "bind")
     \/ Goto(d, "off") /\ UNCHANGED owner
  /\ UNCHANGED <<sock, cooldown, listening, status, pending, queue, conn, client, late>>

\* TransportListener::bind: a dead socket file is replaced, a live one is an error, and
\* binding may fail before or after the dead file is removed.
Bind(d) ==
  /\ At(d, "bind")
  /\ \/ Goto(d, "off") /\ owner' = NoDaemon /\ UNCHANGED <<sock, cooldown, listening, loading>>
     \/ /\ sock \notin listening /\ sock' = NoDaemon
        /\ Goto(d, "off") /\ owner' = NoDaemon /\ UNCHANGED <<cooldown, listening, loading>>
     \/ /\ sock \notin listening /\ sock' = d /\ listening' = listening \cup {d}
        /\ cooldown' = FALSE /\ UNCHANGED owner
        /\ \/ Goto(d, "serve") /\ UNCHANGED loading
           \/ Goto(d, "prewarm") /\ loading' = loading \cup {d}
  /\ UNCHANGED <<model, active, pending, queue, conn, client, late>>

Prewarm(d) ==
  /\ At(d, "prewarm") /\ Goto(d, "serve")
  /\ loading' = loading \ {d} /\ model' \in {model, model \cup {d}}
  /\ UNCHANGED <<files, listening, active, pending, queue, conn, client, late>>

Overtaken(d, c) ==
  {p \in overtook[d] : p[1] # c} \cup {<<e, c>> : e \in {e \in Client \ {c} : byClient[d][e] # <<>>}}

\* Mutant: a client is served until it has nothing left.
PopQueue_front(d) ==
  LET c == Head(rotation[d])
      rest == Tail(byClient[d][c])
  IN
  /\ byClient' = [byClient EXCEPT ![d][c] = rest]
  /\ rotation' = [rotation EXCEPT ![d] = IF rest = <<>> THEN Tail(@) ELSE @]
  /\ overtook' = [overtook EXCEPT ![d] = Overtaken(d, c)]

\* FairRequestQueue::pop_timeout: the first client of the rotation goes to its end
\* while it has more.
PopQueue(d) ==
  LET c == Head(rotation[d])
      rest == Tail(byClient[d][c])
  IN
  /\ byClient' = [byClient EXCEPT ![d][c] = rest]
  /\ rotation' = [rotation EXCEPT ![d] = IF rest = <<>> THEN Tail(@) ELSE Append(Tail(@), c)]
  /\ overtook' = [overtook EXCEPT ![d] = Overtaken(d, c)]

\* A request whose deadline passed in the queue is rejected, and so is one that is not
\* valid.
Pop(d) ==
  LET q == Head(byClient[d][Head(rotation[d])]) IN
  /\ At(d, "serve") /\ rotation[d] # <<>> /\ PopQueue(d)
  /\ \/ Finish(d, q) /\ UNCHANGED <<pc, active, loading>>
     \/ /\ at' = [at EXCEPT ![q] = "working"] /\ SetActive(d, q)
        /\ IF d \in model THEN Goto(d, "handle") /\ UNCHANGED loading
             ELSE Goto(d, "load") /\ loading' = loading \cup {d}
        /\ UNCHANGED <<pending, where>>
  /\ UNCHANGED <<files, listening, model, client, late>>

\* Mutant: the error path leaves the request active.
Load_stillActive(d) ==
  /\ At(d, "load") /\ loading' = loading \ {d} /\ UNCHANGED active
  /\ \/ model' = model \cup {d} /\ Goto(d, "handle") /\ UNCHANGED <<conn, pending>>
     \/ Finish(d, active[d]) /\ Goto(d, "serve") /\ UNCHANGED model
  /\ UNCHANGED <<files, listening, queue, client, late>>

Load(d) ==
  /\ At(d, "load")
  /\ loading' = loading \ {d}
  /\ \/ model' = model \cup {d} /\ Goto(d, "handle") /\ UNCHANGED <<conn, pending, active>>
     \/ Finish(d, active[d]) /\ SetActive(d, NoReq) /\ Goto(d, "serve") /\ UNCHANGED model
  /\ UNCHANGED <<files, listening, queue, client, late>>

\* An inference that fails may drop the model.
Handle(d) ==
  /\ At(d, "handle") /\ Goto(d, "serve") /\ SetActive(d, NoReq)
  /\ Finish(d, active[d]) /\ model' \in {model, model \ {d}}
  /\ UNCHANGED <<files, listening, loading, queue, client, late>>

\* Loading or inference never returns.
Hang(d) ==
  /\ pc[d] \in {"prewarm", "load", "handle"} /\ Goto(d, "hung")
  /\ UNCHANGED <<files, listening, status, pending, queue, conn, client, late>>

\* Mutant: the daemon leaves when its queue is empty.
IdleCheck_queueOnly(d) ==
  /\ At(d, "serve") /\ rotation[d] = <<>>
  /\ model' \in {model, model \ {d}}
  /\ UNCHANGED pc \/ Goto(d, "leave")
  /\ UNCHANGED <<files, listening, loading, active, pending, queue, conn, client, late>>

\* There was nothing to do: the model may have been idle long enough, and so may the
\* daemon.
IdleCheck(d) ==
  /\ At(d, "serve") /\ rotation[d] = <<>>
  /\ model' \in {model, model \ {d}}
  /\ UNCHANGED pc \/ (pending[d] = 0 /\ Goto(d, "leave"))
  /\ UNCHANGED <<files, listening, loading, active, pending, queue, conn, client, late>>

\* Mutant: the model is dropped last, with the process.
DropModel_last(d) ==
  /\ At(d, "leave") /\ Goto(d, "unlink")
  /\ UNCHANGED <<files, listening, status, pending, queue, conn, client, late>>

DropModel(d) ==
  /\ At(d, "leave") /\ Goto(d, "unlink") /\ model' = model \ {d}
  /\ UNCHANGED <<files, listening, loading, active, pending, queue, conn, client, late>>

\* EndpointGuard::drop removes the socket file, whoever bound it.
DropEndpointGuard(d) ==
  /\ At(d, "unlink") /\ Goto(d, "unlock") /\ sock' = NoDaemon
  /\ UNCHANGED <<owner, cooldown, listening, status, pending, queue, conn, client, late>>

DropOwnerLock(d) ==
  /\ At(d, "unlock") /\ Goto(d, "exit") /\ owner' = NoDaemon
  /\ UNCHANGED <<sock, cooldown, listening, status, pending, queue, conn, client, late>>

\* The process ends: the kernel closes its connections and releases its lock.
ProcessEnds(d) ==
  /\ Goto(d, "off") /\ listening' = listening \ {d} /\ model' = model \ {d}
  /\ owner' = IF owner = d THEN NoDaemon ELSE owner
  /\ loading' = loading \ {d} /\ SetActive(d, NoReq) /\ pending' = [pending EXCEPT ![d] = 0]
  /\ byClient' = [byClient EXCEPT ![d] = [c \in Client |-> <<>>]]
  /\ rotation' = [rotation EXCEPT ![d] = <<>>] /\ overtook' = [overtook EXCEPT ![d] = {}]
  /\ at' = [q \in Req |-> IF q \in Held(d, Open) THEN "over" ELSE at[q]]
  /\ where' = [q \in Req |-> IF where[q] = d THEN NoDaemon ELSE where[q]]
  /\ late' = late \ Held(d, Open)
  /\ UNCHANGED <<sock, client>>

Exit(d) == At(d, "exit") /\ ProcessEnds(d) /\ UNCHANGED cooldown

\* Mutant: the watchdog does not look at a model that loads without a request.
Watchdog_activeOnly(d) == active[d] # NoReq /\ ProcessEnds(d) /\ cooldown' = TRUE

\* worker_watchdog_expiry looks at the status only.
Watchdog(d) ==
  /\ d \in loading \/ active[d] # NoReq
  /\ ProcessEnds(d) /\ cooldown' = TRUE

\* The process is killed, or ended by a watchdog after the status it looked at changed.
Kill(d) == ~At(d, "off") /\ ProcessEnds(d) /\ cooldown' \in {cooldown, TRUE}

-----------------------------------------------------------------------------
ClientStep(q) == Connect(q) \/ Refused(q) \/ SpawnOnce(q) \/ Receive(q)

WorkerStep(d) ==
  \/ TakeOwnerLock(d) \/ Bind(d) \/ Prewarm(d) \/ Pop(d) \/ Load(d) \/ Handle(d)
  \/ IdleCheck(d) \/ DropModel(d) \/ DropEndpointGuard(d) \/ DropOwnerLock(d) \/ Exit(d)

ThreadStep(d) == Accept(d) \/ Count(d) \/ AnswerAtOnce(d) \/ Push(d)

Next ==
  \/ \E q \in Req : ClientStep(q)
  \/ \E d \in Daemon : WorkerStep(d) \/ ThreadStep(d) \/ Hang(d) \/ Watchdog(d) \/ Kill(d)
  \/ CooldownEnds

Spec == Init /\ [][Next]_vars

\* Somebody goes on while anybody can: a client, a thread of a daemon, or the watchdog of
\* a worker that hangs.  This asks less than fairness to every thread would.
Progress ==
  \/ \E q \in Req : ClientStep(q)
  \/ \E d \in Daemon : WorkerStep(d) \/ ThreadStep(d) \/ (At(d, "hung") /\ Watchdog(d))

FairSpec == Spec /\ WF_vars(Progress)

-----------------------------------------------------------------------------
(* Properties.                                                             *)

\* At most one daemon has the model in memory or loads it, across starts, idle exits
\* and watchdog exits (the comment in request_via_daemon fears one multi-gigabyte model
\* per client).
OneModel ==
  \A d, e \in Daemon : d # e => ~({d, e} \subseteq model \cup loading)

\* The socket file of a daemon that serves stays its own: neither a leaving daemon nor a
\* starting one takes it away (EndpointGuard::drop, TransportListener::bind).
EndpointKept ==
  \A d \in listening : pc[d] \notin {"unlock", "exit"} => sock = d /\ owner = d

\* pending_requests counts the requests between their acceptance and their answer: no
\* path of read_and_queue or run_server forgets finish_request or calls it twice.
PendingCounts == \A d \in Daemon : pending[d] = Cardinality(Held(d, Counted))

\* A daemon that leaves because it is idle abandons no request it had counted when it
\* decided to (the check of pending_requests in run_server).
IdleExitAbandonsNone ==
  \A d \in Daemon : pc[d] \in Leaving => Held(d, Counted) \subseteq late

\* The rotation has every client with a queued request, and only those, once: no queued
\* request is forgotten (FairRequestQueue).
RotationExact ==
  \A d \in Daemon :
    /\ \A i, j \in DOMAIN rotation[d] : rotation[d][i] = rotation[d][j] => i = j
    /\ \A c \in Client : byClient[d][c] # <<>> <=> \E i \in DOMAIN rotation[d] : rotation[d][i] = c

\* Round robin: the client whose turn it is has not been served while another one that
\* still waits was already waiting.
NoClientTwice ==
  \A d \in Daemon, c \in Client :
    byClient[d][c] # <<>> => <<c, Head(rotation[d])>> \notin overtook[d]

\* The watchdog sees a loading model or an active request only while the worker is busy
\* with it: no path leaves the status behind, so an idle daemon is never ended for a
\* request that is over.
WatchdogSeesWork ==
  \A d \in Daemon :
    d \in loading \/ active[d] # NoReq => pc[d] \in {"prewarm", "load", "handle", "hung"}

\* Every call comes to an end for its client (each request is one call), without relying
\* on the client's deadline: it is answered, or its daemon ends, or no daemon can be
\* reached (request_via_daemon).
CallReturns == <>(\A q \in Req : call[q] = "done")
=============================================================================
