------------------------ MODULE InferenceDaemonProofs ------------------------
(***************************************************************************)
(* For any number of daemons, clients and requests: one model, the socket  *)
(* file stays with the daemon that serves, the watchdog acts only on work  *)
(* in progress, and the queue takes turns (IInv); where each request is,   *)
(* what pending_requests counts, and that an idle exit abandons nothing    *)
(* that was counted (RInv, which rests on IInv).                           *)
(***************************************************************************)
EXTENDS InferenceDaemon, TLAPS, FiniteSetTheorems

\* The types that the argument needs.
Types ==
  /\ owner \in Daemon \cup {NoDaemon} /\ pc \in [Daemon -> Worker]
  /\ listening \subseteq Daemon /\ model \subseteq Daemon /\ loading \subseteq Daemon
  /\ active \in [Daemon -> Req \cup {NoReq}]

QueueTypes ==
  /\ byClient \in [Daemon -> [Client -> Seq(Req)]] /\ rotation \in [Daemon -> Seq(Client)]
  /\ overtook \in [Daemon -> SUBSET (Client \X Client)]

Serving == {"prewarm", "serve", "load", "handle", "hung", "leave", "unlink"}

\* Who holds the owner lock, whose socket file it is, and what a worker may be doing when
\* the model is in memory, loads, or serves a request.
Ownership ==
  \A d \in Daemon :
    /\ pc[d] \in Serving \cup {"bind", "unlock"} => owner = d
    /\ d \in listening <=> pc[d] \in Serving \cup {"unlock", "exit"}
    /\ pc[d] \in Serving => sock = d
    /\ d \in model => pc[d] \in {"serve", "handle", "hung", "leave"}
    /\ d \in loading => pc[d] \in {"prewarm", "load", "hung"}
    /\ active[d] # NoReq => pc[d] \in {"load", "handle", "hung"}

\* A client that was overtaken still waits, and comes before the one that overtook it.
Order ==
  \A d \in Daemon : \A p \in overtook[d] :
    /\ p[1] # p[2] /\ byClient[d][p[1]] # <<>>
    /\ \A i, j \in DOMAIN rotation[d] :
         rotation[d][i] = p[1] /\ rotation[d][j] = p[2] => i < j

IInv == Types /\ QueueTypes /\ Ownership /\ RotationExact /\ Order

-----------------------------------------------------------------------------
\* What push_back leaves: one entry more, at the end.
LEMMA AppendedTo ==
  ASSUME NEW S, NEW s \in Seq(S), NEW x \in S
  PROVE  Append(s, x) \in Seq(S) /\ Append(s, x) # <<>>
<1>1. Len(s) \in Nat /\ Len(Append(s, x)) = Len(s) + 1
  OBVIOUS
<1>2. Append(s, x) # <<>>
  BY <1>1
<1> QED
  BY <1>2

\* The client whose turn it is has a request (pop_timeout finds both).
LEMMA FirstQueued ==
  ASSUME QueueTypes, RotationExact, NEW d \in Daemon, rotation[d] # <<>>,
         NEW c, c = Head(rotation[d])
  PROVE  /\ c \in Client /\ 1 \in DOMAIN rotation[d] /\ rotation[d][1] = c
         /\ byClient[d][c] # <<>> /\ Head(byClient[d][c]) \in Req
<1>1. c \in Client /\ 1 \in DOMAIN rotation[d] /\ rotation[d][1] = c
  BY DEF QueueTypes
<1>2. byClient[d][c] # <<>>
  BY <1>1, Zenon DEF RotationExact
<1> QED
  BY <1>1, <1>2 DEF QueueTypes

\* A step changes the queue of one daemon by a push or a pop, or empties it, or leaves it.
LEMMA QueueSteps ==
  ASSUME IInv, [Next]_vars
  PROVE  \/ UNCHANGED queue
         \/ \E d \in Daemon, q \in Req :
              /\ byClient' = [byClient EXCEPT ![d][Sender[q]] = Append(byClient[d][Sender[q]], q)]
              /\ rotation' = [rotation EXCEPT ![d] =
                   IF byClient[d][Sender[q]] = <<>> THEN Append(rotation[d], Sender[q]) ELSE rotation[d]]
              /\ UNCHANGED overtook
         \/ \E d \in Daemon : rotation[d] # <<>> /\ PopQueue(d)
         \/ \E d \in Daemon :
              /\ byClient' = [byClient EXCEPT ![d] = [c \in Client |-> <<>>]]
              /\ rotation' = [rotation EXCEPT ![d] = <<>>]
              /\ overtook' = [overtook EXCEPT ![d] = {}]
<1> DEFINE Goal == \/ UNCHANGED queue
                   \/ \E d \in Daemon, q \in Req :
                        /\ byClient' = [byClient EXCEPT ![d][Sender[q]] = Append(byClient[d][Sender[q]], q)]
                        /\ rotation' = [rotation EXCEPT ![d] =
                             IF byClient[d][Sender[q]] = <<>> THEN Append(rotation[d], Sender[q])
                             ELSE rotation[d]]
                        /\ UNCHANGED overtook
                   \/ \E d \in Daemon : rotation[d] # <<>> /\ PopQueue(d)
                   \/ \E d \in Daemon :
                        /\ byClient' = [byClient EXCEPT ![d] = [c \in Client |-> <<>>]]
                        /\ rotation' = [rotation EXCEPT ![d] = <<>>]
                        /\ overtook' = [overtook EXCEPT ![d] = {}]
<1>1. ASSUME NEW q \in Req, ClientStep(q) PROVE Goal
  BY <1>1, Zenon DEF ClientStep, Connect, Refused, SpawnOnce, Receive
<1>2. ASSUME NEW d \in Daemon, Accept(d) \/ Count(d) \/ AnswerAtOnce(d) \/ Hang(d) PROVE Goal
  BY <1>2 DEF Accept, Count, AnswerAtOnce, Hang
<1>3. ASSUME NEW d \in Daemon, Push(d) PROVE Goal
  <2>1. PICK q \in Req :
          /\ byClient' = [byClient EXCEPT ![d][Sender[q]] = Append(byClient[d][Sender[q]], q)]
          /\ rotation' = [rotation EXCEPT ![d] =
               IF byClient[d][Sender[q]] = <<>> THEN Append(rotation[d], Sender[q]) ELSE rotation[d]]
    BY <1>3, Zenon DEF Push, Held
  <2>2. UNCHANGED overtook
    BY <1>3 DEF Push
  <2> QED
    BY <2>1, <2>2, Zenon
<1>4. ASSUME NEW d \in Daemon, Pop(d) PROVE Goal
  <2>1. rotation[d] # <<>> /\ PopQueue(d)
    BY <1>4, Zenon DEF Pop
  <2> QED
    BY <2>1
<1>5. ASSUME NEW d \in Daemon, Exit(d) \/ Watchdog(d) \/ Kill(d) PROVE Goal
  BY <1>5 DEF Exit, Watchdog, Kill, ProcessEnds
<1>6. ASSUME NEW d \in Daemon,
             TakeOwnerLock(d) \/ Bind(d) \/ Prewarm(d) \/ Load(d) \/ Handle(d) \/ IdleCheck(d)
             \/ DropModel(d) \/ DropEndpointGuard(d) \/ DropOwnerLock(d)
      PROVE  Goal
  BY <1>6, Zenon DEF TakeOwnerLock, Bind, Prewarm, Load, Handle, IdleCheck, DropModel,
     DropEndpointGuard, DropOwnerLock
<1>7. ASSUME CooldownEnds \/ UNCHANGED vars PROVE Goal
  BY <1>7 DEF CooldownEnds, vars
<1> HIDE DEF Goal
<1>8. Goal
  BY <1>1, <1>2, <1>3, <1>4, <1>5, <1>6, <1>7 DEF Next, WorkerStep, ThreadStep
<1> QED
  BY <1>8, Zenon DEF Goal

\* A push appends a client that had nothing queued to the rotation (push's is_new).
LEMMA PushKeeps ==
  ASSUME IInv, NEW d \in Daemon, NEW q \in Req,
         byClient' = [byClient EXCEPT ![d][Sender[q]] = Append(byClient[d][Sender[q]], q)],
         rotation' = [rotation EXCEPT ![d] =
           IF byClient[d][Sender[q]] = <<>> THEN Append(rotation[d], Sender[q]) ELSE rotation[d]],
         UNCHANGED overtook
  PROVE  QueueTypes' /\ RotationExact' /\ Order'
<1> DEFINE c == Sender[q]
           r == rotation[d]
<1>0. QueueTypes /\ RotationExact /\ Order /\ c \in Client
  BY DaemonAssumption DEF IInv
<1>1. r \in Seq(Client) /\ byClient[d][c] \in Seq(Req) /\ Len(r) \in Nat /\ DOMAIN r = 1..Len(r)
  BY <1>0 DEF QueueTypes
<1>2. /\ \A e \in Daemon, f \in Client :
           byClient'[e][f] = IF e = d /\ f = c THEN Append(byClient[d][c], q) ELSE byClient[e][f]
      /\ \A e \in Daemon : e # d => rotation'[e] = rotation[e]
  <2>1. ASSUME NEW e \in Daemon, NEW f \in Client
        PROVE  byClient'[e][f] = IF e = d /\ f = c THEN Append(byClient[d][c], q) ELSE byClient[e][f]
    BY <1>0 DEF QueueTypes
  <2>2. \A e \in Daemon : e # d => rotation'[e] = rotation[e]
    BY <1>0 DEF QueueTypes
  <2> QED
    BY <2>1, <2>2
<1>3. Append(byClient[d][c], q) \in Seq(Req) /\ Append(byClient[d][c], q) # <<>>
  BY <1>1, AppendedTo, Zenon
<1>4. rotation'[d] = IF byClient[d][c] = <<>> THEN Append(r, c) ELSE r
  BY <1>0 DEF QueueTypes
<1>5. QueueTypes'
  <2>1. byClient' \in [Daemon -> [Client -> Seq(Req)]]
    BY <1>0, <1>3 DEF QueueTypes
  <2>2. rotation' \in [Daemon -> Seq(Client)]
    BY <1>0, <1>1 DEF QueueTypes
  <2> QED
    BY <1>0, <2>1, <2>2 DEF QueueTypes
<1>6. \A e \in Daemon, f \in Client :
        ~(e = d /\ f = c) => (byClient'[e][f] # <<>> <=> byClient[e][f] # <<>>)
  BY <1>2
<1>7. CASE byClient[d][c] # <<>>
  <2>1. rotation' = rotation
    BY SMTT(30), <1>0, <1>7 DEF QueueTypes
  <2>2. \A e \in Daemon, f \in Client : byClient'[e][f] # <<>> <=> byClient[e][f] # <<>>
    BY SMTT(30), <1>2, <1>3, <1>7
  <2>3. RotationExact'
    BY <1>0, <2>1, <2>2 DEF RotationExact
  <2>4. \A e \in Daemon : \A p \in overtook[e] : p[1] \in Client
    BY SMTT(30), <1>0 DEF QueueTypes
  <2>5. Order'
    BY <1>0, <2>1, <2>2, <2>4 DEF Order
  <2> QED
    BY <1>5, <2>3, <2>5
<1>8. CASE byClient[d][c] = <<>>
  <2>1. /\ rotation'[d] = Append(r, c) /\ DOMAIN rotation'[d] = 1..Len(r) + 1
        /\ rotation'[d][Len(r) + 1] = c /\ \A i \in 1..Len(r) : rotation'[d][i] = r[i]
    BY <1>1, <1>4, <1>8
  <2>2. \A i \in 1..Len(r) : r[i] # c
    BY SMTT(30), <1>0, <1>1, <1>8 DEF RotationExact
  <2>3. byClient'[d][c] # <<>>
    <3>1. byClient'[d][c] = Append(byClient[d][c], q)
      BY <1>0, Zenon DEF QueueTypes
    <3> QED
      BY <1>3, <3>1
  <2>4. \A i, j \in DOMAIN rotation'[d] : rotation'[d][i] = rotation'[d][j] => i = j
    <3>1. \A i, j \in 1..Len(r) : r[i] = r[j] => i = j
      BY <1>0, <1>1 DEF RotationExact
    <3> QED
      BY <1>1, <2>1, <2>2, <3>1
  <2>5. \A f \in Client : byClient'[d][f] # <<>> <=> \E i \in DOMAIN rotation'[d] : rotation'[d][i] = f
    <3>1. ASSUME NEW f \in Client \ {c}
          PROVE  byClient'[d][f] # <<>> <=> \E i \in DOMAIN rotation'[d] : rotation'[d][i] = f
      <4>1. byClient[d][f] # <<>> <=> \E i \in 1..Len(r) : r[i] = f
        BY <1>0, <1>1, Zenon DEF RotationExact
      <4> QED
        BY <1>1, <1>6, <2>1, <4>1
    <3>2. \E i \in DOMAIN rotation'[d] : rotation'[d][i] = c
      BY SMTT(30), <1>1, <2>1
    <3> QED
      BY <2>3, <3>1, <3>2, Zenon
  <2>6. RotationExact'
    BY <1>0, <1>2, <1>6, <2>4, <2>5 DEF RotationExact
  <2>7. ASSUME NEW e \in Daemon, NEW p \in overtook[e]
        PROVE  /\ p[1] # p[2] /\ byClient'[e][p[1]] # <<>>
               /\ \A i, j \in DOMAIN rotation'[e] :
                    rotation'[e][i] = p[1] /\ rotation'[e][j] = p[2] => i < j
    <3>1. p[1] \in Client /\ p[2] \in Client /\ p[1] # p[2] /\ byClient[e][p[1]] # <<>>
      BY <1>0 DEF QueueTypes, Order
    <3>2. ~(e = d /\ p[1] = c) /\ byClient'[e][p[1]] # <<>>
      BY SMTT(30), <1>6, <1>8, <3>1
    <3>3. CASE e = d
      <4>1. \A i, j \in 1..Len(r) : r[i] = p[1] /\ r[j] = p[2] => i < j
        BY <1>0, <1>1, <3>3 DEF Order
      <4> QED
        BY <1>1, <2>1, <3>1, <3>2, <3>3, <4>1
    <3>4. CASE e # d
      BY <1>0, <1>2, <3>1, <3>2, <3>4 DEF Order
    <3> QED
      BY <3>3, <3>4, Zenon
  <2> QED
    BY <1>5, <2>6, <2>7, Zenon DEF Order
<1> QED
  BY <1>7, <1>8

\* A pop takes the first client from the rotation, and puts it at the end while it has
\* more.
LEMMA PopKeeps ==
  ASSUME IInv, NEW d \in Daemon, rotation[d] # <<>>, PopQueue(d)
  PROVE  QueueTypes' /\ RotationExact' /\ Order'
<1> DEFINE r == rotation[d]
           c == Head(r)
           rest == Tail(byClient[d][c])
           n == Len(r)
<1>0. QueueTypes /\ RotationExact /\ Order
  BY DEF IInv
<1>1. /\ c \in Client /\ 1 \in DOMAIN r /\ r[1] = c /\ byClient[d][c] # <<>>
      /\ r \in Seq(Client) /\ n \in Nat /\ n > 0 /\ DOMAIN r = 1..n /\ byClient[d][c] \in Seq(Req)
  BY <1>0, FirstQueued DEF QueueTypes
<1>2. /\ rest \in Seq(Req) /\ Tail(r) \in Seq(Client) /\ Len(Tail(r)) = n - 1
      /\ \A i \in 1..n - 1 : Tail(r)[i] = r[i + 1]
  BY <1>1
<1>3. /\ byClient' = [byClient EXCEPT ![d][c] = rest]
      /\ rotation' = [rotation EXCEPT ![d] = IF rest = <<>> THEN Tail(r) ELSE Append(Tail(r), c)]
      /\ overtook' = [overtook EXCEPT ![d] = Overtaken(d, c)]
  BY DEF PopQueue
<1> HIDE DEF c, rest, n
<1>4. ASSUME NEW e \in Daemon, NEW f \in Client
      PROVE  byClient'[e][f] = IF e = d /\ f = c THEN rest ELSE byClient[e][f]
  BY <1>0, <1>1, <1>3 DEF QueueTypes
<1>5. /\ \A e \in Daemon : e # d => rotation'[e] = rotation[e] /\ overtook'[e] = overtook[e]
      /\ rotation'[d] = IF rest = <<>> THEN Tail(r) ELSE Append(Tail(r), c)
      /\ overtook'[d] = Overtaken(d, c)
  BY <1>0, <1>3 DEF QueueTypes
<1>6. overtook[d] \subseteq Client \X Client
  BY <1>0 DEF QueueTypes
<1>7. ASSUME NEW p \in Overtaken(d, c)
      PROVE  /\ p \in Client \X Client /\ p[1] # c
             /\ p \in overtook[d] \/ (p[2] = c /\ byClient[d][p[1]] # <<>>)
  BY <1>1, <1>6, <1>7 DEF Overtaken
<1>8. QueueTypes'
  <2>1. byClient' \in [Daemon -> [Client -> Seq(Req)]]
    BY <1>0, <1>2, <1>3, Zenon DEF QueueTypes
  <2>2. Append(Tail(r), c) \in Seq(Client)
    BY <1>1, <1>2
  <2>3. rotation' \in [Daemon -> Seq(Client)]
    BY <1>0, <1>2, <1>3, <2>2 DEF QueueTypes
  <2>4. overtook' \in [Daemon -> SUBSET (Client \X Client)]
    BY <1>0, <1>3, <1>7 DEF QueueTypes
  <2> QED
    BY <2>1, <2>3, <2>4 DEF QueueTypes
<1>9. /\ \A i, j \in 1..n : r[i] = r[j] => i = j
      /\ \A f \in Client : byClient[d][f] # <<>> <=> \E i \in 1..n : r[i] = f
  BY <1>0, <1>1 DEF RotationExact
<1>10. \A i \in 1..n - 1 : r[i + 1] # c
  BY <1>1, <1>9
<1>11. \A f \in Client \ {c} : byClient[d][f] # <<>> <=> \E i \in 1..n - 1 : r[i + 1] = f
  <2>1. ASSUME NEW f \in Client \ {c}, byClient[d][f] # <<>> PROVE \E i \in 1..n - 1 : r[i + 1] = f
    <3>1. PICK i \in 1..n : r[i] = f
      BY <1>9, <2>1
    <3>2. i # 1 /\ i - 1 \in 1..n - 1 /\ (i - 1) + 1 = i
      BY <1>1, <2>1, <3>1
    <3> QED
      BY <3>1, <3>2
  <2>2. ASSUME NEW f \in Client \ {c}, NEW i \in 1..n - 1, r[i + 1] = f PROVE byClient[d][f] # <<>>
    BY <1>1, <1>9, <2>2
  <2> QED
    BY <2>1, <2>2
\* The rotation afterwards, by position.
<1>12. ASSUME NEW i \in DOMAIN rotation'[d]
       PROVE  \/ i \in 1..n - 1 /\ rotation'[d][i] = r[i + 1]
              \/ i = n /\ rest # <<>> /\ rotation'[d][i] = c
  <2>1. CASE rest = <<>>
    BY <1>1, <1>2, <1>5, <1>12, <2>1
  <2>2. CASE rest # <<>>
    BY <1>1, <1>2, <1>5, <1>12, <2>2
  <2> QED
    BY <2>1, <2>2
<1>13. /\ \A i \in 1..n - 1 : i \in DOMAIN rotation'[d] /\ rotation'[d][i] = r[i + 1]
       /\ rest # <<>> => n \in DOMAIN rotation'[d] /\ rotation'[d][n] = c
  BY <1>1, <1>2, <1>5
<1>14. RotationExact'
  <2>1. \A i, j \in DOMAIN rotation'[d] : rotation'[d][i] = rotation'[d][j] => i = j
    BY <1>1, <1>9, <1>10, <1>12
  <2>2. ASSUME NEW f \in Client
        PROVE  byClient'[d][f] # <<>> <=> \E i \in DOMAIN rotation'[d] : rotation'[d][i] = f
    <3>1. CASE f = c
      BY <1>1, <1>4, <1>10, <1>12, <1>13, <3>1
    <3>2. CASE f # c
      <4>1. byClient'[d][f] = byClient[d][f]
        BY <1>4, <3>2
      <4>2. ASSUME NEW i \in DOMAIN rotation'[d], rotation'[d][i] = f
            PROVE  byClient[d][f] # <<>>
        <5>1. i \in 1..n - 1 /\ r[i + 1] = f
          BY <1>12, <3>2, <4>2
        <5> QED
          BY <1>11, <3>2, <5>1
      <4>3. ASSUME byClient[d][f] # <<>>
            PROVE  \E i \in DOMAIN rotation'[d] : rotation'[d][i] = f
        <5>1. PICK i \in 1..n - 1 : r[i + 1] = f
          BY <1>11, <3>2, <4>3
        <5> QED
          BY <1>13, <5>1
      <4> QED
        BY <4>1, <4>2, <4>3
    <3> QED
      BY <3>1, <3>2
  <2>3. ASSUME NEW e \in Daemon, e # d
        PROVE  /\ rotation'[e] = rotation[e] /\ \A f \in Client : byClient'[e][f] = byClient[e][f]
    BY <1>4, <1>5, <2>3
  <2> QED
    BY <1>0, <2>1, <2>2, <2>3 DEF RotationExact
<1>15. ASSUME NEW e \in Daemon, NEW p \in overtook'[e]
       PROVE  /\ p[1] # p[2] /\ byClient'[e][p[1]] # <<>>
              /\ \A i, j \in DOMAIN rotation'[e] :
                   rotation'[e][i] = p[1] /\ rotation'[e][j] = p[2] => i < j
  <2>1. CASE e # d
    <3>1. p \in overtook[e] /\ p[1] \in Client
      BY <1>0, <1>5, <1>15, <2>1 DEF QueueTypes
    <3> QED
      BY <1>0, <1>4, <1>5, <2>1, <3>1 DEF Order
  <2>2. CASE e = d
    <3>1. /\ p \in Client \X Client /\ p[1] # c
          /\ p \in overtook[d] \/ (p[2] = c /\ byClient[d][p[1]] # <<>>)
      BY <1>5, <1>7, <1>15, <2>2
    <3>2. p[1] # p[2] /\ byClient[d][p[1]] # <<>> /\ p[1] \in Client
      BY <1>0, <3>1 DEF Order
    <3>3. byClient'[d][p[1]] # <<>>
      BY <1>4, <3>1, <3>2
    <3>4. ASSUME NEW i \in DOMAIN rotation'[d], NEW j \in DOMAIN rotation'[d],
                 rotation'[d][i] = p[1], rotation'[d][j] = p[2]
          PROVE  i < j
      <4>1. i \in 1..n - 1 /\ r[i + 1] = p[1]
        BY <1>12, <3>1, <3>4
      <4>2. CASE j = n
        BY <1>1, <4>1, <4>2
      <4>3. CASE j # n
        <5>1. j \in 1..n - 1 /\ r[j + 1] = p[2] /\ p[2] # c
          BY <1>10, <1>12, <3>4, <4>3
        <5>2. i + 1 \in DOMAIN r /\ j + 1 \in DOMAIN r
          BY <1>1, <4>1, <5>1
        <5>3. i + 1 < j + 1
          BY <1>0, <3>1, <4>1, <5>1, <5>2 DEF Order
        <5> QED
          BY <1>1, <4>1, <5>1, <5>3
      <4> QED
        BY <4>2, <4>3
    <3> QED
      BY <2>2, <3>2, <3>3, <3>4
  <2> QED
    BY <2>1, <2>2, Zenon
<1> QED
  BY <1>8, <1>14, <1>15 DEF Order

\* The owner lock and the socket file stay with the daemon that serves.
LEMMA OwnershipNext ==
  ASSUME IInv, [Next]_vars
  PROVE  Ownership'
<1> USE DaemonAssumption DEF Serving, Goto, At, SetActive
<1>0. Types /\ Ownership
  BY DEF IInv
<1>1. ASSUME UNCHANGED <<sock, owner, pc, listening, status>> PROVE Ownership'
  BY <1>0, <1>1 DEF Ownership, status
<1>2. ASSUME NEW q \in Req, Connect(q) \/ Refused(q) \/ Receive(q) PROVE Ownership'
  BY <1>1, <1>2, Zenon DEF Connect, Refused, Receive, files
<1>3. ASSUME NEW q \in Req, SpawnOnce(q) PROVE Ownership'
  <2>1. pc' = pc \/ \E d \in Daemon : pc[d] = "off" /\ pc' = [pc EXCEPT ![d] = "start"]
    BY <1>3 DEF SpawnOnce
  <2> QED
    BY <1>0, <1>3, <2>1 DEF Types, Ownership, SpawnOnce, files, status
<1>4. ASSUME NEW d \in Daemon, ThreadStep(d) PROVE Ownership'
  BY <1>1, <1>4, Zenon DEF ThreadStep, Accept, Count, AnswerAtOnce, Push, files
<1>5. ASSUME CooldownEnds \/ UNCHANGED vars PROVE Ownership'
  BY <1>1, <1>5 DEF CooldownEnds, vars, files
<1>6. ASSUME NEW d \in Daemon, TakeOwnerLock(d) PROVE Ownership'
  BY <1>0, <1>6 DEF Types, Ownership, TakeOwnerLock, status
<1>7. ASSUME NEW d \in Daemon, Bind(d) PROVE Ownership'
  <2>0. pc[d] = "bind" /\ UNCHANGED <<model, active>>
    BY <1>7 DEF Bind
  <2>1. CASE /\ Goto(d, "off") /\ owner' = NoDaemon /\ sock' \in {sock, NoDaemon}
             /\ UNCHANGED <<listening, loading>>
    BY <1>0, <2>0, <2>1 DEF Types, Ownership
  <2>2. CASE /\ sock' = d /\ listening' = listening \cup {d} /\ UNCHANGED owner
             /\ \/ Goto(d, "serve") /\ UNCHANGED loading
                \/ Goto(d, "prewarm") /\ loading' = loading \cup {d}
    BY <1>0, <2>0, <2>2 DEF Types, Ownership
  <2> QED
    BY <1>7, <2>1, <2>2 DEF Bind
<1>8. ASSUME NEW d \in Daemon, Prewarm(d) PROVE Ownership'
  BY SMTT(30), <1>0, <1>8 DEF Types, Ownership, Prewarm, files
<1>9. ASSUME NEW d \in Daemon, Pop(d) PROVE Ownership'
  BY <1>0, <1>9 DEF Types, Ownership, Pop, files
<1>10. ASSUME NEW d \in Daemon, Load(d) PROVE Ownership'
  BY <1>0, <1>10 DEF Types, Ownership, Load, files
<1>11. ASSUME NEW d \in Daemon, Handle(d) PROVE Ownership'
  BY <1>0, <1>11 DEF Types, Ownership, Handle, files
<1>12. ASSUME NEW d \in Daemon, Hang(d) PROVE Ownership'
  BY <1>0, <1>12, Zenon DEF Types, Ownership, Hang, files, status
<1>13. ASSUME NEW d \in Daemon, IdleCheck(d) PROVE Ownership'
  BY <1>0, <1>13 DEF Types, Ownership, IdleCheck, files
<1>14. ASSUME NEW d \in Daemon, DropModel(d) PROVE Ownership'
  BY <1>0, <1>14 DEF Types, Ownership, DropModel, files
<1>15. ASSUME NEW d \in Daemon, DropEndpointGuard(d) PROVE Ownership'
  BY <1>0, <1>15 DEF Types, Ownership, DropEndpointGuard, status
<1>16. ASSUME NEW d \in Daemon, DropOwnerLock(d) PROVE Ownership'
  BY <1>0, <1>16, Zenon DEF Types, Ownership, DropOwnerLock, status
<1>17. ASSUME NEW d \in Daemon, Exit(d) \/ Watchdog(d) \/ Kill(d) PROVE Ownership'
  <2>1. ProcessEnds(d)
    BY <1>17, Zenon DEF Exit, Watchdog, Kill
  <2> QED
    BY <1>0, <2>1 DEF Types, Ownership, ProcessEnds
<1> QED
  BY <1>2, <1>3, <1>4, <1>5, <1>6, <1>7, <1>8, <1>9, <1>10, <1>11, <1>12, <1>13, <1>14, <1>15,
     <1>16, <1>17
  DEF Next, ClientStep, WorkerStep

\* Every step keeps the types.
LEMMA TypesNext ==
  ASSUME IInv, [Next]_vars
  PROVE  Types'
<1> USE DEF Worker, Leaving, Goto, At, SetActive
<1>0. Types
  BY DEF IInv
<1>1. ASSUME UNCHANGED <<owner, pc, listening, status>> PROVE Types'
  BY <1>0, <1>1 DEF Types, status
<1>2. ASSUME NEW q \in Req, Connect(q) \/ Refused(q) \/ Receive(q) PROVE Types'
  BY <1>1, <1>2, Zenon DEF Connect, Refused, Receive, files
<1>3. ASSUME NEW q \in Req, SpawnOnce(q) PROVE Types'
  <2>1. pc' = pc \/ \E d \in Daemon : pc' = [pc EXCEPT ![d] = "start"]
    BY SMTT(30), <1>3 DEF SpawnOnce
  <2> QED
    BY <1>0, <1>3, <2>1 DEF Types, SpawnOnce, files, status
<1>4. ASSUME NEW d \in Daemon, ThreadStep(d) PROVE Types'
  BY <1>1, <1>4 DEF ThreadStep, Accept, Count, AnswerAtOnce, Push, files
<1>5. ASSUME CooldownEnds \/ UNCHANGED vars PROVE Types'
  BY <1>1, <1>5 DEF CooldownEnds, vars, files
<1>6. ASSUME NEW d \in Daemon, TakeOwnerLock(d) \/ DropEndpointGuard(d) \/ DropOwnerLock(d) PROVE Types'
  BY <1>0, <1>6 DEF Types, TakeOwnerLock, DropEndpointGuard, DropOwnerLock, status
<1>7. ASSUME NEW d \in Daemon, Bind(d) PROVE Types'
  <2>1. owner' \in {owner, NoDaemon} /\ \E l \in {"off", "serve", "prewarm"} : pc' = [pc EXCEPT ![d] = l]
    BY <1>7 DEF Bind
  <2>2. /\ UNCHANGED <<model, active>> /\ listening' \in {listening, listening \cup {d}}
        /\ loading' \in {loading, loading \cup {d}}
    BY <1>7, Zenon DEF Bind
  <2> QED
    BY <1>0, <2>1, <2>2 DEF Types
<1>8. ASSUME NEW d \in Daemon, Prewarm(d) \/ Hang(d) \/ IdleCheck(d) \/ DropModel(d) PROVE Types'
  BY <1>0, <1>8, ZenonT(30) DEF Types, Prewarm, Hang, IdleCheck, DropModel, files, status
<1>9. ASSUME NEW d \in Daemon, Pop(d) PROVE Types'
  <2>1. Head(byClient[d][Head(rotation[d])]) \in Req
    BY <1>9, FirstQueued DEF IInv, Pop
  <2> QED
    BY SMTT(30), <1>0, <1>9, <2>1 DEF Types, Pop, files
<1>10. ASSUME NEW d \in Daemon, Load(d) \/ Handle(d) PROVE Types'
  BY <1>0, <1>10, Zenon DEF Types, Load, Handle, files
<1>11. ASSUME NEW d \in Daemon, Exit(d) \/ Watchdog(d) \/ Kill(d) PROVE Types'
  <2>1. ProcessEnds(d)
    BY <1>11, Zenon DEF Exit, Watchdog, Kill
  <2> QED
    BY <1>0, <2>1 DEF Types, ProcessEnds
<1> QED
  BY <1>2, <1>3, <1>4, <1>5, <1>6, <1>7, <1>8, <1>9, <1>10, <1>11, Zenon DEF Next, ClientStep, WorkerStep

\* Every step keeps the queue in order.
LEMMA QueueNext ==
  ASSUME IInv, [Next]_vars
  PROVE  QueueTypes' /\ RotationExact' /\ Order'
<1>0. QueueTypes /\ RotationExact /\ Order
  BY DEF IInv
<1>1. ASSUME UNCHANGED queue PROVE QueueTypes' /\ RotationExact' /\ Order'
  BY <1>0, <1>1 DEF QueueTypes, RotationExact, Order, queue
<1>2. ASSUME NEW d \in Daemon,
             byClient' = [byClient EXCEPT ![d] = [c \in Client |-> <<>>]],
             rotation' = [rotation EXCEPT ![d] = <<>>], overtook' = [overtook EXCEPT ![d] = {}]
      PROVE  QueueTypes' /\ RotationExact' /\ Order'
  <2>1. QueueTypes'
    BY <1>0, <1>2 DEF QueueTypes
  <2>2. /\ \A e \in Daemon : e # d => /\ byClient'[e] = byClient[e] /\ rotation'[e] = rotation[e]
                                      /\ overtook'[e] = overtook[e]
        /\ rotation'[d] = <<>> /\ overtook'[d] = {} /\ \A c \in Client : byClient'[d][c] = <<>>
    BY <1>0, <1>2 DEF QueueTypes
  <2>3. RotationExact'
    BY <1>0, <2>2 DEF RotationExact
  <2>4. Order'
    BY <1>0, <2>2 DEF Order
  <2> QED
    BY <2>1, <2>3, <2>4
<1> QED
  BY <1>1, <1>2, QueueSteps, PushKeeps, PopKeeps, Zenon

\* The inductive invariant holds in every reachable state.
THEOREM InductiveInvariant == Spec => []IInv
<1>1. Init => IInv
  <2> SUFFICES ASSUME Init PROVE IInv
    OBVIOUS
  <2>1. Types /\ QueueTypes
    BY DEF Init, Types, QueueTypes, Worker
  <2>2. Ownership
    BY DaemonAssumption DEF Init, Ownership, Serving
  <2>3. RotationExact /\ Order
    BY DEF Init, RotationExact, Order
  <2> QED
    BY <2>1, <2>2, <2>3 DEF IInv
<1>2. IInv /\ [Next]_vars => IInv'
  BY TypesNext, QueueNext, OwnershipNext DEF IInv
<1> QED
  BY <1>1, <1>2, PTL DEF Spec

\* At most one daemon has the model in memory or loads it, whatever clients start at the
\* same time and whichever daemon leaves, hangs or dies (run_server's owner lock).
THEOREM OneModelHolds == Spec => []OneModel
<1>1. IInv => OneModel
  BY DEF IInv, Ownership, OneModel, Serving
<1> QED
  BY <1>1, InductiveInvariant, PTL

\* The socket file of a daemon that serves stays its own (EndpointGuard::drop runs under
\* the owner lock).
THEOREM EndpointKeptHolds == Spec => []EndpointKept
<1>1. IInv => EndpointKept
  BY DEF IInv, Types, Ownership, EndpointKept, Serving
<1> QED
  BY <1>1, InductiveInvariant, PTL

\* The watchdog sees a loading model or an active request only while the worker is busy
\* with it (set_state, set_active and complete on every path of run_server).
THEOREM WatchdogSeesWorkHolds == Spec => []WatchdogSeesWork
<1>1. IInv => WatchdogSeesWork
  BY DEF IInv, Ownership, WatchdogSeesWork
<1> QED
  BY <1>1, InductiveInvariant, PTL

\* No queued request is forgotten, for any number of clients (FairRequestQueue).
THEOREM RotationExactHolds == Spec => []RotationExact
<1>1. IInv => RotationExact
  BY Zenon DEF IInv
<1> QED
  BY <1>1, InductiveInvariant, PTL

\* Round robin, for any number of clients: nobody is served twice while another client
\* waits (pop_timeout).
THEOREM NoClientTwiceHolds == Spec => []NoClientTwice
<1>1. ASSUME IInv, NEW d \in Daemon, NEW c \in Client, byClient[d][c] # <<>>,
             <<c, Head(rotation[d])>> \in overtook[d]
      PROVE  FALSE
  <2>1. PICK i \in DOMAIN rotation[d] : rotation[d][i] = c
    BY <1>1 DEF IInv, RotationExact
  <2>2. rotation[d] \in Seq(Client)
    BY <1>1 DEF IInv, QueueTypes
  <2>3. i \in Nat /\ i > 0 /\ 1 \in DOMAIN rotation[d] /\ rotation[d][1] = Head(rotation[d])
    BY <2>1, <2>2
  <2>4. i < 1
    BY <1>1, <2>1, <2>3 DEF IInv, Order
  <2> QED
    BY <2>3, <2>4
<1>2. IInv => NoClientTwice
  BY <1>1 DEF NoClientTwice
<1> QED
  BY <1>2, InductiveInvariant, PTL

-----------------------------------------------------------------------------
(* Requests.                                                               *)

\* The other types.
RequestTypes ==
  /\ sock \in Daemon \cup {NoDaemon} /\ cooldown \in BOOLEAN
  /\ at \in [Req -> Open \cup {"none", "over"}] /\ where \in [Req -> Daemon \cup {NoDaemon}]
  /\ call \in [Req -> {"connect", "spawn", "retry", "wait", "done"}]
  /\ tries \in [Req -> 0..Retries] /\ attempted \subseteq Req /\ late \subseteq Req

\* A connection is open while it is at a daemon, and none was made before the client
\* waits for an answer.
Calls ==
  \A q \in Req :
    /\ at[q] \in Open <=> where[q] # NoDaemon
    /\ call[q] \in {"connect", "spawn", "retry"} => at[q] = "none"
    /\ call[q] = "retry" => tries[q] > 0

\* The active request is the one the worker works on.
Working ==
  \A d \in Daemon :
    /\ active[d] # NoReq => at[active[d]] = "working" /\ where[active[d]] = d
    /\ pc[d] \in {"load", "handle"} => active[d] # NoReq

\* A queue holds requests of its client that are queued at its daemon, each once.
Queued ==
  \A d \in Daemon, c \in Client : \A i \in DOMAIN byClient[d][c] :
    /\ at[byClient[d][c][i]] = "queued" /\ where[byClient[d][c][i]] = d
    /\ Sender[byClient[d][c][i]] = c
    /\ \A j \in DOMAIN byClient[d][c] : byClient[d][c][i] = byClient[d][c][j] => i = j

Counting == pending \in [Daemon -> Nat] /\ PendingCounts

RInv == RequestTypes /\ Calls /\ Working /\ Queued /\ Counting /\ IdleExitAbandonsNone

\* What a pop takes is a queued request of the daemon, and it is not in any queue afterwards.
LEMMA Popped ==
  ASSUME IInv, Queued, NEW d \in Daemon, rotation[d] # <<>>, PopQueue(d),
         NEW q, q = Head(byClient[d][Head(rotation[d])])
  PROVE  /\ q \in Req /\ at[q] = "queued" /\ where[q] = d
         /\ \A e \in Daemon, c \in Client :
              \E k \in Nat : \A j \in DOMAIN byClient'[e][c] :
                /\ j + k \in DOMAIN byClient[e][c]
                /\ byClient'[e][c][j] = byClient[e][c][j + k] /\ byClient'[e][c][j] # q
<1> DEFINE f == Head(rotation[d])
           s == byClient[d][f]
<1>1. /\ QueueTypes /\ f \in Client /\ s # <<>> /\ q \in Req
      /\ byClient' = [byClient EXCEPT ![d][f] = Tail(s)]
  BY FirstQueued, Zenon DEF IInv, PopQueue
<1>2. s \in Seq(Req)
  BY <1>1, ZenonT(30) DEF QueueTypes
<1>3. /\ Len(s) \in Nat /\ Len(s) > 0 /\ DOMAIN s = 1..Len(s) /\ s[1] = q
      /\ DOMAIN Tail(s) = 1..Len(s) - 1 /\ \A i \in 1..Len(s) - 1 : Tail(s)[i] = s[i + 1]
  BY SMTT(30), <1>1, <1>2
<1> HIDE DEF f, s
<1>4. at[q] = "queued" /\ where[q] = d /\ Sender[q] = f /\ \A j \in 1..Len(s) : s[j] = q => j = 1
  <2>1. 1 \in DOMAIN s /\ s = byClient[d][f]
    BY <1>3 DEF s
  <2> QED
    BY <1>1, <1>3, <2>1 DEF Queued
<1>5. ASSUME NEW e \in Daemon, NEW c \in Client
      PROVE  \E k \in Nat : \A j \in DOMAIN byClient'[e][c] :
               /\ j + k \in DOMAIN byClient[e][c]
               /\ byClient'[e][c][j] = byClient[e][c][j + k] /\ byClient'[e][c][j] # q
  <2>1. CASE e = d /\ c = f
    <3>1. byClient'[e][c] = Tail(s) /\ byClient[e][c] = s
      BY <1>1, <2>1, ZenonT(30) DEF QueueTypes, s
    <3>2. \A j \in DOMAIN Tail(s) : j + 1 \in DOMAIN s /\ Tail(s)[j] = s[j + 1] /\ Tail(s)[j] # q
      BY <1>3, <1>4
    <3> QED
      BY <3>1, <3>2, ZenonT(30)
  <2>2. CASE ~(e = d /\ c = f)
    <3>1. byClient'[e][c] = byClient[e][c] /\ byClient[e][c] \in Seq(Req)
      BY <1>1, <2>2, ZenonT(30) DEF QueueTypes
    <3>2. \A j \in DOMAIN byClient[e][c] : byClient[e][c][j] # q
      BY <1>4, <2>2 DEF Queued
    <3>3. \A j \in DOMAIN byClient[e][c] : j + 0 = j
      BY <3>1
    <3> QED
      BY <3>1, <3>2, <3>3, Zenon
  <2> QED
    BY <2>1, <2>2, Zenon
<1> QED
  BY <1>1, <1>4, <1>5, Zenon

\* Every step keeps the types of the requests.
LEMMA RequestTypesNext ==
  ASSUME IInv, RInv, [Next]_vars
  PROVE  RequestTypes'
<1> USE DEF Open, Counted, Finish, Goto, At
<1>0. RequestTypes /\ Types /\ \A q \in Req : call[q] = "retry" => tries[q] > 0
  BY DEF RInv, IInv, Calls
<1>1. ASSUME UNCHANGED <<sock, cooldown, conn, client, late>> PROVE RequestTypes'
  BY <1>0, <1>1, Zenon DEF RequestTypes, conn, client
<1>2. ASSUME NEW q \in Req, Connect(q) PROVE RequestTypes'
  <2>1. sock \in Daemon /\ UNCHANGED <<sock, cooldown, late>>
    BY <1>0, <1>2, Zenon DEF Types, Connect, files
  <2>2. /\ at' \in [Req -> Open \cup {"none", "over"}] /\ where' \in [Req -> Daemon \cup {NoDaemon}]
        /\ call' \in [Req -> {"connect", "spawn", "retry", "wait", "done"}]
        /\ tries' \in [Req -> 0..Retries] /\ attempted' \subseteq Req
    BY <1>0, <1>2, <2>1, DaemonAssumption DEF RequestTypes, Connect
  <2> QED
    BY <1>0, <2>1, <2>2, Zenon DEF RequestTypes
<1>3. ASSUME NEW q \in Req, Refused(q) PROVE RequestTypes'
  <2>1. UNCHANGED <<sock, conn, late>> /\ attempted' \subseteq attempted /\ cooldown' \in {cooldown, TRUE}
    BY <1>3, Zenon DEF Refused
  <2>2. call' \in [Req -> {"connect", "spawn", "retry", "wait", "done"}]
    BY <1>0, <1>3, Zenon DEF RequestTypes, Refused
  <2>3. tries' \in [Req -> 0..Retries]
    <3>1. tries' = tries \/ (tries' = [tries EXCEPT ![q] = @ - 1] /\ call[q] = "retry")
      BY <1>3, Zenon DEF Refused
    <3> QED
      BY <1>0, <3>1, DaemonAssumption DEF RequestTypes
  <2>4. cooldown' \in BOOLEAN
    BY <1>0, <2>1, Zenon DEF RequestTypes
  <2> QED
    BY <1>0, <2>1, <2>2, <2>3, <2>4, Zenon DEF RequestTypes, conn
<1>4. ASSUME NEW q \in Req, SpawnOnce(q) PROVE RequestTypes'
  <2>1. UNCHANGED <<sock, cooldown, conn, late>> /\ attempted' \subseteq attempted \cup {q}
    BY <1>4, Zenon DEF SpawnOnce, files
  <2>2. /\ call' \in [Req -> {"connect", "spawn", "retry", "wait", "done"}]
        /\ tries' \in [Req -> 0..Retries]
    BY <1>0, <1>4, DaemonAssumption DEF RequestTypes, SpawnOnce
  <2>3. attempted' \subseteq Req
    BY <1>0, <2>1 DEF RequestTypes
  <2> QED
    BY <1>0, <2>1, <2>2, <2>3, Zenon DEF RequestTypes, conn
<1>5. ASSUME NEW q \in Req, Receive(q) PROVE RequestTypes'
  BY <1>0, <1>5, Zenon DEF RequestTypes, Receive, files, conn
<1>6. ASSUME CooldownEnds PROVE RequestTypes'
  BY <1>0, <1>6, Zenon DEF RequestTypes, CooldownEnds, conn, client
<1>7. ASSUME NEW d \in Daemon, ThreadStep(d) PROVE RequestTypes'
  <2>1. UNCHANGED <<sock, cooldown, client>> /\ \/ where' = where
                                                \/ \E q \in Req : where' = [where EXCEPT ![q] = NoDaemon]
    BY <1>7, Zenon DEF ThreadStep, Accept, Count, AnswerAtOnce, Push, Held, files
  <2>2. \E q \in Req, s \in {"taken", "accepted", "queued", "over"} : at' = [at EXCEPT ![q] = s]
    BY <1>7, Zenon DEF ThreadStep, Accept, Count, AnswerAtOnce, Push, Held
  <2>3. late' \subseteq Req
    BY <1>0, <1>7 DEF ThreadStep, Accept, Count, AnswerAtOnce, Push, Held, RequestTypes
  <2> QED
    BY <1>0, <2>1, <2>2, <2>3, Zenon DEF RequestTypes, client
<1>8. ASSUME NEW d \in Daemon, Pop(d) PROVE RequestTypes'
  <2> DEFINE q == Head(byClient[d][Head(rotation[d])])
  <2>1. /\ UNCHANGED <<sock, cooldown, client, late>>
        /\ where' = where \/ where' = [where EXCEPT ![q] = NoDaemon]
        /\ \E s \in {"working", "over"} : at' = [at EXCEPT ![q] = s]
    BY <1>8, Zenon DEF Pop, files
  <2> QED
    BY <1>0, <2>1, Zenon DEF RequestTypes, client
<1>9. ASSUME NEW d \in Daemon, Load(d) \/ Handle(d) PROVE RequestTypes'
  <2>1. /\ UNCHANGED <<sock, cooldown, client, late>>
        /\ where' = where \/ where' = [where EXCEPT ![active[d]] = NoDaemon]
        /\ at' = at \/ at' = [at EXCEPT ![active[d]] = "over"]
    BY <1>9 DEF Load, Handle, files, conn
  <2> QED
    BY <1>0, <2>1, ZenonT(30) DEF RequestTypes, client
<1>10. ASSUME NEW d \in Daemon, Bind(d) PROVE RequestTypes'
  <2>1. UNCHANGED <<conn, client, late>> /\ sock' \in {sock, d, NoDaemon} /\ cooldown' \in {cooldown, FALSE}
    BY <1>10, Zenon DEF Bind
  <2> QED
    BY <1>0, <2>1, Zenon DEF RequestTypes, conn, client
<1>11. ASSUME NEW d \in Daemon, DropEndpointGuard(d) PROVE RequestTypes'
  BY <1>0, <1>11, Zenon DEF RequestTypes, DropEndpointGuard, conn, client
<1>12. ASSUME NEW d \in Daemon,
              TakeOwnerLock(d) \/ Prewarm(d) \/ Hang(d) \/ IdleCheck(d) \/ DropModel(d) \/ DropOwnerLock(d)
       PROVE  RequestTypes'
  BY <1>1, <1>12, Zenon DEF TakeOwnerLock, Prewarm, Hang, IdleCheck, DropModel, DropOwnerLock, files
<1>13. ASSUME NEW d \in Daemon, Exit(d) \/ Watchdog(d) \/ Kill(d) PROVE RequestTypes'
  <2>1. ProcessEnds(d) /\ cooldown' \in {cooldown, TRUE}
    BY <1>13, Zenon DEF Exit, Watchdog, Kill
  <2>2. UNCHANGED <<sock, client>> /\ late' \subseteq late
    BY <2>1, Zenon DEF ProcessEnds
  <2>3. at' \in [Req -> Open \cup {"none", "over"}] /\ where' \in [Req -> Daemon \cup {NoDaemon}]
    BY <1>0, <2>1 DEF ProcessEnds, RequestTypes
  <2>4. cooldown' \in BOOLEAN
    BY <1>0, <2>1, Zenon DEF RequestTypes
  <2> QED
    BY <1>0, <2>2, <2>3, <2>4, Zenon DEF RequestTypes, client
<1>14. ASSUME UNCHANGED vars PROVE RequestTypes'
  BY <1>1, <1>14, Zenon DEF vars, files
<1> QED
  BY <1>2, <1>3, <1>4, <1>5, <1>6, <1>7, <1>8, <1>9, <1>10, <1>11, <1>12, <1>13, <1>14, Zenon
  DEF Next, ClientStep, WorkerStep

\* Connections and calls stay in step, whichever thread moves a request on and whenever a
\* daemon ends (request_via_daemon; ProcessEnds closes what is open).
LEMMA CallsNext ==
  ASSUME IInv, RInv, [Next]_vars
  PROVE  Calls'
<1> USE DEF Open, Counted, Finish, Goto, At
<1>0. RequestTypes /\ Types /\ Calls /\ Working
  BY DEF RInv, IInv
<1>1. ASSUME UNCHANGED <<conn, client>> PROVE Calls'
  BY <1>0, <1>1, Zenon DEF Calls, conn, client
<1>2. ASSUME NEW q \in Req, Connect(q) PROVE Calls'
  <2>1. sock \in Daemon
    BY <1>0, <1>2, Zenon DEF Types, Connect
  <2> QED
    BY <1>0, <1>2, <2>1, DaemonAssumption, Zenon DEF RequestTypes, Calls, Connect
<1>3. ASSUME NEW q \in Req, Refused(q) PROVE Calls'
  <2>1. /\ UNCHANGED <<at, where>> /\ call[q] \in {"connect", "retry"}
        /\ \/ call' = [call EXCEPT ![q] = "spawn"] /\ tries' = tries
           \/ tries[q] > 1 /\ tries' = [tries EXCEPT ![q] = @ - 1] /\ call' = call
           \/ tries' = [tries EXCEPT ![q] = @ - 1] /\ call' = [call EXCEPT ![q] = "done"]
    BY <1>3, Zenon DEF Refused, conn
  <2> QED
    BY <1>0, <2>1, DaemonAssumption DEF RequestTypes, Calls
<1>4. ASSUME NEW q \in Req, SpawnOnce(q) PROVE Calls'
  BY <1>0, <1>4, DaemonAssumption DEF RequestTypes, Calls, SpawnOnce, conn
<1>5. ASSUME NEW q \in Req, Receive(q) PROVE Calls'
  BY <1>0, <1>5, Zenon DEF RequestTypes, Calls, Receive, conn
\* A request that is open moves on or is answered.
<1>6. ASSUME NEW q \in Req, at[q] \in Open, UNCHANGED client,
             \/ UNCHANGED where /\ \E s \in Open : at' = [at EXCEPT ![q] = s]
             \/ at' = [at EXCEPT ![q] = "over"] /\ where' = [where EXCEPT ![q] = NoDaemon]
      PROVE  Calls'
  BY <1>0, <1>6, ZenonT(30) DEF RequestTypes, Calls, client
<1>7. ASSUME NEW d \in Daemon, ThreadStep(d) PROVE Calls'
  <2>1. PICK q \in Req : /\ at[q] \in Open
                         /\ \/ UNCHANGED where /\ \E s \in Open : at' = [at EXCEPT ![q] = s]
                            \/ at' = [at EXCEPT ![q] = "over"] /\ where' = [where EXCEPT ![q] = NoDaemon]
    BY <1>7, Zenon DEF ThreadStep, Accept, Count, AnswerAtOnce, Push, Held
  <2>2. UNCHANGED client
    BY <1>7, Zenon DEF ThreadStep, Accept, Count, AnswerAtOnce, Push
  <2> QED
    BY <1>6, <2>1, <2>2, Zenon
<1>8. ASSUME NEW d \in Daemon, Pop(d) PROVE Calls'
  <2> DEFINE q == Head(byClient[d][Head(rotation[d])])
  <2>1. q \in Req /\ at[q] = "queued" /\ where[q] = d
    <3>1. Queued /\ rotation[d] # <<>> /\ PopQueue(d)
      BY <1>8, Zenon DEF Pop, RInv
    <3> QED
      BY <3>1, Popped
  <2>2. /\ UNCHANGED client
        /\ \/ UNCHANGED where /\ at' = [at EXCEPT ![q] = "working"]
           \/ at' = [at EXCEPT ![q] = "over"] /\ where' = [where EXCEPT ![q] = NoDaemon]
    BY <1>8, Zenon DEF Pop
  <2> QED
    BY <1>6, <2>1, <2>2, Zenon
<1>9. ASSUME NEW d \in Daemon, Load(d) \/ Handle(d) PROVE Calls'
  <2>1. active[d] \in Req /\ at[active[d]] = "working"
    BY <1>0, <1>9, Zenon DEF Types, Working, Load, Handle
  <2>2. CASE UNCHANGED <<conn, client>>
    BY <1>1, <2>2, Zenon
  <2>3. CASE Finish(d, active[d]) /\ UNCHANGED client
    BY <1>6, <2>1, <2>3, Zenon
  <2> QED
    BY <1>9, <2>2, <2>3, Zenon DEF Load, Handle
<1>10. ASSUME NEW d \in Daemon, Exit(d) \/ Watchdog(d) \/ Kill(d) PROVE Calls'
  <2>1. ProcessEnds(d)
    BY <1>10, Zenon DEF Exit, Watchdog, Kill
  <2>2. UNCHANGED client /\ \A q \in Req :
          IF where[q] = d THEN at'[q] = "over" /\ where'[q] = NoDaemon
          ELSE at'[q] = at[q] /\ where'[q] = where[q]
    BY <1>0, <2>1, DaemonAssumption, Zenon DEF ProcessEnds, Held, Calls
  <2> QED
    BY <1>0, <2>2, DaemonAssumption, Zenon DEF Calls, client
<1>11. ASSUME NEW d \in Daemon,
              \/ TakeOwnerLock(d) \/ Bind(d) \/ Prewarm(d) \/ Hang(d) \/ IdleCheck(d)
              \/ DropModel(d) \/ DropEndpointGuard(d) \/ DropOwnerLock(d)
       PROVE  Calls'
  BY <1>1, <1>11, Zenon
  DEF TakeOwnerLock, Bind, Prewarm, Hang, IdleCheck, DropModel, DropEndpointGuard, DropOwnerLock
<1>12. ASSUME CooldownEnds \/ UNCHANGED vars PROVE Calls'
  BY <1>1, <1>12, Zenon DEF CooldownEnds, vars
<1> QED
  BY <1>2, <1>3, <1>4, <1>5, <1>7, <1>8, <1>9, <1>10, <1>11, <1>12, Zenon
  DEF Next, ClientStep, WorkerStep

\* The worker's request stays the one at work (set_active, complete).
LEMMA WorkingNext ==
  ASSUME IInv, RInv, [Next]_vars
  PROVE  Working'
<1> USE DEF Open, Counted, Finish, Goto, At, SetActive
<1>0. RequestTypes /\ Types /\ Calls /\ Working /\ NoReq \notin Req
  BY DaemonAssumption, Zenon DEF RInv, IInv
\* Only a request that is not at work is touched.
<1>1. ASSUME UNCHANGED active,
             \A d \in Daemon : pc'[d] \in {"load", "handle"} => pc[d] \in {"load", "handle"},
             \A q \in Req : at[q] = "working" => at'[q] = at[q] /\ where'[q] = where[q]
      PROVE  Working'
  BY <1>0, <1>1 DEF Types, Working
<1>2. ASSUME NEW q \in Req, Connect(q) PROVE Working'
  BY <1>0, <1>1, <1>2 DEF RequestTypes, Calls, Connect, status
<1>3. ASSUME NEW q \in Req, Refused(q) \/ Receive(q) PROVE Working'
  BY <1>1, <1>3, Zenon DEF Refused, Receive, conn, status
<1>4. ASSUME NEW q \in Req, SpawnOnce(q) PROVE Working'
  <2>1. pc' = pc \/ \E d \in Daemon : pc' = [pc EXCEPT ![d] = "start"]
    BY <1>4, Zenon DEF SpawnOnce
  <2>2. UNCHANGED <<active, at, where>>
    BY <1>4, Zenon DEF SpawnOnce, conn, status
  <2> QED
    BY <1>0, <1>1, <2>1, <2>2, Zenon DEF Types
<1>5. ASSUME NEW d \in Daemon, ThreadStep(d) PROVE Working'
  <2>1. UNCHANGED <<pc, active>>
    BY <1>5, Zenon DEF ThreadStep, Accept, Count, AnswerAtOnce, Push, status
  <2>2. PICK q \in Req : /\ at[q] # "working" /\ \A r \in Req \ {q} : at'[r] = at[r] /\ where'[r] = where[r]
    BY <1>0, <1>5 DEF ThreadStep, Accept, Count, AnswerAtOnce, Push, Held, RequestTypes
  <2> QED
    BY <1>1, <2>1, <2>2, Zenon
<1>6. ASSUME NEW d \in Daemon, Pop(d) PROVE Working'
  <2> DEFINE q == Head(byClient[d][Head(rotation[d])])
  <2>1. q \in Req /\ at[q] = "queued" /\ where[q] = d
    <3>1. Queued /\ rotation[d] # <<>> /\ PopQueue(d)
      BY <1>6, Zenon DEF Pop, RInv
    <3> QED
      BY <3>1, Popped
  <2> HIDE DEF q
  <2>2. \A r \in Req \ {q} : at'[r] = at[r] /\ where'[r] = where[r]
    BY <1>0, <1>6, <2>1, Zenon DEF Pop, RequestTypes, q
  <2>3. CASE UNCHANGED <<pc, active>>
    BY <1>1, <2>1, <2>2, <2>3, Zenon
  <2>4. CASE /\ at' = [at EXCEPT ![q] = "working"] /\ active' = [active EXCEPT ![d] = q]
             /\ where' = where /\ \E l \in {"load", "handle"} : pc' = [pc EXCEPT ![d] = l]
    BY <1>0, <2>1, <2>2, <2>4 DEF RequestTypes, Types, Working
  <2> QED
    BY <1>6, <2>3, <2>4, Zenon DEF Pop, q
<1>7. ASSUME NEW d \in Daemon, Load(d) \/ Handle(d) PROVE Working'
  <2>1. active[d] \in Req /\ at[active[d]] = "working" /\ where[active[d]] = d
    BY <1>0, <1>7 DEF Types, Working, Load, Handle
  <2>2. CASE Goto(d, "handle") /\ UNCHANGED <<at, where, active>>
    BY <1>0, <2>1, <2>2, Zenon DEF Types, Working
  <2>3. CASE Goto(d, "serve") /\ Finish(d, active[d]) /\ SetActive(d, NoReq)
    <3> DEFINE q == active[d]
    <3>1. active'[d] = NoReq /\ \A e \in Daemon \ {d} : active'[e] = active[e]
      BY <1>0, <2>3, Zenon DEF Types
    <3>2. pc'[d] = "serve" /\ \A e \in Daemon \ {d} : pc'[e] = pc[e]
      BY <1>0, <2>3, Zenon DEF Types
    <3>3. \A r \in Req \ {q} : at'[r] = at[r] /\ where'[r] = where[r]
      BY <1>0, <2>3, Zenon DEF RequestTypes
    <3>4. \A e \in Daemon \ {d} : active[e] # NoReq => active[e] \in Req \ {q}
      BY <1>0, <2>1, Zenon DEF Types, Working
    <3> HIDE DEF q
    <3>5. ASSUME NEW e \in Daemon \ {d}
          PROVE /\ active'[e] # NoReq => at'[active'[e]] = "working" /\ where'[active'[e]] = e
                /\ pc'[e] \in {"load", "handle"} => active'[e] # NoReq
      <4>1. /\ active[e] # NoReq => at[active[e]] = "working" /\ where[active[e]] = e
            /\ pc[e] \in {"load", "handle"} => active[e] # NoReq
        BY <1>0, Zenon DEF Working
      <4>2. active'[e] = active[e] /\ pc'[e] = pc[e]
        BY <3>1, <3>2, Zenon
      <4>3. active[e] # NoReq => at'[active[e]] = at[active[e]] /\ where'[active[e]] = where[active[e]]
        BY <3>3, <3>4, ZenonT(30)
      <4> QED
        BY <4>1, <4>2, <4>3, Zenon
    <3> QED
      BY <3>1, <3>2, <3>5, Zenon DEF Working
  <2> QED
    BY <1>7, <2>2, <2>3, Zenon DEF Load, Handle, conn
<1>8. ASSUME NEW d \in Daemon, Exit(d) \/ Watchdog(d) \/ Kill(d) PROVE Working'
  <2>1. ProcessEnds(d)
    BY <1>8, Zenon DEF Exit, Watchdog, Kill
  <2>2. \A q \in Req : where[q] # d => at'[q] = at[q] /\ where'[q] = where[q]
    BY <2>1, Zenon DEF ProcessEnds, Held
  <2>3. /\ pc'[d] = "off" /\ active'[d] = NoReq
        /\ \A e \in Daemon \ {d} : pc'[e] = pc[e] /\ active'[e] = active[e]
    BY <1>0, <2>1, Zenon DEF ProcessEnds, Types
  <2> QED
    BY <1>0, <2>2, <2>3 DEF Types, Working
<1>9. ASSUME NEW d \in Daemon,
             \/ TakeOwnerLock(d) \/ Bind(d) \/ Prewarm(d) \/ Hang(d) \/ IdleCheck(d)
             \/ DropModel(d) \/ DropEndpointGuard(d) \/ DropOwnerLock(d)
      PROVE  Working'
  <2>1. UNCHANGED <<at, where, active>>
    BY <1>9, ZenonT(30) DEF TakeOwnerLock, Bind, Prewarm, Hang, IdleCheck, DropModel, DropEndpointGuard,
       DropOwnerLock, conn, status
  <2>2. \/ pc' = pc \/ Goto(d, "off") \/ Goto(d, "bind") \/ Goto(d, "serve") \/ Goto(d, "prewarm")
        \/ Goto(d, "hung") \/ Goto(d, "leave") \/ Goto(d, "unlink") \/ Goto(d, "unlock") \/ Goto(d, "exit")
    <3>1. CASE TakeOwnerLock(d) \/ Bind(d)
      BY <3>1, Zenon DEF TakeOwnerLock, Bind
    <3>2. CASE Prewarm(d) \/ Hang(d) \/ IdleCheck(d)
      BY <3>2, Zenon DEF Prewarm, Hang, IdleCheck
    <3>3. CASE DropModel(d) \/ DropEndpointGuard(d) \/ DropOwnerLock(d)
      BY <3>3, Zenon DEF DropModel, DropEndpointGuard, DropOwnerLock
    <3> QED
      BY <1>9, <3>1, <3>2, <3>3, Zenon
  <2>3. pc'[d] \in {"load", "handle"} => pc[d] \in {"load", "handle"}
    BY <1>0, <2>2, ZenonT(30) DEF Types
  <2>4. \A e \in Daemon \ {d} : pc'[e] = pc[e]
    BY <1>0, <2>2, ZenonT(30) DEF Types
  <2> QED
    BY <1>1, <2>1, <2>3, <2>4, Zenon
<1>10. ASSUME CooldownEnds \/ UNCHANGED vars PROVE Working'
  BY <1>1, <1>10, Zenon DEF CooldownEnds, vars, conn, status
<1> QED
  BY <1>2, <1>3, <1>4, <1>5, <1>6, <1>7, <1>8, <1>9, <1>10, Zenon DEF Next, ClientStep, WorkerStep

\* Every queue keeps requests that are queued at its daemon (push, pop_timeout).
LEMMA QueuedNext ==
  ASSUME IInv, RInv, [Next]_vars
  PROVE  Queued'
<1> USE DEF Finish, At
<1>0. RequestTypes /\ QueueTypes /\ Calls /\ Working /\ Queued
  BY ZenonT(30) DEF RInv, IInv
\* The queues stay, and what happens does not concern a queued request.
<1>1. ASSUME UNCHANGED byClient,
             \A q \in Req : at[q] = "queued" => at'[q] = at[q] /\ where'[q] = where[q]
      PROVE  Queued'
  <2>1. \A d \in Daemon, c \in Client : \A i \in DOMAIN byClient[d][c] : byClient[d][c][i] \in Req
    BY <1>0 DEF QueueTypes
  <2> QED
    BY <1>0, <1>1, <2>1 DEF Queued
<1>2. ASSUME NEW q \in Req, Connect(q) PROVE Queued'
  BY <1>0, <1>1, <1>2, Zenon DEF RequestTypes, Calls, Connect, queue
<1>3. ASSUME NEW q \in Req, Refused(q) \/ SpawnOnce(q) \/ Receive(q) PROVE Queued'
  BY <1>1, <1>3, Zenon DEF Refused, SpawnOnce, Receive, conn, queue
<1>4. ASSUME NEW d \in Daemon, Accept(d) \/ Count(d) \/ AnswerAtOnce(d) PROVE Queued'
  <2>1. UNCHANGED byClient
    BY <1>4, Zenon DEF Accept, Count, AnswerAtOnce, queue
  <2>2. PICK q \in Req : /\ at[q] # "queued" /\ \A r \in Req \ {q} : at'[r] = at[r] /\ where'[r] = where[r]
    BY <1>0, <1>4 DEF Accept, Count, AnswerAtOnce, Held, RequestTypes
  <2> QED
    BY <1>1, <2>1, <2>2, Zenon
<1>5. ASSUME NEW d \in Daemon, Push(d) PROVE Queued'
  <2>1. PICK q \in Req :
          /\ where[q] = d /\ at[q] = "accepted" /\ at' = [at EXCEPT ![q] = "queued"] /\ where' = where
          /\ byClient' = [byClient EXCEPT ![d][Sender[q]] = Append(byClient[d][Sender[q]], q)]
    BY <1>5, Zenon DEF Push, Held
  <2> DEFINE f == Sender[q]
             s == byClient[d][f]
  <2>2. f \in Client /\ s \in Seq(Req)
    BY <1>0, DaemonAssumption, Zenon DEF QueueTypes
  <2>3. /\ at'[q] = "queued" /\ where'[q] = d
        /\ \A r \in Req \ {q} : at'[r] = at[r] /\ where'[r] = where[r]
    BY <1>0, <2>1, Zenon DEF RequestTypes
  <2>4. byClient'[d][f] = Append(s, q)
    BY <1>0, <2>1, <2>2, Zenon DEF QueueTypes
  <2>5. \A e \in Daemon, c \in Client : ~(e = d /\ c = f) => byClient'[e][c] = byClient[e][c]
    BY <1>0, <2>1, <2>2, Zenon DEF QueueTypes
  <2>6. /\ Len(s) \in Nat /\ DOMAIN s = 1..Len(s) /\ DOMAIN Append(s, q) = 1..Len(s) + 1
        /\ Append(s, q)[Len(s) + 1] = q
        /\ \A i \in 1..Len(s) : Append(s, q)[i] = s[i] /\ s[i] \in Req
    BY SMTT(30), <2>2
  <2>7. \A e \in Daemon, c \in Client : \A i \in DOMAIN byClient[e][c] :
          byClient[e][c][i] \in Req /\ byClient[e][c][i] # q
    <3>1. \A e \in Daemon, c \in Client : \A i \in DOMAIN byClient[e][c] : byClient[e][c][i] \in Req
      BY SMTT(30), <1>0 DEF QueueTypes
    <3> QED
      BY <1>0, <2>1, <3>1 DEF Queued
  <2>8. \A j \in 1..Len(s) :
          /\ at[s[j]] = "queued" /\ where[s[j]] = d /\ Sender[s[j]] = f /\ s[j] # q /\ s[j] \in Req
          /\ \A k \in 1..Len(s) : s[j] = s[k] => j = k
    BY <1>0, <2>2, <2>6, <2>7 DEF Queued
  <2> DEFINE a == Append(s, q)
             n == Len(s)
  <2>9. /\ n \in Nat /\ DOMAIN a = 1..n + 1 /\ a[n + 1] = q /\ Sender[q] = f
        /\ \A i \in 1..n : a[i] = s[i]
    BY <2>6, Zenon
  <2> HIDE DEF f, s, a, n
  <2>10. ASSUME NEW i \in DOMAIN a
         PROVE  /\ at'[a[i]] = "queued" /\ where'[a[i]] = d /\ Sender[a[i]] = f
                /\ \A j \in DOMAIN a : a[i] = a[j] => i = j
    <3>1. CASE i = n + 1
      BY <2>3, <2>8, <2>9, <3>1 DEF n
    <3>2. CASE i \in 1..n
      BY <2>3, <2>8, <2>9, <3>2 DEF n
    <3> QED
      BY <2>9, <2>10, <3>1, <3>2
  <2>11. ASSUME NEW e \in Daemon, NEW c \in Client, NEW i \in DOMAIN byClient'[e][c]
         PROVE  /\ at'[byClient'[e][c][i]] = "queued" /\ where'[byClient'[e][c][i]] = e
                /\ Sender[byClient'[e][c][i]] = c
                /\ \A j \in DOMAIN byClient'[e][c] : byClient'[e][c][i] = byClient'[e][c][j] => i = j
    <3>1. CASE e = d /\ c = f
      <4>1. byClient'[d][f] = a
        BY <2>4, ZenonT(30) DEF a
      <4> QED
        BY <2>10, <2>11, <3>1, <4>1, Zenon
    <3>2. CASE ~(e = d /\ c = f)
      <4>1. byClient'[e][c] = byClient[e][c]
        BY <2>5, <3>2
      <4> QED
        BY <1>0, <2>3, <2>7, <2>11, <4>1 DEF Queued
    <3> QED
      BY <3>1, <3>2, Zenon
  <2> QED
    BY <2>11, Zenon DEF Queued
<1>6. ASSUME NEW d \in Daemon, Pop(d) PROVE Queued'
  <2> DEFINE q == Head(byClient[d][Head(rotation[d])])
  <2>1. rotation[d] # <<>> /\ PopQueue(d)
    BY <1>6, Zenon DEF Pop
  <2>2. q \in Req /\ \A e \in Daemon, c \in Client :
          \E k \in Nat : \A j \in DOMAIN byClient'[e][c] :
            /\ j + k \in DOMAIN byClient[e][c]
            /\ byClient'[e][c][j] = byClient[e][c][j + k] /\ byClient'[e][c][j] # q
    BY <1>0, <2>1, Popped, Zenon
  <2>3. \A r \in Req \ {q} : at'[r] = at[r] /\ where'[r] = where[r]
    BY <1>0, <1>6, <2>2, Zenon DEF Pop, RequestTypes
  <2> HIDE DEF q
  <2>4. ASSUME NEW e \in Daemon, NEW c \in Client, NEW i \in DOMAIN byClient'[e][c]
        PROVE  /\ at'[byClient'[e][c][i]] = "queued" /\ where'[byClient'[e][c][i]] = e
               /\ Sender[byClient'[e][c][i]] = c
               /\ \A j \in DOMAIN byClient'[e][c] : byClient'[e][c][i] = byClient'[e][c][j] => i = j
    <3>1. PICK k \in Nat : \A j \in DOMAIN byClient'[e][c] :
            /\ j + k \in DOMAIN byClient[e][c]
            /\ byClient'[e][c][j] = byClient[e][c][j + k] /\ byClient'[e][c][j] # q
      BY <2>2, Zenon
    <3>2. byClient'[e][c] \in Seq(Req)
      BY QueueNext, Zenon DEF QueueTypes
    <3>3. byClient'[e][c][i] \in Req \ {q} /\ \A j \in DOMAIN byClient'[e][c] : i + k = j + k => i = j
      BY SMTT(30), <2>4, <3>1, <3>2
    <3>4. /\ at[byClient'[e][c][i]] = "queued" /\ where[byClient'[e][c][i]] = e
          /\ Sender[byClient'[e][c][i]] = c
          /\ \A j \in DOMAIN byClient'[e][c] : byClient'[e][c][i] = byClient'[e][c][j] => i + k = j + k
      BY <1>0, <2>4, <3>1 DEF Queued
    <3> QED
      BY <2>3, <3>3, <3>4, Zenon
  <2> QED
    BY <2>4, Zenon DEF Queued
<1>7. ASSUME NEW d \in Daemon, Load(d) \/ Handle(d) PROVE Queued'
  <2>1. active[d] # NoReq => at[active[d]] = "working"
    BY <1>0, Zenon DEF Working
  <2>2. active[d] # NoReq
    BY <1>0, <1>7, Zenon DEF Working, Load, Handle
  <2>3. /\ UNCHANGED byClient
        /\ \A r \in Req : r # active[d] => at'[r] = at[r] /\ where'[r] = where[r]
    BY <1>0, <1>7, Zenon DEF RequestTypes, Load, Handle, conn, queue
  <2> QED
    BY <1>1, <2>1, <2>2, <2>3, Zenon
<1>8. ASSUME NEW d \in Daemon, Exit(d) \/ Watchdog(d) \/ Kill(d) PROVE Queued'
  <2>1. ProcessEnds(d)
    BY <1>8, Zenon DEF Exit, Watchdog, Kill
  <2>2. \A q \in Req : where[q] # d => at'[q] = at[q] /\ where'[q] = where[q]
    BY <2>1, Zenon DEF ProcessEnds, Held
  <2>3. /\ \A c \in Client : byClient'[d][c] = <<>>
        /\ \A e \in Daemon \ {d} : byClient'[e] = byClient[e]
    BY <1>0, <2>1, Zenon DEF ProcessEnds, QueueTypes
  <2>4. \A e \in Daemon, c \in Client : \A i \in DOMAIN byClient[e][c] : byClient[e][c][i] \in Req
    BY <1>0 DEF QueueTypes
  <2> QED
    BY <1>0, <2>2, <2>3, <2>4 DEF Queued
<1>9. ASSUME NEW d \in Daemon,
             \/ TakeOwnerLock(d) \/ Bind(d) \/ Prewarm(d) \/ Hang(d) \/ IdleCheck(d)
             \/ DropModel(d) \/ DropEndpointGuard(d) \/ DropOwnerLock(d)
      PROVE  Queued'
  BY <1>1, <1>9, Zenon DEF TakeOwnerLock, Bind, Prewarm, Hang, IdleCheck, DropModel,
     DropEndpointGuard, DropOwnerLock, conn, queue
<1>10. ASSUME CooldownEnds \/ UNCHANGED vars PROVE Queued'
  BY <1>1, <1>10, Zenon DEF CooldownEnds, vars, conn, queue
<1> QED
  BY <1>2, <1>3, <1>4, <1>5, <1>6, <1>7, <1>8, <1>9, <1>10, Zenon
  DEF Next, ClientStep, WorkerStep, ThreadStep

\* The requests a daemon has counted are finitely many.
LEMMA CountedFinite ==
  ASSUME NEW d \in Daemon
  PROVE  IsFiniteSet(Held(d, Counted)) /\ Cardinality(Held(d, Counted)) \in Nat
<1>1. Held(d, Counted) \subseteq Req /\ IsFiniteSet(Req)
  BY DaemonAssumption DEF Held
<1>2. IsFiniteSet(Held(d, Counted))
  BY <1>1, FS_Subset, Zenon
<1> QED
  BY <1>2, FS_CardinalityType, Zenon

\* finish_request takes one request from the count that was in it.
LEMMA Finished ==
  ASSUME RInv, NEW d \in Daemon, NEW q \in Held(d, Counted), Finish(d, q), UNCHANGED late,
         \A e \in Daemon : pc'[e] \in Leaving => pc[e] \in Leaving
  PROVE  Counting' /\ IdleExitAbandonsNone'
<1>0. RequestTypes /\ Counting /\ IdleExitAbandonsNone /\ NoDaemon \notin Daemon
  BY DaemonAssumption, Zenon DEF RInv
<1>1. \A r \in Req : IF r = q THEN where'[r] = NoDaemon ELSE at'[r] = at[r] /\ where'[r] = where[r]
  BY <1>0, Zenon DEF RequestTypes, Finish
<1>2. \A e \in Daemon : Held(e, Counted)' = Held(e, Counted) \ {q}
  BY <1>0, <1>1, Zenon DEF Held
<1>3. \A e \in Daemon \ {d} : Held(e, Counted)' = Held(e, Counted)
  BY <1>0, <1>2, Zenon DEF Held
<1>4. /\ IsFiniteSet(Held(d, Counted)) /\ Cardinality(Held(d, Counted)) \in Nat
      /\ Cardinality(Held(d, Counted) \ {q}) \in Nat
      /\ Cardinality(Held(d, Counted) \ {q}) = Cardinality(Held(d, Counted)) - 1
  BY CountedFinite, FS_RemoveElement, FS_CardinalityType, Zenon
<1>5. /\ pending' = [pending EXCEPT ![d] = @ - 1] /\ pending \in [Daemon -> Nat]
      /\ \A e \in Daemon : pending[e] = Cardinality(Held(e, Counted))
  BY <1>0, Zenon DEF Counting, PendingCounts, Finish
<1>6. pending'[d] = Cardinality(Held(d, Counted)') /\ pending'[d] \in Nat
  BY <1>2, <1>4, <1>5, Zenon
<1>7. \A e \in Daemon \ {d} : pending'[e] = Cardinality(Held(e, Counted)') /\ pending'[e] \in Nat
  BY <1>3, <1>5, Zenon
<1>8. Counting'
  BY <1>5, <1>6, <1>7, Zenon DEF Counting, PendingCounts
<1>9. IdleExitAbandonsNone'
  BY <1>0, <1>2 DEF IdleExitAbandonsNone
<1> QED
  BY <1>8, <1>9, Zenon

\* A step that leaves the requests in the count, or outside of it, leaves the count.
LEMMA CountUnchanged ==
  ASSUME RInv, UNCHANGED <<pending, late>>,
         \A e \in Daemon : Held(e, Counted)' = Held(e, Counted),
         \A e \in Daemon : pc'[e] \in Leaving => pc[e] \in Leaving
  PROVE  Counting' /\ IdleExitAbandonsNone'
BY Zenon DEF RInv, Counting, PendingCounts, IdleExitAbandonsNone

\* pending_requests stays the number of requests between acceptance and answer, and a
\* daemon that leaves does so with none that it had counted.
LEMMA CountingNext ==
  ASSUME IInv, RInv, [Next]_vars
  PROVE  Counting' /\ IdleExitAbandonsNone'
<1> USE DEF Goto, At
<1> DEFINE Goal == Counting' /\ IdleExitAbandonsNone'
<1>0. RequestTypes /\ Types /\ Calls /\ Working /\ Queued /\ Counting /\ IdleExitAbandonsNone
  BY DEF RInv, IInv
<1>1. ASSUME UNCHANGED <<conn, pending, late>>,
             \A e \in Daemon : pc'[e] \in Leaving => pc[e] \in Leaving
      PROVE  Goal
  <2>1. \A e \in Daemon : Held(e, Counted)' = Held(e, Counted)
    BY <1>1, Zenon DEF Held, conn
  <2> QED
    BY <1>1, <2>1, CountUnchanged, Zenon
\* One request moves on, within the count or outside of it.
<1>2. ASSUME NEW q \in Req, NEW s, at' = [at EXCEPT ![q] = s], at[q] \in Counted <=> s \in Counted,
             s \in Counted => where' = where, \A r \in Req \ {q} : where'[r] = where[r],
             UNCHANGED <<pending, late>>,
             \A e \in Daemon : pc'[e] \in Leaving => pc[e] \in Leaving
      PROVE  Goal
  <2>1. at'[q] = s /\ \A r \in Req \ {q} : at'[r] = at[r]
    BY <1>0, <1>2, Zenon DEF RequestTypes
  <2>2. \A e \in Daemon : Held(e, Counted)' = Held(e, Counted)
    BY <1>2, <2>1, Zenon DEF Held
  <2> QED
    BY <1>2, <2>2, CountUnchanged, Zenon
<1>3. ASSUME NEW q \in Req, Connect(q) PROVE Goal
  <2>1. at[q] = "none" /\ \A r \in Req \ {q} : where'[r] = where[r]
    BY <1>0, <1>3, Zenon DEF Calls, RequestTypes, Connect
  <2>2. at' = [at EXCEPT ![q] = "backlog"] /\ UNCHANGED <<pc, pending, late>>
    BY <1>3, Zenon DEF Connect
  <2> QED
    BY <1>2, <2>1, <2>2, Zenon DEF Counted
<1>4. ASSUME NEW q \in Req, Refused(q) \/ Receive(q) PROVE Goal
  BY <1>1, <1>4, Zenon DEF Refused, Receive
<1>5. ASSUME NEW q \in Req, SpawnOnce(q) PROVE Goal
  <2>1. pc' = pc \/ \E d \in Daemon : pc' = [pc EXCEPT ![d] = "start"]
    BY <1>5, Zenon DEF SpawnOnce
  <2>2. \A e \in Daemon : pc'[e] \in Leaving => pc[e] \in Leaving
    BY <1>0, <2>1, Zenon DEF Types, Leaving
  <2>3. UNCHANGED <<conn, pending, late>>
    BY <1>5, Zenon DEF SpawnOnce
  <2> QED
    BY <1>1, <2>2, <2>3, Zenon
<1>6. ASSUME NEW d \in Daemon, Accept(d) PROVE Goal
  <2>1. PICK q \in Req : at[q] = "backlog" /\ at' = [at EXCEPT ![q] = "taken"]
    BY <1>6, Zenon DEF Accept, Held
  <2>2. UNCHANGED <<where, pc, pending, late>>
    BY <1>6, Zenon DEF Accept
  <2> QED
    BY <1>2, <2>1, <2>2, Zenon DEF Counted
<1>7. ASSUME NEW d \in Daemon, Count(d) PROVE Goal
  <2>1. PICK q \in Req : /\ where[q] = d /\ at[q] = "taken" /\ at' = [at EXCEPT ![q] = "accepted"]
                         /\ late' = IF pc[d] \in Leaving THEN late \cup {q} ELSE late
    BY <1>7, Zenon DEF Count, Held
  <2>2. pending' = [pending EXCEPT ![d] = @ + 1] /\ UNCHANGED <<where, pc>>
    BY <1>7, Zenon DEF Count
  <2>3. at'[q] = "accepted" /\ \A r \in Req \ {q} : at'[r] = at[r]
    BY <1>0, <2>1, Zenon DEF RequestTypes
  <2>4. /\ Held(d, Counted)' = Held(d, Counted) \cup {q} /\ q \notin Held(d, Counted)
        /\ \A e \in Daemon \ {d} : Held(e, Counted)' = Held(e, Counted)
    BY <2>1, <2>2, <2>3, Zenon DEF Held, Counted
  <2>5. Cardinality(Held(d, Counted) \cup {q}) = Cardinality(Held(d, Counted)) + 1
    BY <2>4, CountedFinite, FS_AddElement, Zenon
  <2>6. /\ pending \in [Daemon -> Nat]
        /\ \A e \in Daemon : pending[e] = Cardinality(Held(e, Counted))
    BY <1>0, Zenon DEF Counting, PendingCounts
  <2>7. pending'[d] = Cardinality(Held(d, Counted)') /\ pending'[d] \in Nat
    BY <2>2, <2>4, <2>5, <2>6
  <2>8. \A e \in Daemon \ {d} : pending'[e] = Cardinality(Held(e, Counted)') /\ pending'[e] \in Nat
    BY <2>2, <2>4, <2>6, Zenon
  <2>9. Counting'
    BY <2>2, <2>6, <2>7, <2>8, Zenon DEF Counting, PendingCounts
  <2>10. IdleExitAbandonsNone'
    BY <1>0, <2>1, <2>2, <2>4, Zenon DEF IdleExitAbandonsNone
  <2> QED
    BY <2>9, <2>10, Zenon
<1>8. ASSUME NEW d \in Daemon, AnswerAtOnce(d) PROVE Goal
  <2>1. PICK q \in Held(d, {"accepted"}) : Finish(d, q)
    BY <1>8, Zenon DEF AnswerAtOnce
  <2>2. q \in Held(d, Counted) /\ UNCHANGED <<pc, late>>
    BY <1>8, <2>1, Zenon DEF AnswerAtOnce, Held, Counted
  <2> QED
    BY <2>1, <2>2, Finished, Zenon
<1>9. ASSUME NEW d \in Daemon, Push(d) PROVE Goal
  <2>1. PICK q \in Req : at[q] = "accepted" /\ at' = [at EXCEPT ![q] = "queued"]
    BY <1>9, Zenon DEF Push, Held
  <2>2. UNCHANGED <<where, pc, pending, late>>
    BY <1>9, Zenon DEF Push
  <2> QED
    BY <1>2, <2>1, <2>2, Zenon DEF Counted
<1>10. ASSUME NEW d \in Daemon, Pop(d) PROVE Goal
  <2> DEFINE q == Head(byClient[d][Head(rotation[d])])
  <2>1. rotation[d] # <<>> /\ PopQueue(d)
    BY <1>10, Zenon DEF Pop
  <2>2. q \in Req /\ at[q] = "queued" /\ where[q] = d
    BY <1>0, <2>1, Popped, ZenonT(30)
  <2>3. q \in Held(d, Counted)
    BY <2>2 DEF Held, Counted
  <2> HIDE DEF q
  <2>4. CASE Finish(d, q) /\ UNCHANGED <<pc, late>>
    BY <2>3, <2>4, Finished, Zenon
  <2>5. CASE /\ at' = [at EXCEPT ![q] = "working"] /\ UNCHANGED <<where, pending, late>>
             /\ \E l \in {"load", "handle"} : pc' = [pc EXCEPT ![d] = l]
    <3>1. \A e \in Daemon : pc'[e] \in Leaving => pc[e] \in Leaving
      BY <1>0, <2>5, Zenon DEF Types, Leaving
    <3> QED
      BY <1>2, <2>2, <2>5, <3>1, Zenon DEF Counted
  <2> QED
    BY <1>10, <2>4, <2>5, Zenon DEF Pop, q
<1>11. ASSUME NEW d \in Daemon, Load(d) \/ Handle(d) PROVE Goal
  <2>1. active[d] \in Req /\ at[active[d]] = "working" /\ where[active[d]] = d
    BY <1>0, <1>11, Zenon DEF Types, Working, Load, Handle
  <2>2. active[d] \in Held(d, Counted)
    BY <2>1 DEF Held, Counted
  <2>3. UNCHANGED late /\ \E l \in {"handle", "serve"} : pc' = [pc EXCEPT ![d] = l]
    BY <1>11, Zenon DEF Load, Handle
  <2>4. \A e \in Daemon : pc'[e] \in Leaving => pc[e] \in Leaving
    BY <1>0, <2>3, Zenon DEF Types, Leaving
  <2>5. Finish(d, active[d]) \/ UNCHANGED <<conn, pending>>
    BY <1>11, Zenon DEF Load, Handle
  <2> QED
    BY <1>1, <2>2, <2>3, <2>4, <2>5, Finished, Zenon
<1>12. ASSUME NEW d \in Daemon, IdleCheck(d) PROVE Goal
  <2>1. UNCHANGED <<conn, pending, late>> /\ (pc' = pc \/ (pending[d] = 0 /\ pc' = [pc EXCEPT ![d] = "leave"]))
    BY <1>12, Zenon DEF IdleCheck
  <2>2. \A e \in Daemon : Held(e, Counted)' = Held(e, Counted)
    BY <2>1, Zenon DEF Held, conn
  <2>3. pending[d] = 0 => Held(d, Counted) = {}
    BY <1>0, CountedFinite, FS_EmptySet, Zenon DEF Counting, PendingCounts
  <2>4. Counting'
    BY <1>0, <2>1, <2>2, Zenon DEF Counting, PendingCounts
  <2>5. \A e \in Daemon : pc'[e] \in Leaving => pc[e] \in Leaving \/ Held(e, Counted) = {}
    BY <1>0, <2>1, <2>3, Zenon DEF Types
  <2>6. IdleExitAbandonsNone'
    BY <1>0, <2>1, <2>2, <2>5, Zenon DEF IdleExitAbandonsNone
  <2> QED
    BY <2>4, <2>6, Zenon
<1>13. ASSUME NEW d \in Daemon, Exit(d) \/ Watchdog(d) \/ Kill(d) PROVE Goal
  <2>1. ProcessEnds(d)
    BY <1>13, Zenon DEF Exit, Watchdog, Kill
  <2>2. \A q \in Req : IF where[q] = d THEN where'[q] = NoDaemon
                       ELSE at'[q] = at[q] /\ where'[q] = where[q]
    BY <2>1, Zenon DEF ProcessEnds, Held
  <2>3. /\ Held(d, Counted)' = {} /\ \A e \in Daemon \ {d} : Held(e, Counted)' = Held(e, Counted)
    BY <2>2, DaemonAssumption DEF Held
  <2>4. pending' = [pending EXCEPT ![d] = 0] /\ pc' = [pc EXCEPT ![d] = "off"] /\ late' = late \ Held(d, Open)
    BY <2>1, Zenon DEF ProcessEnds
  <2>5. Cardinality({}) = 0
    BY FS_EmptySet
  <2>6. Counting'
    <3>1. /\ pending \in [Daemon -> Nat]
          /\ \A e \in Daemon : pending[e] = Cardinality(Held(e, Counted))
      BY <1>0, Zenon DEF Counting, PendingCounts
    <3>2. \A e \in Daemon : pending'[e] = Cardinality(Held(e, Counted)')
      BY <2>3, <2>4, <2>5, <3>1, Zenon
    <3>3. pending' \in [Daemon -> Nat]
      BY <2>4, <3>1, Zenon
    <3> QED
      BY <3>2, <3>3, Zenon DEF Counting, PendingCounts
  <2>7. \A e \in Daemon \ {d} : Held(e, Counted) \cap Held(d, Open) = {}
    BY Zenon DEF Held
  <2>8. IdleExitAbandonsNone'
    BY <1>0, <2>3, <2>4, <2>7, Zenon DEF Types, IdleExitAbandonsNone
  <2> QED
    BY <2>6, <2>8, Zenon
<1>14. ASSUME NEW d \in Daemon,
              \/ TakeOwnerLock(d) \/ Bind(d) \/ Prewarm(d) \/ Hang(d)
              \/ DropModel(d) \/ DropEndpointGuard(d) \/ DropOwnerLock(d)
       PROVE  Goal
  <2>1. UNCHANGED <<conn, pending, late>>
    BY <1>14, Zenon DEF TakeOwnerLock, Bind, Prewarm, Hang, DropModel, DropEndpointGuard, DropOwnerLock
  <2>2. \E l \in Worker : pc' = [pc EXCEPT ![d] = l] /\ (l \in Leaving => pc[d] \in Leaving)
    BY <1>14, Zenon DEF TakeOwnerLock, Bind, Prewarm, Hang, DropModel, DropEndpointGuard, DropOwnerLock,
       Worker, Leaving
  <2>3. \A e \in Daemon : pc'[e] \in Leaving => pc[e] \in Leaving
    BY <1>0, <2>2, Zenon DEF Types
  <2> QED
    BY <1>1, <2>1, <2>3, Zenon
<1>15. ASSUME CooldownEnds \/ UNCHANGED vars PROVE Goal
  BY <1>1, <1>15, Zenon DEF CooldownEnds, vars
<1> HIDE DEF Goal
<1>16. Goal
  BY <1>3, <1>4, <1>5, <1>6, <1>7, <1>8, <1>9, <1>10, <1>11, <1>12, <1>13, <1>14, <1>15, Zenon
  DEF Next, ClientStep, WorkerStep, ThreadStep
<1> QED
  BY <1>16 DEF Goal

\* The invariant about requests holds in every reachable state.
THEOREM RequestInvariant == Spec => [](IInv /\ RInv)
<1>1. Init => RInv
  <2> SUFFICES ASSUME Init PROVE RInv
    OBVIOUS
  <2>1. RequestTypes
    <3>1. cooldown \in BOOLEAN
      BY Zenon DEF Init
    <3> QED
      BY <3>1, DaemonAssumption DEF Init, RequestTypes, Open
  <2>2. Calls /\ Working /\ Queued
    BY DaemonAssumption DEF Init, Calls, Working, Queued, Open, Counted
  <2>3. \A d \in Daemon : Held(d, Counted) = {} /\ pending[d] = 0
    BY Zenon DEF Init, Held, Counted
  <2>4. Counting
    BY <2>3, FS_EmptySet, Zenon DEF Init, Counting, PendingCounts
  <2>5. IdleExitAbandonsNone
    BY <2>3, Zenon DEF IdleExitAbandonsNone
  <2> QED
    BY <2>1, <2>2, <2>4, <2>5, Zenon DEF RInv
<1>2. IInv /\ RInv /\ [Next]_vars => RInv'
  BY RequestTypesNext, CallsNext, WorkingNext, QueuedNext, CountingNext, Zenon DEF RInv
<1> QED
  BY <1>1, <1>2, InductiveInvariant, PTL DEF Spec

\* The types, and with them that pending_requests never falls below zero and a client
\* never has less than no attempts left.
THEOREM TypeCorrect == Spec => []TypeOK
<1>1. IInv /\ RInv => TypeOK
  BY Zenon DEF IInv, RInv, Types, QueueTypes, RequestTypes, Counting, TypeOK
<1> QED
  BY <1>1, RequestInvariant, PTL

\* For any number of requests, pending_requests counts those between their acceptance and
\* their answer: no path of read_and_queue or run_server forgets finish_request or calls it
\* twice.
THEOREM PendingCountsHolds == Spec => []PendingCounts
<1>1. RInv => PendingCounts
  BY Zenon DEF RInv, Counting
<1> QED
  BY <1>1, RequestInvariant, PTL

\* A daemon that leaves because it is idle abandons no request that it had counted when it
\* decided to (the check of pending_requests in run_server).
THEOREM IdleExitAbandonsNoneHolds == Spec => []IdleExitAbandonsNone
<1>1. RInv => IdleExitAbandonsNone
  BY Zenon DEF RInv
<1> QED
  BY <1>1, RequestInvariant, PTL
=============================================================================
