------------------------- MODULE SolverWorkerProofs -------------------------
(***************************************************************************)
(* Proofs about the recurrence-solver client and its workers.              *)
(***************************************************************************)
EXTENDS SolverWorker, TLAPS

(***************************************************************************)
(* Types                                                                   *)
(***************************************************************************)
\* A request is a sequence of chunks that starts with its header.
LEMMA MessageType ==
  ASSUME NEW r \in Request, NEW n \in Nat
  PROVE  /\ Message(r, n) \in Seq(Chunk)
         /\ Message(r, n) # <<>>
         /\ Len(Message(r, n)) = 2 + Size[r.rec]
<1>1. Size[r.rec] \in Nat \ {0} /\ r.rec \in Recurrence
  BY SizeOK DEF Request
<1>2. \A i \in 1..(2 + Size[r.rec]) : Message(r, n)[i] \in Chunk
  BY <1>1 DEF Message, Chunk
<1> DEFINE k == 2 + Size[r.rec]
<1>3. k \in Nat /\ k # 0
  BY <1>1
<1>4. Message(r, n) \in [1..k -> Chunk]
  BY <1>2 DEF Message
<1>5. Message(r, n) \in Seq(Chunk)
  <2> HIDE DEF k
  <2> QED BY <1>3, <1>4
<1>6. Len(Message(r, n)) = k
  <2> HIDE DEF k
  <2>1. DOMAIN Message(r, n) = 1..k
    BY <1>4
  <2> QED BY <1>3, <1>5, <2>1
<1> QED
  BY <1>3, <1>5, <1>6

\* Replacing one worker of a sequence of workers.
LEMMA UpdateType ==
  ASSUME NEW ps \in Seq(Worker), NEW p \in DOMAIN ps, NEW v \in Worker
  PROVE  /\ [ps EXCEPT ![p] = v] \in Seq(Worker)
         /\ Len([ps EXCEPT ![p] = v]) = Len(ps)
         /\ DOMAIN [ps EXCEPT ![p] = v] = DOMAIN ps
  OBVIOUS

LEMMA CorpseType ==
  ASSUME NEW v \in Worker
  PROVE  Corpse(v) \in Worker
<1>1. NewWorker \in Worker
  BY DEF NewWorker, Worker
<1> QED
  BY <1>1 DEF Corpse, Worker

\* Which steps have a worker, and that write_all has something to write.
Placed ==
  /\ step \in {"poll", "write", "head", "body", "close", "reap", "await"} =>
       pid # 0
  /\ step = "stopped" => pid = 0
  /\ step \in {"poll", "write"} => unsent # <<>>
TypeInv == TypeOK /\ Placed

\* With a worker in use, it is one that was started.
LEMMA CurrentWorker ==
  ASSUME TypeOK, pid # 0
  PROVE  /\ pid \in DOMAIN procs
         /\ w \in Worker
  BY DEF TypeOK, w

\* Call and return.
LEMMA CallTyped ==
  ASSUME TypeInv, NEW r \in Request, CacheHit(r) \/ CacheMiss(r)
  PROVE  TypeInv'
<1>1. Key(r) \in DOMAIN cache => cache[Key(r)] \in Recurrence \cup {None}
  BY DEF TypeInv, TypeOK
<1>2. attempt' \in 1..Attempts /\ calls' \in 0..MaxCalls
  BY BoundsOK DEF CacheHit, CacheMiss, Call, Attempts, TypeInv, TypeOK
<1>3. CASE CacheHit(r)
  BY <1>1, <1>2, <1>3 DEF TypeInv, TypeOK, Placed, CacheHit, Call, Return
<1>4. CASE CacheMiss(r)
  BY <1>2, <1>4 DEF TypeInv, TypeOK, Placed, CacheMiss, Call
<1> QED
  BY <1>3, <1>4

\* The start of a request.
LEMMA SendTyped ==
  ASSUME TypeInv, Reuse \/ Start \/ StartFails
  PROVE  TypeInv'
<1>1. /\ Message(req, nextId) \in Seq(Chunk)
      /\ Message(req, nextId) # <<>>
  BY MessageType DEF TypeInv, TypeOK
<1>2. CASE Reuse
  BY <1>1, <1>2 DEF TypeInv, TypeOK, Placed, Reuse, Send
<1>3. CASE Start
  <2>1. NewWorker \in Worker
    BY DEF NewWorker, Worker
  <2>2. /\ procs' \in Seq(Worker) /\ Len(procs') = Len(procs) + 1
        /\ pid' \in 0..Len(procs') /\ pid' # 0
    BY <1>3, <2>1 DEF Start, TypeInv, TypeOK
  <2> QED
    BY <1>1, <1>3, <2>2 DEF TypeInv, TypeOK, Placed, Start, Send
<1>4. CASE StartFails
  BY <1>4 DEF TypeInv, TypeOK, Placed, StartFails, Fail, Leave, NoHead, Reply
<1> QED
  BY <1>2, <1>3, <1>4

\* The exchange of a request and its response.
LEMMA ExchangeTyped ==
  ASSUME TypeInv, Poll \/ Write \/ ReadHead \/ ReadBody \/ Broken \/ Timeout
  PROVE  TypeInv'
<1>1. pid # 0 /\ pid \in DOMAIN procs /\ w \in Worker /\ procs \in Seq(Worker)
  BY CurrentWorker
     DEF TypeInv, TypeOK, Placed, Poll, Write, ReadHead, ReadBody, Broken,
         Timeout, Unread
<1>2. CASE Poll
  BY <1>2 DEF TypeInv, TypeOK, Placed, Poll
<1>3. CASE Write
  <2>1. unsent \in Seq(Chunk) /\ unsent # <<>>
    BY <1>3 DEF Write, TypeInv, TypeOK, Placed
  <2> DEFINE v == [w EXCEPT !.in = Append(@, Head(unsent))]
  <2>2. v \in Worker
    <3>1. Append(w.in, Head(unsent)) \in Seq(Chunk)
      BY <1>1, <2>1 DEF Worker
    <3> QED BY <1>1, <3>1 DEF Worker
  <2>3. procs' = [procs EXCEPT ![pid] = v]
    BY <1>3 DEF Write, w
  <2>4. procs' \in Seq(Worker) /\ Len(procs') = Len(procs)
    <3> HIDE DEF v
    <3> QED BY <1>1, <2>2, <2>3, UpdateType
  <2>5. /\ unsent' \in Seq(Chunk)
        /\ step' \in {"head", "write", "poll"}
        /\ step' # "head" => unsent' # <<>>
    <3>1. unsent' = Tail(unsent) /\ Tail(unsent) \in Seq(Chunk)
      BY <1>3, <2>1 DEF Write
    <3>2. step' = IF unsent' = <<>> THEN "head"
                  ELSE IF Head(unsent).kind = "rec" THEN "write" ELSE "poll"
      BY <1>3 DEF Write
    <3> QED BY <3>1, <3>2
  <2> QED
    BY <1>1, <1>3, <2>4, <2>5 DEF TypeInv, TypeOK, Placed, Write
<1>4. ASSUME ReadHead \/ ReadBody
      PROVE  /\ Head(w.out) \in Reply
             /\ procs' \in Seq(Worker) /\ Len(procs') = Len(procs)
  <2>1. w.out \in Seq(Reply) /\ w.out # <<>>
    BY <1>1, <1>4 DEF ReadHead, ReadBody, Worker
  <2> DEFINE v == [w EXCEPT !.out = Tail(@)]
  <2>2. v \in Worker
    <3>1. Tail(w.out) \in Seq(Reply)
      BY <2>1
    <3> QED BY <1>1, <3>1 DEF Worker
  <2>3. procs' = [procs EXCEPT ![pid] = v]
    BY <1>4 DEF ReadHead, ReadBody, w
  <2>4. procs' \in Seq(Worker) /\ Len(procs') = Len(procs)
    <3> HIDE DEF v
    <3> QED BY <1>1, <2>2, <2>3, UpdateType
  <2> QED
    BY <2>1, <2>4
<1>5. CASE ReadHead
  <2>1. NoHead \in Reply
    BY DEF NoHead, Reply
  <2>2. CASE Head(w.out).kind = "status"
    BY <1>1, <1>4, <1>5, <2>2 DEF TypeInv, TypeOK, Placed, ReadHead
  <2>3. CASE Head(w.out).kind # "status"
    BY <1>1, <1>4, <1>5, <2>1, <2>3
       DEF TypeInv, TypeOK, Placed, ReadHead, Fail, Leave
  <2> QED BY <2>2, <2>3
<1>6. CASE ReadBody
  <2>1. Key(req) \in IndVar \X Recurrence
    BY DEF Key, Request, TypeInv, TypeOK
  <2>2. Head(w.out).rec \in Recurrence \cup {None}
    BY <1>4, <1>6 DEF Reply
  <2>3. /\ DOMAIN cache' \subseteq IndVar \X Recurrence
        /\ \A k \in DOMAIN cache' : cache'[k] \in Recurrence \cup {None}
    BY <1>6, <2>1, <2>2 DEF ReadBody, TypeInv, TypeOK
  <2>4. /\ step' \in {"quit", "idle"}
        /\ outcome' \in [kind: {"none", "ok", "error", "timeout", "failed"},
                         rec: Recurrence \cup {None}]
        /\ failure' \in {"broken", "timeout", "reset"}
        /\ id' = 0 /\ unsent' = <<>> /\ head' = NoHead
    BY <1>6, <2>2 DEF ReadBody, Return, Fail, Leave, TypeInv, TypeOK
  <2> QED
    BY <1>1, <1>4, <1>6, <2>3, <2>4
       DEF TypeInv, TypeOK, Placed, ReadBody, NoHead, Reply
<1>7. CASE Broken
  BY <1>7 DEF TypeInv, TypeOK, Placed, Broken, Fail, Leave, NoHead, Reply
<1>8. CASE Timeout
  BY <1>8 DEF TypeInv, TypeOK, Placed, Timeout, Fail, Leave, NoHead, Reply
<1> QED
  BY <1>2, <1>3, <1>5, <1>6, <1>7, <1>8

\* stop() and what follows it.
LEMMA StopTyped ==
  ASSUME TypeInv,
         \/ Reset \/ SendQuit \/ NothingToStop \/ Close \/ Reap \/ Await
         \/ Retry \/ GiveUp \/ Cleared
  PROVE  TypeInv'
<1>1. pid # 0 => /\ pid \in DOMAIN procs /\ w \in Worker
                 /\ procs \in Seq(Worker) /\ DOMAIN procs = 1..Len(procs)
  BY CurrentWorker DEF TypeInv, TypeOK
<1>2. CASE Reset
  <2>1. calls' \in 0..MaxCalls
    BY <1>2, BoundsOK DEF Reset, TypeInv, TypeOK
  <2> QED BY <1>2, <2>1 DEF Reset, TypeInv, TypeOK, Placed
<1>3. ASSUME NEW v \in Worker, pid # 0, procs' = [procs EXCEPT ![pid] = v]
      PROVE  procs' \in Seq(Worker) /\ Len(procs') = Len(procs)
  BY <1>1, <1>3, UpdateType
<1>4. CASE SendQuit
  <2>1. procs' \in Seq(Worker) /\ Len(procs') = Len(procs)
    <3>1. CASE Dead
      BY <1>4, <3>1 DEF SendQuit, TypeInv, TypeOK
    <3>2. CASE ~Dead
      <4> DEFINE v == [w EXCEPT !.in = Append(@, Quit)]
      <4>1. Append(w.in, Quit) \in Seq(Chunk)
        BY <1>1, <1>4 DEF SendQuit, Worker, Quit, Chunk
      <4>2. v \in Worker
        BY <1>1, <1>4, <4>1 DEF SendQuit, Worker
      <4>3. pid # 0 /\ procs' = [procs EXCEPT ![pid] = v]
        BY <1>4, <3>2 DEF SendQuit, w
      <4> HIDE DEF v
      <4> QED BY <1>3, <4>2, <4>3
    <3> QED BY <3>1, <3>2
  <2> QED BY <1>4, <2>1 DEF SendQuit, TypeInv, TypeOK, Placed
<1>5. CASE NothingToStop
  BY <1>5 DEF NothingToStop, TypeInv, TypeOK, Placed
<1>6. CASE Close
  <2> DEFINE v == [w EXCEPT !.open = FALSE, !.out = <<>>]
  <2>0. pid # 0
    BY <1>6 DEF Close, TypeInv, Placed
  <2>1. v \in Worker
    <3>1. <<>> \in Seq(Reply)
      OBVIOUS
    <3> QED BY <1>1, <2>0, <3>1 DEF Worker
  <2>2. procs' = [procs EXCEPT ![pid] = v]
    BY <1>1, <1>6, <2>0 DEF Close, w, TypeInv, TypeOK
  <2>3. procs' \in Seq(Worker) /\ Len(procs') = Len(procs)
    <3> HIDE DEF v
    <3> QED BY <1>3, <2>0, <2>1, <2>2
  <2> QED BY <1>6, <2>0, <2>3 DEF Close, TypeInv, TypeOK, Placed
<1>7. CASE Reap
  <2>0. pid # 0
    BY <1>7 DEF Reap, TypeInv, Placed
  <2>1. CASE Dead
    BY <1>7, <2>1 DEF Reap, TypeInv, TypeOK, Placed
  <2>2. CASE ~Dead
    <3> DEFINE v == [w EXCEPT !.term = TRUE]
    <3>1. v \in Worker
      BY <1>1, <2>0 DEF Worker
    <3>2. procs' = [procs EXCEPT ![pid] = v]
      BY <1>7, <2>2 DEF Reap, w
    <3>3. procs' \in Seq(Worker) /\ Len(procs') = Len(procs)
      <4> HIDE DEF v
      <4> QED BY <1>3, <2>0, <3>1, <3>2
    <3> QED BY <1>7, <2>0, <2>2, <3>3 DEF Reap, TypeInv, TypeOK, Placed
  <2> QED BY <2>1, <2>2
<1>8. CASE Await
  BY <1>8 DEF Await, TypeInv, TypeOK, Placed
<1>9. CASE Retry
  <2>1. attempt' \in 1..Attempts
    BY <1>9 DEF Retry, TypeInv, TypeOK, Attempts
  <2> QED BY <1>9, <2>1 DEF Retry, TypeInv, TypeOK, Placed
<1>10. CASE GiveUp
  BY <1>10 DEF GiveUp, Return, TypeInv, TypeOK, Placed
<1>11. CASE Cleared
  BY <1>11 DEF Cleared, Return, TypeInv, TypeOK, Placed
<1> QED
  BY <1>2, <1>4, <1>5, <1>6, <1>7, <1>8, <1>9, <1>10, <1>11
-----------------------------------------------------------------------------
(***************************************************************************)
(* A step of a worker touches nothing of the client, and no other worker.  *)
(* None comes back to life.                                                *)
(***************************************************************************)
LEMMA WorkerTyped ==
  ASSUME TypeInv, NEW p \in DOMAIN procs, WorkerStep(p)
  PROVE  /\ UNCHANGED client
         /\ procs[p].state # "dead"
         /\ \E v \in Worker : procs' = [procs EXCEPT ![p] = v]
<1> DEFINE v == procs[p]
<1>0. procs \in Seq(Worker) /\ v \in Worker /\ Corpse(v) \in Worker
  BY CorpseType DEF TypeInv, TypeOK
<1>1. CASE Boot(p)
  <2>1. [v EXCEPT !.state = "waiting"] \in Worker
    BY <1>0 DEF Worker
  <2> QED BY <1>1, <2>1 DEF Boot, Does
<1>2. CASE ReadLine(p)
  <2> DEFINE c == Head(v.in)
             u == [v EXCEPT !.in = Tail(@), !.id = c.id, !.rec = c.rec,
                            !.ok = FALSE]
  <2>1. v.in \in Seq(Chunk) /\ v.in # <<>>
    BY <1>0, <1>2 DEF ReadLine, Worker
  <2>2. c \in Chunk /\ Tail(v.in) \in Seq(Chunk)
    BY <2>1
  <2>3. c.id \in Nat /\ c.rec \in Recurrence \cup {None}
    BY <2>2 DEF Chunk, Quit
  <2>4. u \in Worker
    <3> HIDE DEF c
    <3> QED BY <1>0, <2>2, <2>3 DEF Worker
  <2>5. c.kind = "solve" => 1 + Size[c.rec] \in Int
    BY <2>2, SizeOK, NoneOK DEF Chunk, Quit
  <2>6. /\ Corpse(u) \in Worker
        /\ c.kind = "solve" =>
             [u EXCEPT !.state = "reading", !.need = 1 + Size[c.rec]] \in Worker
        /\ [u EXCEPT !.state = "answering"] \in Worker
    <3> HIDE DEF c, u
    <3> QED BY <2>4, <2>5, CorpseType DEF Worker
  <2>7. procs' = [procs EXCEPT ![p] =
           CASE c.kind = "quit" -> Corpse(u)
             [] c.kind = "solve" -> [u EXCEPT !.state = "reading",
                                              !.need = 1 + Size[c.rec]]
             [] OTHER -> [u EXCEPT !.state = "answering"]]
    BY <1>2 DEF ReadLine
  <2>8. \E x \in Worker : procs' = [procs EXCEPT ![p] = x]
    <3> HIDE DEF c, u
    <3>1. CASE c.kind = "quit"
      BY <2>6, <2>7, <3>1
    <3>2. CASE c.kind = "solve"
      BY <2>6, <2>7, <3>2
    <3>3. CASE c.kind \notin {"quit", "solve"}
      BY <2>6, <2>7, <3>3
    <3> QED BY <3>1, <3>2, <3>3
  <2> QED BY <1>2, <2>8 DEF ReadLine, Does
<1>3. CASE ReadPayload(p)
  <2> DEFINE c == Head(v.in)
             n == v.need - (IF c.kind = "quit" THEN 0 ELSE 1)
             u == [v EXCEPT !.in = Tail(@), !.rec = c.rec, !.need = n,
                            !.state = IF n = 0 THEN "solving" ELSE @]
  <2>1. v.in \in Seq(Chunk) /\ v.in # <<>>
    BY <1>0, <1>3 DEF ReadPayload, Worker
  <2>2. c \in Chunk /\ Tail(v.in) \in Seq(Chunk)
    BY <2>1
  <2>3. c.rec \in Recurrence \cup {None} /\ n \in Int
    <3>1. c.rec \in Recurrence \cup {None}
      BY <2>2 DEF Chunk, Quit
    <3>2. v.need \in Int
      BY <1>0 DEF Worker
    <3> HIDE DEF c
    <3> QED BY <3>1, <3>2
  <2>4. u \in Worker
    <3> HIDE DEF c, n
    <3> QED BY <1>0, <2>2, <2>3 DEF Worker
  <2>5. procs' = [procs EXCEPT ![p] = u]
    BY <1>0, <1>3 DEF ReadPayload, Worker
  <2> HIDE DEF u
  <2> QED BY <1>3, <2>4, <2>5 DEF ReadPayload, Does
<1>4. CASE EndOfInput(p) \/ BrokenPipe(p) \/ Die(p) \/ Terminate(p)
  BY <1>0, <1>4 DEF EndOfInput, BrokenPipe, Die, Terminate, Does, Alive
<1>5. CASE Solve(p)
  <2>1. PICK ok \in BOOLEAN :
          procs' = [procs EXCEPT ![p].state = "answering", ![p].ok = ok]
    BY <1>5 DEF Solve
  <2>2. [v EXCEPT !.state = "answering", !.ok = ok] \in Worker
    BY <1>0 DEF Worker
  <2>3. procs' = [procs EXCEPT ![p] =
                    [v EXCEPT !.state = "answering", !.ok = ok]]
    BY <1>0, <2>1
  <2> QED BY <1>5, <2>2, <2>3 DEF Solve, Does
<1>6. ASSUME NEW state \in {"answering", "finishing"},
             NEW kind \in {"status", "payload"},
             NEW next \in {"finishing", "waiting"},
             Respond(p, state, kind, next)
      PROVE  /\ UNCHANGED client
             /\ procs[p].state # "dead"
             /\ \E x \in Worker : procs' = [procs EXCEPT ![p] = x]
  <2> DEFINE r == [kind |-> kind, id |-> v.id, ok |-> v.ok, rec |-> v.rec]
             u == [v EXCEPT !.state = next, !.out = Append(@, r)]
  <2>1. r \in Reply
    BY <1>0 DEF Reply, Worker
  <2>2. Append(v.out, r) \in Seq(Reply)
    <3> HIDE DEF r
    <3> QED BY <1>0, <2>1 DEF Worker
  <2>3. u \in Worker
    <3> HIDE DEF r
    <3> QED BY <1>0, <2>2 DEF Worker
  <2>4. procs' = [procs EXCEPT ![p] = u]
    BY <1>0, <1>6 DEF Respond
  <2> HIDE DEF u
  <2> QED BY <1>6, <2>3, <2>4 DEF Respond, Does
<1>7. CASE WriteHeader(p)
  BY <1>6, <1>7 DEF WriteHeader
<1>8. CASE WritePayload(p)
  BY <1>6, <1>8 DEF WritePayload
<1> QED
  BY <1>1, <1>2, <1>3, <1>4, <1>5, <1>7, <1>8 DEF WorkerStep

-----------------------------------------------------------------------------
(***************************************************************************)
(* Invariants                                                              *)
(***************************************************************************)
LEMMA InitTyped == Init => TypeInv /\ NoOrphan
<1> SUFFICES ASSUME Init
             PROVE  TypeInv /\ NoOrphan
  OBVIOUS
<1>1. procs \in Seq(Worker) /\ procs = <<>> /\ unsent \in Seq(Chunk)
  BY DEF Init
<1>2. DOMAIN cache = {}
  BY DEF Init
<1>3. head \in Reply /\ attempt \in 1..Attempts /\ calls \in 0..MaxCalls
  BY BoundsOK DEF Init, NoHead, Reply, Attempts
<1>4. Alive = {}
  BY <1>1 DEF Alive
<1>5. pid \in 0..Len(procs)
  BY <1>1 DEF Init
<1>6. /\ DOMAIN cache \subseteq IndVar \X Recurrence
      /\ \A k \in DOMAIN cache : cache[k] \in Recurrence \cup {None}
  BY <1>2
<1>7. outcome \in [kind: {"none", "ok", "error", "timeout", "failed"},
                  rec: Recurrence \cup {None}]
  BY DEF Init
<1>8. /\ nextId \in Nat \ {0} /\ id \in Nat /\ req \in Request
      /\ failure \in {"broken", "timeout", "reset"}
      /\ step \in {"idle", "start", "poll", "write", "head", "body", "quit",
                   "close", "reap", "await", "stopped"}
  BY DEF Init
<1>9. fresh \in BOOLEAN
  BY Zenon DEF Init
<1>10. TypeOK
  BY Zenon, <1>1, <1>3, <1>5, <1>6, <1>7, <1>8, <1>9 DEF TypeOK
<1> QED
  BY <1>4, <1>10 DEF Init, TypeInv, Placed, NoOrphan

LEMMA StepTyped ==
  ASSUME TypeInv, [Next]_vars
  PROVE  TypeInv'
<1>1. CASE UNCHANGED vars
  BY <1>1 DEF vars, client, TypeInv, TypeOK, Placed
<1>2. CASE \E r \in Request : CacheHit(r) \/ CacheMiss(r)
  BY <1>2, CallTyped
<1>3. CASE Reset \/ Client
  BY <1>3, SendTyped, ExchangeTyped, StopTyped DEF Client
<1>4. ASSUME NEW p \in DOMAIN procs, WorkerStep(p)
      PROVE  TypeInv'
  <2>1. procs' \in Seq(Worker) /\ Len(procs') = Len(procs)
    <3>1. PICK v \in Worker : procs' = [procs EXCEPT ![p] = v]
      BY <1>4, WorkerTyped
    <3> QED BY <3>1, UpdateType DEF TypeInv, TypeOK
  <2>2. UNCHANGED client
    BY <1>4, WorkerTyped
  <2> QED
    BY <2>1, <2>2 DEF client, TypeInv, TypeOK, Placed
<1> QED
  BY <1>1, <1>2, <1>3, <1>4 DEF Next

\* The client and its workers keep their types and ranges.
THEOREM SolverTypeCorrect == Spec => []TypeOK
<1>1. Init => TypeInv
  BY InitTyped
<1>2. TypeInv /\ [Next]_vars => TypeInv'
  BY StepTyped
<1>3. TypeInv => TypeOK
  BY DEF TypeInv
<1> QED
  BY <1>1, <1>2, <1>3, PTL DEF Spec

\* The client lets go of a worker only when it is dead, and starts one only
\* when it has let go of the last.
LEMMA StepNoOrphan ==
  ASSUME TypeInv, NoOrphan, [Next]_vars
  PROVE  NoOrphan'
<1>0. procs \in Seq(Worker) /\ DOMAIN procs = 1..Len(procs)
  BY DEF TypeInv, TypeOK
<1>1. CASE pid' = pid /\ Alive' \subseteq Alive
  BY <1>1 DEF NoOrphan
<1>2. CASE Start
  <2>1. pid = 0 /\ Alive = {}
    BY <1>0, <1>2 DEF Start, NoOrphan, Alive
  <2>2. procs' = Append(procs, NewWorker) /\ pid' = Len(procs) + 1
    BY <1>2 DEF Start
  <2>3. Alive' \subseteq {pid'}
    BY <1>0, <2>1, <2>2 DEF Alive
  <2> QED BY <2>3 DEF NoOrphan
<1>3. CASE Await \/ (Reap /\ Dead)
  <2>1. pid \notin Alive /\ procs' = procs
    BY <1>3 DEF Await, Reap, Dead, w, Alive
  <2>2. Alive' = {}
    BY <2>1 DEF NoOrphan, Alive
  <2> QED BY <2>2 DEF NoOrphan
<1>4. ASSUME UNCHANGED <<pid, procs>>
      PROVE  pid' = pid /\ Alive' \subseteq Alive
  BY <1>4 DEF Alive
<1>5. ASSUME Write \/ ReadHead \/ ReadBody \/ SendQuit \/ Close
             \/ (Reap /\ ~Dead)
      PROVE  pid' = pid /\ Alive' \subseteq Alive
  <2>1. pid' = pid /\ DOMAIN procs' = DOMAIN procs
    BY <1>5 DEF Write, ReadHead, ReadBody, SendQuit, Close, Reap
  <2>2. \A q \in DOMAIN procs : procs'[q].state = procs[q].state
    <3>1. CASE Write
      BY SMTT(90), <1>0, <3>1 DEF Write, Worker
    <3>2. CASE ReadHead \/ ReadBody
      <4>1. procs' = [procs EXCEPT ![pid].out = Tail(@)]
        BY <3>2 DEF ReadHead, ReadBody
      <4> QED BY SMTT(90), <1>0, <4>1 DEF Worker
    <3>3. CASE SendQuit
      BY SMTT(90), ZenonT(90), <1>0, <3>3 DEF SendQuit, Worker
    <3>4. CASE Close
      BY SMTT(90), <1>0, <3>4 DEF Close, Worker
    <3>5. CASE Reap /\ ~Dead
      <4>1. procs' = [procs EXCEPT ![pid].term = TRUE]
        BY <3>5 DEF Reap
      <4> QED BY SMTT(90), <1>0, <4>1 DEF Worker
    <3> QED BY <1>5, <3>1, <3>2, <3>3, <3>4, <3>5
  <2> QED BY <2>1, <2>2 DEF Alive
<1>6. ASSUME NEW p \in DOMAIN procs, WorkerStep(p)
      PROVE  pid' = pid /\ Alive' \subseteq Alive
  <2>1. PICK v \in Worker : procs' = [procs EXCEPT ![p] = v]
    BY <1>6, WorkerTyped
  <2>2. pid' = pid /\ p \in Alive
    BY <1>6, WorkerTyped DEF client, Alive
  <2> QED BY <2>1, <2>2 DEF Alive
<1>7. CASE \/ \E r \in Request : CacheHit(r) \/ CacheMiss(r)
           \/ Reset \/ Reuse \/ StartFails \/ Poll \/ Broken \/ Timeout
           \/ NothingToStop \/ Retry \/ GiveUp \/ Cleared \/ UNCHANGED vars
  <2>1. UNCHANGED <<pid, procs>>
    BY <1>7
       DEF CacheHit, CacheMiss, Reset, Reuse, StartFails, Poll, Broken,
           Timeout, NothingToStop, Retry, GiveUp, Cleared, vars, client
  <2> QED BY <1>1, <1>4, <2>1
<1> QED
  BY <1>1, <1>2, <1>3, <1>5, <1>6, <1>7 DEF Next, Client

\* No worker process is ever left behind, whatever the workers do and
\* however the calls end.
THEOREM NoWorkerLeftBehind == Spec => []NoOrphan
<1>1. Init => TypeInv /\ NoOrphan
  BY InitTyped
<1>2. TypeInv /\ NoOrphan /\ [Next]_vars => TypeInv' /\ NoOrphan'
  BY StepTyped, StepNoOrphan
<1> QED
  BY <1>1, <1>2, PTL DEF Spec
-----------------------------------------------------------------------------
(***************************************************************************)
(* The protocol: what the worker and the two pipes hold at each step.      *)
(***************************************************************************)
\* Two attempts at a request, and what is between two requests.
Asking == step \in {"poll", "write", "head", "body"}
Between == step \in {"idle", "start"}

\* Chunks and replies of the request in progress.
Ours(c) == c.kind # "quit" /\ c.id = id /\ c.rec = req.rec
OursOnly(s) == \A i \in DOMAIN s : Ours(s[i])
AnswersOnly(s) == \A i \in DOMAIN s : s[i].id = id /\ s[i].rec = req.rec

\* How much of the request a worker still has to read.
Pending(v) == Len(v.in) + Len(unsent)

\* The stages a live worker goes through with a request: it has read nothing
\* of it, is reading, works on it, has written the header, has answered.
Untouched(v) ==
  /\ v.state \in {"booting", "waiting"}
  /\ step # "body" /\ v.out = <<>>
  /\ Pending(v) = 2 + Size[req.rec]
  /\ IF v.in # <<>> THEN v.in[1].kind = "solve" ELSE unsent[1].kind = "solve"
Reads(v) ==
  /\ v.state = "reading"
  /\ step # "body" /\ v.out = <<>>
  /\ v.need = Pending(v) /\ v.need > 0
  /\ v.id = id
Works(v) ==
  /\ v.state \in {"solving", "answering"}
  /\ step = "head" /\ v.in = <<>> /\ v.out = <<>>
  /\ v.id = id /\ v.rec = req.rec
Finishes(v) ==
  /\ v.state = "finishing"
  /\ \/ step = "head" /\ Len(v.out) = 1
     \/ step = "body" /\ Len(v.out) = 0
  /\ v.in = <<>>
  /\ v.id = id /\ v.rec = req.rec
Answered(v) ==
  /\ v.state = "waiting"
  /\ \/ step = "head" /\ Len(v.out) = 2
     \/ step = "body" /\ Len(v.out) = 1
  /\ v.in = <<>>
Stage(v) ==
  \/ Untouched(v) \/ Reads(v) \/ Works(v) \/ Finishes(v) \/ Answered(v)

\* A corpse leaves at most the rest of one response.
Remains(v) ==
  /\ v.state = "dead"
  /\ step \in {"poll", "write"} => v.out = <<>>
  /\ step = "head" => Len(v.out) <= 2
  /\ step = "body" => Len(v.out) <= 1

Exchange(v) ==
  /\ AnswersOnly(v.out)
  /\ Remains(v) \/ (OursOnly(v.in) /\ Stage(v))
Clean(v) ==
  /\ v.out = <<>>
  /\ v.state # "dead" => v.state = "waiting" /\ v.in = <<>>

InStep ==
  /\ Asking => OursOnly(unsent) /\ Exchange(w)
  /\ step \in {"head", "body"} => unsent = <<>>
  /\ Between /\ pid # 0 => Clean(w)

\* A retry starts a worker of its own.
RetryStarts == attempt = 1 \/ fresh \/ (step = "start" /\ pid = 0)

LEMMA EmptyLength ==
  ASSUME NEW S, NEW s \in Seq(S)
  PROVE  Len(s) \in Nat /\ (Len(s) = 0 <=> s = <<>>)
  OBVIOUS

\* Dropping the first element of a sequence, or adding a last one.
LEMMA Rests ==
  ASSUME NEW S, NEW s \in Seq(S), s # <<>>
  PROVE  /\ Tail(s) \in Seq(S) /\ Len(Tail(s)) = Len(s) - 1
         /\ Head(s) = s[1] /\ 1 \in DOMAIN s
         /\ \A i \in DOMAIN Tail(s) : i + 1 \in DOMAIN s /\ Tail(s)[i] = s[i + 1]
         /\ OursOnly(s) => OursOnly(Tail(s))
         /\ AnswersOnly(s) => AnswersOnly(Tail(s))
<1>1. /\ Tail(s) \in Seq(S) /\ Len(Tail(s)) = Len(s) - 1
      /\ Head(s) = s[1] /\ 1 \in DOMAIN s
      /\ \A i \in DOMAIN Tail(s) : i + 1 \in DOMAIN s /\ Tail(s)[i] = s[i + 1]
  OBVIOUS
<1> QED
  BY <1>1 DEF OursOnly, AnswersOnly

LEMMA Grows ==
  ASSUME NEW S, NEW s \in Seq(S), NEW e \in S
  PROVE  /\ Append(s, e) \in Seq(S) /\ Len(Append(s, e)) = Len(s) + 1
         /\ Append(s, e) # <<>>
         /\ Append(s, e)[1] = IF s = <<>> THEN e ELSE s[1]
         /\ OursOnly(s) /\ Ours(e) => OursOnly(Append(s, e))
         /\ AnswersOnly(s) /\ e.id = id /\ e.rec = req.rec =>
              AnswersOnly(Append(s, e))
<1>1. /\ Append(s, e) \in Seq(S) /\ Len(Append(s, e)) = Len(s) + 1
      /\ Append(s, e) # <<>>
  <2>1. Append(s, e) \in Seq(S) /\ Len(Append(s, e)) = Len(s) + 1
    OBVIOUS
  <2>2. Len(s) \in Nat
    BY EmptyLength
  <2> QED BY <2>1, <2>2
<1>2. Append(s, e)[1] = IF s = <<>> THEN e ELSE s[1]
  <2>1. CASE s = <<>>
    BY <2>1
  <2>2. CASE s # <<>>
    <3>1. 1 \in DOMAIN s
      BY <2>2
    <3> QED BY <2>2, <3>1
  <2> QED BY <2>1, <2>2
<1>3. \A i \in DOMAIN Append(s, e) :
        (i \in DOMAIN s /\ Append(s, e)[i] = s[i]) \/ Append(s, e)[i] = e
  <2> SUFFICES ASSUME NEW i \in DOMAIN Append(s, e), i \notin DOMAIN s
               PROVE  Append(s, e)[i] = e
    OBVIOUS
  <2>1. i = Len(s) + 1
    <3>1. DOMAIN Append(s, e) = 1..(Len(s) + 1) /\ DOMAIN s = 1..Len(s)
      OBVIOUS
    <3>2. Len(s) \in Nat
      OBVIOUS
    <3> QED BY <3>1, <3>2
  <2> QED BY <2>1
<1> QED
  BY <1>1, <1>2, <1>3 DEF OursOnly, AnswersOnly

\* What a corpse leaves behind was there before.
LEMMA CorpseExchange ==
  ASSUME TypeInv, NEW v \in Worker, v.state # "dead"
  PROVE  /\ Exchange(v) => Exchange(Corpse(v))
         /\ Clean(v) => Clean(Corpse(v))
<1>1. Corpse(v).state = "dead" /\ Corpse(v).out = v.out
  BY DEF Corpse, NewWorker
<1>2. Clean(v) => Clean(Corpse(v))
  BY <1>1 DEF Clean
<1>3. Len(v.out) \in Nat /\ (v.out = <<>> <=> Len(v.out) = 0)
  BY EmptyLength DEF Worker
<1>4. ASSUME Stage(v)
      PROVE  Remains(Corpse(v))
  <2>1. CASE Untouched(v) \/ Reads(v) \/ Works(v)
    <3>1. v.out = <<>> /\ Len(v.out) <= 2 /\ Len(v.out) <= 1
      BY <1>3, <2>1 DEF Untouched, Reads, Works
    <3> QED BY <1>1, <3>1 DEF Remains
  <2>2. CASE Finishes(v) \/ Answered(v)
    <3>1. /\ step = "head" => Len(v.out) <= 2
          /\ step = "body" => Len(v.out) <= 1
          /\ step \notin {"poll", "write"}
      <4>1. \/ step = "head" /\ (Len(v.out) = 1 \/ Len(v.out) = 2)
            \/ step = "body" /\ (Len(v.out) = 0 \/ Len(v.out) = 1)
        BY <2>2 DEF Finishes, Answered
      <4> HIDE <2>2
      <4> DEFINE n == Len(v.out)
      <4>2. n \in Nat
        BY <1>3
      <4>3. \/ step = "head" /\ (n = 1 \/ n = 2)
            \/ step = "body" /\ (n = 0 \/ n = 1)
        BY <4>1
      <4> HIDE DEF n
      <4>4. /\ step = "head" => n <= 2
            /\ step = "body" => n <= 1
            /\ step \notin {"poll", "write"}
        BY <4>2, <4>3
      <4> QED BY <4>4 DEF n
    <3> QED BY <1>1, <3>1 DEF Remains
  <2> QED BY <1>4, <2>1, <2>2 DEF Stage
<1> QED
  BY <1>1, <1>2, <1>4 DEF Exchange, Remains

\* The length of what is to be sent, and whether there is any.
LEMMA Lengths ==
  ASSUME TypeInv, NEW v \in Worker
  PROVE  /\ Len(unsent) \in Nat /\ (Len(unsent) = 0 <=> unsent = <<>>)
         /\ Len(v.in) \in Nat /\ (Len(v.in) = 0 <=> v.in = <<>>)
         /\ Len(v.out) \in Nat /\ (Len(v.out) = 0 <=> v.out = <<>>)
         /\ Size[req.rec] \in Nat \ {0}
  BY SizeOK DEF TypeInv, TypeOK, Worker, Request

\* One line read: of the request, its header.
LEMMA ReadLineInStep ==
  ASSUME TypeInv, InStep, pid # 0, ReadLine(pid)
  PROVE  \E u : /\ procs' = [procs EXCEPT ![pid] = u]
                /\ Asking => Exchange(u)
                /\ Between => Clean(u)
<1> DEFINE v == w
           c == Head(v.in)
           u == [v EXCEPT !.in = Tail(@), !.id = c.id, !.rec = c.rec,
                          !.ok = FALSE]
           x == [u EXCEPT !.state = "reading", !.need = 1 + Size[c.rec]]
<1>1. v \in Worker /\ v.state = "waiting" /\ v.in # <<>> /\ v.in \in Seq(Chunk)
  BY CurrentWorker DEF ReadLine, Does, TypeInv, TypeOK, w, Worker
<1>2. procs' = [procs EXCEPT ![pid] =
           CASE c.kind = "quit" -> Corpse(u)
             [] c.kind = "solve" -> x
             [] OTHER -> [u EXCEPT !.state = "answering"]]
  BY DEF ReadLine, w
<1>3. ~Between
  BY <1>1 DEF InStep, Clean
<1>4. CASE Asking
  <2>1. /\ OursOnly(v.in) /\ AnswersOnly(v.out) /\ Untouched(v)
    BY <1>1, <1>4, Lengths
       DEF InStep, Exchange, Remains, Stage, Untouched, Reads, Works, Finishes,
           Answered
  <2>2. /\ c.kind = "solve" /\ c.id = id /\ c.rec = req.rec
        /\ OursOnly(Tail(v.in)) /\ Len(Tail(v.in)) = Len(v.in) - 1
    BY <1>1, <2>1, Rests DEF OursOnly, Ours, Untouched
  <2>3. procs' = [procs EXCEPT ![pid] = x]
    BY <1>2, <2>2
  <2>4. /\ x.state = "reading" /\ x.in = Tail(v.in) /\ x.out = v.out
        /\ x.id = id /\ x.need = 1 + Size[req.rec]
    <3>1. DOMAIN v = {"state", "term", "open", "in", "out", "need", "id",
                      "rec", "ok"}
      BY <1>1 DEF Worker
    <3> QED BY <2>2, <3>1
  <2>5. Reads(x)
    <3>1. Pending(x) = 1 + Size[req.rec]
      BY SMTT(90), <1>1, <2>1, <2>2, <2>4, Lengths DEF Pending, Untouched
    <3> HIDE DEF x
    <3> QED BY <1>1, <2>1, <2>4, <3>1, Lengths DEF Reads, Untouched
  <2>6. Exchange(x)
    <3> HIDE DEF x
    <3> QED BY <2>1, <2>2, <2>4, <2>5 DEF Exchange, Stage
  <2> QED BY <1>3, <2>3, <2>6
<1>5. CASE ~Asking
  BY <1>2, <1>3, <1>5
<1> QED
  BY <1>4, <1>5

\* A part of the request read: what is left of it is as much as is needed.
LEMMA ReadPayloadInStep ==
  ASSUME TypeInv, InStep, pid # 0, ReadPayload(pid)
  PROVE  \E u : /\ procs' = [procs EXCEPT ![pid] = u]
                /\ Asking => Exchange(u)
                /\ Between => Clean(u)
<1> DEFINE v == w
           c == Head(v.in)
           n == v.need - (IF c.kind = "quit" THEN 0 ELSE 1)
           u == [v EXCEPT !.in = Tail(@), !.rec = c.rec, !.need = n,
                          !.state = IF n = 0 THEN "solving" ELSE @]
<1>1. v \in Worker /\ v.state = "reading" /\ v.in # <<>> /\ v.in \in Seq(Chunk)
  BY CurrentWorker DEF ReadPayload, Does, TypeInv, TypeOK, w, Worker
<1>2. procs' = [procs EXCEPT ![pid] = u]
  BY <1>1, CurrentWorker DEF ReadPayload, w, TypeInv, TypeOK, Worker
<1>3. ~Between
  BY <1>1 DEF InStep, Clean
<1>4. ASSUME Asking PROVE Exchange(u)
  <2>1. /\ OursOnly(v.in) /\ AnswersOnly(v.out) /\ Reads(v)
    BY <1>1, <1>4
       DEF InStep, Exchange, Remains, Stage, Untouched, Reads, Works, Finishes,
           Answered
  <2>2. /\ c.kind # "quit" /\ c.rec = req.rec
        /\ OursOnly(Tail(v.in)) /\ Len(Tail(v.in)) = Len(v.in) - 1
    BY <1>1, <2>1, Rests DEF OursOnly, Ours
  <2>3. /\ u.in = Tail(v.in) /\ u.out = <<>> /\ u.out = v.out /\ u.id = id
        /\ u.rec = req.rec /\ u.need = v.need - 1
        /\ u.state = IF v.need - 1 = 0 THEN "solving" ELSE "reading"
    <3>1. DOMAIN v = {"state", "term", "open", "in", "out", "need", "id",
                      "rec", "ok"}
      BY <1>1 DEF Worker
    <3>2. n = v.need - 1
      BY <2>2
    <3> QED BY <1>1, <2>1, <2>2, <3>1, <3>2 DEF Reads
  <2>4. Pending(u) = v.need - 1 /\ v.need \in Nat
    <3> HIDE DEF u
    <3> QED BY <1>1, <2>1, <2>2, <2>3, Lengths DEF Reads, Pending
  <2>5. Len(Tail(v.in)) \in Nat /\ (Len(Tail(v.in)) = 0 => Tail(v.in) = <<>>)
    <3>1. Tail(v.in) \in Seq(Chunk)
      BY <1>1
    <3> QED BY <3>1, EmptyLength
  <2>6. CASE v.need - 1 = 0
    <3>1. Len(unsent) = 0 /\ Len(u.in) = 0
      <4>1. Len(u.in) \in Nat /\ Len(unsent) \in Nat
        <5> HIDE DEF u
        <5> QED BY <1>1, <2>3, <2>5, Lengths
      <4>2. Len(u.in) + Len(unsent) = 0
        <5> HIDE DEF u
        <5> QED BY <2>4, <2>6 DEF Pending
      <4> HIDE DEF u
      <4> QED BY <4>1, <4>2
    <3>2. unsent = <<>> /\ u.in = <<>>
      <4> HIDE DEF u
      <4> QED BY <1>1, <2>3, <2>5, <3>1, Lengths
    <3>3. step = "head"
      BY <1>4, <2>1, <3>2 DEF Asking, Reads, TypeInv, Placed
    <3>4. Works(u)
      <4> HIDE DEF u
      <4> QED BY <2>3, <2>6, <3>2, <3>3 DEF Works
    <3> HIDE DEF u
    <3> QED BY <2>1, <2>2, <2>3, <3>4 DEF Exchange, Stage
  <2>7. CASE v.need - 1 # 0
    <3>1. Reads(u)
      <4> HIDE DEF u
      <4> QED BY <2>1, <2>3, <2>4, <2>7 DEF Reads
    <3> HIDE DEF u
    <3> QED BY <2>1, <2>2, <2>3, <3>1 DEF Exchange, Stage
  <2> QED BY <2>6, <2>7
<1> HIDE DEF u
<1> QED
  BY <1>2, <1>3, <1>4

\* A part of the response written.
LEMMA RespondInStep ==
  ASSUME TypeInv, InStep, pid # 0, WriteHeader(pid) \/ WritePayload(pid)
  PROVE  \E u : /\ procs' = [procs EXCEPT ![pid] = u]
                /\ Asking => Exchange(u)
                /\ Between => Clean(u)
<1>1. PICK state \in {"answering", "finishing"},
           kind \in {"status", "payload"}, next \in {"finishing", "waiting"} :
        /\ state = "answering" <=> next = "finishing"
        /\ Respond(pid, state, kind, next)
  BY DEF WriteHeader, WritePayload
<1> DEFINE r == [kind |-> kind, id |-> w.id, ok |-> w.ok, rec |-> w.rec]
           u == [w EXCEPT !.state = next, !.out = Append(@, r)]
<1>2. w \in Worker /\ w.state = state /\ procs' = [procs EXCEPT ![pid] = u]
  BY <1>1, CurrentWorker DEF Respond, Does, TypeInv, TypeOK, w
<1>3. ~Between
  BY <1>1, <1>2 DEF InStep, Clean
<1>4. ASSUME Asking PROVE Exchange(u)
  <2>1. /\ OursOnly(w.in) /\ AnswersOnly(w.out) /\ w.in = <<>>
        /\ w.id = id /\ w.rec = req.rec
        /\ Works(w) \/ Finishes(w)
    BY <1>1, <1>2, <1>4
       DEF InStep, Exchange, Remains, Stage, Untouched, Reads, Works, Finishes,
           Answered
  <2>2. /\ u.state = next /\ u.in = <<>> /\ u.in = w.in /\ u.id = id
        /\ u.rec = req.rec /\ u.out = Append(w.out, r)
    <3>1. DOMAIN w = {"state", "term", "open", "in", "out", "need", "id",
                      "rec", "ok"}
      BY <1>2 DEF Worker
    <3> HIDE DEF r
    <3> QED BY <2>1, <3>1
  <2>3. /\ Len(u.out) = Len(w.out) + 1 /\ Len(w.out) \in Nat
        /\ AnswersOnly(u.out)
    <3>1. r \in Reply /\ w.out \in Seq(Reply) /\ r.id = id /\ r.rec = req.rec
      BY <1>2, <2>1 DEF Reply, Worker
    <3> HIDE DEF u, r
    <3> QED BY <2>1, <2>2, <3>1, Grows
  <2>4. CASE Works(w)
    <3>1. next = "finishing" /\ step = "head" /\ Len(w.out) = 0
      <4>1. next = "finishing" /\ step = "head" /\ w.out = <<>>
        BY <1>1, <1>2, <2>4 DEF Works
      <4> QED BY <1>2, <4>1, EmptyLength DEF Worker
    <3>2. Finishes(u)
      <4> HIDE DEF u
      <4> QED BY <2>1, <2>2, <2>3, <3>1 DEF Finishes
    <3> HIDE DEF u
    <3> QED BY <2>1, <2>2, <2>3, <3>2 DEF Exchange, Stage
  <2>5. CASE Finishes(w)
    <3>1. next = "waiting"
      BY <1>1, <1>2, <2>5 DEF Finishes
    <3>2. \/ step = "head" /\ Len(u.out) = 2
          \/ step = "body" /\ Len(u.out) = 1
      <4>1. \/ step = "head" /\ Len(w.out) = 1
            \/ step = "body" /\ Len(w.out) = 0
        BY <2>5 DEF Finishes
      <4> HIDE DEF u
      <4>2. CASE step = "head" /\ Len(w.out) = 1
        BY <2>3, <4>2
      <4>3. CASE step = "body" /\ Len(w.out) = 0
        BY <2>3, <4>3
      <4> QED BY <4>1, <4>2, <4>3
    <3>3. Answered(u)
      <4> HIDE DEF u
      <4> QED BY <2>2, <3>1, <3>2 DEF Answered
    <3> HIDE DEF u
    <3> QED BY <2>1, <2>2, <2>3, <3>3 DEF Exchange, Stage
  <2> QED BY <2>1, <2>4, <2>5
<1> HIDE DEF u
<1> QED
  BY <1>2, <1>3, <1>4

\* Every step of a worker keeps the two ends in step.
LEMMA WorkerInStep ==
  ASSUME TypeInv, NoOrphan, InStep, NEW p \in DOMAIN procs, WorkerStep(p)
  PROVE  InStep'
<1>1. p = pid /\ pid # 0 /\ UNCHANGED client /\ w.state # "dead"
  <2>1. UNCHANGED client /\ procs[p].state # "dead"
    BY WorkerTyped
  <2>2. p \in Alive
    BY <2>1 DEF Alive
  <2> QED BY <2>1, <2>2 DEF NoOrphan, w, TypeInv, TypeOK
<1>2. w \in Worker /\ pid \in DOMAIN procs
  BY <1>1, CurrentWorker DEF TypeInv
<1> SUFFICES \E u : /\ procs' = [procs EXCEPT ![pid] = u]
                    /\ Asking => Exchange(u)
                    /\ Between => Clean(u)
  <2>1. PICK u : /\ procs' = [procs EXCEPT ![pid] = u]
                 /\ Asking => Exchange(u)
                 /\ Between => Clean(u)
    OBVIOUS
  <2>2. w' = u
    BY <1>1, <1>2, <2>1 DEF w, client
  <2> QED
    BY <1>1, <2>1, <2>2
       DEF InStep, Asking, Between, Exchange, Clean, OursOnly, AnswersOnly,
           Ours, Remains, Stage, Untouched, Reads, Works, Finishes, Answered,
           Pending, client
<1>3. CASE Boot(p)
  <2> DEFINE u == [w EXCEPT !.state = "waiting"]
  <2>1. procs' = [procs EXCEPT ![pid] = u] /\ w.state = "booting"
    BY <1>1, <1>2, <1>3 DEF Boot, Does, w
  <2>2. /\ u.state = "waiting" /\ u.in = w.in /\ u.out = w.out
    BY <1>2 DEF Worker
  <2>3. ~Between
    BY <1>1, <2>1 DEF InStep, Clean
  <2>4. ASSUME Asking PROVE Exchange(u)
    <3>1. OursOnly(w.in) /\ AnswersOnly(w.out) /\ Untouched(w)
      BY <1>1, <2>1, <2>4
         DEF InStep, Exchange, Remains, Stage, Untouched, Reads, Works,
             Finishes, Answered
    <3>2. Untouched(u)
      <4> HIDE DEF u
      <4> QED BY <2>2, <3>1 DEF Untouched, Pending
    <3> HIDE DEF u
    <3> QED BY <2>2, <3>1, <3>2 DEF Exchange, Stage
  <2> HIDE DEF u
  <2> QED BY <2>1, <2>3, <2>4
<1>4. CASE EndOfInput(p) \/ BrokenPipe(p) \/ Die(p) \/ Terminate(p)
  <2>1. procs' = [procs EXCEPT ![pid] = Corpse(w)]
    BY <1>1, <1>2, <1>4 DEF EndOfInput, BrokenPipe, Die, Terminate, w
  <2>2. /\ Exchange(w) => Exchange(Corpse(w))
        /\ Clean(w) => Clean(Corpse(w))
    BY <1>1, <1>2, CorpseExchange
  <2> QED BY <1>1, <2>1, <2>2 DEF InStep
<1>5. CASE Solve(p)
  <2>1. PICK ok \in BOOLEAN :
          procs' = [procs EXCEPT ![p].state = "answering", ![p].ok = ok]
    BY <1>5 DEF Solve
  <2> DEFINE u == [w EXCEPT !.state = "answering", !.ok = ok]
  <2>2. procs' = [procs EXCEPT ![pid] = u] /\ w.state = "solving"
    BY <1>1, <1>2, <1>5, <2>1 DEF Solve, Does, w
  <2>3. /\ u.state = "answering" /\ u.in = w.in /\ u.out = w.out
        /\ u.id = w.id /\ u.rec = w.rec
    BY <1>2 DEF Worker
  <2>4. ~Between
    BY <1>1, <2>2 DEF InStep, Clean
  <2>5. ASSUME Asking PROVE Exchange(u)
    <3>1. OursOnly(w.in) /\ AnswersOnly(w.out) /\ Works(w)
      BY <1>1, <2>2, <2>5
         DEF InStep, Exchange, Remains, Stage, Untouched, Reads, Works,
             Finishes, Answered
    <3>2. Works(u)
      <4> HIDE DEF u
      <4> QED BY <2>3, <3>1 DEF Works
    <3> HIDE DEF u
    <3> QED BY <2>3, <3>1, <3>2 DEF Exchange, Stage
  <2> HIDE DEF u
  <2> QED BY <2>2, <2>4, <2>5
<1>6. CASE ReadLine(p)
  BY <1>1, <1>6, ReadLineInStep
<1>7. CASE ReadPayload(p)
  BY <1>1, <1>7, ReadPayloadInStep
<1>8. CASE WriteHeader(p) \/ WritePayload(p)
  BY <1>1, <1>8, RespondInStep
<1> QED
  BY <1>3, <1>4, <1>5, <1>6, <1>7, <1>8 DEF WorkerStep

\* A request, as it is about to be sent.
LEMMA MessageOurs ==
  ASSUME NEW r \in Request, NEW n \in Nat
  PROVE  /\ \A i \in DOMAIN Message(r, n) :
              /\ Message(r, n)[i].kind # "quit"
              /\ Message(r, n)[i].id = n /\ Message(r, n)[i].rec = r.rec
         /\ Message(r, n)[1].kind = "solve"
<1>1. 1 \in 1..(2 + Size[r.rec])
  BY SizeOK DEF Request
<1> QED
  BY <1>1 DEF Message

\* It begins with the worker of the last request or with a new one.
LEMMA SendInStep ==
  ASSUME TypeInv, InStep, Reuse \/ Start
  PROVE  InStep'
<1>0. /\ step' = "poll" /\ id' = nextId /\ unsent' = Message(req, nextId)
      /\ req' = req /\ req \in Request /\ nextId \in Nat
  BY DEF Reuse, Start, Send, TypeInv, TypeOK
<1>1. /\ w' \in Worker /\ w'.out = <<>>
      /\ w'.state # "dead" => w'.state \in {"booting", "waiting"} /\ w'.in = <<>>
  <2>1. CASE Reuse
    <3>1. w' = w /\ Clean(w) /\ w \in Worker
      BY <2>1, CurrentWorker DEF Reuse, InStep, Between, w, TypeInv
    <3> QED BY <3>1 DEF Clean
  <2>2. CASE Start
    <3>1. w' = NewWorker
      BY <2>2 DEF Start, w, TypeInv, TypeOK
    <3>2. NewWorker \in Worker
      BY DEF NewWorker, Worker
    <3> QED BY <3>1, <3>2 DEF NewWorker
  <2> QED BY <2>1, <2>2
<1>2. OursOnly(unsent)'
  BY <1>0, MessageOurs DEF OursOnly, Ours
<1>3. AnswersOnly(w.out)'
  BY <1>1 DEF AnswersOnly
<1>4. ASSUME w'.state # "dead"
      PROVE  (OursOnly(w.in) /\ Untouched(w))'
  <2>1. Len(w'.in) = 0 /\ w'.in = <<>>
    BY <1>1, <1>4
  <2>2. Len(unsent') = 2 + Size[req'.rec] /\ Size[req.rec] \in Nat
    BY <1>0, MessageType, SizeOK DEF Request
  <2>3. Pending(w)' = 2 + Size[req'.rec]
    BY <1>0, <2>1, <2>2 DEF Pending
  <2>4. unsent'[1].kind = "solve"
    BY <1>0, MessageOurs
  <2>5. Untouched(w)'
    BY <1>0, <1>1, <1>4, <2>1, <2>3, <2>4 DEF Untouched
  <2>6. OursOnly(w.in)'
    BY <2>1 DEF OursOnly
  <2> QED BY <2>5, <2>6
<1>5. Exchange(w)'
  BY <1>0, <1>1, <1>3, <1>4 DEF Exchange, Remains, Stage
<1> QED
  BY <1>0, <1>2, <1>5 DEF InStep, Between

\* A write moves a chunk from one side of the pipe to the other.
LEMMA WriteInStep ==
  ASSUME TypeInv, InStep, Write
  PROVE  InStep'
<1> DEFINE u == [w EXCEPT !.in = Append(@, Head(unsent))]
<1>0. /\ pid # 0 /\ pid \in DOMAIN procs /\ w \in Worker /\ w.in \in Seq(Chunk)
      /\ unsent \in Seq(Chunk) /\ unsent # <<>>
  BY CurrentWorker DEF TypeInv, TypeOK, Placed, Write, Worker
<1>1. /\ step = "write" /\ w.state # "dead" /\ unsent' = Tail(unsent)
      /\ UNCHANGED <<pid, id, req>> /\ w' = u
  BY <1>0 DEF Write, Dead, w
<1>2. /\ step' \in {"head", "write", "poll"}
      /\ step' = "head" => unsent' = <<>>
  BY DEF Write
<1>3. /\ Head(unsent) \in Chunk /\ Head(unsent) = unsent[1] /\ Ours(Head(unsent))
      /\ OursOnly(unsent') /\ Len(unsent') = Len(unsent) - 1
      /\ OursOnly(w.in) /\ AnswersOnly(w.out)
  BY <1>0, <1>1, Rests DEF InStep, Asking, Exchange, Remains, OursOnly
<1>4. /\ u.in = Append(w.in, Head(unsent)) /\ u.out = w.out /\ u.id = w.id
      /\ u.state = w.state /\ u.need = w.need
  BY <1>0 DEF Worker
<1>5. /\ OursOnly(u.in) /\ Len(u.in) = Len(w.in) + 1 /\ u.in # <<>>
      /\ u.in[1] = IF w.in = <<>> THEN Head(unsent) ELSE w.in[1]
  <2> HIDE DEF u
  <2> QED BY <1>0, <1>3, <1>4, Grows
<1>6. Len(u.in) + Len(unsent') = Len(w.in) + Len(unsent)
  <2> HIDE DEF u
  <2> QED BY <1>0, <1>3, <1>5, Lengths
<1> HIDE DEF u
<1>7. Untouched(w) \/ Reads(w)
  BY <1>0, <1>1 DEF InStep, Asking, Exchange, Remains, Stage, Works, Finishes,
                    Answered
<1>8. (Untouched(w) \/ Reads(w))'
  <2>1. CASE Untouched(w)
    BY <1>1, <1>2, <1>3, <1>4, <1>5, <1>6, <2>1 DEF Untouched, Pending
  <2>2. CASE Reads(w)
    BY <1>1, <1>2, <1>4, <1>6, <2>2 DEF Reads, Pending
  <2> QED BY <1>7, <2>1, <2>2
<1>9. OursOnly(unsent)' /\ OursOnly(w.in)' /\ AnswersOnly(w.out)'
  BY <1>1, <1>3, <1>4, <1>5 DEF OursOnly, Ours, AnswersOnly
<1> QED
  BY <1>2, <1>8, <1>9 DEF InStep, Asking, Between, Exchange, Stage

\* A read takes the first part of the response, or the second and last one.
LEMMA ReadInStep ==
  ASSUME TypeInv, InStep, ReadHead \/ ReadBody
  PROVE  InStep'
<1> DEFINE u == [w EXCEPT !.out = Tail(@)]
<1>0. /\ pid # 0 /\ pid \in DOMAIN procs /\ w \in Worker /\ w.out \in Seq(Reply)
      /\ w.out # <<>>
  BY CurrentWorker DEF TypeInv, TypeOK, Placed, ReadHead, ReadBody, Worker
<1>1. /\ step \in {"head", "body"} /\ UNCHANGED <<pid, req>>
      /\ procs' = [procs EXCEPT ![pid] = u]
  BY <1>0 DEF ReadHead, ReadBody, w
<1>2. w' = u
  <2> HIDE DEF u
  <2> QED BY <1>0, <1>1 DEF w
<1>3. /\ u.in = w.in /\ u.out = Tail(w.out) /\ u.id = w.id
      /\ u.state = w.state /\ u.rec = w.rec
  BY <1>0 DEF Worker
<1>4. /\ AnswersOnly(Tail(w.out)) /\ Len(Tail(w.out)) = Len(w.out) - 1
      /\ Len(w.out) \in Nat \ {0}
  BY <1>0, <1>1, Rests, Lengths DEF InStep, Asking, Exchange
<1> HIDE DEF u
<1>5. /\ unsent = <<>> /\ Exchange(w)
      /\ w.state = "dead" \/ Finishes(w) \/ Answered(w)
  BY <1>0, <1>1 DEF InStep, Asking, Exchange, Remains, Stage, Untouched, Reads,
                    Works
<1>6. CASE ReadHead /\ Head(w.out).kind = "status"
  <2>1. step = "head" /\ step' = "body" /\ UNCHANGED <<id, unsent, req>>
    BY <1>6 DEF ReadHead
  <2>2. OursOnly(unsent)' /\ AnswersOnly(w.out)' /\ OursOnly(w.in) = OursOnly(w.in)'
    BY <1>2, <1>3, <1>4, <1>5, <2>1 DEF OursOnly, Ours, AnswersOnly
  <2>3. CASE w.state = "dead"
    <3>1. Len(w.out) <= 2
      BY <1>5, <2>1, <2>3
         DEF Exchange, Remains, Stage, Untouched, Reads, Works, Finishes,
             Answered
    <3>2. Len(Tail(w.out)) <= 1
      BY <1>4, <3>1
    <3>3. Remains(w)'
      BY <1>2, <1>3, <2>1, <2>3, <3>2 DEF Remains
    <3> QED BY <1>5, <2>1, <2>2, <3>3 DEF InStep, Asking, Between, Exchange
  <2>4. CASE Finishes(w)
    <3>1. Len(Tail(w.out)) = 0
      BY <1>4, <2>1, <2>4 DEF Finishes
    <3>2. Finishes(w)'
      BY <1>2, <1>3, <2>1, <2>4, <3>1 DEF Finishes
    <3>3. OursOnly(w.in)
      BY <2>4 DEF Finishes, OursOnly
    <3> QED BY <1>5, <2>1, <2>2, <3>2, <3>3
            DEF InStep, Asking, Between, Exchange, Stage
  <2>5. CASE Answered(w)
    <3>1. Len(Tail(w.out)) = 1
      BY <1>4, <2>1, <2>5 DEF Answered
    <3>2. Answered(w)'
      BY <1>2, <1>3, <2>1, <2>5, <3>1 DEF Answered
    <3>3. OursOnly(w.in)
      BY <2>5 DEF Answered, OursOnly
    <3> QED BY <1>5, <2>1, <2>2, <3>2, <3>3
            DEF InStep, Asking, Between, Exchange, Stage
  <2> QED BY <1>5, <2>3, <2>4, <2>5
<1>7. CASE ReadHead /\ Head(w.out).kind # "status"
  BY <1>7 DEF ReadHead, Fail, InStep, Asking, Between
<1>8. CASE ReadBody
  <2>1. step = "body" /\ step' \in {"quit", "idle"}
    BY <1>8 DEF ReadBody, Fail, Return
  <2>2. Len(w.out) = 1
    <3>1. CASE w.state = "dead"
      <4>1. Len(w.out) <= 1
        BY <1>5, <2>1, <3>1
           DEF Exchange, Remains, Stage, Untouched, Reads, Works, Finishes,
               Answered
      <4> DEFINE n == Len(w.out)
      <4>2. n \in Nat \ {0} /\ n <= 1
        BY <1>4, <4>1
      <4> HIDE DEF n
      <4>3. n = 1
        BY <4>2
      <4> QED BY <4>3 DEF n
    <3>2. CASE Finishes(w)
      BY <1>4, <2>1, <3>2 DEF Finishes
    <3>3. CASE Answered(w)
      BY <1>4, <2>1, <3>3 DEF Answered
    <3> QED BY <1>5, <3>1, <3>2, <3>3
  <2>3. Tail(w.out) = <<>>
    <3>1. Tail(w.out) \in Seq(Reply) /\ Len(Tail(w.out)) = 0
      BY <1>0, <1>4, <2>2
    <3> QED BY <3>1, EmptyLength
  <2>4. w.state # "dead" => w.state = "waiting" /\ w.in = <<>>
    BY <1>4, <1>5, <2>1, <2>2 DEF Finishes, Answered
  <2>5. Clean(w)'
    BY <1>2, <1>3, <2>3, <2>4 DEF Clean
  <2> QED BY <2>1, <2>5 DEF InStep, Asking
<1> QED
  BY <1>6, <1>7, <1>8

\* Every step of the client keeps the two ends in step.
LEMMA ClientInStep ==
  ASSUME TypeInv, InStep,
         Reset \/ Client \/ \E r \in Request : CacheHit(r) \/ CacheMiss(r)
  PROVE  InStep'
\* Away from both: nothing to show.
<1>1. CASE \/ StartFails \/ Broken \/ Timeout \/ Reset \/ SendQuit
           \/ NothingToStop \/ Close \/ Reap \/ Await
  BY <1>1
     DEF StartFails, Broken, Timeout, Reset, SendQuit, NothingToStop, Close,
         Reap, Await, Fail, InStep, Asking, Between
\* With no worker in use.
<1>2. CASE Retry \/ GiveUp \/ Cleared
  BY <1>2
     DEF Retry, GiveUp, Cleared, Return, InStep, Asking, Between, TypeInv, Placed
\* From one rest to another.
<1>3. CASE \E r \in Request : CacheHit(r) \/ CacheMiss(r)
  BY <1>3
     DEF CacheHit, CacheMiss, Call, Return, InStep, Asking, Between, Clean, w
<1>4. CASE Poll
  <2>1. /\ step = "poll" /\ step' = "write"
        /\ UNCHANGED <<pid, id, req, unsent, procs>> /\ w' = w
    BY <1>4 DEF Poll, w
  <2>2. Exchange(w)'
    BY <2>1
       DEF InStep, Asking, Exchange, OursOnly, Ours, AnswersOnly, Remains,
           Stage, Untouched, Reads, Works, Finishes, Answered, Pending
  <2> QED BY <2>1, <2>2 DEF InStep, Asking, Between, OursOnly, Ours
<1> QED
  BY <1>1, <1>2, <1>3, <1>4, SendInStep, WriteInStep, ReadInStep DEF Client

\* The outcome and the cache, given that replies answer the request.
LEMMA StepAnswers ==
  ASSUME TypeInv, InStep, AnswerFits, [Next]_vars
  PROVE  AnswerFits'
<1>1. CASE \E r \in Request : CacheHit(r) \/ CacheMiss(r)
  <2>1. PICK r \in Request : CacheHit(r) \/ CacheMiss(r)
    BY <1>1
  <2>2. CASE CacheHit(r)
    <3>1. Key(r)[2] = r.rec /\ cache[Key(r)] = Key(r)[2]
      BY <2>2 DEF CacheHit, Key, AnswerFits
    <3> QED BY <2>2, <3>1 DEF CacheHit, Call, Return, AnswerFits
  <2>3. CASE CacheMiss(r)
    BY <2>3 DEF CacheMiss, AnswerFits
  <2> QED BY <2>1, <2>2, <2>3
<1>2. CASE ReadBody
  <2>1. /\ pid # 0 /\ w \in Worker
        /\ w.out \in Seq(Reply) /\ w.out # <<>> /\ AnswersOnly(w.out)
    BY <1>2, CurrentWorker
       DEF ReadBody, TypeInv, TypeOK, Placed, Worker, InStep, Asking, Exchange
  <2>2. Head(w.out).rec = req.rec
    <3>1. Head(w.out) = w.out[1] /\ 1 \in DOMAIN w.out
      BY <2>1, Rests
    <3> QED BY <2>1, <3>1 DEF AnswersOnly
  <2>3. Key(req)[2] = req.rec
    BY DEF Key
  <2>4. CASE head.id = id /\ head.ok
    <3>1. /\ outcome' = [kind |-> "ok", rec |-> req.rec] /\ req' = req
          /\ cache' = [k \in DOMAIN cache \cup {Key(req)} |->
                         IF k = Key(req) THEN req.rec ELSE cache[k]]
      BY <1>2, <2>2, <2>4 DEF ReadBody, Return
    <3> QED BY <2>3, <3>1 DEF AnswerFits
  <2>5. CASE ~(head.id = id /\ head.ok)
    <3>1. /\ cache' = cache /\ req' = req
          /\ outcome' = outcome \/ outcome'.kind = "error"
      BY <1>2, <2>5 DEF ReadBody, Return
    <3> QED BY <3>1 DEF AnswerFits
  <2> QED BY <2>4, <2>5
<1>3. CASE \/ Reset \/ Reuse \/ Start \/ StartFails \/ Poll \/ Write \/ ReadHead
           \/ Broken \/ Timeout \/ SendQuit \/ NothingToStop \/ Close \/ Reap
           \/ Await \/ Retry \/ UNCHANGED vars
  <2>1. UNCHANGED <<cache, outcome, req>>
    BY <1>3
       DEF Reset, Reuse, Start, StartFails, Poll, Write, ReadHead, Broken,
           Timeout, SendQuit, NothingToStop, Close, Reap, Await, Retry, vars,
           client
  <2> QED BY <2>1 DEF AnswerFits
<1>4. CASE GiveUp
  BY <1>4 DEF GiveUp, Return, AnswerFits
<1>5. CASE Cleared
  BY <1>5 DEF Cleared, Return, AnswerFits
<1>6. ASSUME NEW p \in DOMAIN procs, WorkerStep(p)
      PROVE  AnswerFits'
  <2>1. UNCHANGED <<cache, outcome, req>>
    BY <1>6, WorkerTyped DEF client
  <2> QED BY <2>1 DEF AnswerFits
<1> QED
  BY <1>1, <1>2, <1>3, <1>4, <1>5, <1>6 DEF Next, Client

\* The inductive invariant of the exchange.
ExchangeInv == TypeInv /\ NoOrphan /\ InStep /\ AnswerFits

LEMMA ExchangeHolds == Spec => []ExchangeInv
<1>1. Init => ExchangeInv
  <2>1. Init => AnswerFits
    BY DEF Init, AnswerFits
  <2>2. Init => InStep
    BY DEF Init, InStep, Asking, Between
  <2> QED BY <2>1, <2>2, InitTyped DEF ExchangeInv
<1>2. ExchangeInv /\ [Next]_vars => ExchangeInv'
  <2> SUFFICES ASSUME ExchangeInv, [Next]_vars
               PROVE  ExchangeInv'
    OBVIOUS
  <2>1. TypeInv' /\ NoOrphan' /\ AnswerFits'
    BY StepTyped, StepNoOrphan, StepAnswers DEF ExchangeInv
  <2>2. InStep'
    <3>1. CASE UNCHANGED vars
      <4>1. w' = w
        BY <3>1 DEF vars, client, w
      <4> QED
        BY <3>1, <4>1
           DEF vars, client, ExchangeInv, InStep, Asking, Between, Exchange,
               Clean, OursOnly, AnswersOnly, Ours, Remains, Stage, Untouched,
               Reads, Works, Finishes, Answered, Pending
    <3>2. CASE \/ Reset \/ Client
               \/ \E r \in Request : CacheHit(r) \/ CacheMiss(r)
      BY <3>2, ClientInStep DEF ExchangeInv
    <3>3. CASE \E p \in DOMAIN procs : WorkerStep(p)
      BY <3>3, WorkerInStep DEF ExchangeInv
    <3> QED BY <3>1, <3>2, <3>3 DEF Next
  <2> QED BY <2>1, <2>2 DEF ExchangeInv
<1> QED
  BY <1>1, <1>2, PTL DEF Spec

\* Whatever a call went through, a worker that still lives between calls waits
\* for a request with nothing left over in either pipe: neither stop() nor a
\* refused or failed computation leaves a byte behind for the next call.
THEOREM NextCallStartsClean == Spec => []CleanWhenIdle
<1>1. ExchangeInv => CleanWhenIdle
  BY DEF ExchangeInv, InStep, Between, Clean, CleanWhenIdle, Dead
<1> QED
  BY <1>1, ExchangeHolds, PTL

\* Every response the client can read in send_solve_request carries the id and
\* the recurrence of the request it has just sent.
THEOREM ResponsesInStep == Spec => []AnswersInStep
<1>1. ExchangeInv => AnswersInStep
  BY DEF ExchangeInv, InStep, Asking, Exchange, AnswersOnly, AnswersInStep
<1> QED
  BY <1>1, ExchangeHolds, PTL

\* What solve() returns, and what it keeps in the cache, is an answer to the
\* recurrence that was asked.
THEOREM AnswersAreRight == Spec => []AnswerFits
<1>1. ExchangeInv => AnswerFits
  BY DEF ExchangeInv
<1> QED
  BY <1>1, ExchangeHolds, PTL

\* solve() reports a failed worker only when it tried to start one of its own:
\* its retry never meets the worker of an earlier call.
THEOREM FailuresAreFresh == Spec => []FailureIsFresh
<1> DEFINE Inv == TypeInv /\ RetryStarts /\ FailureIsFresh
<1>1. Init => Inv
  BY InitTyped DEF Init, RetryStarts, FailureIsFresh
<1>2. Inv /\ [Next]_vars => Inv'
  <2> SUFFICES ASSUME Inv, [Next]_vars
               PROVE  RetryStarts' /\ FailureIsFresh'
    BY StepTyped
  <2>1. CASE \E r \in Request : CacheHit(r) \/ CacheMiss(r)
    BY <2>1 DEF CacheHit, CacheMiss, Call, Return, RetryStarts, FailureIsFresh
  <2>2. CASE Reuse \/ Start \/ StartFails
    BY <2>2 DEF Reuse, Start, StartFails, Fail, Send, RetryStarts,
                FailureIsFresh
  <2>3. CASE Poll \/ Write \/ ReadHead \/ ReadBody \/ Broken \/ Timeout
    BY <2>3 DEF Poll, Write, ReadHead, ReadBody, Broken, Timeout, Fail, Return,
                Unread, RetryStarts, FailureIsFresh
  <2>4. CASE Reset \/ SendQuit \/ NothingToStop \/ Close \/ Reap \/ Await
    BY <2>4 DEF Reset, SendQuit, NothingToStop, Close, Reap, Await,
                RetryStarts, FailureIsFresh
  <2>5. CASE Retry
    BY <2>5 DEF Retry, RetryStarts, FailureIsFresh, TypeInv, Placed
  <2>6. CASE GiveUp
    <3>1. attempt \in 1..2 /\ step = "stopped"
      BY <2>6 DEF GiveUp, TypeInv, TypeOK, Attempts
    <3>2. failure # "timeout" => fresh
      BY <2>6, <3>1 DEF GiveUp, RetryStarts, Attempts
    <3> QED BY <2>6, <3>1, <3>2
            DEF GiveUp, Return, RetryStarts, FailureIsFresh
  <2>7. CASE Cleared
    BY <2>7 DEF Cleared, Return, RetryStarts, FailureIsFresh
  <2>8. CASE \/ UNCHANGED vars
             \/ \E p \in DOMAIN procs : WorkerStep(p)
    <3>1. UNCHANGED client
      BY <2>8, WorkerTyped DEF vars
    <3> QED BY <3>1 DEF client, RetryStarts, FailureIsFresh
  <2> QED
    BY <2>1, <2>2, <2>3, <2>4, <2>5, <2>6, <2>7, <2>8 DEF Next, Client
<1> QED
  BY <1>1, <1>2, PTL DEF Spec
=============================================================================
