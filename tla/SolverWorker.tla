---------------------------- MODULE SolverWorker ----------------------------
(***************************************************************************)
(* The recurrence solver: RecurrenceSolverWorker in lib/rec_solver.cpp, the*)
(* client, and solver_worker.py, the worker process it starts, with the    *)
(* two pipes between them.  The client runs in one thread and has at most  *)
(* one call in progress (the mutex mu); workers run beside it, may die at  *)
(* any moment, and need not ever end a computation.                        *)
(***************************************************************************)
EXTENDS Integers, Sequences

CONSTANTS
  IndVar,      \* induction variables
  Recurrence,  \* systems of recurrences, as text
  Size,        \* how many writes into a pipe the text of each takes
  Capacity,    \* how many such writes a pipe buffers
  MaxCalls,    \* bound: calls of solve() and resets
  None         \* not a recurrence

ASSUME SizeOK == Size \in [Recurrence -> Nat \ {0}]
ASSUME BoundsOK == Capacity \in Nat \ {0} /\ MaxCalls \in Nat
ASSUME NoneOK == None \notin Recurrence

VARIABLES
  pid,       \* the worker in use, 0 for none; its pipes are open until Close
  nextId,    \* next_request_id
  cache,     \* answers by key
  step,      \* where the client is: "idle", or inside solve() or stop()
  req,       \* the request being solved
  attempt,   \* which attempt at it
  id,        \* request_id
  unsent,    \* what write_all still has to write
  head,      \* the response header read
  failure,   \* why stop() was called: "broken", "timeout", "reset"
  outcome,   \* how the last call ended
  fresh,     \* history: has this call tried to start a worker
  calls,     \* counts calls up to the bound
  procs      \* every worker process started, by pid

client == <<pid, nextId, cache, step, req, attempt, id, unsent, head, failure,
            outcome, fresh, calls>>
vars == <<client, procs>>

Request == [ind: IndVar, rec: Recurrence]
\* Mutant: the recurrence is left out of the key.
KeyByVariable(r) == <<r.ind, CHOOSE x \in Recurrence : TRUE>>
Key(r) == <<r.ind, r.rec>>
\* Mutant: no retry.
OneAttempt == 1
Attempts == 2

\* What goes down the pipes.  A request is a header line, the induction
\* variable, and the recurrence; a response is a header line and a payload.
Quit == [kind |-> "quit", id |-> 0, rec |-> None]
Chunk == [kind: {"solve", "ind", "rec"}, id: Nat, rec: Recurrence] \cup {Quit}
Reply == [kind: {"status", "payload"}, id: Nat, ok: BOOLEAN,
          rec: Recurrence \cup {None}]
Message(r, n) ==
  [i \in 1..(2 + Size[r.rec]) |->
     [kind |-> CASE i = 1 -> "solve" [] i = 2 -> "ind" [] OTHER -> "rec",
      id |-> n, rec |-> r.rec]]

\* A worker process: what it is doing, whether it was sent SIGTERM, whether
\* the client still holds its ends of the pipes, and the pipes' contents.
Worker ==
  [state: {"booting", "waiting", "reading", "solving", "answering",
           "finishing", "dead"},
   term: BOOLEAN, open: BOOLEAN, in: Seq(Chunk), out: Seq(Reply),
   need: Int, id: Nat, rec: Recurrence \cup {None}, ok: BOOLEAN]
NewWorker ==
  [state |-> "booting", term |-> FALSE, open |-> TRUE, in |-> <<>>,
   out |-> <<>>, need |-> 0, id |-> 0, rec |-> None, ok |-> FALSE]

\* What a process leaves behind: only what is still in the pipe to the client.
Corpse(v) == [NewWorker EXCEPT !.state = "dead", !.term = v.term,
                               !.open = v.open, !.out = v.out]

w == procs[pid]
Dead == w.state = "dead"
Alive == {p \in DOMAIN procs : procs[p].state # "dead"}

NoHead == [kind |-> "status", id |-> 0, ok |-> FALSE, rec |-> None]

Init ==
  /\ pid = 0 /\ nextId = 1 /\ cache = <<>>
  /\ step = "idle" /\ req \in Request /\ attempt = 1 /\ id = 0
  /\ unsent = <<>> /\ failure = "broken" /\ fresh = FALSE /\ calls = 0
  /\ head = NoHead
  /\ outcome = [kind |-> "none", rec |-> None]
  /\ procs = <<>>
-----------------------------------------------------------------------------
(***************************************************************************)
(* solve()                                                                 *)
(***************************************************************************)
Return(kind, rec) ==
  /\ step' = "idle"
  /\ outcome' = [kind |-> kind, rec |-> rec]

Call(r) ==
  /\ step = "idle"
  /\ calls < MaxCalls
  /\ calls' = calls + 1
  /\ req' = r
  /\ attempt' = 1
  /\ fresh' = FALSE

\* The answer is in the cache.
CacheHit(r) ==
  /\ Call(r)
  /\ Key(r) \in DOMAIN cache
  /\ Return("ok", cache[Key(r)])
  /\ UNCHANGED <<pid, nextId, cache, id, unsent, head, failure, procs>>

CacheMiss(r) ==
  /\ Call(r)
  /\ Key(r) \notin DOMAIN cache
  /\ step' = "start"
  /\ outcome' = [kind |-> "none", rec |-> None]
  /\ UNCHANGED <<pid, nextId, cache, id, unsent, head, failure, procs>>

\* The end of send_solve_request, and of the life of its variables.
Leave ==
  /\ id' = 0
  /\ unsent' = <<>>
  /\ head' = NoHead

\* It throws, and solve() calls stop().
Fail(why) ==
  /\ step' = "quit"
  /\ failure' = why
  /\ Leave

\* The beginning of send_solve_request.
Send ==
  /\ id' = nextId
  /\ nextId' = nextId + 1
  /\ unsent' = Message(req, nextId)
  /\ step' = "poll"

\* ensure_started() finds a pid and trusts it.
Reuse ==
  /\ step = "start" /\ pid # 0
  /\ Send
  /\ UNCHANGED <<pid, cache, req, attempt, head, failure, outcome, fresh,
                 calls, procs>>

Start ==
  /\ step = "start" /\ pid = 0
  /\ procs' = Append(procs, NewWorker)
  /\ pid' = Len(procs) + 1
  /\ fresh' = TRUE
  /\ Send
  /\ UNCHANGED <<cache, req, attempt, head, failure, outcome, calls>>

\* pipe() or fork() fails.
StartFails ==
  /\ step = "start" /\ pid = 0
  /\ fresh' = TRUE
  /\ Fail("broken")
  /\ UNCHANGED <<pid, nextId, cache, req, attempt, outcome, calls, procs>>
-----------------------------------------------------------------------------
(***************************************************************************)
(* send_solve_request(): write_all waits for room before each of the three *)
(* parts, and then writes all of it, blocking.  read_line and read_exact   *)
(* wait before each read.                                                  *)
(***************************************************************************)
Room == Len(w.in) < Capacity

Poll ==
  /\ step = "poll" /\ ~Dead /\ Room
  /\ step' = "write"
  /\ UNCHANGED <<pid, nextId, cache, req, attempt, id, unsent, head, failure,
                 outcome, fresh, calls, procs>>

Write ==
  /\ step = "write" /\ ~Dead /\ Room
  /\ procs' = [procs EXCEPT ![pid].in = Append(@, Head(unsent))]
  /\ unsent' = Tail(unsent)
  /\ step' = IF unsent' = <<>> THEN "head"
             ELSE IF Head(unsent).kind = "rec" THEN "write" ELSE "poll"
  /\ UNCHANGED <<pid, nextId, cache, req, attempt, id, head, failure, outcome,
                 fresh, calls>>

\* Mutant: an error is thrown before its payload is read.
ReadHeadThrows ==
  /\ step = "head" /\ w.out # <<>>
  /\ procs' = [procs EXCEPT ![pid].out = Tail(@)]
  /\ IF Head(w.out).ok
     THEN /\ head' = Head(w.out)
          /\ step' = "body"
          /\ UNCHANGED <<id, unsent, outcome>>
     ELSE Return("error", None) /\ Leave
  /\ UNCHANGED <<pid, nextId, cache, req, attempt, fresh, calls, failure>>
\* The first line of a response; anything else there is an invalid header.
ReadHead ==
  /\ step = "head" /\ w.out # <<>>
  /\ procs' = [procs EXCEPT ![pid].out = Tail(@)]
  /\ IF Head(w.out).kind = "status"
     THEN /\ head' = Head(w.out)
          /\ step' = "body"
          /\ UNCHANGED <<id, unsent, failure>>
     ELSE Fail("broken")
  /\ UNCHANGED <<pid, nextId, cache, req, attempt, outcome, fresh, calls>>

\* Its payload, and what the whole response comes to.
ReadBody ==
  /\ step = "body" /\ w.out # <<>>
  /\ procs' = [procs EXCEPT ![pid].out = Tail(@)]
  /\ IF head.id # id
     THEN /\ Fail("broken")
          /\ UNCHANGED <<cache, outcome>>
     ELSE IF head.ok
     THEN /\ Return("ok", Head(w.out).rec)
          /\ Leave /\ UNCHANGED failure
          /\ cache' = [k \in DOMAIN cache \cup {Key(req)} |->
                         IF k = Key(req) THEN Head(w.out).rec ELSE cache[k]]
     ELSE /\ Return("error", None)
          /\ Leave /\ UNCHANGED <<cache, failure>>
  /\ UNCHANGED <<pid, nextId, req, attempt, fresh, calls>>

Unread == step \in {"head", "body"} /\ w.out = <<>>

\* The worker is gone: EPIPE, POLLERR, POLLHUP, or end of file.
Broken ==
  /\ \/ step \in {"poll", "write"}
     \/ Unread
  /\ Dead
  /\ Fail("broken")
  /\ UNCHANGED <<pid, nextId, cache, req, attempt, outcome, fresh, calls,
                 procs>>

\* Mutant: the caller of a timed-out request does not stop the worker.
TimeoutKeepsWorker ==
  /\ \/ step = "poll" /\ ~Room
     \/ Unread
  /\ ~Dead
  /\ Return("timeout", None) /\ Leave
  /\ UNCHANGED <<pid, nextId, cache, req, attempt, failure, fresh, calls,
                 procs>>
\* Mutant: read_line does not poll.
TimeoutInPayload ==
  /\ \/ step = "poll" /\ ~Room
     \/ Unread /\ step = "body"
  /\ ~Dead
  /\ Fail("timeout")
  /\ UNCHANGED <<pid, nextId, cache, req, attempt, outcome, fresh, calls,
                 procs>>
\* A poll has waited for request_timeout_ms().
Timeout ==
  /\ \/ step = "poll" /\ ~Room
     \/ Unread
  /\ ~Dead
  /\ Fail("timeout")
  /\ UNCHANGED <<pid, nextId, cache, req, attempt, outcome, fresh, calls,
                 procs>>
-----------------------------------------------------------------------------
(***************************************************************************)
(* stop(), and what its callers do next                                    *)
(***************************************************************************)
\* The session is cleared; ~RecurrenceSolverWorker calls stop().
Reset ==
  /\ step = "idle"
  /\ calls < MaxCalls
  /\ calls' = calls + 1
  /\ step' = "quit" /\ failure' = "reset"
  /\ UNCHANGED <<pid, nextId, cache, req, attempt, id, unsent, head, outcome,
                 fresh, procs>>

\* The write of QUIT is neither polled for nor checked.
SendQuit ==
  /\ step = "quit" /\ pid # 0
  /\ Dead \/ Room
  /\ procs' = IF Dead THEN procs
              ELSE [procs EXCEPT ![pid].in = Append(@, Quit)]
  /\ step' = "close"
  /\ UNCHANGED <<pid, nextId, cache, req, attempt, id, unsent, head, failure,
                 outcome, fresh, calls>>

NothingToStop ==
  /\ step = "quit" /\ pid = 0
  /\ step' = "stopped"
  /\ UNCHANGED <<pid, nextId, cache, req, attempt, id, unsent, head, failure,
                 outcome, fresh, calls, procs>>

Close ==
  /\ step = "close"
  /\ procs' = [procs EXCEPT ![pid].open = FALSE, ![pid].out = <<>>]
  /\ step' = "reap"
  /\ UNCHANGED <<pid, nextId, cache, req, attempt, id, unsent, head, failure,
                 outcome, fresh, calls>>

\* Mutant: a worker that still runs is left alone.
ReapNoWait ==
  /\ step = "reap"
  /\ pid' = 0 /\ step' = "stopped"
  /\ UNCHANGED <<nextId, cache, req, attempt, id, unsent, head, failure,
                 outcome, fresh, calls, procs>>
\* Mutant: the worker is waited for and not killed.
ReapNoKill ==
  /\ step = "reap"
  /\ step' = "await"
  /\ UNCHANGED <<pid, nextId, cache, req, attempt, id, unsent, head, failure,
                 outcome, fresh, calls, procs>>
\* waitpid(WNOHANG), and SIGTERM if the worker is still running.
Reap ==
  /\ step = "reap"
  /\ IF Dead
     THEN pid' = 0 /\ step' = "stopped" /\ UNCHANGED procs
     ELSE /\ procs' = [procs EXCEPT ![pid].term = TRUE]
          /\ step' = "await"
          /\ UNCHANGED pid
  /\ UNCHANGED <<nextId, cache, req, attempt, id, unsent, head, failure,
                 outcome, fresh, calls>>

Await ==
  /\ step = "await" /\ Dead
  /\ pid' = 0
  /\ step' = "stopped"
  /\ UNCHANGED <<nextId, cache, req, attempt, id, unsent, head, failure,
                 outcome, fresh, calls, procs>>

\* Mutant: attempts are not counted.
RetryForever ==
  /\ step = "stopped" /\ failure = "broken"
  /\ attempt' = attempt + 1
  /\ step' = "start"
  /\ UNCHANGED <<pid, nextId, cache, req, id, unsent, head, failure, outcome,
                 fresh, calls, procs>>
Retry ==
  /\ step = "stopped" /\ failure = "broken" /\ attempt < Attempts
  /\ attempt' = attempt + 1
  /\ step' = "start"
  /\ UNCHANGED <<pid, nextId, cache, req, id, unsent, head, failure, outcome,
                 fresh, calls, procs>>

\* "recurrence solver worker failed", or the timeout is passed on.
GiveUp ==
  /\ step = "stopped"
  /\ failure = "timeout" \/ (failure = "broken" /\ attempt >= Attempts)
  /\ Return(IF failure = "timeout" THEN "timeout" ELSE "failed", None)
  /\ UNCHANGED <<pid, nextId, cache, req, attempt, id, unsent, head, failure,
                 fresh, calls, procs>>

\* The object is gone; the session makes a new one when it is next asked.
Cleared ==
  /\ step = "stopped" /\ failure = "reset"
  /\ nextId' = 1
  /\ cache' = <<>>
  /\ Return("none", None)
  /\ UNCHANGED <<pid, req, attempt, id, unsent, head, failure, fresh, calls,
                 procs>>

Client ==
  \/ Reuse \/ Start \/ StartFails \/ Poll \/ Write \/ ReadHead \/ ReadBody
  \/ Broken \/ Timeout \/ SendQuit \/ NothingToStop \/ Close \/ Reap \/ Await
  \/ Retry \/ GiveUp \/ Cleared
-----------------------------------------------------------------------------
(***************************************************************************)
(* The worker: serve() and handle_solve()                                  *)
(***************************************************************************)
Does(p, state) ==
  /\ p \in DOMAIN procs /\ procs[p].state = state
  /\ UNCHANGED client

\* exec and imports; both may also fail (Die) or hang.
Boot(p) ==
  /\ Does(p, "booting")
  /\ procs' = [procs EXCEPT ![p].state = "waiting"]

\* One line of input.  What is no request is refused, its rest left unread.
ReadLine(p) ==
  /\ Does(p, "waiting")
  /\ procs[p].in # <<>>
  /\ LET c == Head(procs[p].in)
         v == [procs[p] EXCEPT !.in = Tail(@), !.id = c.id, !.rec = c.rec,
                               !.ok = FALSE]
     IN  procs' = [procs EXCEPT ![p] =
           CASE c.kind = "quit" -> Corpse(v)
             [] c.kind = "solve" -> [v EXCEPT !.state = "reading",
                                              !.need = 1 + Size[c.rec]]
             [] OTHER -> [v EXCEPT !.state = "answering"]]

\* read_exact, of both parts.
ReadPayload(p) ==
  /\ Does(p, "reading")
  /\ procs[p].in # <<>>
  /\ LET c == Head(procs[p].in)
         n == procs[p].need - (IF c.kind = "quit" THEN 0 ELSE 1)
     IN  procs' = [procs EXCEPT ![p].in = Tail(@),
                                ![p].rec = c.rec,
                                ![p].need = n,
                                ![p].state = IF n = 0 THEN "solving" ELSE @]

\* End of file: serve() returns, or read_exact raises and so does the
\* attempt to report it.
EndOfInput(p) ==
  /\ \E state \in {"waiting", "reading"} : Does(p, state)
  /\ procs[p].in = <<>> /\ ~procs[p].open
  /\ procs' = [procs EXCEPT ![p] = Corpse(@)]

\* solve_str_to_smt2 returns or raises.
Solve(p) ==
  /\ Does(p, "solving")
  /\ \E ok \in BOOLEAN :
       procs' = [procs EXCEPT ![p].state = "answering", ![p].ok = ok]

Respond(p, state, kind, next) ==
  /\ Does(p, state)
  /\ procs[p].open
  /\ Len(procs[p].out) < Capacity
  /\ procs' = [procs EXCEPT
       ![p].state = next,
       ![p].out = Append(@, [kind |-> kind, id |-> procs[p].id,
                             ok |-> procs[p].ok, rec |-> procs[p].rec])]
WriteHeader(p) == Respond(p, "answering", "status", "finishing")
WritePayload(p) == Respond(p, "finishing", "payload", "waiting")

\* Nobody reads the response any more.
BrokenPipe(p) ==
  /\ \E state \in {"answering", "finishing"} : Does(p, state)
  /\ ~procs[p].open
  /\ procs' = [procs EXCEPT ![p] = Corpse(@)]

\* Out of memory, a crash inside an extension module, exec failed.
Die(p) ==
  /\ p \in Alive
  /\ procs' = [procs EXCEPT ![p] = Corpse(@)]
  /\ UNCHANGED client

Terminate(p) ==
  /\ p \in Alive /\ procs[p].term
  /\ procs' = [procs EXCEPT ![p] = Corpse(@)]
  /\ UNCHANGED client

WorkerStep(p) ==
  \/ Boot(p) \/ ReadLine(p) \/ ReadPayload(p) \/ EndOfInput(p) \/ Solve(p)
  \/ WriteHeader(p) \/ WritePayload(p) \/ BrokenPipe(p) \/ Die(p)
  \/ Terminate(p)

Next ==
  \/ \E r \in Request : CacheHit(r) \/ CacheMiss(r)
  \/ Reset
  \/ Client
  \/ \E p \in DOMAIN procs : WorkerStep(p)

Spec == Init /\ [][Next]_vars

\* The client's thread runs, a poll ends when its time is up, and SIGTERM
\* kills.  A worker is not assumed to do anything else.
FairSpec ==
  /\ Spec
  /\ WF_vars(Client)
  /\ \A p \in 1..(Attempts * MaxCalls) : WF_vars(Terminate(p))
-----------------------------------------------------------------------------
(***************************************************************************)
(* Properties                                                              *)
(***************************************************************************)
\* Types, and the ranges that the fields of the client keep.
TypeOK ==
  /\ pid \in 0..Len(procs)
  /\ nextId \in Nat \ {0} /\ id \in Nat
  /\ DOMAIN cache \subseteq IndVar \X Recurrence
  /\ \A k \in DOMAIN cache : cache[k] \in Recurrence \cup {None}
  /\ step \in {"idle", "start", "poll", "write", "head", "body", "quit",
               "close", "reap", "await", "stopped"}
  /\ req \in Request
  /\ attempt \in 1..Attempts
  /\ unsent \in Seq(Chunk)
  /\ head \in Reply
  /\ failure \in {"broken", "timeout", "reset"}
  /\ outcome \in [kind: {"none", "ok", "error", "timeout", "failed"},
                  rec: Recurrence \cup {None}]
  /\ fresh \in BOOLEAN
  /\ calls \in 0..MaxCalls
  /\ procs \in Seq(Worker)

\* Between calls a worker that still lives waits for a request, with nothing
\* left over in either pipe: whatever happened in the calls before (an error
\* answered, a timeout, a death), the next call starts with a clean protocol.
CleanWhenIdle ==
  step = "idle" /\ pid # 0 /\ ~Dead =>
    w.state = "waiting" /\ w.in = <<>> /\ w.out = <<>>

\* A response that the client can read answers the request it is about: the
\* answer to a request that timed out is never there to be read (the check
\* of the response id is a second line of defence).
AnswersInStep ==
  step \in {"poll", "write", "head", "body"} =>
    \A i \in DOMAIN w.out : w.out[i].id = id /\ w.out[i].rec = req.rec

\* What solve() returns, from the cache or from a worker, solves the
\* recurrence it was given.
AnswerFits ==
  /\ outcome.kind = "ok" => outcome.rec = req.rec
  /\ \A k \in DOMAIN cache : cache[k] = k[2]

\* No worker is left behind: the only process that may be alive is the one
\* the client knows, and so at most one computes at any time and none does
\* after the session is cleared.
NoOrphan == Alive \subseteq {pid}

\* A worker that died between calls fails no call: solve() only reports that
\* the worker failed after it tried to start one for this request.
FailureIsFresh == outcome.kind = "failed" => fresh

\* The header, the induction variable, the recurrence and QUIT fit into a pipe.
Fits == Size[req.rec] + 3 <= Capacity

\* The pipe to the worker is full, and the client is in a blocking write.
Blocked == step \in {"write", "quit"} /\ pid # 0 /\ ~Dead /\ ~Room

\* Every call returns, whatever the worker does, unless the client is in a
\* write that no poll bounds, of a recurrence that is too long for the pipe or of
\* QUIT behind it, to a worker that does not read (write_all, stop).
ReturnsOrBlocks == []<>(step = "idle") \/ <>[](Blocked /\ ~Fits)
=============================================================================
