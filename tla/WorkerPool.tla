----------------------------- MODULE WorkerPool -----------------------------
(***************************************************************************)
(* The shim's execution of an invoke request: handle_invoke, the pool of   *)
(* pre-forked workers and its refill thread, the inline-fork fallback and  *)
(* the child processes (src/src/rlbox_process_sandbox_shim.cpp, 395-697).  *)
(*                                                                         *)
(* Two threads of the shim fork: the request loop (inline fallback) and    *)
(* the refill thread.  A fork copies every descriptor the shim holds at    *)
(* that instant, so "who still holds the write end of this pipe", which    *)
(* decides when a reader sees end of file, depends on how the two threads  *)
(* interleave.  That is why descriptors are modelled end by end.           *)
(*                                                                         *)
(* Abstractions.  A call is its identity; the value it returns is that     *)
(* same identity, so that an answer taken from another call would show.    *)
(* A member of Kids stands for a child and the pipe(s) made for it; the    *)
(* member is used again when the child is reaped and no process holds an   *)
(* end of its pipes.  The job and the result each travel in one step:      *)
(* a reader acts only on a whole message (read_full).  The two adjacent    *)
(* closes of a parent or a child are one step.                             *)
(***************************************************************************)
EXTENDS Naturals, Sequences, FiniteSets

CONSTANTS
    Jobs,          \* the invoke requests the host sends
    Rejected,      \* those that fail the checks at the top of handle_invoke
    Kids,          \* identities for child processes (bounds live children)
    Target,        \* g_pool_target; 0 disables the pool
    SpawnMayFail,  \* may pipe() and fork() fail?
    CrashAt,       \* where a child may die: subset of CrashSites
    Shim,          \* the shim process, parent of all children
    Zero,          \* the answer 0 of every failure path
    None           \* no job, no child, no message

\* An idle worker, a failing apply_filter, a call in a worker, an inline call.
CrashSites == {"idle", "filter", "pooled", "inline"}

ASSUME ConstantsAssumption ==
    /\ Rejected \subseteq Jobs
    /\ Target \in Nat
    /\ SpawnMayFail \in BOOLEAN
    /\ CrashAt \subseteq CrashSites
    /\ Shim \notin Kids
    /\ None \notin Jobs /\ None \notin Kids
    /\ Zero \notin Jobs /\ Zero # None

VARIABLES
    alive,   \* the shim process runs (destroy_sandbox ends it with SIGTERM)
    phase,   \* phase[j]: "new", "active" (received, not answered), "done"
    reply,   \* reply[j]: the answer sent for j
    runs,    \* runs[j]: how many times a child entered j's function
    srv,     \* where the request loop is
    cur,     \* the job it handles
    skid,    \* the worker or inline child it talks to
    sres,    \* the result it has read
    rpc,     \* where the refill thread is
    rkid,    \* the child it is spawning
    pool,    \* g_pool, front first
    kst,     \* kst[k]: state of the child
    kjob,    \* kjob[k]: the job the child has in its memory
    req,     \* req[k]: what is in the request pipe of k
    resp,    \* resp[k]: what is in the response pipe of k
    fds      \* fds[p]: pipe ends process p holds

jobVars == <<phase, reply, runs>>
srvVars == <<srv, cur, skid, sres>>
refVars == <<rpc, rkid>>
kidVars == <<kst, kjob>>
pipeVars == <<req, resp>>
vars == <<alive, jobVars, srvVars, refVars, pool, kidVars, pipeVars, fds>>

Procs == Kids \cup {Shim}

\* The four ends of the pipes of child k.  An inline child has one pipe only,
\* which plays the part of the response pipe.
ReqR(k) == <<k, "req", "r">>
ReqW(k) == <<k, "req", "w">>
RespR(k) == <<k, "resp", "r">>
RespW(k) == <<k, "resp", "w">>
Ends == Kids \X {"req", "resp"} \X {"r", "w"}

Held(e) == \E p \in Procs : e \in fds[p]

\* A process identity pipe() and fork() can use.
Free(k) == /\ kst[k] = "none"
           /\ \A p \in Procs : fds[p] \cap {ReqR(k), ReqW(k), RespR(k), RespW(k)} = {}

\* pipe() fails when the bound on children is exhausted, or when it may.
PipeFails == SpawnMayFail \/ \A k \in Kids : ~Free(k)

Init == /\ alive = TRUE
        /\ phase = [j \in Jobs |-> "new"]
        /\ reply = [j \in Jobs |-> None]
        /\ runs = [j \in Jobs |-> 0]
        /\ srv = "recv" /\ cur = None /\ skid = None /\ sres = Zero
        /\ rpc = IF Target = 0 THEN "off" ELSE "check"
        /\ rkid = None
        /\ pool = <<>>
        /\ kst = [k \in Kids |-> "none"]
        /\ kjob = [k \in Kids |-> None]
        /\ req = [k \in Kids |-> None]
        /\ resp = [k \in Kids |-> None]
        /\ fds = [p \in Procs |-> {}]

ShimOpens(S) == fds' = [fds EXCEPT ![Shim] = @ \cup S]
ShimCloses(S) == fds' = [fds EXCEPT ![Shim] = @ \ S]

-----------------------------------------------------------------------------
(* The request loop.                                                       *)

\* Mutant: the result variable outlives the request.
Receive_KeepResult(j) ==
    /\ alive /\ srv = "recv" /\ phase[j] = "new"
    /\ phase' = [phase EXCEPT ![j] = "active"]
    /\ cur' = j
    /\ srv' = IF j \in Rejected THEN "reply" ELSE "acquire"
    /\ UNCHANGED <<alive, reply, runs, skid, sres, refVars, pool, kidVars, pipeVars, fds>>

\* A request frame arrives; the checks of handle_invoke answer 0 at once.
Receive(j) ==
    /\ alive /\ srv = "recv" /\ phase[j] = "new"
    /\ phase' = [phase EXCEPT ![j] = "active"]
    /\ cur' = j /\ sres' = Zero
    /\ srv' = IF j \in Rejected THEN "reply" ELSE "acquire"
    /\ UNCHANGED <<alive, reply, runs, skid, refVars, pool, kidVars, pipeVars, fds>>

\* Mutant: no notify_one.
Acquire_NoNotify ==
    /\ alive /\ srv = "acquire" /\ pool # <<>>
    /\ skid' = Head(pool) /\ pool' = Tail(pool)
    /\ srv' = "send"
    /\ UNCHANGED <<alive, jobVars, cur, sres, refVars, kidVars, pipeVars, fds>>

\* try_acquire_worker: pop the front worker and wake the refill thread.
Acquire ==
    /\ alive /\ srv = "acquire" /\ pool # <<>>
    /\ skid' = Head(pool) /\ pool' = Tail(pool)
    /\ rpc' = IF rpc = "asleep" THEN "check" ELSE rpc
    /\ srv' = "send"
    /\ UNCHANGED <<alive, jobVars, cur, sres, rkid, kidVars, pipeVars, fds>>

AcquireEmpty ==
    /\ alive /\ srv = "acquire" /\ pool = <<>>
    /\ srv' = "pipe"
    /\ UNCHANGED <<alive, jobVars, cur, skid, sres, refVars, pool, kidVars, pipeVars, fds>>

\* dispatch_to_worker: write the job; EPIPE when nobody holds the read end.
Send ==
    /\ alive /\ srv = "send"
    /\ IF Held(ReqR(skid))
         THEN /\ req' = [req EXCEPT ![skid] = cur]
              /\ srv' = "await"
         ELSE /\ req' = req
              /\ srv' = "close"
    /\ UNCHANGED <<alive, jobVars, cur, skid, sres, refVars, pool, kidVars, resp, fds>>

\* Mutant: a read that gives up when nothing is there yet.
ReadResult_NoWait(next) ==
    /\ \/ /\ resp[skid] # None
          /\ sres' = resp[skid]
          /\ resp' = [resp EXCEPT ![skid] = None]
       \/ /\ resp[skid] = None
          /\ sres' = Zero
          /\ resp' = resp
    /\ srv' = next
    /\ UNCHANGED <<alive, jobVars, cur, skid, refVars, pool, kidVars, req, fds>>

\* read_full on the response pipe: the whole result, or 0 at end of file.
ReadResult(next) ==
    /\ \/ /\ resp[skid] # None
          /\ sres' = resp[skid]
          /\ resp' = [resp EXCEPT ![skid] = None]
       \/ /\ resp[skid] = None /\ ~Held(RespW(skid))
          /\ sres' = Zero
          /\ resp' = resp
    /\ srv' = next
    /\ UNCHANGED <<alive, jobVars, cur, skid, refVars, pool, kidVars, req, fds>>

Await == alive /\ srv = "await" /\ ReadResult("close")

CloseWorker ==
    /\ alive /\ srv = "close"
    /\ ShimCloses({ReqW(skid), RespR(skid)})
    /\ srv' = "reap"
    /\ UNCHANGED <<alive, jobVars, cur, skid, sres, refVars, pool, kidVars, pipeVars>>

\* Mutant: waitpid with WNOHANG.
Reap_NoHang ==
    /\ alive /\ srv = "reap"
    /\ skid' = None
    /\ IF kst[skid] = "zombie"
         THEN /\ kst' = [kst EXCEPT ![skid] = "none"]
              /\ kjob' = [kjob EXCEPT ![skid] = None]
         ELSE UNCHANGED kidVars
    /\ srv' = "reply"
    /\ UNCHANGED <<alive, jobVars, cur, sres, refVars, pool, pipeVars, fds>>

\* Mutant: a call whose worker died is tried once more.
Reap_Retry ==
    /\ alive /\ srv = "reap" /\ kst[skid] = "zombie"
    /\ kst' = [kst EXCEPT ![skid] = "none"]
    /\ kjob' = [kjob EXCEPT ![skid] = None]
    /\ skid' = None
    /\ srv' = IF sres = Zero THEN "pipe" ELSE "reply"
    /\ UNCHANGED <<alive, jobVars, cur, sres, refVars, pool, pipeVars, fds>>

\* waitpid on the worker or inline child.
Reap ==
    /\ alive /\ srv = "reap" /\ kst[skid] = "zombie"
    /\ kst' = [kst EXCEPT ![skid] = "none"]
    /\ kjob' = [kjob EXCEPT ![skid] = None]
    /\ skid' = None
    /\ srv' = "reply"
    /\ UNCHANGED <<alive, jobVars, cur, sres, refVars, pool, pipeVars, fds>>

\* Inline fallback: pipe, fork, close the write end, read, close, waitpid.
InlinePipe ==
    /\ alive /\ srv = "pipe"
    /\ \E k \in Kids :
         /\ Free(k)
         /\ skid' = k
         /\ resp' = [resp EXCEPT ![k] = None]
         /\ ShimOpens({RespR(k), RespW(k)})
    /\ srv' = "fork"
    /\ UNCHANGED <<alive, jobVars, cur, sres, refVars, pool, kidVars, req>>

InlinePipeFails ==
    /\ alive /\ srv = "pipe" /\ PipeFails
    /\ srv' = "reply"
    /\ UNCHANGED <<alive, jobVars, cur, skid, sres, refVars, pool, kidVars, pipeVars, fds>>

InlineFork ==
    /\ alive /\ srv = "fork"
    /\ kst' = [kst EXCEPT ![skid] = "iforked"]
    /\ kjob' = [kjob EXCEPT ![skid] = cur]
    /\ fds' = [fds EXCEPT ![skid] = fds[Shim]]
    /\ srv' = "closeW"
    /\ UNCHANGED <<alive, jobVars, cur, skid, sres, refVars, pool, pipeVars>>

InlineForkFails ==
    /\ alive /\ srv = "fork" /\ SpawnMayFail
    /\ ShimCloses({RespR(skid), RespW(skid)})
    /\ skid' = None
    /\ srv' = "reply"
    /\ UNCHANGED <<alive, jobVars, cur, sres, refVars, pool, kidVars, pipeVars>>

InlineCloseWrite ==
    /\ alive /\ srv = "closeW"
    /\ ShimCloses({RespW(skid)})
    /\ srv' = "read"
    /\ UNCHANGED <<alive, jobVars, cur, skid, sres, refVars, pool, kidVars, pipeVars>>

InlineRead == alive /\ srv = "read" /\ ReadResult("closeR")

\* Mutant: the inline path forgets waitpid.
InlineCloseRead_NoReap ==
    /\ alive /\ srv = "closeR"
    /\ ShimCloses({RespR(skid)})
    /\ skid' = None
    /\ srv' = "reply"
    /\ UNCHANGED <<alive, jobVars, cur, sres, refVars, pool, kidVars, pipeVars>>

InlineCloseRead ==
    /\ alive /\ srv = "closeR"
    /\ ShimCloses({RespR(skid)})
    /\ srv' = "reap"
    /\ UNCHANGED <<alive, jobVars, cur, skid, sres, refVars, pool, kidVars, pipeVars>>

\* The Response message of the request.
Reply ==
    /\ alive /\ srv = "reply"
    /\ reply' = [reply EXCEPT ![cur] = sres]
    /\ phase' = [phase EXCEPT ![cur] = "done"]
    /\ cur' = None
    /\ srv' = "recv"
    /\ UNCHANGED <<alive, runs, skid, sres, refVars, pool, kidVars, pipeVars, fds>>

-----------------------------------------------------------------------------
(* The refill thread: refill_loop and spawn_worker.                        *)

\* Mutant: off by one in the wait predicate.
RefillCheck_AtMost ==
    /\ alive /\ rpc = "check"
    /\ rpc' = IF Len(pool) <= Target THEN "pipe1" ELSE "asleep"
    /\ UNCHANGED <<alive, jobVars, srvVars, rkid, pool, kidVars, pipeVars, fds>>

\* wait(lock, size < target): proceed, or sleep until notified.
RefillCheck ==
    /\ alive /\ rpc = "check"
    /\ rpc' = IF Len(pool) < Target THEN "pipe1" ELSE "asleep"
    /\ UNCHANGED <<alive, jobVars, srvVars, rkid, pool, kidVars, pipeVars, fds>>

SpawnReqPipe ==
    /\ alive /\ rpc = "pipe1"
    /\ \E k \in Kids :
         /\ Free(k)
         /\ rkid' = k
         /\ req' = [req EXCEPT ![k] = None]
         /\ ShimOpens({ReqR(k), ReqW(k)})
    /\ rpc' = "pipe2"
    /\ UNCHANGED <<alive, jobVars, srvVars, pool, kidVars, resp>>

\* Mutant: the failed worker is pushed all the same.
SpawnReqPipeFails_Push ==
    /\ alive /\ rpc = "pipe1" /\ PipeFails
    /\ pool' = Append(pool, None)
    /\ rpc' = "check"
    /\ UNCHANGED <<alive, jobVars, srvVars, rkid, kidVars, pipeVars, fds>>

\* First pipe() fails: sleep 5 ms and try again.
SpawnReqPipeFails ==
    /\ alive /\ rpc = "pipe1" /\ PipeFails
    /\ rpc' = "check"
    /\ UNCHANGED <<alive, jobVars, srvVars, rkid, pool, kidVars, pipeVars, fds>>

SpawnRespPipe ==
    /\ alive /\ rpc = "pipe2"
    /\ resp' = [resp EXCEPT ![rkid] = None]
    /\ ShimOpens({RespR(rkid), RespW(rkid)})
    /\ rpc' = "fork"
    /\ UNCHANGED <<alive, jobVars, srvVars, rkid, pool, kidVars, req>>

\* Mutant: the first pipe is not closed when the second cannot be made.
SpawnRespPipeFails_Leak ==
    /\ alive /\ rpc = "pipe2" /\ SpawnMayFail
    /\ rkid' = None
    /\ rpc' = "check"
    /\ UNCHANGED <<alive, jobVars, srvVars, pool, kidVars, pipeVars, fds>>

SpawnRespPipeFails ==
    /\ alive /\ rpc = "pipe2" /\ SpawnMayFail
    /\ ShimCloses({ReqR(rkid), ReqW(rkid)})
    /\ rkid' = None
    /\ rpc' = "check"
    /\ UNCHANGED <<alive, jobVars, srvVars, pool, kidVars, pipeVars>>

SpawnFork ==
    /\ alive /\ rpc = "fork"
    /\ kst' = [kst EXCEPT ![rkid] = "forked"]
    /\ fds' = [fds EXCEPT ![rkid] = fds[Shim]]
    /\ rpc' = "closeEnds"
    /\ UNCHANGED <<alive, jobVars, srvVars, rkid, pool, kjob, pipeVars>>

SpawnForkFails ==
    /\ alive /\ rpc = "fork" /\ SpawnMayFail
    /\ ShimCloses({ReqR(rkid), ReqW(rkid), RespR(rkid), RespW(rkid)})
    /\ rkid' = None
    /\ rpc' = "check"
    /\ UNCHANGED <<alive, jobVars, srvVars, pool, kidVars, pipeVars>>

\* Mutant: the parent keeps the write end of the response pipe.
SpawnCloseEnds_KeepResp ==
    /\ alive /\ rpc = "closeEnds"
    /\ ShimCloses({ReqR(rkid)})
    /\ rpc' = "push"
    /\ UNCHANGED <<alive, jobVars, srvVars, rkid, pool, kidVars, pipeVars>>

SpawnCloseEnds ==
    /\ alive /\ rpc = "closeEnds"
    /\ ShimCloses({ReqR(rkid), RespW(rkid)})
    /\ rpc' = "push"
    /\ UNCHANGED <<alive, jobVars, srvVars, rkid, pool, kidVars, pipeVars>>

RefillPush ==
    /\ alive /\ rpc = "push"
    /\ pool' = Append(pool, rkid)
    /\ rkid' = None
    /\ rpc' = "check"
    /\ UNCHANGED <<alive, jobVars, srvVars, kidVars, pipeVars, fds>>

-----------------------------------------------------------------------------
(* The children.                                                           *)

Exit(k) == /\ kst' = [kst EXCEPT ![k] = "zombie"]
           /\ fds' = [fds EXCEPT ![k] = {}]

\* Mutant: the child keeps the write end of its own request pipe.
WorkerCloseEnds_KeepReq(k) ==
    /\ kst[k] = "forked"
    /\ fds' = [fds EXCEPT ![k] = @ \ {RespR(k)}]
    /\ kst' = [kst EXCEPT ![k] = "reading"]
    /\ UNCHANGED <<alive, jobVars, srvVars, refVars, pool, kjob, pipeVars>>

\* spawn_worker in the child: close the parent's two ends.
WorkerCloseEnds(k) ==
    /\ kst[k] = "forked"
    /\ fds' = [fds EXCEPT ![k] = @ \ {ReqW(k), RespR(k)}]
    /\ kst' = [kst EXCEPT ![k] = "reading"]
    /\ UNCHANGED <<alive, jobVars, srvVars, refVars, pool, kjob, pipeVars>>

\* worker_main: take the job, or exit at end of file.
WorkerRead(k) ==
    /\ kst[k] = "reading" /\ req[k] # None
    /\ kjob' = [kjob EXCEPT ![k] = req[k]]
    /\ req' = [req EXCEPT ![k] = None]
    /\ kst' = [kst EXCEPT ![k] = "filter"]
    /\ UNCHANGED <<alive, jobVars, srvVars, refVars, pool, resp, fds>>

WorkerEof(k) ==
    /\ kst[k] = "reading" /\ req[k] = None /\ ~Held(ReqW(k))
    /\ Exit(k)
    /\ UNCHANGED <<alive, jobVars, srvVars, refVars, pool, kjob, pipeVars>>

\* do_ffi_call: a call with a bad tag returns 0 without entering the function,
\* which is a call whose own result is 0.
Enter(k) == /\ runs' = [runs EXCEPT ![kjob[k]] = @ + 1]
            /\ kst' = [kst EXCEPT ![k] = "running"]

\* apply_filter succeeds and the library function is entered.
WorkerFilter(k) ==
    /\ kst[k] = "filter"
    /\ Enter(k)
    /\ UNCHANGED <<alive, phase, reply, srvVars, refVars, pool, kjob, pipeVars, fds>>

\* apply_filter fails: _exit(2).
WorkerFilterFails(k) ==
    /\ kst[k] = "filter" /\ "filter" \in CrashAt
    /\ Exit(k)
    /\ UNCHANGED <<alive, jobVars, srvVars, refVars, pool, kjob, pipeVars>>

\* The inline child closes the read end and calls the function unfiltered.
InlineEnter(k) ==
    /\ kst[k] = "iforked"
    /\ Enter(k)
    /\ fds' = [fds EXCEPT ![k] = @ \ {RespR(k)}]
    /\ UNCHANGED <<alive, phase, reply, srvVars, refVars, pool, kjob, pipeVars>>

\* The function returns; the result is written (EPIPE is ignored).
Finish(k) ==
    /\ kst[k] = "running"
    /\ resp' = IF Held(RespR(k)) THEN [resp EXCEPT ![k] = kjob[k]] ELSE resp
    /\ kst' = [kst EXCEPT ![k] = "written"]
    /\ UNCHANGED <<alive, jobVars, srvVars, refVars, pool, kjob, req, fds>>

ChildExit(k) ==
    /\ kst[k] = "written"
    /\ Exit(k)
    /\ UNCHANGED <<alive, jobVars, srvVars, refVars, pool, kjob, pipeVars>>

\* A child holding no request end of its own was made by the inline path.
Inline(k) == ReqR(k) \notin fds[k]

\* The library crashes or the kernel kills the child.
Crash(k) ==
    /\ \/ "idle" \in CrashAt /\ kst[k] \in {"forked", "reading"}
       \/ "pooled" \in CrashAt /\ kst[k] \in {"filter", "running", "written"} /\ ~Inline(k)
       \/ "inline" \in CrashAt /\ kst[k] \in {"iforked", "running", "written"} /\ Inline(k)
    /\ Exit(k)
    /\ UNCHANGED <<alive, jobVars, srvVars, refVars, pool, kjob, pipeVars>>

-----------------------------------------------------------------------------
(* The environment.                                                        *)

\* SIGTERM: both threads and the descriptors of the shim are gone.
KillShim ==
    /\ alive
    /\ alive' = FALSE
    /\ fds' = [fds EXCEPT ![Shim] = {}]
    /\ srv' = "off" /\ cur' = None /\ skid' = None /\ sres' = Zero
    /\ rpc' = "off" /\ rkid' = None
    /\ pool' = <<>>
    /\ UNCHANGED <<jobVars, kidVars, pipeVars>>

\* Orphans are adopted and reaped by init.
InitReaps(k) ==
    /\ ~alive /\ kst[k] = "zombie"
    /\ kst' = [kst EXCEPT ![k] = "none"]
    /\ kjob' = [kjob EXCEPT ![k] = None]
    /\ UNCHANGED <<alive, jobVars, srvVars, refVars, pool, pipeVars, fds>>

-----------------------------------------------------------------------------
ServerStep ==
    \/ Acquire \/ AcquireEmpty \/ Send \/ Await \/ CloseWorker \/ Reap
    \/ InlinePipe \/ InlinePipeFails \/ InlineFork \/ InlineForkFails
    \/ InlineCloseWrite \/ InlineRead \/ InlineCloseRead \/ Reply

RefillStep ==
    \/ RefillCheck \/ SpawnReqPipe \/ SpawnReqPipeFails
    \/ SpawnRespPipe \/ SpawnRespPipeFails \/ SpawnFork \/ SpawnForkFails
    \/ SpawnCloseEnds \/ RefillPush

ChildStep(k) ==
    \/ WorkerCloseEnds(k) \/ WorkerRead(k) \/ WorkerEof(k)
    \/ WorkerFilter(k) \/ WorkerFilterFails(k)
    \/ InlineEnter(k) \/ Finish(k) \/ ChildExit(k)

Next == \/ \E j \in Jobs : Receive(j)
        \/ ServerStep
        \/ RefillStep
        \/ \E k \in Kids : ChildStep(k) \/ Crash(k) \/ InitReaps(k)
        \/ KillShim

Spec == Init /\ [][Next]_vars

(* The threads of a live shim run, the library's functions return (or      *)
(* crash), exited processes are reaped.  Requests, crashes and the kill    *)
(* need not happen.                                                        *)
Fairness == /\ WF_vars(ServerStep)
            /\ WF_vars(RefillStep)
            /\ \A k \in Kids : WF_vars(ChildStep(k)) /\ WF_vars(InitReaps(k))

FairSpec == Spec /\ Fairness

-----------------------------------------------------------------------------
(* What the code relies on.                                                *)

SrvStates == {"recv", "acquire", "send", "await", "close", "reap", "pipe",
              "fork", "closeW", "read", "closeR", "reply", "off"}
RefillStates == {"off", "check", "asleep", "pipe1", "pipe2", "fork",
                 "closeEnds", "push"}
KidStates == {"none", "forked", "iforked", "reading", "filter", "running",
              "written", "zombie"}

\* Every variable keeps to its set.
TypeOK ==
    /\ alive \in BOOLEAN
    /\ phase \in [Jobs -> {"new", "active", "done"}]
    /\ reply \in [Jobs -> Jobs \cup {Zero, None}]
    /\ runs \in [Jobs -> Nat]
    /\ srv \in SrvStates
    /\ cur \in Jobs \cup {None}
    /\ skid \in Kids \cup {None}
    /\ sres \in Jobs \cup {Zero}
    /\ rpc \in RefillStates
    /\ rkid \in Kids \cup {None}
    /\ pool \in Seq(Kids)
    /\ kst \in [Kids -> KidStates]
    /\ kjob \in [Kids -> Jobs \cup {None}]
    /\ req \in [Kids -> Jobs \cup {None}]
    /\ resp \in [Kids -> Jobs \cup {None}]
    /\ fds \in [Procs -> SUBSET Ends]

InPool(k) == \E i \in 1 .. Len(pool) : pool[i] = k

\* A call is entered at most once, whatever dies between the acquire of a
\* worker and the answer: handle_invoke never retries a failed dispatch on
\* the inline path.
AtMostOnce == \A j \in Jobs : runs[j] <= 1

\* The answer of a call is its own result, after it ran, or 0.
AnswerIsOwn ==
    \A j \in Jobs : phase[j] = "done" =>
        \/ reply[j] = j /\ runs[j] = 1
        \/ reply[j] = Zero

\* When a call is answered no child works on it any more, nor will one take
\* it from a pipe: the host may free the arguments.
AnsweredMeansOver ==
    \A j \in Jobs : phase[j] = "done" =>
        \A k \in Kids : /\ kjob[k] # j
                        /\ kst[k] \in {"forked", "reading"} => req[k] # j

\* A result that a child wrote is not turned into 0: past the read, 0 means
\* that the child is dead.
ZeroMeansDead ==
    srv \in {"close", "closeR", "reap"} /\ sres = Zero => kst[skid] = "zombie"

\* A worker belongs to one owner: the pool (once), the request loop or the
\* refill thread.
OneOwner ==
    /\ \A i, n \in 1 .. Len(pool) : pool[i] = pool[n] => i = n
    /\ skid # None => ~InPool(skid) /\ skid # rkid
    /\ rkid # None => ~InPool(rkid)

\* No child is forgotten: while the shim lives, each child that is not reaped
\* has an owner that will wait for it.
NoLostChild ==
    alive => \A k \in Kids :
        kst[k] # "none" => InPool(k) \/ k = skid \/ k = rkid

\* The descriptors the shim ought to hold, from where its two threads are.
PoolFds == {ReqW(k) : k \in {x \in Kids : InPool(x)}}
             \cup {RespR(k) : k \in {x \in Kids : InPool(x)}}
ServerFds ==
    CASE srv \in {"send", "await", "close"} -> {ReqW(skid), RespR(skid)}
      [] srv \in {"fork", "closeW"} -> {RespR(skid), RespW(skid)}
      [] srv \in {"read", "closeR"} -> {RespR(skid)}
      [] OTHER -> {}
RefillFds ==
    CASE rpc = "pipe2" -> {ReqR(rkid), ReqW(rkid)}
      [] rpc \in {"fork", "closeEnds"} ->
            {ReqR(rkid), ReqW(rkid), RespR(rkid), RespW(rkid)}
      [] rpc = "push" -> {ReqW(rkid), RespR(rkid)}
      [] OTHER -> {}

\* No descriptor leaks, on any error path, and none is closed twice.
NoFdLeak == fds[Shim] = PoolFds \cup ServerFds \cup RefillFds

\* The pool never outgrows its target although its size is checked before
\* the fork and the worker is pushed after it, without the lock between.
PoolBounded == Len(pool) <= Target

\* While the request loop waits for a worker, only that worker holds the
\* write end of its response pipe, so its death is seen as end of file.
WorkerDeathSeen ==
    srv \in {"send", "await"} =>
        \A p \in Procs : RespW(skid) \in fds[p] => p = skid

\* Every request that is received is answered while the shim lives.
InvokeAnswered ==
    \A j \in Jobs : phase[j] = "active" ~> (phase[j] = "done" \/ ~alive)

\* A pool below its target is filled again: no wake-up of the refill thread
\* is lost.
PoolRefills == Len(pool) < Target ~> (Len(pool) = Target \/ ~alive)

\* When the shim is killed all children go: idle workers see end of file.
NoOrphans == ~alive ~> (\A k \in Kids : kst[k] = "none")

(* The calls as the host sees them: see CallService.                       *)
Calls == INSTANCE CallService
CallsSpec == Calls!Spec
=============================================================================
