-------------------------- MODULE WorkerPoolProofs --------------------------
(***************************************************************************)
(* The safety properties of WorkerPool for every set of calls and children *)
(* and every pool size, proved by one inductive invariant in four layers,  *)
(* each of which uses the ones before it:                                  *)
(*   TypeOK and ControlOK   where a thread is fixes what it refers to;     *)
(*   RoomOK, OwnersOK       who owns which child;                          *)
(*   ShimFdsOK, WriteEndsOK who holds which end of which pipe;             *)
(*   CallsOK, LifeSignsOK, AnswersOK                                       *)
(*                          which child may still enter which call, and    *)
(*                          what an answer says.                           *)
(***************************************************************************)
EXTENDS WorkerPool, TLAPS

\* States of the request loop in which it talks to a child, by path.
WorkerTalk == {"send", "await", "close"}
InlineTalk == {"fork", "closeW", "read", "closeR"}
Spawning == {"pipe2", "fork", "closeEnds", "push"}

ControlOK ==
    /\ skid # None <=> srv \in WorkerTalk \cup InlineTalk \cup {"reap"}
    /\ cur # None <=> srv \notin {"recv", "off"}
    /\ rkid # None <=> rpc \in Spawning
    /\ alive <=> srv # "off"
    /\ ~alive => rpc = "off" /\ pool = <<>> /\ fds[Shim] = {}
    /\ alive /\ rpc = "off" => Target = 0
    /\ \A k \in Kids :
         kst[k] \in {"filter", "iforked", "running", "written"} => kjob[k] # None

\* A thread past its size check still sees room for its worker: only it
\* adds to the pool.
RoomOK == /\ Len(pool) <= Target
          /\ rpc \in Spawning \cup {"pipe1"} => Len(pool) < Target

OwnersOK ==
    /\ OneOwner
    /\ NoLostChild
    /\ \A k \in Kids : InPool(k) => kst[k] # "none"
    /\ \A k \in Kids : kst[k] \in {"none", "forked", "reading"} => kjob[k] = None
    /\ srv = "fork" => kst[skid] = "none"
    /\ srv \in WorkerTalk \cup {"closeW", "read", "closeR", "reap"} => kst[skid] # "none"
    /\ rpc \in {"pipe2", "fork"} => kst[rkid] = "none"
    /\ rpc \in {"closeEnds", "push"} => kst[rkid] # "none"

\* The descriptors of the shim, end by end; a dead child holds none.
ShimFdsOK ==
    /\ \A k \in Kids :
        /\ ReqR(k) \in fds[Shim] <=> k = rkid /\ rpc \in {"pipe2", "fork", "closeEnds"}
        /\ ReqW(k) \in fds[Shim] <=>
             InPool(k) \/ (k = skid /\ srv \in WorkerTalk) \/ (k = rkid /\ rpc \in Spawning)
        /\ RespR(k) \in fds[Shim] <=>
             \/ InPool(k)
             \/ k = skid /\ srv \in WorkerTalk \cup InlineTalk
             \/ k = rkid /\ rpc \in Spawning \ {"pipe2"}
        /\ RespW(k) \in fds[Shim] <=>
             \/ k = skid /\ srv \in {"fork", "closeW"}
             \/ k = rkid /\ rpc \in {"fork", "closeEnds"}
    /\ \A k \in Kids : kst[k] \in {"none", "zombie"} => fds[k] = {}

\* A worker that will be, or is, waited for at the end of its pipe.
Awaited(k) == InPool(k) \/ (k = skid /\ srv \in {"send", "await"}) \/ (k = rkid /\ rpc \in Spawning)

\* Besides itself and the shim, only an inline child that was forked while
\* the refill thread was between pipe and close holds its write end, and the
\* request loop reaps that child before it takes the worker.
WriteEndsOK ==
    \A k \in Kids, p \in Procs :
        Awaited(k) /\ RespW(k) \in fds[p] /\ p # k /\ p # Shim =>
            p = skid /\ srv \in {"closeW", "read", "closeR", "reap"}

\* Child k will enter call j unless it dies first.
MayEnter(k, j) ==
    \/ kst[k] \in {"filter", "iforked"} /\ kjob[k] = j
    \/ kst[k] \in {"forked", "reading"} /\ req[k] = j

\* The call a child has entered.
Entered(k, j) == kst[k] \in {"running", "written"} /\ kjob[k] = j

\* The request loop gave the call to a child.
Handed == {"await", "close", "reap", "closeW", "read", "closeR"}

CallsOK ==
    /\ \A j \in Jobs : phase[j] = "active" /\ alive <=> cur = j
    /\ \A k \in Kids, j \in Jobs :
         MayEnter(k, j) => phase[j] = "active" /\ runs[j] = 0 /\ (alive => k = skid /\ srv \in Handed)
    /\ \A k, l \in Kids, j \in Jobs : MayEnter(k, j) /\ MayEnter(l, j) => k = l
    /\ \A j \in Jobs : runs[j] <= 1
    /\ \A j \in Jobs : phase[j] = "new" => runs[j] = 0
    /\ srv \in {"acquire", "send", "pipe", "fork"} => runs[cur] = 0
    /\ \A k \in Kids, j \in Jobs :
         Entered(k, j) => runs[j] = 1 /\ phase[j] = "active" /\ (alive => k = skid /\ srv \in Handed)
    /\ alive => \A k \in Kids :
         InPool(k) \/ k = rkid \/ (k = skid /\ srv = "send") =>
            req[k] = None /\ (kst[k] # "none" => kst[k] \in {"forked", "reading", "zombie"})
    /\ srv \in {"fork", "closeW", "read", "await", "send"} /\ resp[skid] # None =>
         resp[skid] = cur /\ runs[cur] = 1
    /\ \A k \in Kids : InPool(k) \/ (k = rkid /\ rpc # "pipe2") => resp[k] = None
    /\ srv \in {"acquire", "send", "await", "pipe", "fork", "closeW", "read"} => sres = Zero
    /\ srv \in {"close", "closeR", "reap", "reply"} => sres \in {cur, Zero}
    /\ srv \in {"close", "closeR", "reap", "reply"} /\ sres = cur => runs[cur] = 1

\* A live child holds the write end of its answer, an idle worker the read end
\* of its requests: the shim is told of a death only after the death.
LifeSignsOK ==
    /\ \A k \in Kids :
         /\ kst[k] \notin {"none", "zombie"} => RespW(k) \in fds[k]
         /\ kst[k] \in {"forked", "reading"} => ReqR(k) \in fds[k]
    /\ ZeroMeansDead

\* Answers, and the calls children still have in memory.
AnswersOK ==
    /\ AnswerIsOwn
    /\ \A k \in Kids : kjob[k] # None =>
         /\ phase[kjob[k]] = "active"
         /\ alive => k = skid /\ kjob[k] = cur /\ srv \in Handed

IInv == /\ TypeOK /\ ControlOK /\ RoomOK /\ OwnersOK /\ ShimFdsOK
        /\ WriteEndsOK /\ CallsOK /\ LifeSignsOK /\ AnswersOK

-----------------------------------------------------------------------------
(* Layer 1: types and control.                                             *)

LEMMA InitControl == Init => TypeOK /\ ControlOK
  BY ConstantsAssumption DEF Init, TypeOK, ControlOK, SrvStates, RefillStates, KidStates, Procs,
    WorkerTalk, InlineTalk, Spawning

\* Every step keeps the types.
LEMMA TypeStep ==
  ASSUME TypeOK, ControlOK, [Next]_vars
  PROVE  TypeOK'
  <1> USE ConstantsAssumption DEF TypeOK, ControlOK, SrvStates, RefillStates, KidStates,
        WorkerTalk, InlineTalk, Spawning, Ends, ReqR, ReqW, RespR, RespW, Procs,
        jobVars, srvVars, refVars, kidVars, pipeVars, ShimOpens, ShimCloses
  <1>1. ASSUME NEW j \in Jobs, Receive(j) PROVE TypeOK'
    BY <1>1 DEF Receive
  <1>2. CASE Acquire
    BY <1>2 DEF Acquire
  <1>3. CASE AcquireEmpty
    BY <1>3 DEF AcquireEmpty
  <1>4. CASE Send
    BY <1>4 DEF Send, Held
  <1>5. CASE Await
    BY <1>5 DEF Await, ReadResult
  <1>6. CASE CloseWorker
    BY <1>6 DEF CloseWorker
  <1>7. CASE Reap
    BY <1>7 DEF Reap
  <1>8. CASE InlinePipe
    BY <1>8 DEF InlinePipe
  <1>9. CASE InlinePipeFails
    BY <1>9 DEF InlinePipeFails
  <1>10. CASE InlineFork
    BY <1>10 DEF InlineFork
  <1>11. CASE InlineForkFails
    BY <1>11 DEF InlineForkFails
  <1>12. CASE InlineCloseWrite
    BY <1>12 DEF InlineCloseWrite
  <1>13. CASE InlineRead
    BY <1>13 DEF InlineRead, ReadResult
  <1>14. CASE InlineCloseRead
    BY <1>14 DEF InlineCloseRead
  <1>15. CASE Reply
    BY <1>15 DEF Reply
  <1>16. CASE RefillCheck
    BY <1>16 DEF RefillCheck
  <1>17. CASE SpawnReqPipe
    BY <1>17 DEF SpawnReqPipe
  <1>18. CASE SpawnReqPipeFails
    BY <1>18 DEF SpawnReqPipeFails
  <1>19. CASE SpawnRespPipe
    BY <1>19 DEF SpawnRespPipe
  <1>20. CASE SpawnRespPipeFails
    BY <1>20 DEF SpawnRespPipeFails
  <1>21. CASE SpawnFork
    BY <1>21 DEF SpawnFork
  <1>22. CASE SpawnForkFails
    BY <1>22 DEF SpawnForkFails
  <1>23. CASE SpawnCloseEnds
    BY <1>23 DEF SpawnCloseEnds
  <1>24. CASE RefillPush
    BY <1>24 DEF RefillPush
  <1>25. CASE KillShim
    <2>1. pool' \in Seq(Kids)
      BY <1>25 DEF KillShim
    <2>2. QED
      BY <2>1, <1>25 DEF KillShim
  <1>26. ASSUME NEW k \in Kids, WorkerCloseEnds(k) PROVE TypeOK'
    BY <1>26 DEF WorkerCloseEnds
  <1>27. ASSUME NEW k \in Kids, WorkerRead(k) PROVE TypeOK'
    BY <1>27 DEF WorkerRead
  <1>28. ASSUME NEW k \in Kids, WorkerEof(k) PROVE TypeOK'
    BY <1>28 DEF WorkerEof, Exit
  <1>29. ASSUME NEW k \in Kids, WorkerFilter(k) PROVE TypeOK'
    BY <1>29 DEF WorkerFilter, Enter
  <1>30. ASSUME NEW k \in Kids, WorkerFilterFails(k) PROVE TypeOK'
    BY <1>30 DEF WorkerFilterFails, Exit
  <1>31. ASSUME NEW k \in Kids, InlineEnter(k) PROVE TypeOK'
    BY <1>31 DEF InlineEnter, Enter
  <1>32. ASSUME NEW k \in Kids, Finish(k) PROVE TypeOK'
    BY <1>32 DEF Finish
  <1>33. ASSUME NEW k \in Kids, ChildExit(k) PROVE TypeOK'
    BY <1>33 DEF ChildExit, Exit
  <1>34. ASSUME NEW k \in Kids, Crash(k) PROVE TypeOK'
    BY <1>34 DEF Crash, Exit
  <1>35. ASSUME NEW k \in Kids, InitReaps(k) PROVE TypeOK'
    BY <1>35 DEF InitReaps
  <1>36. CASE UNCHANGED vars
    BY <1>36 DEF vars
  <1>37. QED
    BY <1>1, <1>2, <1>3, <1>4, <1>5, <1>6, <1>7, <1>8, <1>9, <1>10, <1>11, <1>12, <1>13,
       <1>14, <1>15, <1>16, <1>17, <1>18, <1>19, <1>20, <1>21, <1>22, <1>23, <1>24, <1>25,
       <1>26, <1>27, <1>28, <1>29, <1>30, <1>31, <1>32, <1>33, <1>34, <1>35, <1>36
    DEF Next, ServerStep, RefillStep, ChildStep

\* Every step keeps program counters and references in step.
LEMMA ControlStep ==
  ASSUME TypeOK, ControlOK, [Next]_vars
  PROVE  ControlOK'
  <1> USE ConstantsAssumption DEF TypeOK, ControlOK, SrvStates, RefillStates, KidStates,
        WorkerTalk, InlineTalk, Spawning, Ends, ReqR, ReqW, RespR, RespW, Procs,
        jobVars, srvVars, refVars, kidVars, pipeVars, ShimOpens, ShimCloses
  <1>1. ASSUME NEW j \in Jobs, Receive(j) PROVE ControlOK'
    BY <1>1 DEF Receive
  <1>2. CASE Acquire
    BY <1>2 DEF Acquire
  <1>3. CASE AcquireEmpty
    BY <1>3 DEF AcquireEmpty
  <1>4. CASE Send
    BY <1>4 DEF Send, Held
  <1>5. CASE Await
    BY <1>5 DEF Await, ReadResult
  <1>6. CASE CloseWorker
    BY <1>6 DEF CloseWorker
  <1>7. CASE Reap
    BY <1>7 DEF Reap
  <1>8. CASE InlinePipe
    BY <1>8 DEF InlinePipe
  <1>9. CASE InlinePipeFails
    BY <1>9 DEF InlinePipeFails
  <1>10. CASE InlineFork
    BY <1>10 DEF InlineFork
  <1>11. CASE InlineForkFails
    BY <1>11 DEF InlineForkFails
  <1>12. CASE InlineCloseWrite
    BY <1>12 DEF InlineCloseWrite
  <1>13. CASE InlineRead
    BY <1>13 DEF InlineRead, ReadResult
  <1>14. CASE InlineCloseRead
    BY <1>14 DEF InlineCloseRead
  <1>15. CASE Reply
    BY <1>15 DEF Reply
  <1>16. CASE RefillCheck
    BY <1>16 DEF RefillCheck
  <1>17. CASE SpawnReqPipe
    BY <1>17 DEF SpawnReqPipe
  <1>18. CASE SpawnReqPipeFails
    BY <1>18 DEF SpawnReqPipeFails
  <1>19. CASE SpawnRespPipe
    BY <1>19 DEF SpawnRespPipe
  <1>20. CASE SpawnRespPipeFails
    BY <1>20 DEF SpawnRespPipeFails
  <1>21. CASE SpawnFork
    BY <1>21 DEF SpawnFork
  <1>22. CASE SpawnForkFails
    BY <1>22 DEF SpawnForkFails
  <1>23. CASE SpawnCloseEnds
    BY <1>23 DEF SpawnCloseEnds
  <1>24. CASE RefillPush
    BY <1>24 DEF RefillPush
  <1>25. CASE KillShim
    BY <1>25 DEF KillShim
  <1>26. ASSUME NEW k \in Kids, WorkerCloseEnds(k) PROVE ControlOK'
    BY <1>26 DEF WorkerCloseEnds
  <1>27. ASSUME NEW k \in Kids, WorkerRead(k) PROVE ControlOK'
    BY <1>27 DEF WorkerRead
  <1>28. ASSUME NEW k \in Kids, WorkerEof(k) PROVE ControlOK'
    BY <1>28 DEF WorkerEof, Exit
  <1>29. ASSUME NEW k \in Kids, WorkerFilter(k) PROVE ControlOK'
    BY <1>29 DEF WorkerFilter, Enter
  <1>30. ASSUME NEW k \in Kids, WorkerFilterFails(k) PROVE ControlOK'
    BY <1>30 DEF WorkerFilterFails, Exit
  <1>31. ASSUME NEW k \in Kids, InlineEnter(k) PROVE ControlOK'
    BY <1>31 DEF InlineEnter, Enter
  <1>32. ASSUME NEW k \in Kids, Finish(k) PROVE ControlOK'
    BY <1>32 DEF Finish
  <1>33. ASSUME NEW k \in Kids, ChildExit(k) PROVE ControlOK'
    BY <1>33 DEF ChildExit, Exit
  <1>34. ASSUME NEW k \in Kids, Crash(k) PROVE ControlOK'
    BY <1>34 DEF Crash, Exit
  <1>35. ASSUME NEW k \in Kids, InitReaps(k) PROVE ControlOK'
    BY <1>35 DEF InitReaps
  <1>36. CASE UNCHANGED vars
    BY <1>36 DEF vars
  <1>37. QED
    BY <1>1, <1>2, <1>3, <1>4, <1>5, <1>6, <1>7, <1>8, <1>9, <1>10, <1>11, <1>12, <1>13,
       <1>14, <1>15, <1>16, <1>17, <1>18, <1>19, <1>20, <1>21, <1>22, <1>23, <1>24, <1>25,
       <1>26, <1>27, <1>28, <1>29, <1>30, <1>31, <1>32, <1>33, <1>34, <1>35, <1>36
    DEF Next, ServerStep, RefillStep, ChildStep

LEMMA TypeControl == TypeOK /\ ControlOK /\ [Next]_vars => TypeOK' /\ ControlOK'
  BY TypeStep, ControlStep

-----------------------------------------------------------------------------
(* Facts about pipe ends and about the pool as a queue.                    *)

\* The four ends of a child are different and none is an end of another.
LEMMA EndsDiffer ==
    \A k, l :
        /\ (ReqR(k) = ReqR(l) <=> k = l) /\ (ReqW(k) = ReqW(l) <=> k = l)
        /\ (RespR(k) = RespR(l) <=> k = l) /\ (RespW(k) = RespW(l) <=> k = l)
        /\ ReqR(k) # ReqW(l) /\ ReqR(k) # RespR(l) /\ ReqR(k) # RespW(l)
        /\ ReqW(k) # ReqR(l) /\ ReqW(k) # RespR(l) /\ ReqW(k) # RespW(l)
        /\ RespR(k) # ReqR(l) /\ RespR(k) # ReqW(l) /\ RespR(k) # RespW(l)
        /\ RespW(k) # ReqR(l) /\ RespW(k) # ReqW(l) /\ RespW(k) # RespR(l)
  BY DEF ReqR, ReqW, RespR, RespW

\* No worker is in the pool twice.
Distinct == \A i, n \in 1 .. Len(pool) : pool[i] = pool[n] => i = n

LEMMA PoolSame == pool' = pool => (Distinct' <=> Distinct) /\ \A k : InPool(k)' <=> InPool(k)
  BY DEF InPool, Distinct

LEMMA PoolEmpty == pool = <<>> => Distinct /\ \A k : ~InPool(k)
  BY DEF InPool, Distinct

LEMMA PoolEmptied == pool' = <<>> => Distinct' /\ \A k : ~InPool(k)'
  BY DEF InPool, Distinct

LEMMA PoolPop ==
  ASSUME pool \in Seq(Kids), pool # <<>>, Distinct, pool' = Tail(pool),
         NEW x, x = Head(pool)
  PROVE  /\ Distinct'
         /\ x \in Kids /\ InPool(x)
         /\ \A k : InPool(k)' <=> InPool(k) /\ k # x
         /\ Len(pool') = Len(pool) - 1
  <1>1. Len(pool) \in Nat \ {0} /\ Len(pool') = Len(pool) - 1 /\ x = pool[1]
    OBVIOUS
  <1>2. \A i \in 1 .. Len(pool') : pool'[i] = pool[i + 1] /\ i + 1 \in 1 .. Len(pool)
    BY <1>1
  <1>3. Distinct'
    BY <1>1, <1>2 DEF Distinct
  <1>4. InPool(x) /\ x \in Kids
    BY <1>1 DEF InPool
  <1>5. ASSUME NEW k, InPool(k)' PROVE InPool(k) /\ k # x
    BY <1>1, <1>2, <1>5 DEF InPool, Distinct
  <1>6. ASSUME NEW k, InPool(k), k # x PROVE InPool(k)'
    <2>1. PICK i \in 1 .. Len(pool) : pool[i] = k
      BY <1>6 DEF InPool
    <2>2. i # 1 /\ i - 1 \in 1 .. Len(pool')
      BY <2>1, <1>1, <1>6
    <2>3. pool'[i - 1] = k
      BY <2>1, <2>2, <1>2
    <2>4. QED
      BY <2>2, <2>3 DEF InPool
  <1>7. QED
    BY <1>1, <1>3, <1>4, <1>5, <1>6

LEMMA PoolPush ==
  ASSUME pool \in Seq(Kids), Distinct, NEW x \in Kids, ~InPool(x), pool' = Append(pool, x)
  PROVE  /\ Distinct'
         /\ \A k : InPool(k)' <=> InPool(k) \/ k = x
         /\ Len(pool') = Len(pool) + 1
  <1>1. Len(pool) \in Nat /\ Len(pool') = Len(pool) + 1
    OBVIOUS
  <1>2. pool'[Len(pool')] = x /\ \A i \in 1 .. Len(pool) : pool'[i] = pool[i]
    BY <1>1
  <1>3. \A i \in 1 .. Len(pool') : i \in 1 .. Len(pool) \/ i = Len(pool')
    BY <1>1
  <1>4. Distinct'
    BY <1>1, <1>2, <1>3 DEF Distinct, InPool
  <1>5. ASSUME NEW k, InPool(k)' PROVE InPool(k) \/ k = x
    BY <1>1, <1>2, <1>3, <1>5 DEF InPool
  <1>6. ASSUME NEW k, InPool(k) \/ k = x PROVE InPool(k)'
    BY <1>1, <1>2, <1>6 DEF InPool
  <1>7. QED
    BY <1>1, <1>4, <1>5, <1>6

-----------------------------------------------------------------------------
(* Layer 2: the size of the pool.                                          *)

\* Only Acquire and RefillPush (and the end of the shim) change the pool.
LEMMA InitRoom == Init => RoomOK
  BY ConstantsAssumption DEF Init, RoomOK, Spawning

\* Every step keeps room in the pool for the worker being made.
LEMMA RoomStep ==
  ASSUME TypeOK, ControlOK, RoomOK, [Next]_vars
  PROVE  RoomOK'
  <1> USE ConstantsAssumption DEF RoomOK, Spawning,
        jobVars, srvVars, refVars, kidVars, pipeVars
  <1>1. ASSUME NEW j \in Jobs, Receive(j) PROVE RoomOK'
    BY <1>1 DEF Receive
  <1>2. CASE Acquire
    BY <1>2 DEF Acquire, TypeOK
  <1>3. CASE AcquireEmpty
    BY <1>3 DEF AcquireEmpty
  <1>4. CASE Send
    BY <1>4 DEF Send, Held
  <1>5. CASE Await
    BY <1>5 DEF Await, ReadResult
  <1>6. CASE CloseWorker
    BY <1>6 DEF CloseWorker
  <1>7. CASE Reap
    BY <1>7 DEF Reap
  <1>8. CASE InlinePipe
    BY <1>8 DEF InlinePipe
  <1>9. CASE InlinePipeFails
    BY <1>9 DEF InlinePipeFails
  <1>10. CASE InlineFork
    BY <1>10 DEF InlineFork
  <1>11. CASE InlineForkFails
    BY <1>11 DEF InlineForkFails
  <1>12. CASE InlineCloseWrite
    BY <1>12 DEF InlineCloseWrite
  <1>13. CASE InlineRead
    BY <1>13 DEF InlineRead, ReadResult
  <1>14. CASE InlineCloseRead
    BY <1>14 DEF InlineCloseRead
  <1>15. CASE Reply
    BY <1>15 DEF Reply
  <1>16. CASE RefillCheck
    BY <1>16 DEF RefillCheck, TypeOK
  <1>17. CASE SpawnReqPipe
    BY <1>17 DEF SpawnReqPipe
  <1>18. CASE SpawnReqPipeFails
    BY <1>18 DEF SpawnReqPipeFails
  <1>19. CASE SpawnRespPipe
    BY <1>19 DEF SpawnRespPipe
  <1>20. CASE SpawnRespPipeFails
    BY <1>20 DEF SpawnRespPipeFails
  <1>21. CASE SpawnFork
    BY <1>21 DEF SpawnFork
  <1>22. CASE SpawnForkFails
    BY <1>22 DEF SpawnForkFails
  <1>23. CASE SpawnCloseEnds
    BY <1>23 DEF SpawnCloseEnds
  <1>24. CASE RefillPush
    BY <1>24 DEF RefillPush, TypeOK, ControlOK
  <1>25. CASE KillShim
    BY <1>25 DEF KillShim
  <1>26. ASSUME NEW k \in Kids, WorkerCloseEnds(k) PROVE RoomOK'
    BY <1>26 DEF WorkerCloseEnds
  <1>27. ASSUME NEW k \in Kids, WorkerRead(k) PROVE RoomOK'
    BY <1>27 DEF WorkerRead
  <1>28. ASSUME NEW k \in Kids, WorkerEof(k) PROVE RoomOK'
    BY <1>28 DEF WorkerEof, Exit
  <1>29. ASSUME NEW k \in Kids, WorkerFilter(k) PROVE RoomOK'
    BY <1>29 DEF WorkerFilter, Enter
  <1>30. ASSUME NEW k \in Kids, WorkerFilterFails(k) PROVE RoomOK'
    BY <1>30 DEF WorkerFilterFails, Exit
  <1>31. ASSUME NEW k \in Kids, InlineEnter(k) PROVE RoomOK'
    BY <1>31 DEF InlineEnter, Enter
  <1>32. ASSUME NEW k \in Kids, Finish(k) PROVE RoomOK'
    BY <1>32 DEF Finish
  <1>33. ASSUME NEW k \in Kids, ChildExit(k) PROVE RoomOK'
    BY <1>33 DEF ChildExit, Exit
  <1>34. ASSUME NEW k \in Kids, Crash(k) PROVE RoomOK'
    BY <1>34 DEF Crash, Exit
  <1>35. ASSUME NEW k \in Kids, InitReaps(k) PROVE RoomOK'
    BY <1>35 DEF InitReaps
  <1>36. CASE UNCHANGED vars
    BY <1>36 DEF vars
  <1>37. QED
    BY <1>1, <1>2, <1>3, <1>4, <1>5, <1>6, <1>7, <1>8, <1>9, <1>10, <1>11, <1>12, <1>13,
       <1>14, <1>15, <1>16, <1>17, <1>18, <1>19, <1>20, <1>21, <1>22, <1>23, <1>24, <1>25,
       <1>26, <1>27, <1>28, <1>29, <1>30, <1>31, <1>32, <1>33, <1>34, <1>35, <1>36
    DEF Next, ServerStep, RefillStep, ChildStep

-----------------------------------------------------------------------------
(* Layers 2 and 3: the owners of children and the descriptors of the shim. *)

LEMMA InitOwners == Init => OwnersOK /\ ShimFdsOK
  BY ConstantsAssumption, PoolEmpty DEF Init, OwnersOK, ShimFdsOK, OneOwner, NoLostChild, Distinct,
    WorkerTalk, InlineTalk, Spawning, Procs

\* Every step keeps one owner per child.
LEMMA OwnersStep ==
  ASSUME TypeOK, ControlOK, OwnersOK, ShimFdsOK, [Next]_vars
  PROVE  OwnersOK'
  <1> USE ConstantsAssumption, TypeControl, PoolSame DEF TypeOK, ControlOK, OwnersOK, OneOwner, NoLostChild,
        SrvStates, RefillStates, KidStates, WorkerTalk, InlineTalk, Spawning, Procs,
        jobVars, srvVars, refVars, kidVars, pipeVars, ShimOpens, ShimCloses
  <1>1. ASSUME NEW j \in Jobs, Receive(j) PROVE OwnersOK'
    BY <1>1 DEF Receive
  <1>2. CASE Acquire
    BY <1>2, PoolPop DEF Acquire, Distinct
  <1>3. CASE AcquireEmpty
    BY <1>3 DEF AcquireEmpty
  <1>4. CASE Send
    BY <1>4 DEF Send, Held
  <1>5. CASE Await
    BY <1>5 DEF Await, ReadResult
  <1>6. CASE CloseWorker
    BY <1>6 DEF CloseWorker
  <1>7. CASE Reap
    BY <1>7 DEF Reap
  <1>8. CASE InlinePipe
    BY <1>8 DEF InlinePipe, Free, ShimFdsOK
  <1>9. CASE InlinePipeFails
    BY <1>9 DEF InlinePipeFails
  <1>10. CASE InlineFork
    BY <1>10 DEF InlineFork
  <1>11. CASE InlineForkFails
    BY <1>11 DEF InlineForkFails
  <1>12. CASE InlineCloseWrite
    BY <1>12 DEF InlineCloseWrite
  <1>13. CASE InlineRead
    BY <1>13 DEF InlineRead, ReadResult
  <1>14. CASE InlineCloseRead
    BY <1>14 DEF InlineCloseRead
  <1>15. CASE Reply
    BY <1>15 DEF Reply
  <1>16. CASE RefillCheck
    BY <1>16 DEF RefillCheck
  <1>17. CASE SpawnReqPipe
    BY <1>17 DEF SpawnReqPipe, Free, ShimFdsOK
  <1>18. CASE SpawnReqPipeFails
    BY <1>18 DEF SpawnReqPipeFails
  <1>19. CASE SpawnRespPipe
    BY <1>19 DEF SpawnRespPipe
  <1>20. CASE SpawnRespPipeFails
    BY <1>20 DEF SpawnRespPipeFails
  <1>21. CASE SpawnFork
    BY <1>21 DEF SpawnFork
  <1>22. CASE SpawnForkFails
    BY <1>22 DEF SpawnForkFails
  <1>23. CASE SpawnCloseEnds
    BY <1>23 DEF SpawnCloseEnds
  <1>24. CASE RefillPush
    BY <1>24, PoolPush DEF RefillPush, Distinct
  <1>25. CASE KillShim
    BY <1>25, PoolEmptied DEF KillShim, Distinct
  <1>26. ASSUME NEW k \in Kids, WorkerCloseEnds(k) PROVE OwnersOK'
    BY <1>26 DEF WorkerCloseEnds
  <1>27. ASSUME NEW k \in Kids, WorkerRead(k) PROVE OwnersOK'
    BY <1>27 DEF WorkerRead
  <1>28. ASSUME NEW k \in Kids, WorkerEof(k) PROVE OwnersOK'
    BY <1>28 DEF WorkerEof, Exit
  <1>29. ASSUME NEW k \in Kids, WorkerFilter(k) PROVE OwnersOK'
    BY <1>29 DEF WorkerFilter, Enter
  <1>30. ASSUME NEW k \in Kids, WorkerFilterFails(k) PROVE OwnersOK'
    BY <1>30 DEF WorkerFilterFails, Exit
  <1>31. ASSUME NEW k \in Kids, InlineEnter(k) PROVE OwnersOK'
    BY <1>31 DEF InlineEnter, Enter
  <1>32. ASSUME NEW k \in Kids, Finish(k) PROVE OwnersOK'
    BY <1>32 DEF Finish
  <1>33. ASSUME NEW k \in Kids, ChildExit(k) PROVE OwnersOK'
    BY <1>33 DEF ChildExit, Exit
  <1>34. ASSUME NEW k \in Kids, Crash(k) PROVE OwnersOK'
    BY <1>34 DEF Crash, Exit
  <1>35. ASSUME NEW k \in Kids, InitReaps(k) PROVE OwnersOK'
    BY <1>35, PoolEmpty DEF InitReaps
  <1>36. CASE UNCHANGED vars
    BY <1>36 DEF vars
  <1>37. QED
    BY <1>1, <1>2, <1>3, <1>4, <1>5, <1>6, <1>7, <1>8, <1>9, <1>10, <1>11, <1>12, <1>13,
       <1>14, <1>15, <1>16, <1>17, <1>18, <1>19, <1>20, <1>21, <1>22, <1>23, <1>24, <1>25,
       <1>26, <1>27, <1>28, <1>29, <1>30, <1>31, <1>32, <1>33, <1>34, <1>35, <1>36
    DEF Next, ServerStep, RefillStep, ChildStep

\* Every step opens and closes the descriptors its thread ought to.
LEMMA ShimFdsStep ==
  ASSUME TypeOK, ControlOK, OwnersOK, ShimFdsOK, [Next]_vars
  PROVE  ShimFdsOK'
  <1> USE ConstantsAssumption, EndsDiffer, PoolSame, TypeControl DEF TypeOK, ControlOK, OwnersOK,
        OneOwner, ShimFdsOK, SrvStates, RefillStates, KidStates, WorkerTalk, InlineTalk, Spawning,
        Procs, jobVars, srvVars, refVars, kidVars, pipeVars, ShimOpens, ShimCloses
  <1>1. ASSUME NEW j \in Jobs, Receive(j) PROVE ShimFdsOK'
    BY <1>1 DEF Receive
  <1>2. CASE Acquire
    BY <1>2, PoolPop DEF Acquire, Distinct
  <1>3. CASE AcquireEmpty
    BY <1>3 DEF AcquireEmpty
  <1>4. CASE Send
    BY <1>4 DEF Send, Held
  <1>5. CASE Await
    BY <1>5 DEF Await, ReadResult
  <1>6. CASE CloseWorker
    BY <1>6 DEF CloseWorker
  <1>7. CASE Reap
    BY <1>7 DEF Reap
  <1>8. CASE InlinePipe
    BY <1>8 DEF InlinePipe, Free
  <1>9. CASE InlinePipeFails
    BY <1>9 DEF InlinePipeFails
  <1>10. CASE InlineFork
    BY <1>10 DEF InlineFork
  <1>11. CASE InlineForkFails
    BY <1>11 DEF InlineForkFails
  <1>12. CASE InlineCloseWrite
    BY <1>12 DEF InlineCloseWrite
  <1>13. CASE InlineRead
    BY <1>13 DEF InlineRead, ReadResult
  <1>14. CASE InlineCloseRead
    BY <1>14 DEF InlineCloseRead
  <1>15. CASE Reply
    BY <1>15 DEF Reply
  <1>16. CASE RefillCheck
    BY <1>16 DEF RefillCheck
  <1>17. CASE SpawnReqPipe
    BY <1>17 DEF SpawnReqPipe, Free
  <1>18. CASE SpawnReqPipeFails
    BY <1>18 DEF SpawnReqPipeFails
  <1>19. CASE SpawnRespPipe
    BY <1>19 DEF SpawnRespPipe
  <1>20. CASE SpawnRespPipeFails
    BY <1>20 DEF SpawnRespPipeFails
  <1>21. CASE SpawnFork
    BY <1>21 DEF SpawnFork
  <1>22. CASE SpawnForkFails
    BY <1>22 DEF SpawnForkFails
  <1>23. CASE SpawnCloseEnds
    BY <1>23 DEF SpawnCloseEnds
  <1>24. CASE RefillPush
    BY <1>24, PoolPush DEF RefillPush, Distinct
  <1>25. CASE KillShim
    BY <1>25, PoolEmptied DEF KillShim
  <1>26. ASSUME NEW k \in Kids, WorkerCloseEnds(k) PROVE ShimFdsOK'
    BY <1>26 DEF WorkerCloseEnds
  <1>27. ASSUME NEW k \in Kids, WorkerRead(k) PROVE ShimFdsOK'
    BY <1>27 DEF WorkerRead
  <1>28. ASSUME NEW k \in Kids, WorkerEof(k) PROVE ShimFdsOK'
    BY <1>28 DEF WorkerEof, Exit
  <1>29. ASSUME NEW k \in Kids, WorkerFilter(k) PROVE ShimFdsOK'
    BY <1>29 DEF WorkerFilter, Enter
  <1>30. ASSUME NEW k \in Kids, WorkerFilterFails(k) PROVE ShimFdsOK'
    BY <1>30 DEF WorkerFilterFails, Exit
  <1>31. ASSUME NEW k \in Kids, InlineEnter(k) PROVE ShimFdsOK'
    BY <1>31 DEF InlineEnter, Enter
  <1>32. ASSUME NEW k \in Kids, Finish(k) PROVE ShimFdsOK'
    BY <1>32 DEF Finish
  <1>33. ASSUME NEW k \in Kids, ChildExit(k) PROVE ShimFdsOK'
    BY <1>33 DEF ChildExit, Exit
  <1>34. ASSUME NEW k \in Kids, Crash(k) PROVE ShimFdsOK'
    BY <1>34 DEF Crash, Exit
  <1>35. ASSUME NEW k \in Kids, InitReaps(k) PROVE ShimFdsOK'
    BY <1>35 DEF InitReaps
  <1>36. CASE UNCHANGED vars
    BY <1>36 DEF vars
  <1>37. QED
    BY <1>1, <1>2, <1>3, <1>4, <1>5, <1>6, <1>7, <1>8, <1>9, <1>10, <1>11, <1>12, <1>13,
       <1>14, <1>15, <1>16, <1>17, <1>18, <1>19, <1>20, <1>21, <1>22, <1>23, <1>24, <1>25,
       <1>26, <1>27, <1>28, <1>29, <1>30, <1>31, <1>32, <1>33, <1>34, <1>35, <1>36
    DEF Next, ServerStep, RefillStep, ChildStep

-----------------------------------------------------------------------------
(* Layers 3 and 4: write ends of awaited workers, and calls.               *)

LEMMA InitWriteCalls == Init => WriteEndsOK /\ CallsOK
  BY ConstantsAssumption, PoolEmpty DEF Init, WriteEndsOK, Awaited, CallsOK, MayEnter, Entered,
    Handed, Spawning, Procs

\* Every step keeps the write ends of awaited workers where they belong.
LEMMA WriteEndsStep ==
  ASSUME TypeOK, ControlOK, OwnersOK, ShimFdsOK, WriteEndsOK, [Next]_vars
  PROVE  WriteEndsOK'
  <1> USE ConstantsAssumption, EndsDiffer, PoolSame, TypeControl DEF TypeOK, ControlOK, OwnersOK,
        OneOwner, ShimFdsOK, WriteEndsOK, Awaited, SrvStates, RefillStates, KidStates, WorkerTalk,
        InlineTalk, Spawning, Procs, jobVars, srvVars, refVars, kidVars, pipeVars, ShimOpens,
        ShimCloses
  <1>1. ASSUME NEW j \in Jobs, Receive(j) PROVE WriteEndsOK'
    BY <1>1 DEF Receive
  <1>2. CASE Acquire
    BY <1>2, PoolPop DEF Acquire, Distinct
  <1>3. CASE AcquireEmpty
    BY <1>3 DEF AcquireEmpty
  <1>4. CASE Send
    BY <1>4 DEF Send, Held
  <1>5. CASE Await
    BY <1>5 DEF Await, ReadResult
  <1>6. CASE CloseWorker
    BY <1>6 DEF CloseWorker
  <1>7. CASE Reap
    BY <1>7 DEF Reap
  <1>8. CASE InlinePipe
    BY <1>8 DEF InlinePipe, Free
  <1>9. CASE InlinePipeFails
    BY <1>9 DEF InlinePipeFails
  <1>10. CASE InlineFork
    BY <1>10 DEF InlineFork
  <1>11. CASE InlineForkFails
    BY <1>11 DEF InlineForkFails
  <1>12. CASE InlineCloseWrite
    BY <1>12 DEF InlineCloseWrite
  <1>13. CASE InlineRead
    BY <1>13 DEF InlineRead, ReadResult
  <1>14. CASE InlineCloseRead
    BY <1>14 DEF InlineCloseRead
  <1>15. CASE Reply
    BY <1>15 DEF Reply
  <1>16. CASE RefillCheck
    BY <1>16 DEF RefillCheck
  <1>17. CASE SpawnReqPipe
    BY <1>17 DEF SpawnReqPipe, Free
  <1>18. CASE SpawnReqPipeFails
    BY <1>18 DEF SpawnReqPipeFails
  <1>19. CASE SpawnRespPipe
    BY <1>19 DEF SpawnRespPipe
  <1>20. CASE SpawnRespPipeFails
    BY <1>20 DEF SpawnRespPipeFails
  <1>21. CASE SpawnFork
    BY <1>21 DEF SpawnFork
  <1>22. CASE SpawnForkFails
    BY <1>22 DEF SpawnForkFails
  <1>23. CASE SpawnCloseEnds
    BY <1>23 DEF SpawnCloseEnds
  <1>24. CASE RefillPush
    BY <1>24, PoolPush DEF RefillPush, Distinct
  <1>25. CASE KillShim
    BY <1>25, PoolEmptied DEF KillShim
  <1>26. ASSUME NEW k \in Kids, WorkerCloseEnds(k) PROVE WriteEndsOK'
    BY <1>26 DEF WorkerCloseEnds
  <1>27. ASSUME NEW k \in Kids, WorkerRead(k) PROVE WriteEndsOK'
    BY <1>27 DEF WorkerRead
  <1>28. ASSUME NEW k \in Kids, WorkerEof(k) PROVE WriteEndsOK'
    BY <1>28 DEF WorkerEof, Exit
  <1>29. ASSUME NEW k \in Kids, WorkerFilter(k) PROVE WriteEndsOK'
    BY <1>29 DEF WorkerFilter, Enter
  <1>30. ASSUME NEW k \in Kids, WorkerFilterFails(k) PROVE WriteEndsOK'
    BY <1>30 DEF WorkerFilterFails, Exit
  <1>31. ASSUME NEW k \in Kids, InlineEnter(k) PROVE WriteEndsOK'
    BY <1>31 DEF InlineEnter, Enter
  <1>32. ASSUME NEW k \in Kids, Finish(k) PROVE WriteEndsOK'
    BY <1>32 DEF Finish
  <1>33. ASSUME NEW k \in Kids, ChildExit(k) PROVE WriteEndsOK'
    BY <1>33 DEF ChildExit, Exit
  <1>34. ASSUME NEW k \in Kids, Crash(k) PROVE WriteEndsOK'
    BY <1>34 DEF Crash, Exit
  <1>35. ASSUME NEW k \in Kids, InitReaps(k) PROVE WriteEndsOK'
    BY <1>35 DEF InitReaps
  <1>36. CASE UNCHANGED vars
    BY <1>36 DEF vars
  <1>37. QED
    BY <1>1, <1>2, <1>3, <1>4, <1>5, <1>6, <1>7, <1>8, <1>9, <1>10, <1>11, <1>12, <1>13,
       <1>14, <1>15, <1>16, <1>17, <1>18, <1>19, <1>20, <1>21, <1>22, <1>23, <1>24, <1>25,
       <1>26, <1>27, <1>28, <1>29, <1>30, <1>31, <1>32, <1>33, <1>34, <1>35, <1>36
    DEF Next, ServerStep, RefillStep, ChildStep

\* Every step keeps at most one child that may enter a call.
LEMMA CallsStep ==
  ASSUME TypeOK, ControlOK, OwnersOK, ShimFdsOK, CallsOK, [Next]_vars
  PROVE  CallsOK'
  <1> USE ConstantsAssumption, PoolSame, TypeControl DEF TypeOK, ControlOK, OwnersOK,
        OneOwner, ShimFdsOK, CallsOK, MayEnter, Entered, Handed, SrvStates, RefillStates, KidStates,
        WorkerTalk, InlineTalk, Spawning, Procs, jobVars, srvVars, refVars, kidVars, pipeVars,
        ShimOpens, ShimCloses
  <1>1. ASSUME NEW j \in Jobs, Receive(j) PROVE CallsOK'
    BY <1>1 DEF Receive
  <1>2. CASE Acquire
    BY <1>2, PoolPop DEF Acquire, Distinct
  <1>3. CASE AcquireEmpty
    BY <1>3 DEF AcquireEmpty
  <1>4. CASE Send
    BY <1>4 DEF Send, Held
  <1>5. CASE Await
    BY <1>5 DEF Await, ReadResult
  <1>6. CASE CloseWorker
    BY <1>6 DEF CloseWorker
  <1>7. CASE Reap
    BY <1>7 DEF Reap
  <1>8. CASE InlinePipe
    BY <1>8, EndsDiffer DEF InlinePipe, Free
  <1>9. CASE InlinePipeFails
    BY <1>9 DEF InlinePipeFails
  <1>10. CASE InlineFork
    BY <1>10 DEF InlineFork
  <1>11. CASE InlineForkFails
    BY <1>11 DEF InlineForkFails
  <1>12. CASE InlineCloseWrite
    BY <1>12 DEF InlineCloseWrite
  <1>13. CASE InlineRead
    BY <1>13 DEF InlineRead, ReadResult
  <1>14. CASE InlineCloseRead
    BY <1>14 DEF InlineCloseRead
  <1>15. CASE Reply
    BY <1>15 DEF Reply
  <1>16. CASE RefillCheck
    BY <1>16 DEF RefillCheck
  <1>17. CASE SpawnReqPipe
    BY <1>17, EndsDiffer DEF SpawnReqPipe, Free
  <1>18. CASE SpawnReqPipeFails
    BY <1>18 DEF SpawnReqPipeFails
  <1>19. CASE SpawnRespPipe
    BY <1>19 DEF SpawnRespPipe
  <1>20. CASE SpawnRespPipeFails
    BY <1>20 DEF SpawnRespPipeFails
  <1>21. CASE SpawnFork
    BY <1>21 DEF SpawnFork
  <1>22. CASE SpawnForkFails
    BY <1>22 DEF SpawnForkFails
  <1>23. CASE SpawnCloseEnds
    BY <1>23 DEF SpawnCloseEnds
  <1>24. CASE RefillPush
    BY <1>24, PoolPush DEF RefillPush, Distinct
  <1>25. CASE KillShim
    BY <1>25, PoolEmptied DEF KillShim
  <1>26. ASSUME NEW k \in Kids, WorkerCloseEnds(k) PROVE CallsOK'
    BY <1>26 DEF WorkerCloseEnds
  <1>27. ASSUME NEW k \in Kids, WorkerRead(k) PROVE CallsOK'
    BY <1>27 DEF WorkerRead
  <1>28. ASSUME NEW k \in Kids, WorkerEof(k) PROVE CallsOK'
    BY <1>28 DEF WorkerEof, Exit
  <1>29. ASSUME NEW k \in Kids, WorkerFilter(k) PROVE CallsOK'
    BY <1>29 DEF WorkerFilter, Enter
  <1>30. ASSUME NEW k \in Kids, WorkerFilterFails(k) PROVE CallsOK'
    BY <1>30 DEF WorkerFilterFails, Exit
  <1>31. ASSUME NEW k \in Kids, InlineEnter(k) PROVE CallsOK'
    BY <1>31 DEF InlineEnter, Enter
  <1>32. ASSUME NEW k \in Kids, Finish(k) PROVE CallsOK'
    BY <1>32 DEF Finish
  <1>33. ASSUME NEW k \in Kids, ChildExit(k) PROVE CallsOK'
    BY <1>33 DEF ChildExit, Exit
  <1>34. ASSUME NEW k \in Kids, Crash(k) PROVE CallsOK'
    BY <1>34 DEF Crash, Exit
  <1>35. ASSUME NEW k \in Kids, InitReaps(k) PROVE CallsOK'
    BY <1>35 DEF InitReaps
  <1>36. CASE UNCHANGED vars
    BY <1>36 DEF vars
  <1>37. QED
    BY <1>1, <1>2, <1>3, <1>4, <1>5, <1>6, <1>7, <1>8, <1>9, <1>10, <1>11, <1>12, <1>13,
       <1>14, <1>15, <1>16, <1>17, <1>18, <1>19, <1>20, <1>21, <1>22, <1>23, <1>24, <1>25,
       <1>26, <1>27, <1>28, <1>29, <1>30, <1>31, <1>32, <1>33, <1>34, <1>35, <1>36
    DEF Next, ServerStep, RefillStep, ChildStep

\* Every step keeps the signs of life of the children.
LEMMA LifeSignsStep ==
  ASSUME TypeOK, ControlOK, OwnersOK, ShimFdsOK, CallsOK, LifeSignsOK, [Next]_vars
  PROVE  LifeSignsOK'
  <1> USE ConstantsAssumption, EndsDiffer, PoolSame, TypeControl DEF LifeSignsOK, ZeroMeansDead, TypeOK, ControlOK, OwnersOK,
        OneOwner, ShimFdsOK, CallsOK, MayEnter, Entered, Handed, SrvStates, RefillStates, KidStates,
        WorkerTalk, InlineTalk, Spawning, Procs, jobVars, srvVars, refVars, kidVars, pipeVars,
        ShimOpens, ShimCloses
  <1>1. ASSUME NEW j \in Jobs, Receive(j) PROVE LifeSignsOK'
    BY <1>1 DEF Receive
  <1>2. CASE Acquire
    BY <1>2 DEF Acquire
  <1>3. CASE AcquireEmpty
    BY <1>3 DEF AcquireEmpty
  <1>4. CASE Send
    BY <1>4 DEF Send, Held
  <1>5. CASE Await
    BY <1>5 DEF Await, Held, ReadResult
  <1>6. CASE CloseWorker
    BY <1>6 DEF CloseWorker
  <1>7. CASE Reap
    BY <1>7 DEF Reap
  <1>8. CASE InlinePipe
    BY <1>8 DEF InlinePipe
  <1>9. CASE InlinePipeFails
    BY <1>9 DEF InlinePipeFails
  <1>10. CASE InlineFork
    BY <1>10 DEF InlineFork
  <1>11. CASE InlineForkFails
    BY <1>11 DEF InlineForkFails
  <1>12. CASE InlineCloseWrite
    BY <1>12 DEF InlineCloseWrite
  <1>13. CASE InlineRead
    BY <1>13 DEF InlineRead, Held, ReadResult
  <1>14. CASE InlineCloseRead
    BY <1>14 DEF InlineCloseRead
  <1>15. CASE Reply
    BY <1>15 DEF Reply
  <1>16. CASE RefillCheck
    BY <1>16 DEF RefillCheck
  <1>17. CASE SpawnReqPipe
    BY <1>17 DEF SpawnReqPipe
  <1>18. CASE SpawnReqPipeFails
    BY <1>18 DEF SpawnReqPipeFails
  <1>19. CASE SpawnRespPipe
    BY <1>19 DEF SpawnRespPipe
  <1>20. CASE SpawnRespPipeFails
    BY <1>20 DEF SpawnRespPipeFails
  <1>21. CASE SpawnFork
    BY <1>21 DEF SpawnFork
  <1>22. CASE SpawnForkFails
    BY <1>22 DEF SpawnForkFails
  <1>23. CASE SpawnCloseEnds
    BY <1>23 DEF SpawnCloseEnds
  <1>24. CASE RefillPush
    BY <1>24 DEF RefillPush
  <1>25. CASE KillShim
    BY <1>25 DEF KillShim
  <1>26. ASSUME NEW k \in Kids, WorkerCloseEnds(k) PROVE LifeSignsOK'
    BY <1>26 DEF WorkerCloseEnds
  <1>27. ASSUME NEW k \in Kids, WorkerRead(k) PROVE LifeSignsOK'
    BY <1>27 DEF WorkerRead
  <1>28. ASSUME NEW k \in Kids, WorkerEof(k) PROVE LifeSignsOK'
    BY <1>28 DEF WorkerEof, Exit
  <1>29. ASSUME NEW k \in Kids, WorkerFilter(k) PROVE LifeSignsOK'
    BY <1>29 DEF WorkerFilter, Enter
  <1>30. ASSUME NEW k \in Kids, WorkerFilterFails(k) PROVE LifeSignsOK'
    BY <1>30 DEF WorkerFilterFails, Exit
  <1>31. ASSUME NEW k \in Kids, InlineEnter(k) PROVE LifeSignsOK'
    BY <1>31 DEF InlineEnter, Enter
  <1>32. ASSUME NEW k \in Kids, Finish(k) PROVE LifeSignsOK'
    BY <1>32 DEF Finish
  <1>33. ASSUME NEW k \in Kids, ChildExit(k) PROVE LifeSignsOK'
    BY <1>33 DEF ChildExit, Exit
  <1>34. ASSUME NEW k \in Kids, Crash(k) PROVE LifeSignsOK'
    BY <1>34 DEF Crash, Exit
  <1>35. ASSUME NEW k \in Kids, InitReaps(k) PROVE LifeSignsOK'
    BY <1>35 DEF InitReaps
  <1>36. CASE UNCHANGED vars
    BY <1>36 DEF vars
  <1>37. QED
    BY <1>1, <1>2, <1>3, <1>4, <1>5, <1>6, <1>7, <1>8, <1>9, <1>10, <1>11, <1>12, <1>13,
       <1>14, <1>15, <1>16, <1>17, <1>18, <1>19, <1>20, <1>21, <1>22, <1>23, <1>24, <1>25,
       <1>26, <1>27, <1>28, <1>29, <1>30, <1>31, <1>32, <1>33, <1>34, <1>35, <1>36
    DEF Next, ServerStep, RefillStep, ChildStep

\* Every step keeps the answers right.
LEMMA AnswersStep ==
  ASSUME TypeOK, ControlOK, OwnersOK, ShimFdsOK, CallsOK, AnswersOK, [Next]_vars
  PROVE  AnswersOK'
  <1> USE ConstantsAssumption, PoolSame, TypeControl DEF AnswersOK, AnswerIsOwn, TypeOK, ControlOK, OwnersOK,
        OneOwner, ShimFdsOK, CallsOK, MayEnter, Entered, Handed, SrvStates, RefillStates, KidStates,
        WorkerTalk, InlineTalk, Spawning, Procs, jobVars, srvVars, refVars, kidVars, pipeVars,
        ShimOpens, ShimCloses
  <1>1. ASSUME NEW j \in Jobs, Receive(j) PROVE AnswersOK'
    BY <1>1 DEF Receive
  <1>2. CASE Acquire
    BY <1>2 DEF Acquire
  <1>3. CASE AcquireEmpty
    BY <1>3 DEF AcquireEmpty
  <1>4. CASE Send
    BY <1>4 DEF Send, Held
  <1>5. CASE Await
    BY <1>5 DEF Await, ReadResult
  <1>6. CASE CloseWorker
    BY <1>6 DEF CloseWorker
  <1>7. CASE Reap
    BY <1>7 DEF Reap
  <1>8. CASE InlinePipe
    BY <1>8 DEF InlinePipe
  <1>9. CASE InlinePipeFails
    BY <1>9 DEF InlinePipeFails
  <1>10. CASE InlineFork
    BY <1>10 DEF InlineFork
  <1>11. CASE InlineForkFails
    BY <1>11 DEF InlineForkFails
  <1>12. CASE InlineCloseWrite
    BY <1>12 DEF InlineCloseWrite
  <1>13. CASE InlineRead
    BY <1>13 DEF InlineRead, ReadResult
  <1>14. CASE InlineCloseRead
    BY <1>14 DEF InlineCloseRead
  <1>15. CASE Reply
    BY <1>15 DEF Reply
  <1>16. CASE RefillCheck
    BY <1>16 DEF RefillCheck
  <1>17. CASE SpawnReqPipe
    BY <1>17 DEF SpawnReqPipe
  <1>18. CASE SpawnReqPipeFails
    BY <1>18 DEF SpawnReqPipeFails
  <1>19. CASE SpawnRespPipe
    BY <1>19 DEF SpawnRespPipe
  <1>20. CASE SpawnRespPipeFails
    BY <1>20 DEF SpawnRespPipeFails
  <1>21. CASE SpawnFork
    BY <1>21 DEF SpawnFork
  <1>22. CASE SpawnForkFails
    BY <1>22 DEF SpawnForkFails
  <1>23. CASE SpawnCloseEnds
    BY <1>23 DEF SpawnCloseEnds
  <1>24. CASE RefillPush
    BY <1>24 DEF RefillPush
  <1>25. CASE KillShim
    BY <1>25 DEF KillShim
  <1>26. ASSUME NEW k \in Kids, WorkerCloseEnds(k) PROVE AnswersOK'
    BY <1>26 DEF WorkerCloseEnds
  <1>27. ASSUME NEW k \in Kids, WorkerRead(k) PROVE AnswersOK'
    BY <1>27 DEF WorkerRead
  <1>28. ASSUME NEW k \in Kids, WorkerEof(k) PROVE AnswersOK'
    BY <1>28 DEF WorkerEof, Exit
  <1>29. ASSUME NEW k \in Kids, WorkerFilter(k) PROVE AnswersOK'
    BY <1>29 DEF WorkerFilter, Enter
  <1>30. ASSUME NEW k \in Kids, WorkerFilterFails(k) PROVE AnswersOK'
    BY <1>30 DEF WorkerFilterFails, Exit
  <1>31. ASSUME NEW k \in Kids, InlineEnter(k) PROVE AnswersOK'
    BY <1>31 DEF InlineEnter, Enter
  <1>32. ASSUME NEW k \in Kids, Finish(k) PROVE AnswersOK'
    BY <1>32 DEF Finish
  <1>33. ASSUME NEW k \in Kids, ChildExit(k) PROVE AnswersOK'
    BY <1>33 DEF ChildExit, Exit
  <1>34. ASSUME NEW k \in Kids, Crash(k) PROVE AnswersOK'
    BY <1>34 DEF Crash, Exit
  <1>35. ASSUME NEW k \in Kids, InitReaps(k) PROVE AnswersOK'
    BY <1>35 DEF InitReaps
  <1>36. CASE UNCHANGED vars
    BY <1>36 DEF vars
  <1>37. QED
    BY <1>1, <1>2, <1>3, <1>4, <1>5, <1>6, <1>7, <1>8, <1>9, <1>10, <1>11, <1>12, <1>13,
       <1>14, <1>15, <1>16, <1>17, <1>18, <1>19, <1>20, <1>21, <1>22, <1>23, <1>24, <1>25,
       <1>26, <1>27, <1>28, <1>29, <1>30, <1>31, <1>32, <1>33, <1>34, <1>35, <1>36
    DEF Next, ServerStep, RefillStep, ChildStep

\* Every step is a step of CallService or leaves the calls alone.
LEMMA RefinementStep ==
  ASSUME IInv, IInv', [Next]_vars
  PROVE  [Calls!Next]_(Calls!callVars)
  <1> USE ConstantsAssumption DEF IInv, TypeOK, ControlOK, CallsOK, MayEnter, Handed, SrvStates,
        jobVars, Calls!Next, Calls!Accept, Calls!Execute, Calls!Answer, Calls!Stop, Calls!callVars
  <1>1. ASSUME NEW j \in Jobs, Receive(j) PROVE [Calls!Next]_(Calls!callVars)
    BY <1>1 DEF Receive
  <1>2. CASE Acquire
    BY <1>2 DEF Acquire
  <1>3. CASE AcquireEmpty
    BY <1>3 DEF AcquireEmpty
  <1>4. CASE Send
    BY <1>4 DEF Send, Held
  <1>5. CASE Await
    BY <1>5 DEF Await, ReadResult
  <1>6. CASE CloseWorker
    BY <1>6 DEF CloseWorker
  <1>7. CASE Reap
    BY <1>7 DEF Reap
  <1>8. CASE InlinePipe
    BY <1>8 DEF InlinePipe
  <1>9. CASE InlinePipeFails
    BY <1>9 DEF InlinePipeFails
  <1>10. CASE InlineFork
    BY <1>10 DEF InlineFork
  <1>11. CASE InlineForkFails
    BY <1>11 DEF InlineForkFails
  <1>12. CASE InlineCloseWrite
    BY <1>12 DEF InlineCloseWrite
  <1>13. CASE InlineRead
    BY <1>13 DEF InlineRead, ReadResult
  <1>14. CASE InlineCloseRead
    BY <1>14 DEF InlineCloseRead
  <1>15. CASE Reply
    BY <1>15 DEF Reply
  <1>16. CASE RefillCheck
    BY <1>16 DEF RefillCheck
  <1>17. CASE SpawnReqPipe
    BY <1>17 DEF SpawnReqPipe
  <1>18. CASE SpawnReqPipeFails
    BY <1>18 DEF SpawnReqPipeFails
  <1>19. CASE SpawnRespPipe
    BY <1>19 DEF SpawnRespPipe
  <1>20. CASE SpawnRespPipeFails
    BY <1>20 DEF SpawnRespPipeFails
  <1>21. CASE SpawnFork
    BY <1>21 DEF SpawnFork
  <1>22. CASE SpawnForkFails
    BY <1>22 DEF SpawnForkFails
  <1>23. CASE SpawnCloseEnds
    BY <1>23 DEF SpawnCloseEnds
  <1>24. CASE RefillPush
    BY <1>24 DEF RefillPush
  <1>25. CASE KillShim
    BY <1>25 DEF KillShim
  <1>26. ASSUME NEW k \in Kids, WorkerCloseEnds(k) PROVE [Calls!Next]_(Calls!callVars)
    BY <1>26 DEF WorkerCloseEnds
  <1>27. ASSUME NEW k \in Kids, WorkerRead(k) PROVE [Calls!Next]_(Calls!callVars)
    BY <1>27 DEF WorkerRead
  <1>28. ASSUME NEW k \in Kids, WorkerEof(k) PROVE [Calls!Next]_(Calls!callVars)
    BY <1>28 DEF WorkerEof, Exit
  <1>29. ASSUME NEW k \in Kids, WorkerFilter(k) PROVE [Calls!Next]_(Calls!callVars)
    <2>1. kjob[k] \in Jobs /\ phase[kjob[k]] = "active" /\ runs[kjob[k]] = 0
      BY <1>29 DEF WorkerFilter, KidStates
    <2>2. Calls!Execute(kjob[k])
      BY <2>1, <1>29 DEF WorkerFilter, Enter
    <2>3. QED
      BY <2>1, <2>2
  <1>30. ASSUME NEW k \in Kids, WorkerFilterFails(k) PROVE [Calls!Next]_(Calls!callVars)
    BY <1>30 DEF WorkerFilterFails, Exit
  <1>31. ASSUME NEW k \in Kids, InlineEnter(k) PROVE [Calls!Next]_(Calls!callVars)
    <2>1. kjob[k] \in Jobs /\ phase[kjob[k]] = "active" /\ runs[kjob[k]] = 0
      BY <1>31 DEF InlineEnter, KidStates
    <2>2. Calls!Execute(kjob[k])
      BY <2>1, <1>31 DEF InlineEnter, Enter
    <2>3. QED
      BY <2>1, <2>2
  <1>32. ASSUME NEW k \in Kids, Finish(k) PROVE [Calls!Next]_(Calls!callVars)
    BY <1>32 DEF Finish
  <1>33. ASSUME NEW k \in Kids, ChildExit(k) PROVE [Calls!Next]_(Calls!callVars)
    BY <1>33 DEF ChildExit, Exit
  <1>34. ASSUME NEW k \in Kids, Crash(k) PROVE [Calls!Next]_(Calls!callVars)
    BY <1>34 DEF Crash, Exit
  <1>35. ASSUME NEW k \in Kids, InitReaps(k) PROVE [Calls!Next]_(Calls!callVars)
    BY <1>35 DEF InitReaps
  <1>36. CASE UNCHANGED vars
    BY <1>36 DEF vars
  <1>37. QED
    BY <1>1, <1>2, <1>3, <1>4, <1>5, <1>6, <1>7, <1>8, <1>9, <1>10, <1>11, <1>12, <1>13,
       <1>14, <1>15, <1>16, <1>17, <1>18, <1>19, <1>20, <1>21, <1>22, <1>23, <1>24, <1>25,
       <1>26, <1>27, <1>28, <1>29, <1>30, <1>31, <1>32, <1>33, <1>34, <1>35, <1>36
    DEF Next, ServerStep, RefillStep, ChildStep

-----------------------------------------------------------------------------
(* The theorems.                                                           *)

LEMMA InitAnswers == Init => LifeSignsOK /\ AnswersOK
  BY ConstantsAssumption DEF Init, LifeSignsOK, ZeroMeansDead, AnswersOK, AnswerIsOwn

\* The inductive invariant: every reachable state of the shim, whatever fails
\* and dies, satisfies all layers.
THEOREM Invariance == Spec => []IInv
  <1>1. Init => IInv
    BY InitControl, InitRoom, InitOwners, InitWriteCalls, InitAnswers DEF IInv
  <1>2. IInv /\ [Next]_vars => IInv'
    BY TypeStep, ControlStep, RoomStep, OwnersStep, ShimFdsStep, WriteEndsStep, CallsStep,
       LifeSignsStep, AnswersStep DEF IInv
  <1>3. QED
    BY <1>1, <1>2, PTL DEF Spec

\* Types: every variable keeps to its set.
THEOREM TypeCorrect == Spec => []TypeOK
  BY Invariance, PTL DEF IInv

\* handle_invoke enters the function of a call at most once, whatever dies.
THEOREM CallsAtMostOnce == Spec => []AtMostOnce
  <1>1. IInv => AtMostOnce
    BY DEF IInv, CallsOK, AtMostOnce
  <1>2. QED
    BY <1>1, Invariance, PTL

\* A call is answered with its own result or with 0.
THEOREM AnswersAreOwn == Spec => []AnswerIsOwn
  <1>1. IInv => AnswerIsOwn
    BY DEF IInv, AnswersOK
  <1>2. QED
    BY <1>1, Invariance, PTL

\* When a call is answered no child works on it or will take it.
THEOREM AnsweredCallsAreOver == Spec => []AnsweredMeansOver
  <1>1. IInv => AnsweredMeansOver
    BY ConstantsAssumption DEF IInv, AnswersOK, CallsOK, MayEnter, AnsweredMeansOver
  <1>2. QED
    BY <1>1, Invariance, PTL

\* Past the read, 0 in the result means that the child died.
THEOREM ZeroIsDeath == Spec => []ZeroMeansDead
  <1>1. IInv => ZeroMeansDead
    BY DEF IInv, LifeSignsOK
  <1>2. QED
    BY <1>1, Invariance, PTL

\* Each child has one owner, and none is forgotten unreaped.
THEOREM ChildrenAreOwned == Spec => [](OneOwner /\ NoLostChild)
  <1>1. IInv => OneOwner /\ NoLostChild
    BY DEF IInv, OwnersOK
  <1>2. QED
    BY <1>1, Invariance, PTL

\* The pool keeps to its target.
THEOREM PoolKeepsToTarget == Spec => []PoolBounded
  <1>1. IInv => PoolBounded
    BY DEF IInv, RoomOK, PoolBounded
  <1>2. QED
    BY <1>1, Invariance, PTL

\* The shim holds the descriptors its pool and its two threads account for,
\* and no other, on every error path.
THEOREM DescriptorsAccounted == Spec => []NoFdLeak
  <1>1. IInv => NoFdLeak
    <2> SUFFICES ASSUME IInv PROVE NoFdLeak
      OBVIOUS
    <2> USE ConstantsAssumption DEF IInv, TypeOK, ControlOK, ShimFdsOK, WorkerTalk, InlineTalk,
          Spawning, SrvStates, RefillStates, Procs
    <2> DEFINE Due == PoolFds \cup ServerFds \cup RefillFds
    <2>1. ASSUME NEW k \in Kids
          PROVE  /\ ReqR(k) \in fds[Shim] <=> ReqR(k) \in Due
                 /\ ReqW(k) \in fds[Shim] <=> ReqW(k) \in Due
                 /\ RespR(k) \in fds[Shim] <=> RespR(k) \in Due
                 /\ RespW(k) \in fds[Shim] <=> RespW(k) \in Due
      BY <2>1, EndsDiffer DEF PoolFds, ServerFds, RefillFds
    <2>2. \A e \in Ends : \E k \in Kids : e \in {ReqR(k), ReqW(k), RespR(k), RespW(k)}
      BY DEF Ends, ReqR, ReqW, RespR, RespW
    <2>3. \A k \in Kids : ReqR(k) \in Ends /\ ReqW(k) \in Ends /\ RespR(k) \in Ends /\ RespW(k) \in Ends
      BY DEF Ends, ReqR, ReqW, RespR, RespW
    <2>4. Due \subseteq Ends
      BY <2>3 DEF PoolFds, ServerFds, RefillFds
    <2>5. fds[Shim] \subseteq Ends
      OBVIOUS
    <2> HIDE DEF Due
    <2>6. ASSUME NEW e \in Ends PROVE e \in fds[Shim] <=> e \in Due
      <3>1. PICK k \in Kids : e \in {ReqR(k), ReqW(k), RespR(k), RespW(k)}
        BY <2>2
      <3>2. QED
        BY <2>1, <3>1
    <2>7. QED
      BY <2>4, <2>5, <2>6 DEF NoFdLeak, Due
  <1>2. QED
    BY <1>1, Invariance, PTL

\* While the request loop waits for a worker, only the worker holds the write
\* end of its answer: the death of the worker ends the wait.
THEOREM DeathsAreSeen == Spec => []WorkerDeathSeen
  <1>1. IInv => WorkerDeathSeen
    BY ConstantsAssumption DEF IInv, TypeOK, ControlOK, OwnersOK, OneOwner, ShimFdsOK, WriteEndsOK, Awaited, WorkerDeathSeen,
      WorkerTalk, InlineTalk, Spawning, Procs
  <1>2. QED
    BY <1>1, Invariance, PTL

\* The worker pool implements CallService: one request at a time, entered at
\* most once, answered once with its own result or 0.
THEOREM Refinement == Spec => CallsSpec
  <1>1. Init => Calls!Init
    BY DEF Init, Calls!Init
  <1>2. IInv /\ IInv' /\ [Next]_vars => [Calls!Next]_(Calls!callVars)
    BY RefinementStep
  <1>3. QED
    BY <1>1, <1>2, Invariance, PTL DEF Spec, CallsSpec, Calls!Spec
=============================================================================
