---------------------------- MODULE HostChannel ----------------------------
(***************************************************************************)
(* The Cap'n Proto transport of the host class: application threads in     *)
(* capnp_call, the shim's request loop, the child that runs a call and may *)
(* call back, the callback thread, and create / destroy around them        *)
(* (include/rlbox_process_sandbox.hpp, src/rlbox_process_sandbox_shim.cpp).*)
(*                                                                         *)
(* Two stream sockets join the processes: requests one way and responses   *)
(* back, callback requests and their replies the other way.  Nothing on    *)
(* the wire says to which request a response belongs; order and mutexes    *)
(* must see to that.  Here each message carries the call it was made for,  *)
(* which the code does not look at, so that a mix-up shows.                *)
(*                                                                         *)
(* Abstractions.  A call is <<thread, number>>.  What runs inside the      *)
(* child is WorkerPool; here a call runs, calls back at most once and      *)
(* ends.  Creation succeeds.  A generation of sockets that is closed takes *)
(* its undelivered messages with it.  The caller is the meta sandbox: of   *)
(* its locks, symbol_cache_mutex is the one held across a request.  A      *)
(* program that ends ("aborted") takes its threads and sockets with it, and *)
(* the shim outlives it.                                                   *)
(***************************************************************************)
EXTENDS Naturals, Sequences

CONSTANTS
    Threads,      \* application threads
    Cb,           \* the callback thread, when it makes a call itself
    MaxCalls,     \* calls per thread (bound)
    MaxCreates,   \* times the object is created (bound)
    Nested,       \* do callback handlers use the sandbox?
    ChildDies,    \* may a child die in a call?
    None, Zero,
    Garbage       \* what a call returns whose end is undefined

ASSUME ChannelAssumption ==
    /\ Cb \notin Threads
    /\ MaxCalls \in Nat /\ MaxCreates \in Nat
    /\ Nested \in BOOLEAN /\ ChildDies \in BOOLEAN
    /\ None \notin Threads \cup {Cb}

Callers == Threads \cup {Cb}
Calls == Callers \X (1 .. MaxCalls)
Kinds == {"invoke", "lookup", "other"}   \* other: malloc, free, (un)register

VARIABLES
    main,      \* the thread that creates and destroys
    gen,       \* how often the sandbox was created
    stop,      \* callback_thread_stop
    reqFd,     \* is request_fd open?
    cbFd,      \* is callback_fd open?
    mutex,     \* holder of request_mutex
    cache,     \* holder of symbol_cache_mutex across a request
    pc,        \* pc[t]: where t is in capnp_call
    num,       \* num[t]: calls t has made
    kind,      \* kind[t]: what t asks for
    wgen,      \* wgen[t]: the generation t wrote its request to
    got,       \* got[t]: what the last call of t returned
    toShim, toHost,      \* the request socket
    toCb, toChild,       \* the callback socket
    shim,      \* the shim's request loop
    sreq,      \* the request it handles
    child,     \* the child running the call
    fired,     \* has it called back?
    cbGot,     \* the callback reply it received
    orphan,    \* has a child died with a callback under way?
    cb,        \* the callback thread
    cbCall     \* the call whose callback it serves

hostVars == <<main, gen, stop, reqFd, cbFd>>
callVars == <<mutex, cache, pc, num, kind, wgen, got>>
wireVars == <<toShim, toHost>>
cbWireVars == <<toCb, toChild>>
shimVars == <<shim, sreq>>
childVars == <<child, fired, cbGot, orphan>>
cbVars == <<cb, cbCall>>
vars == <<hostVars, callVars, wireVars, cbWireVars, shimVars, childVars, cbVars>>

Init ==
    /\ main = "down" /\ gen = 0 /\ stop = FALSE /\ reqFd = FALSE /\ cbFd = FALSE
    /\ mutex = None /\ cache = None
    /\ pc = [t \in Callers |-> "idle"] /\ num = [t \in Callers |-> 0]
    /\ kind = [t \in Callers |-> "other"] /\ wgen = [t \in Callers |-> 0]
    /\ got = [t \in Callers |-> Zero]
    /\ toShim = <<>> /\ toHost = <<>> /\ toCb = <<>> /\ toChild = <<>>
    /\ shim = "dead" /\ sreq = None
    /\ child = "none" /\ fired = FALSE /\ cbGot = None /\ orphan = FALSE
    /\ cb = "off" /\ cbCall = None

-----------------------------------------------------------------------------
(* capnp_call.                                                             *)

CallOf(t) == <<t, num[t]>>

\* impl_lookup_symbol keeps symbol_cache_mutex until the process backend has
\* answered; an invoke takes and drops it to ask the policy.  (So does a
\* malloc, but a free does not: "other" is let past.)
TakeCache(t, k) ==
    /\ k \in {"invoke", "lookup"} => cache = None
    /\ cache' = IF k = "lookup" THEN t ELSE cache

Start(t) ==
    /\ pc[t] = "idle" /\ num[t] < MaxCalls
    /\ num' = [num EXCEPT ![t] = @ + 1]
    /\ \E k \in Kinds :
         /\ kind' = [kind EXCEPT ![t] = k] /\ TakeCache(t, k)
         /\ pc' = [pc EXCEPT ![t] = IF k = "invoke" THEN "check" ELSE "lock"]
    /\ UNCHANGED <<mutex, wgen, got>>

\* An application thread uses a sandbox that was created.
Call(t) ==
    /\ t \in Threads /\ main = "up"
    /\ Start(t)
    /\ UNCHANGED <<hostVars, wireVars, cbWireVars, shimVars, childVars, cbVars>>

\* The program ends where it stands and the kernel closes its sockets.
Abort ==
    /\ main' = "aborted" /\ reqFd' = FALSE /\ cbFd' = FALSE
    /\ UNCHANGED <<gen, stop>>

\* impl_invoke_with_func_ptr checks request_fd first, without the mutex: an
\* invoke that comes after destroy has closed it ends the program.
Check(t) ==
    /\ pc[t] = "check"
    /\ IF reqFd THEN pc' = [pc EXCEPT ![t] = "lock"] /\ UNCHANGED hostVars
                ELSE Abort /\ UNCHANGED pc
    /\ UNCHANGED <<mutex, cache, num, kind, wgen, got, wireVars, cbWireVars, shimVars, childVars, cbVars>>

Return(t, r) ==
    /\ pc' = [pc EXCEPT ![t] = "idle"]
    /\ got' = [got EXCEPT ![t] = r]
    /\ mutex' = None
    /\ cache' = IF cache = t THEN None ELSE cache

\* Take request_mutex; without a descriptor the call returns 0.
Lock(t) ==
    /\ pc[t] = "lock" /\ mutex = None
    /\ IF reqFd
         THEN pc' = [pc EXCEPT ![t] = "write"] /\ mutex' = t /\ UNCHANGED <<cache, got>>
         ELSE Return(t, Zero)
    /\ UNCHANGED <<hostVars, num, kind, wgen, wireVars, cbWireVars, shimVars, childVars, cbVars>>

\* Mutant: the mutex covers the write only.
Write_Unlock(t) ==
    /\ pc[t] = "write" /\ reqFd
    /\ toShim' = Append(toShim, <<CallOf(t), kind[t]>>)
    /\ wgen' = [wgen EXCEPT ![t] = gen]
    /\ pc' = [pc EXCEPT ![t] = "read"]
    /\ mutex' = None
    /\ UNCHANGED <<hostVars, cache, num, kind, got, toHost, cbWireVars, shimVars, childVars, cbVars>>

Write(t) ==
    /\ pc[t] = "write" /\ reqFd
    /\ toShim' = Append(toShim, <<CallOf(t), kind[t]>>)
    /\ wgen' = [wgen EXCEPT ![t] = gen]
    /\ pc' = [pc EXCEPT ![t] = "read"]
    /\ UNCHANGED <<hostVars, mutex, cache, num, kind, got, toHost, cbWireVars, shimVars, childVars, cbVars>>

Read(t) ==
    /\ pc[t] = "read" /\ reqFd /\ wgen[t] = gen /\ toHost # <<>>
    /\ Return(t, Head(toHost)) /\ toHost' = Tail(toHost)
    /\ UNCHANGED <<hostVars, num, kind, wgen, toShim, cbWireVars, shimVars, childVars, cbVars>>

\* The socket was closed under the call.  kj::Exception and std::exception
\* return 0; catch (...), which 32-bit builds may get to, falls off the end of
\* the function, so that the result is anything or the program ends, as it does
\* when the write raises SIGPIPE.
Broken(t) ==
    /\ \/ pc[t] = "write" /\ ~reqFd
       \/ pc[t] = "read" /\ (~reqFd \/ wgen[t] # gen)
    /\ \/ \E r \in {Zero, Garbage} : Return(t, r) /\ UNCHANGED hostVars
       \/ Abort /\ UNCHANGED <<mutex, cache, pc, got>>
    /\ UNCHANGED <<num, kind, wgen, wireVars, cbWireVars, shimVars, childVars, cbVars>>

-----------------------------------------------------------------------------
(* The shim's request loop and the child it waits for.                     *)

\* Mutant: the shim does not wait for the child.
ShimRead_NoWait ==
    /\ shim = "read" /\ toShim # <<>>
    /\ sreq' = Head(toShim)[1] /\ toShim' = Tail(toShim)
    /\ shim' = "reply"
    /\ IF Head(toShim)[2] = "invoke"
         THEN child' = "run" /\ fired' = FALSE
         ELSE UNCHANGED <<child, fired>>
    /\ UNCHANGED <<hostVars, callVars, toHost, cbWireVars, cbGot, orphan, cbVars>>

ShimRead ==
    /\ shim = "read" /\ toShim # <<>>
    /\ sreq' = Head(toShim)[1] /\ toShim' = Tail(toShim)
    /\ IF Head(toShim)[2] = "invoke"
         THEN shim' = "wait" /\ child' = "run" /\ fired' = FALSE
         ELSE shim' = "reply" /\ UNCHANGED <<child, fired>>
    /\ UNCHANGED <<hostVars, callVars, toHost, cbWireVars, cbGot, orphan, cbVars>>

\* "Premature EOF" is the normal shutdown signal.
ShimEof ==
    /\ shim = "read" /\ toShim = <<>> /\ ~reqFd
    /\ shim' = "ended"
    /\ UNCHANGED <<hostVars, callVars, wireVars, cbWireVars, sreq, childVars, cbVars>>

ShimReply ==
    /\ shim = "reply"
    /\ IF reqFd THEN toHost' = Append(toHost, sreq) /\ shim' = "read"
                ELSE toHost' = toHost /\ shim' = "ended"
    /\ sreq' = None
    /\ UNCHANGED <<hostVars, callVars, toShim, cbWireVars, childVars, cbVars>>

\* trampoline_impl and fire_callback: write, then wait for a reply.
ChildFires ==
    /\ child = "run" /\ ~fired
    /\ fired' = TRUE
    /\ IF cbFd THEN toCb' = Append(toCb, sreq) /\ child' = "callback"
               ELSE UNCHANGED <<toCb, child>>
    /\ UNCHANGED <<hostVars, callVars, wireVars, toChild, shimVars, cbGot, orphan, cbVars>>

\* Mutant: the child does not wait for the reply.
ChildResumes_NoWait ==
    /\ child = "callback"
    /\ \/ toChild # <<>> /\ cbGot' = Head(toChild) /\ toChild' = Tail(toChild)
       \/ toChild = <<>> /\ UNCHANGED <<cbGot, toChild>>
    /\ child' = "resumed"
    /\ UNCHANGED <<hostVars, callVars, wireVars, toCb, shimVars, fired, orphan, cbVars>>

\* Any reply on the socket is taken for ours; 0 at end of file.
ChildResumes ==
    /\ child = "callback"
    /\ \/ toChild # <<>> /\ cbGot' = Head(toChild) /\ toChild' = Tail(toChild)
       \/ toChild = <<>> /\ ~cbFd /\ UNCHANGED <<cbGot, toChild>>
    /\ child' = "resumed"
    /\ UNCHANGED <<hostVars, callVars, wireVars, toCb, shimVars, fired, orphan, cbVars>>

ChildEnds ==
    /\ child \in {"run", "resumed"}
    /\ child' = "none" /\ cbGot' = None /\ shim' = "reply"
    /\ UNCHANGED <<hostVars, callVars, wireVars, cbWireVars, sreq, fired, orphan, cbVars>>

ChildDiesNow ==
    /\ ChildDies /\ child # "none"
    /\ child' = "none" /\ cbGot' = None /\ shim' = "reply"
    /\ orphan' = (orphan \/ child = "callback")
    /\ UNCHANGED <<hostVars, callVars, wireVars, cbWireVars, sreq, fired, cbVars>>

-----------------------------------------------------------------------------
(* start_callback_loop.                                                    *)

CbCheck ==
    /\ cb = "check"
    /\ cb' = IF stop THEN "done" ELSE "read"
    /\ UNCHANGED <<hostVars, callVars, wireVars, cbWireVars, shimVars, childVars, cbCall>>

CbRead ==
    /\ cb = "read" /\ cbFd /\ toCb # <<>>
    /\ cbCall' = Head(toCb) /\ toCb' = Tail(toCb)
    /\ cb' = "handler"
    /\ UNCHANGED <<hostVars, callVars, wireVars, toChild, shimVars, childVars>>

CbEof ==
    /\ cb = "read" /\ ~cbFd
    /\ cb' = "done"
    /\ UNCHANGED <<hostVars, callVars, wireVars, cbWireVars, shimVars, childVars, cbCall>>

\* The handler of the application; a nested one calls into the sandbox first.
CbNests ==
    /\ Nested /\ cb = "handler"
    /\ Start(Cb)
    /\ cb' = "nested"
    /\ UNCHANGED <<hostVars, wireVars, cbWireVars, shimVars, childVars, cbCall>>

\* One that calls wasm only takes symbol_cache_mutex to ask the policy.
CbAsksPolicy ==
    /\ Nested /\ cb = "handler"
    /\ cb' = "policy"
    /\ UNCHANGED <<hostVars, callVars, wireVars, cbWireVars, shimVars, childVars, cbCall>>

CbHandled ==
    /\ \/ cb = "handler"
       \/ cb = "nested" /\ pc[Cb] = "idle"
       \/ cb = "policy" /\ cache = None
    /\ cb' = "reply"
    /\ UNCHANGED <<hostVars, callVars, wireVars, cbWireVars, shimVars, childVars, cbCall>>

\* Mutant: a callback without a dispatcher is not replied to.
CbReply_Silent ==
    /\ cb = "reply"
    /\ cb' = "check" /\ cbCall' = None
    /\ UNCHANGED <<hostVars, callVars, wireVars, cbWireVars, shimVars, childVars>>

CbReply ==
    /\ cb = "reply"
    /\ IF cbFd THEN toChild' = Append(toChild, cbCall) /\ cb' = "check"
               ELSE toChild' = toChild /\ cb' = "done"
    /\ cbCall' = None
    /\ UNCHANGED <<hostVars, callVars, wireVars, toCb, shimVars, childVars>>

-----------------------------------------------------------------------------
(* impl_create_sandbox and impl_destroy_sandbox.                           *)

\* callback_thread_stop keeps the value the last destroy gave it.
Create ==
    /\ main = "down" /\ gen < MaxCreates
    /\ main' = "up" /\ gen' = gen + 1 /\ reqFd' = TRUE /\ cbFd' = TRUE
    /\ shim' = "read" /\ sreq' = None /\ child' = "none" /\ cbGot' = None
    /\ orphan' = FALSE
    /\ cb' = "check" /\ cbCall' = None
    /\ toShim' = <<>> /\ toHost' = <<>> /\ toCb' = <<>> /\ toChild' = <<>>
    /\ UNCHANGED <<stop, callVars, fired>>

DestroyStops ==
    /\ main = "up"
    /\ stop' = TRUE /\ main' = "closeReq"
    /\ UNCHANGED <<gen, reqFd, cbFd, callVars, wireVars, cbWireVars, shimVars, childVars, cbVars>>

DestroyClosesReq ==
    /\ main = "closeReq"
    /\ reqFd' = FALSE /\ main' = "closeCb"
    /\ UNCHANGED <<gen, stop, cbFd, callVars, wireVars, cbWireVars, shimVars, childVars, cbVars>>

\* Mutant: the callback socket is left open.
DestroyClosesCb_Not ==
    /\ main = "closeCb"
    /\ main' = "join"
    /\ UNCHANGED <<gen, stop, reqFd, cbFd, callVars, wireVars, cbWireVars, shimVars, childVars, cbVars>>

DestroyClosesCb ==
    /\ main = "closeCb"
    /\ cbFd' = FALSE /\ main' = "join"
    /\ UNCHANGED <<gen, stop, reqFd, callVars, wireVars, cbWireVars, shimVars, childVars, cbVars>>

\* Mutant: the callback thread is not joined.
DestroyJoins_Not ==
    /\ main = "join"
    /\ main' = "kill"
    /\ UNCHANGED <<gen, stop, reqFd, cbFd, callVars, wireVars, cbWireVars, shimVars, childVars, cbVars>>

DestroyJoins ==
    /\ main = "join" /\ cb = "done"
    /\ main' = "kill"
    /\ UNCHANGED <<gen, stop, reqFd, cbFd, callVars, wireVars, cbWireVars, shimVars, childVars, cbVars>>

\* SIGTERM and waitpid; a child that still runs is cut off from the host.
DestroyKills ==
    /\ main = "kill"
    /\ main' = "down" /\ shim' = "dead" /\ sreq' = None
    /\ child' = "none" /\ cbGot' = None
    /\ UNCHANGED <<gen, stop, reqFd, cbFd, callVars, wireVars, cbWireVars, fired, orphan, cbVars>>

-----------------------------------------------------------------------------
Alive == main # "aborted"
CallStep(t) == Alive /\ (Check(t) \/ Lock(t) \/ Write(t) \/ Read(t) \/ Broken(t))
ShimStep == ShimRead \/ ShimEof \/ ShimReply
ChildStep == ChildFires \/ ChildResumes \/ ChildEnds
CbStep ==
    /\ Alive
    /\ CbCheck \/ CbRead \/ CbEof \/ CbNests \/ CbAsksPolicy \/ CbHandled \/ CbReply
DestroyStep == DestroyClosesReq \/ DestroyClosesCb \/ DestroyJoins \/ DestroyKills

Next == \/ \E t \in Callers : Call(t) \/ CallStep(t)
        \/ ShimStep \/ ChildStep \/ ChildDiesNow \/ CbStep
        \/ Create \/ DestroyStops \/ DestroyStep

Spec == Init /\ [][Next]_vars

(* Threads and processes run; library functions and handlers return.       *)
(* Nobody need call, create or destroy.                                    *)
FairSpec == /\ Spec
            /\ \A t \in Callers : WF_vars(CallStep(t))
            /\ WF_vars(ShimStep) /\ WF_vars(ChildStep) /\ WF_vars(CbStep)
            /\ WF_vars(DestroyStep)

-----------------------------------------------------------------------------
Replies == Calls \cup {None}

\* Every variable keeps to its set.
TypeOK ==
    /\ main \in {"down", "up", "closeReq", "closeCb", "join", "kill", "aborted"}
    /\ gen \in 0 .. MaxCreates /\ {stop, reqFd, cbFd, fired, orphan} \subseteq BOOLEAN
    /\ {mutex, cache} \subseteq Callers \cup {None}
    /\ pc \in [Callers -> {"idle", "check", "lock", "write", "read"}]
    /\ num \in [Callers -> 0 .. MaxCalls]
    /\ kind \in [Callers -> Kinds]
    /\ wgen \in [Callers -> 0 .. MaxCreates]
    /\ got \in [Callers -> Calls \cup {Zero, Garbage}]
    /\ toShim \in Seq(Calls \X Kinds)
    /\ {toHost, toCb, toChild} \subseteq Seq(Calls)
    /\ shim \in {"dead", "read", "wait", "reply", "ended"}
    /\ child \in {"none", "run", "callback", "resumed"}
    /\ {sreq, cbGot, cbCall} \subseteq Replies
    /\ cb \in {"off", "check", "read", "handler", "nested", "policy", "reply", "done"}

\* Was the socket that t used last closed since?
CutOff(t) == ~reqFd \/ wgen[t] # gen

\* A call returns the response to its own request or 0, although threads
\* share one stream and responses do not say whose they are; anything else
\* only when destroy closed the socket under it.  (And the types are right.)
OwnResponse ==
    /\ TypeOK
    /\ \A t \in Callers : pc[t] = "idle" =>
         got[t] \in {CallOf(t), Zero} \/ (got[t] = Garbage /\ CutOff(t))

\* A child that called back gets the reply to its own callback, as long as
\* no child died with a callback under way.
OwnCallbackReply == cbGot # None /\ ~orphan => cbGot = sreq

\* "CallbackRequest -> CallbackResponse": it does in any case.
EveryReplyIsOwn == cbGot # None => cbGot = sreq

\* A handler runs only while the call that caused it waits for its answer:
\* what the application passed to the call is still there.  The call of a
\* child that died does not wait.
HandlerWithinCall ==
    cb \in {"handler", "nested", "policy"} /\ main = "up" /\ ~orphan =>
        cbCall = sreq /\ child = "callback"

\* When destroy has returned no callback thread runs, so that no handler can
\* be entered any more.
QuietAfterDestroy == main = "down" => cb \in {"off", "done"}

\* A request on the wire is answered, or the sandbox destroyed, unless a
\* handler itself calls in, or calls wasm while a symbol is looked up, and in
\* an object that was not created before, or the program ends.
RequestsAnswered ==
    \A t \in Callers : pc[t] = "read" /\ gen = 1 ~>
        pc[t] = "idle" \/ cb = "nested" \/ (cb = "policy" /\ cache # None) \/ ~Alive

\* Destroy never hangs, whatever calls and callbacks are under way.  It need
\* not return: a thread or a handler that invokes meanwhile trips the check of
\* request_fd, and a call whose socket is closed under it may end the program.
DestroyEnds == main = "closeReq" ~> main \in {"down", "aborted"}
=============================================================================
