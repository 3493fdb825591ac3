------------------------- MODULE HostChannelProofs -------------------------
(***************************************************************************)
(* OwnResponse, OwnCallbackReply, HandlerWithinCall and QuietAfterDestroy   *)
(* of HostChannel, for any number of threads, calls and creations.  Nothing *)
(* on the wire says what an answer belongs to; the proof is that a socket  *)
(* that is open carries at most one request or its response, and at most   *)
(* one callback or its reply, as long as no child dies in a callback.      *)
(***************************************************************************)
EXTENDS HostChannel, TLAPS

\* What TypeOK says, part by part.
HostTypes ==
    /\ main \in {"down", "up", "closeReq", "closeCb", "join", "kill", "aborted"}
    /\ gen \in 0 .. MaxCreates
    /\ stop \in BOOLEAN /\ reqFd \in BOOLEAN /\ cbFd \in BOOLEAN
    /\ fired \in BOOLEAN /\ orphan \in BOOLEAN
    /\ shim \in {"dead", "read", "wait", "reply", "ended"}
    /\ child \in {"none", "run", "callback", "resumed"}
    /\ cb \in {"off", "check", "read", "handler", "nested", "policy", "reply", "done"}

CallTypes ==
    /\ mutex \in Callers \cup {None} /\ cache \in Callers \cup {None}
    /\ pc \in [Callers -> {"idle", "check", "lock", "write", "read"}]
    /\ num \in [Callers -> 0 .. MaxCalls]
    /\ kind \in [Callers -> Kinds]
    /\ wgen \in [Callers -> 0 .. MaxCreates]
    /\ got \in [Callers -> Calls \cup {Zero, Garbage}]

WireTypes ==
    /\ toShim \in Seq(Calls \X Kinds)
    /\ toHost \in Seq(Calls) /\ toCb \in Seq(Calls) /\ toChild \in Seq(Calls)
    /\ sreq \in Replies /\ cbGot \in Replies /\ cbCall \in Replies

LEMMA TypeParts == TypeOK <=> HostTypes /\ CallTypes /\ WireTypes
  BY DEF TypeOK, HostTypes, CallTypes, WireTypes

\* Where destroy is, what is open and who may still run.
PhasesOK ==
    /\ reqFd <=> main \in {"up", "closeReq"}
    /\ cbFd <=> main \in {"up", "closeReq", "closeCb"}
    /\ shim = "dead" => main \in {"down", "aborted"}
    /\ main \in {"kill", "down"} => cb \in {"off", "done"}

\* request_mutex covers the write and the read, and a call under way has its
\* number, which its response must bear.
CallsOK ==
    /\ \A t \in Callers : pc[t] \in {"write", "read"} <=> mutex = t
    /\ \A t \in Callers : pc[t] # "idle" => num[t] \in 1 .. MaxCalls
    /\ \A t \in Callers : pc[t] = "idle" =>
         got[t] \in {CallOf(t), Zero} \/ (got[t] = Garbage /\ CutOff(t))
    /\ \A t \in Callers : wgen[t] <= gen

\* t has written to the sockets there are now.
Waits(t) == pc[t] = "read" /\ wgen[t] = gen

\* What a caller waits for is in exactly one place, and without one that
\* waits there is nothing on its way.
OneRequest ==
    reqFd =>
        /\ \A t \in Callers : Waits(t) =>
             \/ /\ shim = "read" /\ toHost = <<>>
                /\ \E k \in Kinds : toShim = << <<CallOf(t), k>> >>
             \/ /\ shim \in {"wait", "reply"} /\ sreq = CallOf(t)
                /\ toShim = <<>> /\ toHost = <<>>
             \/ /\ shim = "read" /\ toShim = <<>>
                /\ toHost = <<CallOf(t)>>
        /\ (\A t \in Callers : ~Waits(t)) => shim = "read" /\ toShim = <<>> /\ toHost = <<>>

Serving == cb \in {"handler", "nested", "policy", "reply"}

\* The shim waits for the child that there is, and the callback thread and
\* the shim know the call that they work on.
ChildOK ==
    /\ child # "none" <=> shim = "wait"
    /\ shim \in {"wait", "reply"} => sreq \in Calls
    /\ Serving => cbCall \in Calls
    /\ cbGot # None => child = "resumed"

\* A callback is in exactly one place, too: sent, served or answered.  Once
\* the socket is closed only a reply that was sent before still arrives.
OneCallback ==
    ~orphan =>
        /\ cbGot # None => cbGot = sreq
        /\ shim # "dead" /\ toChild # <<>> => child = "callback" /\ toChild = <<sreq>>
        /\ cbFd /\ child = "callback" =>
             \/ toCb = <<sreq>> /\ toChild = <<>> /\ ~Serving
             \/ toCb = <<>> /\ toChild = <<>> /\ Serving /\ cbCall = sreq
             \/ toCb = <<>> /\ toChild = <<sreq>> /\ ~Serving
        /\ cbFd /\ child # "callback" => toCb = <<>> /\ toChild = <<>> /\ ~Serving

IInv ==
    /\ HostTypes /\ CallTypes /\ WireTypes
    /\ PhasesOK /\ CallsOK /\ OneRequest /\ ChildOK /\ OneCallback

-----------------------------------------------------------------------------

\* Sequences of one message, and of messages of one kind.
LEMMA OneMessage ==
  ASSUME NEW x
  PROVE  Append(<<>>, x) = <<x>> /\ Head(<<x>>) = x /\ Tail(<<x>>) = <<>> /\ <<x>> # <<>>
  OBVIOUS

LEMMA Messages ==
  ASSUME NEW C, NEW s \in Seq(C)
  PROVE  /\ \A x \in C : Append(s, x) \in Seq(C)
         /\ s # <<>> => Head(s) \in C /\ Tail(s) \in Seq(C)
  OBVIOUS

\* A call under way has its number.
LEMMA CallsNumbered ==
  ASSUME CallTypes, CallsOK, NEW t \in Callers, pc[t] # "idle"
  PROVE  CallOf(t) \in Calls
  BY DEF CallTypes, CallsOK, CallOf, Calls

-----------------------------------------------------------------------------
\* Before the first creation there is nothing.
LEMMA InitIInv == Init => IInv
  <1> SUFFICES ASSUME Init PROVE IInv
    OBVIOUS
  <1>1. HostTypes /\ CallTypes /\ WireTypes
    <2>1. gen \in 0 .. MaxCreates
      BY ChannelAssumption DEF Init
    <2>2. HostTypes
      BY <2>1 DEF Init, HostTypes
    <2>3. CallTypes
      BY ChannelAssumption DEF Init, CallTypes, Callers, Kinds
    <2>4. WireTypes
      BY DEF Init, WireTypes, Replies
    <2>5. QED
      BY <2>2, <2>3, <2>4
  <1>2. PhasesOK /\ CallsOK /\ OneRequest /\ ChildOK /\ OneCallback
    BY ChannelAssumption DEF Init, PhasesOK, CallsOK, OneRequest, ChildOK, OneCallback, Serving, Callers
  <1>3. QED
    BY <1>1, <1>2 DEF IInv

\* Every step keeps the types.
LEMMA HostTypesStep ==
  ASSUME HostTypes, [Next]_vars
  PROVE  HostTypes'
  <1> USE ChannelAssumption DEF HostTypes, hostVars, callVars, wireVars, cbWireVars, shimVars, childVars, cbVars
  <1>1. ASSUME NEW t \in Callers, Call(t) PROVE HostTypes'
    BY <1>1 DEF Call, Start, TakeCache
  <1>2. ASSUME NEW t \in Callers, Lock(t) PROVE HostTypes'
    BY <1>2 DEF Lock, Return
  <1>3. ASSUME NEW t \in Callers, Write(t) PROVE HostTypes'
    BY <1>3 DEF Write
  <1>4. ASSUME NEW t \in Callers, Read(t) PROVE HostTypes'
    BY <1>4 DEF Read, Return
  <1>5. ASSUME NEW t \in Callers, Broken(t) PROVE HostTypes'
    <2>1. CASE Abort
      BY <1>5, <2>1 DEF Broken, Abort
    <2>2. CASE UNCHANGED hostVars
      BY <1>5, <2>2 DEF Broken, Return
    <2>3. QED
      BY <1>5, <2>1, <2>2 DEF Broken
  <1>0. ASSUME NEW t \in Callers, Check(t) PROVE HostTypes'
    <2>1. CASE Abort
      BY <1>0, <2>1 DEF Check, Abort
    <2>2. CASE UNCHANGED hostVars
      BY <1>0, <2>2 DEF Check
    <2>3. QED
      BY <1>0, <2>1, <2>2 DEF Check
  <1>6. CASE ShimRead
    <2>1. CASE Head(toShim)[2] = "invoke"
      BY <1>6, <2>1 DEF ShimRead
    <2>2. CASE Head(toShim)[2] # "invoke"
      BY <1>6, <2>2 DEF ShimRead
    <2>3. QED
      BY <2>1, <2>2
  <1>7. CASE ShimEof
    BY <1>7 DEF ShimEof
  <1>8. CASE ShimReply
    BY <1>8 DEF ShimReply
  <1>9. CASE ChildFires
    BY <1>9 DEF ChildFires
  <1>10. CASE ChildResumes
    BY <1>10 DEF ChildResumes
  <1>11. CASE ChildEnds
    BY <1>11 DEF ChildEnds
  <1>12. CASE ChildDiesNow
    BY <1>12 DEF ChildDiesNow
  <1>13. CASE CbCheck
    BY <1>13 DEF CbCheck
  <1>14. CASE CbRead
    BY <1>14 DEF CbRead
  <1>15. CASE CbEof
    BY <1>15 DEF CbEof
  <1>16. CASE CbNests
    BY <1>16 DEF CbNests, Start, TakeCache
  <1>17. CASE CbAsksPolicy
    BY <1>17 DEF CbAsksPolicy
  <1>18. CASE CbHandled
    BY <1>18 DEF CbHandled
  <1>19. CASE CbReply
    BY <1>19 DEF CbReply
  <1>20. CASE Create
    <2>1. gen' \in 0 .. MaxCreates
      BY <1>20 DEF Create
    <2>2. QED
      BY <1>20, <2>1 DEF Create
  <1>21. CASE DestroyStops
    BY <1>21 DEF DestroyStops
  <1>22. CASE DestroyClosesReq
    BY <1>22 DEF DestroyClosesReq
  <1>23. CASE DestroyClosesCb
    BY <1>23 DEF DestroyClosesCb
  <1>24. CASE DestroyJoins
    BY <1>24 DEF DestroyJoins
  <1>25. CASE DestroyKills
    BY <1>25 DEF DestroyKills
  <1>26. CASE UNCHANGED vars
    BY <1>26 DEF vars
  <1>27. QED
    BY <1>0, <1>1, <1>2, <1>3, <1>4, <1>5, <1>6, <1>7, <1>8, <1>9, <1>10, <1>11, <1>12, <1>13,
       <1>14, <1>15, <1>16, <1>17, <1>18, <1>19, <1>20, <1>21, <1>22, <1>23, <1>24, <1>25, <1>26
    DEF Next, CallStep, ShimStep, ChildStep, CbStep, DestroyStep

\* The same of the callers.
LEMMA CallTypesStep ==
  ASSUME HostTypes, CallTypes, WireTypes, [Next]_vars
  PROVE  CallTypes'
  <1> USE ChannelAssumption DEF HostTypes, CallTypes, WireTypes, Callers, Kinds, hostVars, callVars, wireVars, cbWireVars, shimVars, childVars, cbVars
  <1>1. ASSUME NEW t \in Callers, Call(t) PROVE CallTypes'
    BY SMTT(30), <1>1 DEF Call, Start, TakeCache
  <1>2. ASSUME NEW t \in Callers, Lock(t) PROVE CallTypes'
    BY <1>2 DEF Lock, Return
  <1>3. ASSUME NEW t \in Callers, Write(t) PROVE CallTypes'
    BY <1>3 DEF Write
  <1>4. ASSUME NEW t \in Callers, Read(t) PROVE CallTypes'
    BY <1>4, Messages DEF Read, Return
  <1>5. ASSUME NEW t \in Callers, Broken(t) PROVE CallTypes'
    <2>1. CASE Abort /\ UNCHANGED <<mutex, cache, pc, got>>
      BY <1>5, <2>1 DEF Broken
    <2>2. ASSUME NEW r \in {Zero, Garbage}, Return(t, r) PROVE CallTypes'
      BY <1>5, <2>2 DEF Broken, Return
    <2>3. QED
      BY <1>5, <2>1, <2>2 DEF Broken
  <1>0. ASSUME NEW t \in Callers, Check(t) PROVE CallTypes'
    BY <1>0 DEF Check, Abort
  <1>6. CASE ShimRead
    BY <1>6 DEF ShimRead
  <1>7. CASE ShimEof
    BY <1>7 DEF ShimEof
  <1>8. CASE ShimReply
    BY <1>8 DEF ShimReply
  <1>9. CASE ChildFires
    BY <1>9 DEF ChildFires
  <1>10. CASE ChildResumes
    BY <1>10 DEF ChildResumes
  <1>11. CASE ChildEnds
    BY <1>11 DEF ChildEnds
  <1>12. CASE ChildDiesNow
    BY <1>12 DEF ChildDiesNow
  <1>13. CASE CbCheck
    BY <1>13 DEF CbCheck
  <1>14. CASE CbRead
    BY <1>14 DEF CbRead
  <1>15. CASE CbEof
    BY <1>15 DEF CbEof
  <1>16. CASE CbNests
    BY <1>16 DEF CbNests, Start, TakeCache
  <1>17. CASE CbAsksPolicy
    BY <1>17 DEF CbAsksPolicy
  <1>18. CASE CbHandled
    BY <1>18 DEF CbHandled
  <1>19. CASE CbReply
    BY <1>19 DEF CbReply
  <1>20. CASE Create
    BY <1>20 DEF Create
  <1>21. CASE DestroyStops
    BY <1>21 DEF DestroyStops
  <1>22. CASE DestroyClosesReq
    BY <1>22 DEF DestroyClosesReq
  <1>23. CASE DestroyClosesCb
    BY <1>23 DEF DestroyClosesCb
  <1>24. CASE DestroyJoins
    BY <1>24 DEF DestroyJoins
  <1>25. CASE DestroyKills
    BY <1>25 DEF DestroyKills
  <1>26. CASE UNCHANGED vars
    BY <1>26 DEF vars
  <1>27. QED
    BY <1>0, <1>1, <1>2, <1>3, <1>4, <1>5, <1>6, <1>7, <1>8, <1>9, <1>10, <1>11, <1>12, <1>13,
       <1>14, <1>15, <1>16, <1>17, <1>18, <1>19, <1>20, <1>21, <1>22, <1>23, <1>24, <1>25, <1>26
    DEF Next, CallStep, ShimStep, ChildStep, CbStep, DestroyStep

\* The same of what is on the wire.
LEMMA WireTypesStep ==
  ASSUME CallTypes, WireTypes, CallsOK, ChildOK, [Next]_vars
  PROVE  WireTypes'
  <1> USE DEF WireTypes, ChildOK, Serving, Replies, hostVars, callVars, wireVars, cbWireVars, shimVars, childVars, cbVars
  <1>1. ASSUME NEW t \in Callers, Call(t) PROVE WireTypes'
    BY <1>1 DEF Call, Start, TakeCache
  <1>2. ASSUME NEW t \in Callers, Lock(t) PROVE WireTypes'
    BY <1>2 DEF Lock, Return
  <1>3. ASSUME NEW t \in Callers, Write(t) PROVE WireTypes'
    <2>1. <<CallOf(t), kind[t]>> \in Calls \X Kinds
      BY <1>3, CallsNumbered DEF Write, CallTypes
    <2>2. QED
      BY <1>3, <2>1, Messages DEF Write
  <1>4. ASSUME NEW t \in Callers, Read(t) PROVE WireTypes'
    BY <1>4, Messages DEF Read, Return
  <1>5. ASSUME NEW t \in Callers, Broken(t) PROVE WireTypes'
    BY <1>5 DEF Broken, Return, Abort
  <1>0. ASSUME NEW t \in Callers, Check(t) PROVE WireTypes'
    BY <1>0 DEF Check, Abort
  <1>6. CASE ShimRead
    <2>1. Head(toShim) \in Calls \X Kinds /\ Tail(toShim) \in Seq(Calls \X Kinds)
      BY <1>6, Messages DEF ShimRead
    <2>2. QED
      BY <1>6, <2>1 DEF ShimRead
  <1>7. CASE ShimEof
    BY <1>7 DEF ShimEof
  <1>8. CASE ShimReply
    BY <1>8, Messages DEF ShimReply
  <1>9. CASE ChildFires
    BY <1>9, Messages DEF ChildFires
  <1>10. CASE ChildResumes
    BY <1>10, Messages DEF ChildResumes
  <1>11. CASE ChildEnds
    BY <1>11 DEF ChildEnds
  <1>12. CASE ChildDiesNow
    BY <1>12 DEF ChildDiesNow
  <1>13. CASE CbCheck
    BY <1>13 DEF CbCheck
  <1>14. CASE CbRead
    BY <1>14, Messages DEF CbRead
  <1>15. CASE CbEof
    BY <1>15 DEF CbEof
  <1>16. CASE CbNests
    BY <1>16 DEF CbNests, Start, TakeCache
  <1>17. CASE CbAsksPolicy
    BY <1>17 DEF CbAsksPolicy
  <1>18. CASE CbHandled
    BY <1>18 DEF CbHandled
  <1>19. CASE CbReply
    BY <1>19, Messages DEF CbReply
  <1>20. CASE Create
    BY <1>20 DEF Create
  <1>21. CASE DestroyStops
    BY <1>21 DEF DestroyStops
  <1>22. CASE DestroyClosesReq
    BY <1>22 DEF DestroyClosesReq
  <1>23. CASE DestroyClosesCb
    BY <1>23 DEF DestroyClosesCb
  <1>24. CASE DestroyJoins
    BY <1>24 DEF DestroyJoins
  <1>25. CASE DestroyKills
    BY <1>25 DEF DestroyKills
  <1>26. CASE UNCHANGED vars
    BY <1>26 DEF vars
  <1>27. QED
    BY <1>0, <1>1, <1>2, <1>3, <1>4, <1>5, <1>6, <1>7, <1>8, <1>9, <1>10, <1>11, <1>12, <1>13,
       <1>14, <1>15, <1>16, <1>17, <1>18, <1>19, <1>20, <1>21, <1>22, <1>23, <1>24, <1>25, <1>26
    DEF Next, CallStep, ShimStep, ChildStep, CbStep, DestroyStep

\* Destroy stops the callback thread before it is done.
LEMMA PhasesStep ==
  ASSUME HostTypes, PhasesOK, OneRequest, ChildOK, [Next]_vars
  PROVE  PhasesOK'
  <1> USE DEF HostTypes, PhasesOK, ChildOK, OneRequest, hostVars, callVars, wireVars, cbWireVars, shimVars, childVars, cbVars
  <1>1. ASSUME NEW t \in Callers, Call(t) PROVE PhasesOK'
    BY <1>1 DEF Call, Start, TakeCache
  <1>2. ASSUME NEW t \in Callers, Lock(t) PROVE PhasesOK'
    BY <1>2 DEF Lock, Return
  <1>3. ASSUME NEW t \in Callers, Write(t) PROVE PhasesOK'
    BY <1>3 DEF Write
  <1>4. ASSUME NEW t \in Callers, Read(t) PROVE PhasesOK'
    BY <1>4 DEF Read, Return
  <1>5. ASSUME NEW t \in Callers, Broken(t) PROVE PhasesOK'
    <2>1. CASE Abort
      BY <1>5, <2>1 DEF Broken, Abort
    <2>2. CASE UNCHANGED hostVars
      BY <1>5, <2>2 DEF Broken, Return
    <2>3. QED
      BY <1>5, <2>1, <2>2 DEF Broken
  <1>0. ASSUME NEW t \in Callers, Check(t) PROVE PhasesOK'
    <2>1. CASE Abort
      BY <1>0, <2>1 DEF Check, Abort
    <2>2. CASE UNCHANGED hostVars
      BY <1>0, <2>2 DEF Check
    <2>3. QED
      BY <1>0, <2>1, <2>2 DEF Check
  <1>6. CASE ShimRead
    BY <1>6 DEF ShimRead
  <1>7. CASE ShimEof
    BY <1>7 DEF ShimEof
  <1>8. CASE ShimReply
    BY <1>8 DEF ShimReply
  <1>9. CASE ChildFires
    BY <1>9 DEF ChildFires
  <1>10. CASE ChildResumes
    BY <1>10 DEF ChildResumes
  <1>11. CASE ChildEnds
    BY <1>11 DEF ChildEnds
  <1>12. CASE ChildDiesNow
    BY <1>12 DEF ChildDiesNow
  <1>13. CASE CbCheck
    BY <1>13 DEF CbCheck
  <1>14. CASE CbRead
    BY <1>14 DEF CbRead
  <1>15. CASE CbEof
    BY <1>15 DEF CbEof
  <1>16. CASE CbNests
    BY <1>16 DEF CbNests, Start, TakeCache
  <1>17. CASE CbAsksPolicy
    BY <1>17 DEF CbAsksPolicy
  <1>18. CASE CbHandled
    BY <1>18 DEF CbHandled
  <1>19. CASE CbReply
    BY <1>19 DEF CbReply
  <1>20. CASE Create
    BY <1>20 DEF Create
  <1>21. CASE DestroyStops
    BY <1>21 DEF DestroyStops
  <1>22. CASE DestroyClosesReq
    BY <1>22 DEF DestroyClosesReq
  <1>23. CASE DestroyClosesCb
    BY <1>23 DEF DestroyClosesCb
  <1>24. CASE DestroyJoins
    BY <1>24 DEF DestroyJoins
  <1>25. CASE DestroyKills
    BY <1>25 DEF DestroyKills
  <1>26. CASE UNCHANGED vars
    BY <1>26 DEF vars
  <1>27. QED
    BY <1>0, <1>1, <1>2, <1>3, <1>4, <1>5, <1>6, <1>7, <1>8, <1>9, <1>10, <1>11, <1>12, <1>13,
       <1>14, <1>15, <1>16, <1>17, <1>18, <1>19, <1>20, <1>21, <1>22, <1>23, <1>24, <1>25, <1>26
    DEF Next, CallStep, ShimStep, ChildStep, CbStep, DestroyStep

\* The mutex has one holder, and it gets its own response.
LEMMA CallsStep ==
  ASSUME HostTypes, CallTypes, CallsOK, OneRequest, [Next]_vars
  PROVE  CallsOK'
  <1> USE ChannelAssumption, OneMessage DEF HostTypes, CallTypes, CallsOK, OneRequest, Waits, CutOff, CallOf, Callers, hostVars, callVars, wireVars, cbWireVars, shimVars, childVars, cbVars
  <1>1. ASSUME NEW t \in Callers, Call(t) PROVE CallsOK'
    BY <1>1 DEF Call, Start, TakeCache
  <1>2. ASSUME NEW t \in Callers, Lock(t) PROVE CallsOK'
    BY <1>2 DEF Lock, Return
  <1>3. ASSUME NEW t \in Callers, Write(t) PROVE CallsOK'
    BY <1>3 DEF Write
  <1>4. ASSUME NEW t \in Callers, Read(t) PROVE CallsOK'
    BY <1>4 DEF Read, Return
  <1>5. ASSUME NEW t \in Callers, Broken(t) PROVE CallsOK'
    <2>1. CASE Abort /\ UNCHANGED <<mutex, cache, pc, got>>
      BY <1>5, <2>1 DEF Broken, Abort
    <2>2. ASSUME NEW r \in {Zero, Garbage}, Return(t, r), UNCHANGED hostVars PROVE CallsOK'
      BY <1>5, <2>2 DEF Broken, Return
    <2>3. QED
      BY <1>5, <2>1, <2>2 DEF Broken
  <1>0. ASSUME NEW t \in Callers, Check(t) PROVE CallsOK'
    BY <1>0 DEF Check, Abort
  <1>6. CASE ShimRead
    BY <1>6 DEF ShimRead
  <1>7. CASE ShimEof
    BY <1>7 DEF ShimEof
  <1>8. CASE ShimReply
    BY <1>8 DEF ShimReply
  <1>9. CASE ChildFires
    BY <1>9 DEF ChildFires
  <1>10. CASE ChildResumes
    BY <1>10 DEF ChildResumes
  <1>11. CASE ChildEnds
    BY <1>11 DEF ChildEnds
  <1>12. CASE ChildDiesNow
    BY <1>12 DEF ChildDiesNow
  <1>13. CASE CbCheck
    BY <1>13 DEF CbCheck
  <1>14. CASE CbRead
    BY <1>14 DEF CbRead
  <1>15. CASE CbEof
    BY <1>15 DEF CbEof
  <1>16. CASE CbNests
    BY <1>16 DEF CbNests, Start, TakeCache
  <1>17. CASE CbAsksPolicy
    BY <1>17 DEF CbAsksPolicy
  <1>18. CASE CbHandled
    BY <1>18 DEF CbHandled
  <1>19. CASE CbReply
    BY <1>19 DEF CbReply
  <1>20. CASE Create
    BY <1>20 DEF Create
  <1>21. CASE DestroyStops
    BY <1>21 DEF DestroyStops
  <1>22. CASE DestroyClosesReq
    BY <1>22 DEF DestroyClosesReq
  <1>23. CASE DestroyClosesCb
    BY <1>23 DEF DestroyClosesCb
  <1>24. CASE DestroyJoins
    BY <1>24 DEF DestroyJoins
  <1>25. CASE DestroyKills
    BY <1>25 DEF DestroyKills
  <1>26. CASE UNCHANGED vars
    BY <1>26 DEF vars
  <1>27. QED
    BY <1>0, <1>1, <1>2, <1>3, <1>4, <1>5, <1>6, <1>7, <1>8, <1>9, <1>10, <1>11, <1>12, <1>13,
       <1>14, <1>15, <1>16, <1>17, <1>18, <1>19, <1>20, <1>21, <1>22, <1>23, <1>24, <1>25, <1>26
    DEF Next, CallStep, ShimStep, ChildStep, CbStep, DestroyStep

\* A request, or its response, is in one place.
LEMMA OneRequestStep ==
  ASSUME HostTypes, CallTypes, PhasesOK, CallsOK, ChildOK, OneRequest, [Next]_vars
  PROVE  OneRequest'
  <1> USE ChannelAssumption, OneMessage DEF HostTypes, CallTypes, PhasesOK, CallsOK, ChildOK, OneRequest, Waits, CallOf, Callers, Kinds, hostVars, callVars, wireVars, cbWireVars, shimVars, childVars, cbVars
  <1>1. ASSUME NEW t \in Callers, Call(t) PROVE OneRequest'
    BY <1>1 DEF Call, Start, TakeCache
  <1>2. ASSUME NEW t \in Callers, Lock(t) PROVE OneRequest'
    BY <1>2 DEF Lock, Return
  <1>3. ASSUME NEW t \in Callers, Write(t) PROVE OneRequest'
    <2>1. \A u \in Callers : ~Waits(u)
      BY <1>3 DEF Write
    <2>2. \A u \in Callers : Waits(u)' => u = t
      BY <1>3 DEF Write
    <2>3. toShim' = << <<CallOf(t), kind[t]>> >> /\ toHost' = <<>> /\ shim' = "read"
      BY <1>3, <2>1 DEF Write
    <2>4. CallOf(t)' = CallOf(t) /\ kind[t] \in Kinds /\ Waits(t)'
      BY <1>3 DEF Write
    <2>5. QED
      BY <2>2, <2>3, <2>4 DEF OneRequest
  <1>4. ASSUME NEW t \in Callers, Read(t) PROVE OneRequest'
    <2>1. toHost = <<CallOf(t)>> /\ toShim = <<>> /\ shim = "read"
      BY <1>4 DEF Read
    <2>2. toHost' = <<>> /\ toShim' = <<>> /\ shim' = "read"
      BY <1>4, <2>1 DEF Read
    <2>3. \A u \in Callers : ~Waits(u)'
      BY <1>4 DEF Read, Return
    <2>4. QED
      BY <2>2, <2>3 DEF OneRequest
  <1>5. ASSUME NEW t \in Callers, Broken(t) PROVE OneRequest'
    BY ZenonT(40), <1>5 DEF Broken, Return, Abort
  <1>0. ASSUME NEW t \in Callers, Check(t) PROVE OneRequest'
    BY ZenonT(40), <1>0 DEF Check, Abort
  <1>6. CASE ShimRead
    <2> SUFFICES ASSUME reqFd' PROVE OneRequest'
      BY DEF OneRequest
    <2>1. PICK u \in Callers : Waits(u)
      BY <1>6 DEF ShimRead
    <2>2. \E k \in Kinds : toShim = << <<CallOf(u), k>> >> /\ toHost = <<>>
      BY <1>6, <2>1 DEF ShimRead
    <2>3. \A v \in Callers : Waits(v)' <=> v = u
      BY <1>6, <2>1 DEF ShimRead
    <2>4. sreq' = CallOf(u) /\ toShim' = <<>> /\ toHost' = <<>> /\ shim' \in {"wait", "reply"}
      BY <1>6, <2>2 DEF ShimRead
    <2>5. CallOf(u)' = CallOf(u)
      BY <1>6 DEF ShimRead
    <2>6. QED
      BY <2>3, <2>4, <2>5 DEF OneRequest
  <1>7. CASE ShimEof
    BY <1>7 DEF ShimEof
  <1>8. CASE ShimReply
    BY <1>8 DEF ShimReply
  <1>9. CASE ChildFires
    BY <1>9 DEF ChildFires
  <1>10. CASE ChildResumes
    BY <1>10 DEF ChildResumes
  <1>11. CASE ChildEnds
    BY <1>11 DEF ChildEnds
  <1>12. CASE ChildDiesNow
    BY <1>12 DEF ChildDiesNow
  <1>13. CASE CbCheck
    BY <1>13 DEF CbCheck
  <1>14. CASE CbRead
    BY <1>14 DEF CbRead
  <1>15. CASE CbEof
    BY <1>15 DEF CbEof
  <1>16. CASE CbNests
    BY <1>16 DEF CbNests, Start, TakeCache
  <1>17. CASE CbAsksPolicy
    BY <1>17 DEF CbAsksPolicy
  <1>18. CASE CbHandled
    BY <1>18 DEF CbHandled
  <1>19. CASE CbReply
    BY <1>19 DEF CbReply
  <1>20. CASE Create
    BY <1>20 DEF Create
  <1>21. CASE DestroyStops
    BY <1>21 DEF DestroyStops
  <1>22. CASE DestroyClosesReq
    BY <1>22 DEF DestroyClosesReq
  <1>23. CASE DestroyClosesCb
    BY <1>23 DEF DestroyClosesCb
  <1>24. CASE DestroyJoins
    BY <1>24 DEF DestroyJoins
  <1>25. CASE DestroyKills
    BY <1>25 DEF DestroyKills
  <1>26. CASE UNCHANGED vars
    BY <1>26 DEF vars
  <1>27. QED
    BY <1>0, <1>1, <1>2, <1>3, <1>4, <1>5, <1>6, <1>7, <1>8, <1>9, <1>10, <1>11, <1>12, <1>13,
       <1>14, <1>15, <1>16, <1>17, <1>18, <1>19, <1>20, <1>21, <1>22, <1>23, <1>24, <1>25, <1>26
    DEF Next, CallStep, ShimStep, ChildStep, CbStep, DestroyStep

\* The shim waits for its child.
LEMMA ChildOKStep ==
  ASSUME HostTypes, WireTypes, PhasesOK, ChildOK, [Next]_vars
  PROVE  ChildOK'
  <1> USE DEF HostTypes, WireTypes, PhasesOK, ChildOK, Serving, Replies, hostVars, callVars, wireVars, cbWireVars, shimVars, childVars, cbVars
  <1>1. ASSUME NEW t \in Callers, Call(t) PROVE ChildOK'
    BY <1>1 DEF Call, Start, TakeCache
  <1>2. ASSUME NEW t \in Callers, Lock(t) PROVE ChildOK'
    BY <1>2 DEF Lock, Return
  <1>3. ASSUME NEW t \in Callers, Write(t) PROVE ChildOK'
    BY <1>3 DEF Write
  <1>4. ASSUME NEW t \in Callers, Read(t) PROVE ChildOK'
    BY <1>4 DEF Read, Return
  <1>5. ASSUME NEW t \in Callers, Broken(t) PROVE ChildOK'
    BY <1>5 DEF Broken, Return, Abort
  <1>0. ASSUME NEW t \in Callers, Check(t) PROVE ChildOK'
    BY <1>0 DEF Check, Abort
  <1>6. CASE ShimRead
    BY <1>6 DEF ShimRead
  <1>7. CASE ShimEof
    BY <1>7 DEF ShimEof
  <1>8. CASE ShimReply
    BY <1>8 DEF ShimReply
  <1>9. CASE ChildFires
    BY <1>9 DEF ChildFires
  <1>10. CASE ChildResumes
    BY <1>10 DEF ChildResumes
  <1>11. CASE ChildEnds
    BY <1>11 DEF ChildEnds
  <1>12. CASE ChildDiesNow
    BY <1>12 DEF ChildDiesNow
  <1>13. CASE CbCheck
    BY <1>13 DEF CbCheck
  <1>14. CASE CbRead
    BY <1>14 DEF CbRead
  <1>15. CASE CbEof
    BY <1>15 DEF CbEof
  <1>16. CASE CbNests
    BY <1>16 DEF CbNests, Start, TakeCache
  <1>17. CASE CbAsksPolicy
    BY <1>17 DEF CbAsksPolicy
  <1>18. CASE CbHandled
    BY <1>18 DEF CbHandled
  <1>19. CASE CbReply
    BY <1>19 DEF CbReply
  <1>20. CASE Create
    BY <1>20 DEF Create
  <1>21. CASE DestroyStops
    BY <1>21 DEF DestroyStops
  <1>22. CASE DestroyClosesReq
    BY <1>22 DEF DestroyClosesReq
  <1>23. CASE DestroyClosesCb
    BY <1>23 DEF DestroyClosesCb
  <1>24. CASE DestroyJoins
    BY <1>24 DEF DestroyJoins
  <1>25. CASE DestroyKills
    BY <1>25 DEF DestroyKills
  <1>26. CASE UNCHANGED vars
    BY <1>26 DEF vars
  <1>27. QED
    BY <1>0, <1>1, <1>2, <1>3, <1>4, <1>5, <1>6, <1>7, <1>8, <1>9, <1>10, <1>11, <1>12, <1>13,
       <1>14, <1>15, <1>16, <1>17, <1>18, <1>19, <1>20, <1>21, <1>22, <1>23, <1>24, <1>25, <1>26
    DEF Next, CallStep, ShimStep, ChildStep, CbStep, DestroyStep

\* A callback, or its reply, is in one place.
LEMMA OneCallbackStep ==
  ASSUME HostTypes, PhasesOK, ChildOK, OneCallback, [Next]_vars
  PROVE  OneCallback'
  <1> USE OneMessage DEF HostTypes, PhasesOK, ChildOK, OneCallback, Serving, hostVars, callVars, wireVars, cbWireVars, shimVars, childVars, cbVars
  <1>1. ASSUME NEW t \in Callers, Call(t) PROVE OneCallback'
    BY <1>1 DEF Call, Start, TakeCache
  <1>2. ASSUME NEW t \in Callers, Lock(t) PROVE OneCallback'
    BY <1>2 DEF Lock, Return
  <1>3. ASSUME NEW t \in Callers, Write(t) PROVE OneCallback'
    BY <1>3 DEF Write
  <1>4. ASSUME NEW t \in Callers, Read(t) PROVE OneCallback'
    BY <1>4 DEF Read, Return
  <1>5. ASSUME NEW t \in Callers, Broken(t) PROVE OneCallback'
    BY <1>5 DEF Broken, Return, Abort
  <1>0. ASSUME NEW t \in Callers, Check(t) PROVE OneCallback'
    BY <1>0 DEF Check, Abort
  <1>6. CASE ShimRead
    BY <1>6 DEF ShimRead
  <1>7. CASE ShimEof
    BY <1>7 DEF ShimEof
  <1>8. CASE ShimReply
    BY <1>8 DEF ShimReply
  <1>9. CASE ChildFires
    BY <1>9 DEF ChildFires
  <1>10. CASE ChildResumes
    BY <1>10 DEF ChildResumes
  <1>11. CASE ChildEnds
    BY <1>11 DEF ChildEnds
  <1>12. CASE ChildDiesNow
    BY <1>12 DEF ChildDiesNow
  <1>13. CASE CbCheck
    BY <1>13 DEF CbCheck
  <1>14. CASE CbRead
    BY <1>14 DEF CbRead
  <1>15. CASE CbEof
    BY <1>15 DEF CbEof
  <1>16. CASE CbNests
    BY <1>16 DEF CbNests, Start, TakeCache
  <1>17. CASE CbAsksPolicy
    BY <1>17 DEF CbAsksPolicy
  <1>18. CASE CbHandled
    BY <1>18 DEF CbHandled
  <1>19. CASE CbReply
    BY <1>19 DEF CbReply
  <1>20. CASE Create
    BY <1>20 DEF Create
  <1>21. CASE DestroyStops
    BY <1>21 DEF DestroyStops
  <1>22. CASE DestroyClosesReq
    BY <1>22 DEF DestroyClosesReq
  <1>23. CASE DestroyClosesCb
    BY <1>23 DEF DestroyClosesCb
  <1>24. CASE DestroyJoins
    BY <1>24 DEF DestroyJoins
  <1>25. CASE DestroyKills
    BY <1>25 DEF DestroyKills
  <1>26. CASE UNCHANGED vars
    BY <1>26 DEF vars
  <1>27. QED
    BY <1>0, <1>1, <1>2, <1>3, <1>4, <1>5, <1>6, <1>7, <1>8, <1>9, <1>10, <1>11, <1>12, <1>13,
       <1>14, <1>15, <1>16, <1>17, <1>18, <1>19, <1>20, <1>21, <1>22, <1>23, <1>24, <1>25, <1>26
    DEF Next, CallStep, ShimStep, ChildStep, CbStep, DestroyStep

-----------------------------------------------------------------------------
\* What is on the wire is what somebody waits for, however calls, callbacks,
\* crashes, create and destroy interleave.
THEOREM Invariance == Spec => []IInv
  <1>1. IInv /\ [Next]_vars => IInv'
    BY HostTypesStep, CallTypesStep, WireTypesStep, PhasesStep, CallsStep,
       OneRequestStep, ChildOKStep, OneCallbackStep DEF IInv
  <1>2. QED
    BY InitIInv, <1>1, PTL DEF Spec

\* A call returns the response to its own request or 0 (capnp_call), for any
\* number of threads on the one stream, unless its socket is closed under it.
THEOREM ResponsesAreOwn == Spec => []OwnResponse
  <1>1. IInv => OwnResponse
    BY TypeParts DEF IInv, CallsOK, OwnResponse
  <1>2. QED
    BY <1>1, Invariance, PTL

\* A child takes the reply to its own callback from the shared socket
\* (fire_callback), as long as no child died with one under way.
THEOREM CallbackRepliesAreOwn == Spec => []OwnCallbackReply
  <1>1. IInv => OwnCallbackReply
    BY DEF IInv, OneCallback, OwnCallbackReply
  <1>2. QED
    BY <1>1, Invariance, PTL

\* A handler runs within the call that caused it (start_callback_loop).
THEOREM HandlersWithinCalls == Spec => []HandlerWithinCall
  <1>1. IInv => HandlerWithinCall
    BY DEF IInv, PhasesOK, OneCallback, Serving, HandlerWithinCall
  <1>2. QED
    BY <1>1, Invariance, PTL

\* After impl_destroy_sandbox no handler is entered.
THEOREM DestroyLeavesQuiet == Spec => []QuietAfterDestroy
  <1>1. IInv => QuietAfterDestroy
    BY DEF IInv, PhasesOK, QuietAfterDestroy
  <1>2. QED
    BY <1>1, Invariance, PTL
=============================================================================
