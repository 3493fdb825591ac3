-------------------------- MODULE LifecycleProofs --------------------------
(***************************************************************************)
(* RegistryRight and DownIsDown of Lifecycle, for any set of sandboxes,    *)
(* any address space and any number of creations, whatever fails and       *)
(* whoever dies: where the thread of a sandbox is (its pc) determines which *)
(* backends, entries, descriptors and processes there are.                 *)
(***************************************************************************)
EXTENDS Lifecycle, TLAPS

\* Until the fork, and after the kill, there is no process.
Childless == {"down", "failed", "memfd", "map", "register", "reqPair", "cbPair", "fork"}

\* The mapping is entered in global_registry.
Registered == {"reqPair", "cbPair", "fork", "close", "publish", "up", "unregister"}

\* Bases are given once.
BasesOK ==
    /\ \A s \in Sandboxes :
        /\ base[s] # None => base[s] \in mapped
        /\ pc[s] \in Registered \cup {"register", "shutdown", "kill"} => base[s] # None
    /\ \A r, s \in Sandboxes : r # s /\ base[r] = base[s] => base[r] = None

EntriesOK ==
    \A s \in Sandboxes :
        /\ pc[s] \in Registered => registry[base[s]] = s
        /\ pc[s] \in {"down", "shutdown", "kill"} /\ base[s] # None => registry[base[s]] # s

BackendsOK ==
    \A s \in Sandboxes :
        /\ s \in wasm <=> pc[s] \notin {"down", "failed", "unregister", "shutdown", "kill"}
        /\ s \in metaMap <=> pc[s] = "up"
        /\ pc[s] \in Childless => shim[s] = "none" /\ holds[s] = {}

\* The ends of its present life that the host may hold for s.
Left(s) ==
    CASE pc[s] \in {"map", "register", "reqPair"} -> {"shm"}
      [] pc[s] = "cbPair" -> {"shm", "req0", "req1"}
      [] pc[s] \in {"fork", "close", "failed"} -> Ends
      [] pc[s] \in {"publish", "up", "unregister", "shutdown"} -> {"req0", "cb0"}
      [] OTHER -> {}

Has(p, s, g, e) == <<s, g, e>> \in holds[p]

FdsOK ==
    /\ \A p \in Procs, s \in Sandboxes, g \in Nat, e \in Ends : Has(p, s, g, e) => g <= gen[s]
    /\ \A s \in Sandboxes, e \in Ends : Has(Host, s, gen[s], e) => e \in Left(s)

\* A creation has been counted.
GenOK == \A s \in Sandboxes : pc[s] \notin {"down", "failed"} => gen[s] > 0

\* The sockets are shut down before the shim is killed.
ShutOK ==
    \A s \in Sandboxes : pc[s] \in {"kill", "down"} /\ gen[s] > 0 => <<s, gen[s]>> \in shut

IInv == ShutOK /\ TypeOK /\ GenOK /\ BasesOK /\ EntriesOK /\ BackendsOK /\ FdsOK

-----------------------------------------------------------------------------
\* A sandbox that was never created has no backend, entry or descriptor.
LEMMA InitIInv == Init => IInv
  BY LifecycleAssumption DEF Init, IInv, TypeOK, GenOK, BasesOK, EntriesOK, BackendsOK, FdsOK, ShutOK,
    Childless, Registered, Left, Has, Procs, Ends

\* Every step keeps the types, and counts a creation first.
LEMMA TypeStep ==
  ASSUME TypeOK, GenOK, BackendsOK, BasesOK, [Next]_vars
  PROVE  TypeOK' /\ GenOK'
  <1> USE LifecycleAssumption DEF TypeOK, GenOK, BackendsOK, BasesOK, Registered, Procs, Ends, At, Go, Fd, Fds, HostOpens,
        HostCloses, hostVars, procVars
  <1>1. ASSUME NEW r \in Sandboxes, CreateWasm(r) PROVE TypeOK' /\ GenOK'
    BY <1>1 DEF CreateWasm
  <1>2. ASSUME NEW r \in Sandboxes, Memfd(r) PROVE TypeOK' /\ GenOK'
    BY <1>2 DEF Memfd, Fails
  <1>3. ASSUME NEW r \in Sandboxes, Map(r) PROVE TypeOK' /\ GenOK'
    BY <1>3 DEF Map, Fails
  <1>4. ASSUME NEW r \in Sandboxes, Register(r) PROVE TypeOK' /\ GenOK'
    BY <1>4 DEF Register
  <1>5. ASSUME NEW r \in Sandboxes, ReqPair(r) PROVE TypeOK' /\ GenOK'
    BY <1>5 DEF ReqPair, Fails
  <1>6. ASSUME NEW r \in Sandboxes, CbPair(r) PROVE TypeOK' /\ GenOK'
    BY <1>6 DEF CbPair, Fails
  <1>7. ASSUME NEW r \in Sandboxes, Fork(r) PROVE TypeOK' /\ GenOK'
    BY <1>7 DEF Fork, Fails
  <1>8. ASSUME NEW r \in Sandboxes, CloseEnds(r) PROVE TypeOK' /\ GenOK'
    BY <1>8 DEF CloseEnds
  <1>9. ASSUME NEW r \in Sandboxes, Publish(r) PROVE TypeOK' /\ GenOK'
    BY <1>9 DEF Publish
  <1>10. ASSUME NEW r \in Sandboxes, Unpublish(r) PROVE TypeOK' /\ GenOK'
    BY <1>10 DEF Unpublish
  <1>11. ASSUME NEW r \in Sandboxes, Unregister(r) PROVE TypeOK' /\ GenOK'
    BY <1>11 DEF Unregister
  <1>12. ASSUME NEW r \in Sandboxes, Shutdown(r) PROVE TypeOK' /\ GenOK'
    BY <1>12 DEF Shutdown, Lives
  <1>13. ASSUME NEW r \in Sandboxes, Kill(r) PROVE TypeOK' /\ GenOK'
    BY <1>13 DEF Kill
  <1>14. ASSUME NEW r \in Sandboxes, Exec(r) PROVE TypeOK' /\ GenOK'
    BY <1>14 DEF Exec
  <1>15. ASSUME NEW r \in Sandboxes, LoopEnds(r) PROVE TypeOK' /\ GenOK'
    BY <1>15 DEF LoopEnds
  <1>16. ASSUME NEW r \in Sandboxes, ShimDies(r) PROVE TypeOK' /\ GenOK'
    BY <1>16 DEF ShimDies
  <1>16a. ASSUME NEW r \in Sandboxes, Spawn(r) PROVE TypeOK' /\ GenOK'
    BY <1>16a DEF Spawn
  <1>16b. ASSUME NEW l \in Lives, WorkersEnd(l) PROVE TypeOK' /\ GenOK'
    BY <1>16b DEF WorkersEnd
  <1>17. CASE HostDies
    BY <1>17 DEF HostDies
  <1>18. CASE UNCHANGED vars
    BY <1>18 DEF vars
  <1>19. QED
    BY <1>1, <1>2, <1>3, <1>4, <1>5, <1>6, <1>7, <1>8, <1>9, <1>10, <1>11, <1>12,
       <1>13, <1>14, <1>15, <1>16, <1>16a, <1>16b, <1>17, <1>18
    DEF Next, Create, Destroy, Shim

\* No two sandboxes share a base.
LEMMA BasesStep ==
  ASSUME TypeOK, BasesOK, [Next]_vars
  PROVE  BasesOK'
  <1> USE LifecycleAssumption DEF TypeOK, BasesOK, Registered, At, Go, hostVars, procVars
  <1>1. ASSUME NEW r \in Sandboxes, CreateWasm(r) PROVE BasesOK'
    BY <1>1 DEF CreateWasm
  <1>2. ASSUME NEW r \in Sandboxes, Memfd(r) PROVE BasesOK'
    BY <1>2 DEF Memfd, Fails
  <1>3. ASSUME NEW r \in Sandboxes, Map(r) PROVE BasesOK'
    BY <1>3 DEF Map, Fails
  <1>4. ASSUME NEW r \in Sandboxes, Register(r) PROVE BasesOK'
    BY <1>4 DEF Register
  <1>5. ASSUME NEW r \in Sandboxes, ReqPair(r) PROVE BasesOK'
    BY <1>5 DEF ReqPair, Fails
  <1>6. ASSUME NEW r \in Sandboxes, CbPair(r) PROVE BasesOK'
    BY <1>6 DEF CbPair, Fails
  <1>7. ASSUME NEW r \in Sandboxes, Fork(r) PROVE BasesOK'
    BY <1>7 DEF Fork, Fails
  <1>8. ASSUME NEW r \in Sandboxes, CloseEnds(r) PROVE BasesOK'
    BY <1>8 DEF CloseEnds
  <1>9. ASSUME NEW r \in Sandboxes, Publish(r) PROVE BasesOK'
    BY <1>9 DEF Publish
  <1>10. ASSUME NEW r \in Sandboxes, Unpublish(r) PROVE BasesOK'
    BY <1>10 DEF Unpublish
  <1>11. ASSUME NEW r \in Sandboxes, Unregister(r) PROVE BasesOK'
    BY <1>11 DEF Unregister
  <1>12. ASSUME NEW r \in Sandboxes, Shutdown(r) PROVE BasesOK'
    BY <1>12 DEF Shutdown
  <1>13. ASSUME NEW r \in Sandboxes, Kill(r) PROVE BasesOK'
    BY <1>13 DEF Kill
  <1>14. ASSUME NEW r \in Sandboxes, Exec(r) PROVE BasesOK'
    BY <1>14 DEF Exec
  <1>15. ASSUME NEW r \in Sandboxes, LoopEnds(r) PROVE BasesOK'
    BY <1>15 DEF LoopEnds
  <1>16. ASSUME NEW r \in Sandboxes, ShimDies(r) PROVE BasesOK'
    BY <1>16 DEF ShimDies
  <1>16a. ASSUME NEW r \in Sandboxes, Spawn(r) PROVE BasesOK'
    BY <1>16a DEF Spawn
  <1>16b. ASSUME NEW l \in Lives, WorkersEnd(l) PROVE BasesOK'
    BY <1>16b DEF WorkersEnd
  <1>17. CASE HostDies
    BY <1>17 DEF HostDies
  <1>18. CASE UNCHANGED vars
    BY <1>18 DEF vars
  <1>19. QED
    BY <1>1, <1>2, <1>3, <1>4, <1>5, <1>6, <1>7, <1>8, <1>9, <1>10, <1>11, <1>12,
       <1>13, <1>14, <1>15, <1>16, <1>16a, <1>16b, <1>17, <1>18
    DEF Next, Create, Destroy, Shim

\* The registry has the entries that the threads account for.
LEMMA EntriesStep ==
  ASSUME TypeOK, BasesOK, EntriesOK, [Next]_vars
  PROVE  EntriesOK'
  <1> USE LifecycleAssumption DEF TypeOK, BasesOK, EntriesOK, Registered, At, Go, hostVars, procVars
  <1>1. ASSUME NEW r \in Sandboxes, CreateWasm(r) PROVE EntriesOK'
    BY <1>1 DEF CreateWasm
  <1>2. ASSUME NEW r \in Sandboxes, Memfd(r) PROVE EntriesOK'
    BY <1>2 DEF Memfd, Fails
  <1>3. ASSUME NEW r \in Sandboxes, Map(r) PROVE EntriesOK'
    BY <1>3 DEF Map, Fails
  <1>4. ASSUME NEW r \in Sandboxes, Register(r) PROVE EntriesOK'
    BY <1>4 DEF Register
  <1>5. ASSUME NEW r \in Sandboxes, ReqPair(r) PROVE EntriesOK'
    BY <1>5 DEF ReqPair, Fails
  <1>6. ASSUME NEW r \in Sandboxes, CbPair(r) PROVE EntriesOK'
    BY <1>6 DEF CbPair, Fails
  <1>7. ASSUME NEW r \in Sandboxes, Fork(r) PROVE EntriesOK'
    BY <1>7 DEF Fork, Fails
  <1>8. ASSUME NEW r \in Sandboxes, CloseEnds(r) PROVE EntriesOK'
    BY <1>8 DEF CloseEnds
  <1>9. ASSUME NEW r \in Sandboxes, Publish(r) PROVE EntriesOK'
    BY <1>9 DEF Publish
  <1>10. ASSUME NEW r \in Sandboxes, Unpublish(r) PROVE EntriesOK'
    BY <1>10 DEF Unpublish
  <1>11. ASSUME NEW r \in Sandboxes, Unregister(r) PROVE EntriesOK'
    BY <1>11 DEF Unregister
  <1>12. ASSUME NEW r \in Sandboxes, Shutdown(r) PROVE EntriesOK'
    BY <1>12 DEF Shutdown
  <1>13. ASSUME NEW r \in Sandboxes, Kill(r) PROVE EntriesOK'
    BY <1>13 DEF Kill
  <1>14. ASSUME NEW r \in Sandboxes, Exec(r) PROVE EntriesOK'
    BY <1>14 DEF Exec
  <1>15. ASSUME NEW r \in Sandboxes, LoopEnds(r) PROVE EntriesOK'
    BY <1>15 DEF LoopEnds
  <1>16. ASSUME NEW r \in Sandboxes, ShimDies(r) PROVE EntriesOK'
    BY <1>16 DEF ShimDies
  <1>16a. ASSUME NEW r \in Sandboxes, Spawn(r) PROVE EntriesOK'
    BY <1>16a DEF Spawn
  <1>16b. ASSUME NEW l \in Lives, WorkersEnd(l) PROVE EntriesOK'
    BY <1>16b DEF WorkersEnd
  <1>17. CASE HostDies
    BY <1>17 DEF HostDies
  <1>18. CASE UNCHANGED vars
    BY <1>18 DEF vars
  <1>19. QED
    BY <1>1, <1>2, <1>3, <1>4, <1>5, <1>6, <1>7, <1>8, <1>9, <1>10, <1>11, <1>12,
       <1>13, <1>14, <1>15, <1>16, <1>16a, <1>16b, <1>17, <1>18
    DEF Next, Create, Destroy, Shim

\* So it is with the backends.
LEMMA BackendsStep ==
  ASSUME TypeOK, BackendsOK, [Next]_vars
  PROVE  BackendsOK'
  <1> USE LifecycleAssumption DEF TypeOK, BackendsOK, Childless, Procs, At, Go, HostOpens, HostCloses,
        hostVars, procVars
  <1>1. ASSUME NEW r \in Sandboxes, CreateWasm(r) PROVE BackendsOK'
    BY <1>1 DEF CreateWasm
  <1>2. ASSUME NEW r \in Sandboxes, Memfd(r) PROVE BackendsOK'
    BY <1>2 DEF Memfd, Fails
  <1>3. ASSUME NEW r \in Sandboxes, Map(r) PROVE BackendsOK'
    BY <1>3 DEF Map, Fails
  <1>4. ASSUME NEW r \in Sandboxes, Register(r) PROVE BackendsOK'
    BY <1>4 DEF Register
  <1>5. ASSUME NEW r \in Sandboxes, ReqPair(r) PROVE BackendsOK'
    BY <1>5 DEF ReqPair, Fails
  <1>6. ASSUME NEW r \in Sandboxes, CbPair(r) PROVE BackendsOK'
    BY <1>6 DEF CbPair, Fails
  <1>7. ASSUME NEW r \in Sandboxes, Fork(r) PROVE BackendsOK'
    BY <1>7 DEF Fork, Fails
  <1>8. ASSUME NEW r \in Sandboxes, CloseEnds(r) PROVE BackendsOK'
    BY <1>8 DEF CloseEnds
  <1>9. ASSUME NEW r \in Sandboxes, Publish(r) PROVE BackendsOK'
    BY <1>9 DEF Publish
  <1>10. ASSUME NEW r \in Sandboxes, Unpublish(r) PROVE BackendsOK'
    BY <1>10 DEF Unpublish
  <1>11. ASSUME NEW r \in Sandboxes, Unregister(r) PROVE BackendsOK'
    BY <1>11 DEF Unregister
  <1>12. ASSUME NEW r \in Sandboxes, Shutdown(r) PROVE BackendsOK'
    BY <1>12 DEF Shutdown
  <1>13. ASSUME NEW r \in Sandboxes, Kill(r) PROVE BackendsOK'
    BY <1>13 DEF Kill
  <1>14. ASSUME NEW r \in Sandboxes, Exec(r) PROVE BackendsOK'
    BY <1>14 DEF Exec
  <1>15. ASSUME NEW r \in Sandboxes, LoopEnds(r) PROVE BackendsOK'
    BY <1>15 DEF LoopEnds
  <1>16. ASSUME NEW r \in Sandboxes, ShimDies(r) PROVE BackendsOK'
    BY <1>16 DEF ShimDies
  <1>16a. ASSUME NEW r \in Sandboxes, Spawn(r) PROVE BackendsOK'
    BY <1>16a DEF Spawn
  <1>16b. ASSUME NEW l \in Lives, WorkersEnd(l) PROVE BackendsOK'
    BY <1>16b DEF WorkersEnd
  <1>17. CASE HostDies
    BY <1>17 DEF HostDies
  <1>18. CASE UNCHANGED vars
    BY <1>18 DEF vars
  <1>19. QED
    BY <1>1, <1>2, <1>3, <1>4, <1>5, <1>6, <1>7, <1>8, <1>9, <1>10, <1>11, <1>12,
       <1>13, <1>14, <1>15, <1>16, <1>16a, <1>16b, <1>17, <1>18
    DEF Next, Create, Destroy, Shim

\* Once a sandbox has shut down its sockets, they stay so.
LEMMA ShutStep ==
  ASSUME TypeOK, ShutOK, [Next]_vars
  PROVE  ShutOK'
  <1> USE LifecycleAssumption DEF TypeOK, ShutOK, Procs, At, Go, HostOpens, HostCloses,
        hostVars, procVars
  <1>1. ASSUME NEW r \in Sandboxes, CreateWasm(r) PROVE ShutOK'
    BY <1>1 DEF CreateWasm
  <1>2. ASSUME NEW r \in Sandboxes, Memfd(r) PROVE ShutOK'
    BY <1>2 DEF Memfd, Fails
  <1>3. ASSUME NEW r \in Sandboxes, Map(r) PROVE ShutOK'
    BY <1>3 DEF Map, Fails
  <1>4. ASSUME NEW r \in Sandboxes, Register(r) PROVE ShutOK'
    BY <1>4 DEF Register
  <1>5. ASSUME NEW r \in Sandboxes, ReqPair(r) PROVE ShutOK'
    BY <1>5 DEF ReqPair, Fails
  <1>6. ASSUME NEW r \in Sandboxes, CbPair(r) PROVE ShutOK'
    BY <1>6 DEF CbPair, Fails
  <1>7. ASSUME NEW r \in Sandboxes, Fork(r) PROVE ShutOK'
    BY <1>7 DEF Fork, Fails
  <1>8. ASSUME NEW r \in Sandboxes, CloseEnds(r) PROVE ShutOK'
    BY <1>8 DEF CloseEnds
  <1>9. ASSUME NEW r \in Sandboxes, Publish(r) PROVE ShutOK'
    BY <1>9 DEF Publish
  <1>10. ASSUME NEW r \in Sandboxes, Unpublish(r) PROVE ShutOK'
    BY <1>10 DEF Unpublish
  <1>11. ASSUME NEW r \in Sandboxes, Unregister(r) PROVE ShutOK'
    BY <1>11 DEF Unregister
  <1>12. ASSUME NEW r \in Sandboxes, Shutdown(r) PROVE ShutOK'
    BY <1>12 DEF Shutdown
  <1>13. ASSUME NEW r \in Sandboxes, Kill(r) PROVE ShutOK'
    BY <1>13 DEF Kill
  <1>14. ASSUME NEW r \in Sandboxes, Exec(r) PROVE ShutOK'
    BY <1>14 DEF Exec
  <1>15. ASSUME NEW r \in Sandboxes, LoopEnds(r) PROVE ShutOK'
    BY <1>15 DEF LoopEnds
  <1>16. ASSUME NEW r \in Sandboxes, ShimDies(r) PROVE ShutOK'
    BY <1>16 DEF ShimDies
  <1>16a. ASSUME NEW r \in Sandboxes, Spawn(r) PROVE ShutOK'
    BY <1>16a DEF Spawn
  <1>16b. ASSUME NEW l \in Lives, WorkersEnd(l) PROVE ShutOK'
    BY <1>16b DEF WorkersEnd
  <1>17. CASE HostDies
    BY <1>17 DEF HostDies
  <1>18. CASE UNCHANGED vars
    BY <1>18 DEF vars
  <1>19. QED
    BY <1>1, <1>2, <1>3, <1>4, <1>5, <1>6, <1>7, <1>8, <1>9, <1>10, <1>11, <1>12,
       <1>13, <1>14, <1>15, <1>16, <1>16a, <1>16b, <1>17, <1>18
    DEF Next, Create, Destroy, Shim

\* What the processes hold after one of them opened or closed something.
LEMMA Opened ==
  ASSUME TypeOK, NEW r \in Sandboxes, NEW E \in SUBSET Ends, HostOpens(r, E)
  PROVE  \A p \in Procs, s \in Sandboxes, g \in Nat, e \in Ends :
           Has(p, s, g, e)' <=> Has(p, s, g, e) \/ (p = Host /\ s = r /\ g = gen[r] /\ e \in E)
  <1>1. \A s \in Sandboxes, g \in Nat, e \in Ends :
          <<s, g, e>> \in Fds(r, E) <=> s = r /\ g = gen[r] /\ e \in E
    BY DEF Fds, Fd
  <1>2. QED
    BY ZenonT(40), <1>1 DEF HostOpens, TypeOK, Has

LEMMA Closed ==
  ASSUME TypeOK, NEW r \in Sandboxes, NEW E \in SUBSET Ends, HostCloses(r, E)
  PROVE  \A p \in Procs, s \in Sandboxes, g \in Nat, e \in Ends :
           Has(p, s, g, e)' <=> Has(p, s, g, e) /\ ~(p = Host /\ s = r /\ g = gen[r] /\ e \in E)
  <1>1. \A s \in Sandboxes, g \in Nat, e \in Ends :
          <<s, g, e>> \in Fds(r, E) <=> s = r /\ g = gen[r] /\ e \in E
    BY DEF Fds, Fd
  <1>2. QED
    BY <1>1 DEF HostCloses, TypeOK, Has

LEMMA Fewer ==
  ASSUME \A p \in Procs : holds'[p] \subseteq holds[p]
  PROVE  \A p \in Procs, s \in Sandboxes, g \in Nat, e \in Ends : Has(p, s, g, e)' => Has(p, s, g, e)
  BY DEF Has

\* A step of r that leaves the other sandboxes as they are.
LEMMA FdsKept ==
  ASSUME TypeOK, FdsOK, NEW r \in Sandboxes, gen' = gen,
         \A s \in Sandboxes \ {r} : pc'[s] = pc[s],
         \A p \in Procs, s \in Sandboxes, g \in Nat, e \in Ends : Has(p, s, g, e)' =>
           (\E q \in Procs : Has(q, s, g, e)) \/ (s = r /\ g = gen[r]),
         \A s \in Sandboxes \ {r}, e \in Ends : Has(Host, s, gen[s], e)' => Has(Host, s, gen[s], e),
         \A e \in Ends : Has(Host, r, gen[r], e)' => e \in Left(r)'
  PROVE  FdsOK'
  <1>1. gen \in [Sandboxes -> Nat] /\ Host \in Procs
    BY LifecycleAssumption DEF TypeOK, Procs
  <1>2. ASSUME NEW p \in Procs, NEW s \in Sandboxes, NEW g \in Nat, NEW e \in Ends, Has(p, s, g, e)'
        PROVE  g <= gen'[s]
    BY <1>1, <1>2 DEF FdsOK
  <1>3. ASSUME NEW s \in Sandboxes, NEW e \in Ends, Has(Host, s, gen[s], e)'
        PROVE  e \in Left(s)'
    <2>1. CASE s = r
      BY <1>1, <1>3, <2>1
    <2>2. CASE s # r
      BY <1>1, <1>3, <2>2 DEF FdsOK, Left
    <2>3. QED
      BY <2>1, <2>2
  <1>4. QED
    BY <1>2, <1>3 DEF FdsOK

\* And with the descriptors of the host.
LEMMA FdsStep ==
  ASSUME TypeOK, GenOK, BackendsOK, FdsOK, [Next]_vars
  PROVE  FdsOK'
  <1> USE DEF At, Go, hostVars, procVars
  <1>0. Host \in Procs /\ Host \notin Sandboxes
    BY LifecycleAssumption DEF Procs
  <1>1. ASSUME NEW r \in Sandboxes, CreateWasm(r) PROVE FdsOK'
    <2>1. gen'[r] = gen[r] + 1 /\ holds' = holds /\ gen[r] \in Nat
      BY <1>1 DEF CreateWasm, TypeOK, procVars
    <2>2. \A s \in Sandboxes \ {r} : gen'[s] = gen[s] /\ pc'[s] = pc[s]
      BY <1>1 DEF CreateWasm, Go, TypeOK
    <2>3. \A p \in Procs, s \in Sandboxes, g \in Nat, e \in Ends : Has(p, s, g, e)' <=> Has(p, s, g, e)
      BY <2>1 DEF Has
    <2>4. \A s \in Sandboxes, e \in Ends : s # r /\ Has(Host, s, gen[s], e)' => e \in Left(s)'
      BY <2>2, <2>3, <1>0 DEF FdsOK, Left, TypeOK
    <2>5. \A e \in Ends : ~Has(Host, r, gen[r] + 1, e)
      BY <2>1, <1>0 DEF FdsOK
    <2>6. \A s \in Sandboxes : gen'[s] \in Nat /\ gen[s] \in Nat /\ gen[s] <= gen'[s]
      BY <2>1, <2>2 DEF TypeOK
    <2>7. \A s \in Sandboxes, e \in Ends : Has(Host, s, gen[s], e)' => e \in Left(s)'
      BY <2>1, <2>2, <2>3, <2>4, <2>5, <2>6, <1>0
    <2>8. \A p \in Procs, s \in Sandboxes, g \in Nat, e \in Ends : Has(p, s, g, e)' => g <= gen'[s]
      BY <2>3, <2>6 DEF FdsOK
    <2>9. QED
      BY <2>7, <2>8 DEF FdsOK
  <1>2. ASSUME NEW r \in Sandboxes, Memfd(r) PROVE FdsOK'
    <2>1. CASE pc'[r] # "failed"
      <3>1. HostOpens(r, {"shm"})
        BY <1>2, <2>1 DEF Memfd, Fails, TypeOK
      <3>2. \A p \in Procs, s \in Sandboxes, g \in Nat, e \in Ends :
           Has(p, s, g, e)' => Has(p, s, g, e) \/ (p = Host /\ s = r /\ g = gen[r] /\ e \in {"shm"})
        BY <3>1, Opened DEF Ends
      <3>3. gen' = gen /\ gen[r] \in Nat /\ \A s \in Sandboxes \ {r} : pc'[s] = pc[s] /\ gen[s] \in Nat
        BY <1>2, <2>1 DEF Memfd, Fails, TypeOK
      <3>4. \A e \in Ends : Has(Host, r, gen[r], e)' => e \in Left(r)'
        <4>1. \A e \in Ends : Has(Host, r, gen[r], e) => e \in Left(r)
          BY DEF FdsOK
        <4>2. QED
          BY <1>2, <2>1, <3>2, <3>3, <4>1, <1>0 DEF Memfd, Fails, Left, Ends, TypeOK
      <3>5. QED
        BY <3>2, <3>3, <3>4, <1>0, FdsKept
    <2>2. CASE pc'[r] = "failed"
      <3>1. \A p \in Procs : holds'[p] \subseteq holds[p]
        BY <1>2, <2>2 DEF Memfd, Fails, TypeOK, Procs
      <3>2. \A p \in Procs, s \in Sandboxes, g \in Nat, e \in Ends :
           Has(p, s, g, e)' => Has(p, s, g, e)
        BY <3>1, Fewer
      <3>3. gen' = gen /\ gen[r] \in Nat /\ \A s \in Sandboxes \ {r} : pc'[s] = pc[s] /\ gen[s] \in Nat
        BY <1>2, <2>2 DEF Memfd, Fails, TypeOK
      <3>4. \A e \in Ends : Has(Host, r, gen[r], e)' => e \in Left(r)'
        <4>1. \A e \in Ends : Has(Host, r, gen[r], e) => e \in Left(r)
          BY DEF FdsOK
        <4>2. QED
          BY <1>2, <2>2, <3>2, <3>3, <4>1, <1>0 DEF Memfd, Fails, Left, Ends, TypeOK
      <3>5. QED
        BY <3>2, <3>3, <3>4, <1>0, FdsKept
    <2>3. QED
      BY <2>1, <2>2
  <1>3. ASSUME NEW r \in Sandboxes, Map(r) PROVE FdsOK'
    <2>1. CASE pc'[r] # "failed"
      <3>1. \A p \in Procs : holds'[p] \subseteq holds[p]
        BY <1>3, <2>1 DEF Map, Fails, TypeOK, Procs
      <3>2. \A p \in Procs, s \in Sandboxes, g \in Nat, e \in Ends :
           Has(p, s, g, e)' => Has(p, s, g, e)
        BY <3>1, Fewer
      <3>3. gen' = gen /\ gen[r] \in Nat /\ \A s \in Sandboxes \ {r} : pc'[s] = pc[s] /\ gen[s] \in Nat
        BY <1>3, <2>1 DEF Map, Fails, TypeOK
      <3>4. \A e \in Ends : Has(Host, r, gen[r], e)' => e \in Left(r)'
        <4>1. \A e \in Ends : Has(Host, r, gen[r], e) => e \in Left(r)
          BY DEF FdsOK
        <4>2. QED
          BY <1>3, <2>1, <3>2, <3>3, <4>1, <1>0 DEF Map, Fails, Left, Ends, TypeOK
      <3>5. QED
        BY <3>2, <3>3, <3>4, <1>0, FdsKept
    <2>2. CASE pc'[r] = "failed"
      <3>1. HostCloses(r, {"shm"})
        BY <1>3, <2>2 DEF Map, Fails, TypeOK
      <3>2. \A p \in Procs, s \in Sandboxes, g \in Nat, e \in Ends :
           Has(p, s, g, e)' => Has(p, s, g, e) /\ ~(p = Host /\ s = r /\ g = gen[r] /\ e \in {"shm"})
        BY <3>1, Closed DEF Ends
      <3>3. gen' = gen /\ gen[r] \in Nat /\ \A s \in Sandboxes \ {r} : pc'[s] = pc[s] /\ gen[s] \in Nat
        BY <1>3, <2>2 DEF Map, Fails, TypeOK
      <3>4. \A e \in Ends : Has(Host, r, gen[r], e)' => e \in Left(r)'
        <4>1. \A e \in Ends : Has(Host, r, gen[r], e) => e \in Left(r)
          BY DEF FdsOK
        <4>2. QED
          BY <1>3, <2>2, <3>2, <3>3, <4>1, <1>0 DEF Map, Fails, Left, Ends, TypeOK
      <3>5. QED
        BY <3>2, <3>3, <3>4, <1>0, FdsKept
    <2>3. QED
      BY <2>1, <2>2
  <1>4. ASSUME NEW r \in Sandboxes, Register(r) PROVE FdsOK'
    <2>1. \A p \in Procs : holds'[p] \subseteq holds[p]
      BY <1>4 DEF Register, TypeOK, Procs
    <2>2. \A p \in Procs, s \in Sandboxes, g \in Nat, e \in Ends :
         Has(p, s, g, e)' => Has(p, s, g, e)
      BY <2>1, Fewer
    <2>3. gen' = gen /\ gen[r] \in Nat /\ \A s \in Sandboxes \ {r} : pc'[s] = pc[s] /\ gen[s] \in Nat
      BY <1>4 DEF Register, TypeOK
    <2>4. \A e \in Ends : Has(Host, r, gen[r], e)' => e \in Left(r)'
      <3>1. \A e \in Ends : Has(Host, r, gen[r], e) => e \in Left(r)
        BY DEF FdsOK
      <3>2. QED
        BY <1>4, <2>2, <2>3, <3>1, <1>0 DEF Register, Left, Ends, TypeOK
    <2>5. QED
      BY <2>2, <2>3, <2>4, <1>0, FdsKept
  <1>5. ASSUME NEW r \in Sandboxes, ReqPair(r) PROVE FdsOK'
    <2>1. CASE pc'[r] # "failed"
      <3>1. HostOpens(r, {"req0", "req1"})
        BY <1>5, <2>1 DEF ReqPair, Fails, TypeOK
      <3>2. \A p \in Procs, s \in Sandboxes, g \in Nat, e \in Ends :
           Has(p, s, g, e)' => Has(p, s, g, e) \/ (p = Host /\ s = r /\ g = gen[r] /\ e \in {"req0", "req1"})
        BY <3>1, Opened DEF Ends
      <3>3. gen' = gen /\ gen[r] \in Nat /\ \A s \in Sandboxes \ {r} : pc'[s] = pc[s] /\ gen[s] \in Nat
        BY <1>5, <2>1 DEF ReqPair, Fails, TypeOK
      <3>4. \A e \in Ends : Has(Host, r, gen[r], e)' => e \in Left(r)'
        <4>1. \A e \in Ends : Has(Host, r, gen[r], e) => e \in Left(r)
          BY DEF FdsOK
        <4>2. QED
          BY <1>5, <2>1, <3>2, <3>3, <4>1, <1>0 DEF ReqPair, Fails, Left, Ends, TypeOK
      <3>5. QED
        BY <3>2, <3>3, <3>4, <1>0, FdsKept
    <2>2. CASE pc'[r] = "failed"
      <3>1. HostCloses(r, {"shm"})
        BY <1>5, <2>2 DEF ReqPair, Fails, TypeOK
      <3>2. \A p \in Procs, s \in Sandboxes, g \in Nat, e \in Ends :
           Has(p, s, g, e)' => Has(p, s, g, e) /\ ~(p = Host /\ s = r /\ g = gen[r] /\ e \in {"shm"})
        BY <3>1, Closed DEF Ends
      <3>3. gen' = gen /\ gen[r] \in Nat /\ \A s \in Sandboxes \ {r} : pc'[s] = pc[s] /\ gen[s] \in Nat
        BY <1>5, <2>2 DEF ReqPair, Fails, TypeOK
      <3>4. \A e \in Ends : Has(Host, r, gen[r], e)' => e \in Left(r)'
        <4>1. \A e \in Ends : Has(Host, r, gen[r], e) => e \in Left(r)
          BY DEF FdsOK
        <4>2. QED
          BY <1>5, <2>2, <3>2, <3>3, <4>1, <1>0 DEF ReqPair, Fails, Left, Ends, TypeOK
      <3>5. QED
        BY <3>2, <3>3, <3>4, <1>0, FdsKept
    <2>3. QED
      BY <2>1, <2>2
  <1>6. ASSUME NEW r \in Sandboxes, CbPair(r) PROVE FdsOK'
    <2>1. CASE pc'[r] # "failed"
      <3>1. HostOpens(r, {"cb0", "cb1"})
        BY <1>6, <2>1 DEF CbPair, Fails, TypeOK
      <3>2. \A p \in Procs, s \in Sandboxes, g \in Nat, e \in Ends :
           Has(p, s, g, e)' => Has(p, s, g, e) \/ (p = Host /\ s = r /\ g = gen[r] /\ e \in {"cb0", "cb1"})
        BY <3>1, Opened DEF Ends
      <3>3. gen' = gen /\ gen[r] \in Nat /\ \A s \in Sandboxes \ {r} : pc'[s] = pc[s] /\ gen[s] \in Nat
        BY <1>6, <2>1 DEF CbPair, Fails, TypeOK
      <3>4. \A e \in Ends : Has(Host, r, gen[r], e)' => e \in Left(r)'
        <4>1. \A e \in Ends : Has(Host, r, gen[r], e) => e \in Left(r)
          BY DEF FdsOK
        <4>2. QED
          BY <1>6, <2>1, <3>2, <3>3, <4>1, <1>0 DEF CbPair, Fails, Left, Ends, TypeOK
      <3>5. QED
        BY <3>2, <3>3, <3>4, <1>0, FdsKept
    <2>2. CASE pc'[r] = "failed"
      <3>1. HostCloses(r, {"shm", "req0", "req1"})
        BY <1>6, <2>2 DEF CbPair, Fails, TypeOK
      <3>2. \A p \in Procs, s \in Sandboxes, g \in Nat, e \in Ends :
           Has(p, s, g, e)' => Has(p, s, g, e) /\ ~(p = Host /\ s = r /\ g = gen[r] /\ e \in {"shm", "req0", "req1"})
        BY <3>1, Closed DEF Ends
      <3>3. gen' = gen /\ gen[r] \in Nat /\ \A s \in Sandboxes \ {r} : pc'[s] = pc[s] /\ gen[s] \in Nat
        BY <1>6, <2>2 DEF CbPair, Fails, TypeOK
      <3>4. \A e \in Ends : Has(Host, r, gen[r], e)' => e \in Left(r)'
        <4>1. \A e \in Ends : Has(Host, r, gen[r], e) => e \in Left(r)
          BY DEF FdsOK
        <4>2. QED
          BY <1>6, <2>2, <3>2, <3>3, <4>1, <1>0 DEF CbPair, Fails, Left, Ends, TypeOK
      <3>5. QED
        BY <3>2, <3>3, <3>4, <1>0, FdsKept
    <2>3. QED
      BY <2>1, <2>2
  <1>7. ASSUME NEW r \in Sandboxes, Fork(r) PROVE FdsOK'
    <2>1. CASE pc'[r] # "failed"
      <3>1. \A p \in Procs : holds'[p] = holds[p] \/ holds'[p] = holds[Host]
        BY <1>7, <2>1, <1>0 DEF Fork, Fails, TypeOK, Procs
      <3>2. \A p \in Procs, s \in Sandboxes, g \in Nat, e \in Ends :
           Has(p, s, g, e)' => Has(p, s, g, e) \/ Has(Host, s, g, e)
        BY <3>1 DEF Has
      <3>3. gen' = gen /\ gen[r] \in Nat /\ \A s \in Sandboxes \ {r} : pc'[s] = pc[s] /\ gen[s] \in Nat
        BY <1>7, <2>1 DEF Fork, Fails, TypeOK
      <3>4. \A e \in Ends : Has(Host, r, gen[r], e)' => e \in Left(r)'
        <4>1. \A e \in Ends : Has(Host, r, gen[r], e) => e \in Left(r)
          BY DEF FdsOK
        <4>2. QED
          BY <1>7, <2>1, <3>2, <3>3, <4>1, <1>0 DEF Fork, Fails, Left, Ends, TypeOK
      <3>5. QED
        BY <3>2, <3>3, <3>4, <1>0, FdsKept
    <2>2. CASE pc'[r] = "failed"
      <3>1. HostCloses(r, {"shm"})
        BY <1>7, <2>2 DEF Fork, Fails, TypeOK
      <3>2. \A p \in Procs, s \in Sandboxes, g \in Nat, e \in Ends :
           Has(p, s, g, e)' => Has(p, s, g, e) /\ ~(p = Host /\ s = r /\ g = gen[r] /\ e \in {"shm"})
        BY <3>1, Closed DEF Ends
      <3>3. gen' = gen /\ gen[r] \in Nat /\ \A s \in Sandboxes \ {r} : pc'[s] = pc[s] /\ gen[s] \in Nat
        BY <1>7, <2>2 DEF Fork, Fails, TypeOK
      <3>4. \A e \in Ends : Has(Host, r, gen[r], e)' => e \in Left(r)'
        <4>1. \A e \in Ends : Has(Host, r, gen[r], e) => e \in Left(r)
          BY DEF FdsOK
        <4>2. QED
          BY <1>7, <2>2, <3>2, <3>3, <4>1, <1>0 DEF Fork, Fails, Left, Ends, TypeOK
      <3>5. QED
        BY <3>2, <3>3, <3>4, <1>0, FdsKept
    <2>3. QED
      BY <2>1, <2>2
  <1>8. ASSUME NEW r \in Sandboxes, CloseEnds(r) PROVE FdsOK'
    <2>1. HostCloses(r, {"shm", "req1", "cb1"})
      BY <1>8 DEF CloseEnds, TypeOK
    <2>2. \A p \in Procs, s \in Sandboxes, g \in Nat, e \in Ends :
         Has(p, s, g, e)' => Has(p, s, g, e) /\ ~(p = Host /\ s = r /\ g = gen[r] /\ e \in {"shm", "req1", "cb1"})
      BY <2>1, Closed DEF Ends
    <2>3. gen' = gen /\ gen[r] \in Nat /\ \A s \in Sandboxes \ {r} : pc'[s] = pc[s] /\ gen[s] \in Nat
      BY <1>8 DEF CloseEnds, TypeOK
    <2>4. \A e \in Ends : Has(Host, r, gen[r], e)' => e \in Left(r)'
      <3>1. \A e \in Ends : Has(Host, r, gen[r], e) => e \in Left(r)
        BY DEF FdsOK
      <3>2. QED
        BY <1>8, <2>2, <2>3, <3>1, <1>0 DEF CloseEnds, Left, Ends, TypeOK
    <2>5. QED
      BY <2>2, <2>3, <2>4, <1>0, FdsKept
  <1>9. ASSUME NEW r \in Sandboxes, Publish(r) PROVE FdsOK'
    <2>1. \A p \in Procs : holds'[p] \subseteq holds[p]
      BY <1>9 DEF Publish, TypeOK, Procs
    <2>2. \A p \in Procs, s \in Sandboxes, g \in Nat, e \in Ends :
         Has(p, s, g, e)' => Has(p, s, g, e)
      BY <2>1, Fewer
    <2>3. gen' = gen /\ gen[r] \in Nat /\ \A s \in Sandboxes \ {r} : pc'[s] = pc[s] /\ gen[s] \in Nat
      BY <1>9 DEF Publish, TypeOK
    <2>4. \A e \in Ends : Has(Host, r, gen[r], e)' => e \in Left(r)'
      <3>1. \A e \in Ends : Has(Host, r, gen[r], e) => e \in Left(r)
        BY DEF FdsOK
      <3>2. QED
        BY <1>9, <2>2, <2>3, <3>1, <1>0 DEF Publish, Left, Ends, TypeOK
    <2>5. QED
      BY <2>2, <2>3, <2>4, <1>0, FdsKept
  <1>10. ASSUME NEW r \in Sandboxes, Unpublish(r) PROVE FdsOK'
    <2>1. \A p \in Procs : holds'[p] \subseteq holds[p]
      BY <1>10 DEF Unpublish, TypeOK, Procs
    <2>2. \A p \in Procs, s \in Sandboxes, g \in Nat, e \in Ends :
         Has(p, s, g, e)' => Has(p, s, g, e)
      BY <2>1, Fewer
    <2>3. gen' = gen /\ gen[r] \in Nat /\ \A s \in Sandboxes \ {r} : pc'[s] = pc[s] /\ gen[s] \in Nat
      BY <1>10 DEF Unpublish, TypeOK
    <2>4. \A e \in Ends : Has(Host, r, gen[r], e)' => e \in Left(r)'
      <3>1. \A e \in Ends : Has(Host, r, gen[r], e) => e \in Left(r)
        BY DEF FdsOK
      <3>2. QED
        BY <1>10, <2>2, <2>3, <3>1, <1>0 DEF Unpublish, Left, Ends, TypeOK
    <2>5. QED
      BY <2>2, <2>3, <2>4, <1>0, FdsKept
  <1>11. ASSUME NEW r \in Sandboxes, Unregister(r) PROVE FdsOK'
    <2>1. \A p \in Procs : holds'[p] \subseteq holds[p]
      BY <1>11 DEF Unregister, TypeOK, Procs
    <2>2. \A p \in Procs, s \in Sandboxes, g \in Nat, e \in Ends :
         Has(p, s, g, e)' => Has(p, s, g, e)
      BY <2>1, Fewer
    <2>3. gen' = gen /\ gen[r] \in Nat /\ \A s \in Sandboxes \ {r} : pc'[s] = pc[s] /\ gen[s] \in Nat
      BY <1>11 DEF Unregister, TypeOK
    <2>4. \A e \in Ends : Has(Host, r, gen[r], e)' => e \in Left(r)'
      <3>1. \A e \in Ends : Has(Host, r, gen[r], e) => e \in Left(r)
        BY DEF FdsOK
      <3>2. QED
        BY <1>11, <2>2, <2>3, <3>1, <1>0 DEF Unregister, Left, Ends, TypeOK
    <2>5. QED
      BY <2>2, <2>3, <2>4, <1>0, FdsKept
  <1>12. ASSUME NEW r \in Sandboxes, Shutdown(r) PROVE FdsOK'
    <2>1. HostCloses(r, {"req0", "cb0"})
      BY <1>12 DEF Shutdown, TypeOK
    <2>2. \A p \in Procs, s \in Sandboxes, g \in Nat, e \in Ends :
         Has(p, s, g, e)' => Has(p, s, g, e) /\ ~(p = Host /\ s = r /\ g = gen[r] /\ e \in {"req0", "cb0"})
      BY <2>1, Closed DEF Ends
    <2>3. gen' = gen /\ gen[r] \in Nat /\ \A s \in Sandboxes \ {r} : pc'[s] = pc[s] /\ gen[s] \in Nat
      BY <1>12 DEF Shutdown, TypeOK
    <2>4. \A e \in Ends : Has(Host, r, gen[r], e)' => e \in Left(r)'
      <3>1. \A e \in Ends : Has(Host, r, gen[r], e) => e \in Left(r)
        BY DEF FdsOK
      <3>2. QED
        BY <1>12, <2>2, <2>3, <3>1, <1>0 DEF Shutdown, Left, Ends, TypeOK
    <2>5. QED
      BY <2>2, <2>3, <2>4, <1>0, FdsKept
  <1>13. ASSUME NEW r \in Sandboxes, Kill(r) PROVE FdsOK'
    <2>1. \A p \in Procs : holds'[p] \subseteq holds[p]
      BY <1>13 DEF Kill, TypeOK, Procs
    <2>2. \A p \in Procs, s \in Sandboxes, g \in Nat, e \in Ends :
         Has(p, s, g, e)' => Has(p, s, g, e)
      BY <2>1, Fewer
    <2>3. gen' = gen /\ gen[r] \in Nat /\ \A s \in Sandboxes \ {r} : pc'[s] = pc[s] /\ gen[s] \in Nat
      BY <1>13 DEF Kill, TypeOK
    <2>4. \A e \in Ends : Has(Host, r, gen[r], e)' => e \in Left(r)'
      <3>1. \A e \in Ends : Has(Host, r, gen[r], e) => e \in Left(r)
        BY DEF FdsOK
      <3>2. QED
        BY <1>13, <2>2, <2>3, <3>1, <1>0 DEF Kill, Left, Ends, TypeOK
    <2>5. QED
      BY <2>2, <2>3, <2>4, <1>0, FdsKept
  <1>14. ASSUME NEW r \in Sandboxes, Exec(r) PROVE FdsOK'
    <2>1. \A p \in Procs : holds'[p] \subseteq holds[p]
      BY <1>14 DEF Exec, TypeOK, Procs
    <2>2. \A p \in Procs, s \in Sandboxes, g \in Nat, e \in Ends :
         Has(p, s, g, e)' => Has(p, s, g, e)
      BY <2>1, Fewer
    <2>3. gen' = gen /\ gen[r] \in Nat /\ \A s \in Sandboxes \ {r} : pc'[s] = pc[s] /\ gen[s] \in Nat
      BY <1>14 DEF Exec, TypeOK
    <2>4. \A e \in Ends : Has(Host, r, gen[r], e)' => e \in Left(r)'
      <3>1. \A e \in Ends : Has(Host, r, gen[r], e) => e \in Left(r)
        BY DEF FdsOK
      <3>2. QED
        BY <1>14, <2>2, <2>3, <3>1, <1>0 DEF Exec, Left, Ends, TypeOK
    <2>5. QED
      BY <2>2, <2>3, <2>4, <1>0, FdsKept
  <1>15. ASSUME NEW r \in Sandboxes, LoopEnds(r) PROVE FdsOK'
    <2>1. \A p \in Procs : holds'[p] \subseteq holds[p]
      BY <1>15 DEF LoopEnds, TypeOK, Procs
    <2>2. \A p \in Procs, s \in Sandboxes, g \in Nat, e \in Ends :
         Has(p, s, g, e)' => Has(p, s, g, e)
      BY <2>1, Fewer
    <2>3. gen' = gen /\ gen[r] \in Nat /\ \A s \in Sandboxes \ {r} : pc'[s] = pc[s] /\ gen[s] \in Nat
      BY <1>15 DEF LoopEnds, TypeOK
    <2>4. \A e \in Ends : Has(Host, r, gen[r], e)' => e \in Left(r)'
      <3>1. \A e \in Ends : Has(Host, r, gen[r], e) => e \in Left(r)
        BY DEF FdsOK
      <3>2. QED
        BY <1>15, <2>2, <2>3, <3>1, <1>0 DEF LoopEnds, Left, Ends, TypeOK
    <2>5. QED
      BY <2>2, <2>3, <2>4, <1>0, FdsKept
  <1>16. ASSUME NEW r \in Sandboxes, ShimDies(r) PROVE FdsOK'
    <2>1. \A p \in Procs : holds'[p] \subseteq holds[p]
      BY <1>16 DEF ShimDies, TypeOK, Procs
    <2>2. \A p \in Procs, s \in Sandboxes, g \in Nat, e \in Ends :
         Has(p, s, g, e)' => Has(p, s, g, e)
      BY <2>1, Fewer
    <2>3. gen' = gen /\ gen[r] \in Nat /\ \A s \in Sandboxes \ {r} : pc'[s] = pc[s] /\ gen[s] \in Nat
      BY <1>16 DEF ShimDies, TypeOK
    <2>4. \A e \in Ends : Has(Host, r, gen[r], e)' => e \in Left(r)'
      <3>1. \A e \in Ends : Has(Host, r, gen[r], e) => e \in Left(r)
        BY DEF FdsOK
      <3>2. QED
        BY <1>16, <2>2, <2>3, <3>1, <1>0 DEF ShimDies, Left, Ends, TypeOK
    <2>5. QED
      BY <2>2, <2>3, <2>4, <1>0, FdsKept
  <1>16a. ASSUME NEW r \in Sandboxes, Spawn(r) PROVE FdsOK'
    <2>1. \A p \in Procs : holds'[p] \subseteq holds[p]
      BY <1>16a DEF Spawn, TypeOK, Procs
    <2>2. QED
      BY <1>0, <1>16a, <2>1, Fewer DEF Spawn, hostVars, FdsOK, Left, TypeOK
  <1>16b. ASSUME NEW l \in Lives, WorkersEnd(l) PROVE FdsOK'
    <2>1. \A p \in Procs : holds'[p] \subseteq holds[p]
      BY <1>16b DEF WorkersEnd, TypeOK, Procs
    <2>2. QED
      BY <1>0, <1>16b, <2>1, Fewer DEF WorkersEnd, hostVars, FdsOK, Left, TypeOK
  <1>17. CASE HostDies
    <2>1. \A p \in Procs : holds'[p] \subseteq holds[p]
      BY <1>17 DEF HostDies, TypeOK, Procs
    <2>2. QED
      BY <1>0, <1>17, <2>1, Fewer DEF HostDies, FdsOK, Left, TypeOK
  <1>18. CASE UNCHANGED vars
    BY <1>18 DEF vars, FdsOK, Has, Left
  <1>19. QED
    BY <1>1, <1>2, <1>3, <1>4, <1>5, <1>6, <1>7, <1>8, <1>9, <1>10, <1>11, <1>12,
       <1>13, <1>14, <1>15, <1>16, <1>16a, <1>16b, <1>17, <1>18
    DEF Next, Create, Destroy, Shim

-----------------------------------------------------------------------------
\* The state of the registries, the backends and the descriptors of the host is
\* what the threads of the sandboxes account for.
THEOREM Invariance == Spec => []IInv
  <1>1. IInv /\ [Next]_vars => IInv'
    BY TypeStep, BasesStep, EntriesStep, BackendsStep, ShutStep, FdsStep DEF IInv
  <1>2. QED
    BY InitIInv, <1>1, PTL DEF Spec

\* The registry finds each sandbox that is up and no other, whatever entries
\* failed creations have left.
THEOREM RegistryFinds == Spec => []RegistryRight
  <1>1. IInv => RegistryRight
    BY DEF IInv, TypeOK, BasesOK, EntriesOK, Registered, RegistryRight
  <1>2. QED
    BY <1>1, Invariance, PTL

\* When destroy returns, nothing of that life is left in the host but its
\* mapping, the shim has been waited for and its sockets are shut down.
THEOREM DestroyedIsGone == Spec => []DownIsDown
  <1>1. IInv => DownIsDown
    BY DEF IInv, ShutOK, EntriesOK, BackendsOK, FdsOK, Left, Has, Fd, Procs, Ends, Childless, DownIsDown
  <1>2. QED
    BY <1>1, Invariance, PTL
=============================================================================
