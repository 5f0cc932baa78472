------------------------- MODULE OperatorEngine_proofs -------------------------
(* Proofs about OperatorEngine, for all situations, operators and bounds: when *)
(* the output of a cpu-bound operator can be dropped for want of a route, what *)
(* types the variables have, what a committed position accounts for, how often *)
(* an operator processes a record, and how many committed records a queue      *)
(* holds.                                                                      *)
EXTENDS OperatorEngine, FiniteSetTheorems, SequenceTheorems, TLAPS

\* Whatever the situations are, a registration is a positive number and None is none.
LEMMA RegFacts ==
  /\ Reg \subseteq Nat /\ None \notin Reg /\ None \notin Rec
  /\ \A l \in Loads : 1 .. l.regs \subseteq Reg /\ 1 .. l.records \subseteq Rec
BY EngineAssumption DEF Reg, Rec

-----------------------------------------------------------------------------
(* Types, of the variables that the argument looks at.                       *)

Cast ==
  /\ load \in Loads
  /\ ops \subseteq Op /\ bind \in Seq(Op)
  /\ worker \in [Op -> Reg \union {None}]
  /\ owner \in [Reg -> Op \union {None}]
  /\ queue \in [Reg -> Seq(Rec)]
  /\ busy \in [Reg -> Rec \union {None}]
  /\ opening \subseteq Reg /\ joining \subseteq Reg
  /\ regs \in 0 .. load.regs
  /\ pos \in 0 .. load.records /\ read \in 0 .. load.records
  /\ batch \in Seq(Rec) /\ idx \in Nat \ {0}

LEMMA CastInit == Init => Cast
<1> SUFFICES ASSUME Init PROVE Cast
  OBVIOUS
<1>1. load.regs \in Nat /\ load.records \in Nat
  BY EngineAssumption DEF Init
<1> QED BY <1>1, RegFacts DEF Init, Cast

LEMMA CopiesAreFinite ==
  ASSUME NEW a \in Nat, NEW b \in Nat, NEW S, S \subseteq a .. b
  PROVE  Cardinality(S) \in Nat /\ (S = {} => Cardinality(S) = 0)
<1>1. IsFiniteSet(a .. b)
  BY FS_Interval
<1>2. IsFiniteSet(S)
  BY <1>1, FS_Subset
<1>3. Cardinality(S) \in Nat
  BY <1>2, FS_CardinalityType
<1>4. S = {} => Cardinality(S) = 0
  BY <1>2, FS_EmptySet
<1> QED BY <1>3, <1>4

\* What a dispatch does to a queue: it stays, or it grows and is the queue of an
\* operator that is registered and bound to the topic.
LEMMA DispatchQueues ==
  ASSUME Cast, Dispatch, NEW g \in Reg
  PROVE  /\ queue'[g] \in Seq(Rec)
         /\ queue'[g] = queue[g] \/ \E o \in ops : worker[o] = g
<1>1. PICK until \in idx .. Len(bind) + 1 :
        queue' = [h \in Reg |->
          LET given == {i \in idx .. until - 1 : bind[i] \in ops /\ worker[bind[i]] = h}
          IN  queue[h] \o [i \in 1 .. Cardinality(given) |-> Head(batch)]]
  BY DEF Dispatch
<1> DEFINE given == {i \in idx .. until - 1 : bind[i] \in ops /\ worker[bind[i]] = g}
           more  == [i \in 1 .. Cardinality(given) |-> Head(batch)]
<1>2. idx \in Nat /\ until \in Nat \ {0} /\ until - 1 \in Nat
  BY DEF Cast
<1>3. Cardinality(given) \in Nat /\ (given = {} => Cardinality(given) = 0)
  <2>1. given \subseteq idx .. until - 1
    OBVIOUS
  <2> QED BY <1>2, <2>1, CopiesAreFinite
<1>4. Head(batch) \in Rec
  BY DEF Dispatch, Cast
<1>5. queue'[g] = queue[g] \o more
  BY <1>1
<1>6. more \in Seq(Rec)
  BY <1>3, <1>4
<1>7. queue[g] \in Seq(Rec)
  BY DEF Cast
<1>8. queue'[g] \in Seq(Rec)
  BY <1>5, <1>6, <1>7
<1>9. CASE given = {}
  <2>1. Cardinality(given) = 0
    BY <1>3, <1>9
  <2> HIDE DEF given
  <2>2. DOMAIN more = {}
    BY <2>1
  <2>3. more = <<>>
    BY <2>1, <1>6
  <2>4. queue'[g] = queue[g]
    BY <1>5, <1>7, <2>3, ConcatEmptySeq
  <2> QED BY <1>8, <2>4
<1>10. CASE given # {}
  BY <1>8, <1>10
<1> QED BY <1>9, <1>10

LEMMA CastNext ==
  ASSUME Cast, [Next]_vars
  PROVE  Cast'
<1> USE DEF Cast
<1>1. ASSUME NEW o \in Op, Register(o) PROVE Cast'
  <2>0. load.regs \in Nat /\ 1 .. load.regs \subseteq Reg
    BY EngineAssumption, RegFacts
  <2>1. regs + 1 \in 1 .. load.regs /\ regs + 1 \in Reg
    <3>1. regs \in 0 .. load.regs /\ regs < load.regs
      BY <1>1 DEF Register
    <3> HIDE DEF Cast
    <3>2. regs + 1 \in 1 .. load.regs
      BY <2>0, <3>1
    <3> QED BY <2>0, <3>2
  <2>2. o \in Op /\ bind' \in Seq(Op)
    BY <1>1 DEF Register
  <2> QED BY <1>1, <2>0, <2>1, <2>2 DEF Register, loop, work
<1>2. ASSUME NEW g \in Reg, Registered(g) PROVE Cast'
  <2>1. pos' \in 0 .. load.records /\ read' \in 0 .. load.records
    BY <1>2 DEF Registered
  <2>2. worker' \in [Op -> Reg \union {None}]
    BY <1>2 DEF Registered
  <2> QED BY <1>2, <2>1, <2>2 DEF Registered
<1>3. ASSUME NEW o \in Op, Deregister(o) PROVE Cast'
  BY <1>3 DEF Deregister, loop, work
<1>4. ASSUME NEW g \in Reg, JoinReturns(g) PROVE Cast'
  BY <1>4 DEF JoinReturns, loop, work
<1>5. ASSUME NEW g \in Reg, WorkerGets(g) PROVE Cast'
  BY <1>5 DEF WorkerGets, table, loop
<1>6. ASSUME NEW g \in Reg, WorkerDone(g) PROVE Cast'
  BY <1>6 DEF WorkerDone, table, loop
<1>7. CASE Poll
  <2>1. PICK k \in 0 .. Batch : /\ pos + k <= load.records
                                /\ batch' = [i \in 1 .. k |-> pos + i]
                                /\ read' = IF k = 0 THEN pos ELSE pos + k
                                /\ pos' = read'
    BY <1>7 DEF Poll, Fetch
  <2>2. k \in Nat /\ load.records \in Nat /\ pos \in Nat
    BY <2>1, EngineAssumption
  <2>3. \A i \in 1 .. k : pos + i \in 1 .. load.records
    BY <2>1, <2>2
  <2>4. batch' \in Seq(Rec)
    <3>1. \A i \in 1 .. k : pos + i \in Rec
      BY <2>3, RegFacts
    <3> QED BY <2>1, <2>2, <3>1
  <2>5. pos' \in 0 .. load.records /\ read' \in 0 .. load.records
    BY <2>1, <2>2
  <2> QED BY <1>7, <2>4, <2>5 DEF Poll, Fetch, table, work
<1>8. CASE Skip
  BY <1>8 DEF Skip, table
<1>9. CASE Dispatch
  <2>1. queue' \in [Reg -> Seq(Rec)]
    <3>1. \A g \in Reg : queue'[g] \in Seq(Rec)
      BY <1>9, DispatchQueues
    <3>2. queue' = [g \in Reg |-> queue'[g]]
      BY <1>9 DEF Dispatch
    <3> QED BY <3>1, <3>2
  <2>2. batch' \in Seq(Rec) /\ idx' \in Nat \ {0}
    <3>1. batch # <<>> /\ Tail(batch) \in Seq(Rec)
      BY <1>9 DEF Dispatch
    <3>2. batch' \in {batch, Tail(batch)}
      BY <1>9 DEF Dispatch
    <3>3. \E until \in idx .. Len(bind) + 1 : idx' \in {1, until}
      BY <1>9 DEF Dispatch
    <3>4. idx' \in Nat \ {0}
      BY <3>3
    <3> QED BY <3>1, <3>2, <3>4
  <2>3. UNCHANGED <<load, table, read, pos, busy>>
    BY <1>9 DEF Dispatch
  <2> QED BY <2>1, <2>2, <2>3 DEF table
<1>10. CASE ProcessReturns
  BY <1>10 DEF ProcessReturns, table
<1>11. CASE CheckBackpressure
  BY <1>11 DEF CheckBackpressure, table, work
<1>12. CASE Commit
  BY <1>12 DEF Commit, table, work
<1>13. CASE Crash
  BY <1>13, RegFacts DEF Crash
<1>14. CASE Rebalance
  BY <1>14 DEF Rebalance, table
<1>15. CASE UNCHANGED vars
  BY <1>15 DEF vars, table, loop, work
<1> QED BY <1>1, <1>2, <1>3, <1>4, <1>5, <1>6, <1>7, <1>8, <1>9, <1>10, <1>11, <1>12, <1>13, <1>14, <1>15
        DEF Next, ConsumeLoop

-----------------------------------------------------------------------------
(* Routes.  As long as no two registrations of an operator overlap, one queue *)
(* at most is at work for it: that of the operator's entry in _worker_queues, *)
(* or the one that a deregistration waits for, and either keeps the routes.   *)

Active(g) == queue[g] # <<>> \/ busy[g] # None
Unused(g) == ~ Active(g) /\ g \notin joining /\ \A o \in Op : worker[o] # g

RegisteredHasRoutes == ops \subseteq routes \union renewed

JoinedHasRoutes ==
  \A g \in joining : owner[g] \in renewed \/ owner[g] \in routes \ ops

JoinedAlone ==
  \A g, h \in joining : owner[g] = owner[h] => g = h \/ owner[g] \in renewed

ActiveIsCurrent ==
  \A g \in Reg : Active(g) /\ g \notin joining =>
    \/ owner[g] \in renewed
    \/ owner[g] \in ops /\ worker[owner[g]] = g

OwnWorker == \A o \in Op : worker[o] # None => owner[worker[o]] = o
OpeningUnused == \A g \in opening : owner[g] \in Op /\ Unused(g)
FreshUnused == \A g \in Reg : g > regs => g \notin opening /\ Unused(g)
AwaitedIsIoBound == pc = "process" => idx \in 1 .. Len(bind) /\ bind[idx] \notin load.cpu

Routed ==
  /\ RegisteredHasRoutes /\ JoinedHasRoutes /\ JoinedAlone /\ ActiveIsCurrent
  /\ OwnWorker /\ OpeningUnused /\ FreshUnused /\ AwaitedIsIoBound
  /\ DropExplained

LEMMA RoutedInit == Init => Routed
<1> SUFFICES ASSUME Init PROVE Routed
  OBVIOUS
<1>1. \A g \in Reg : g \notin opening /\ Unused(g)
  BY RegFacts DEF Init, Unused, Active
<1> QED BY <1>1 DEF Init, Routed, RegisteredHasRoutes, JoinedHasRoutes, JoinedAlone, ActiveIsCurrent,
        OwnWorker, OpeningUnused, FreshUnused, AwaitedIsIoBound, DropExplained, Unused

\* A second registration of an operator whose queue is being joined is a renewal.
LEMMA RegisterKeeps ==
  ASSUME Cast, Routed, NEW o \in Op, Register(o), Cast'
  PROVE  Routed'
<1> DEFINE new == regs + 1
<1> USE DEF Routed
<1>1. /\ new \in Reg /\ new > regs /\ regs \in Nat
  <2>1. load.regs \in Nat /\ 1 .. load.regs \subseteq Reg
    BY EngineAssumption, RegFacts DEF Cast
  <2>2. regs \in 0 .. load.regs /\ regs < load.regs
    BY DEF Register, Cast
  <2> QED BY <2>1, <2>2
<1>2. /\ ops' = ops \union {o} /\ routes' = routes \union {o} /\ renewed \subseteq renewed'
      /\ owner'[new] = o /\ \A g \in Reg : g # new => owner'[g] = owner[g]
      /\ opening' \in {opening, opening \union {new}} /\ regs' = new
      /\ UNCHANGED <<load, worker, joining, queue, busy, muted, pc, idx>>
  BY <1>1 DEF Register, Cast, loop, work
<1>3. \A g \in joining : owner[g] = o => o \in renewed'
  BY DEF Register
<1>4. Unused(new) /\ new \notin opening
  BY <1>1 DEF FreshUnused
<1>5. \A g : Unused(g)' <=> Unused(g)
  BY <1>2 DEF Unused, Active
<1>6. \A g : Active(g)' <=> Active(g)
  BY <1>2 DEF Active
<1>7. \A p \in Op : worker[p] # new
  BY <1>4 DEF Unused
<1>8. new \notin joining /\ ~ Active(new)
  BY <1>4 DEF Unused
<1> HIDE DEF new
<1>9. RegisteredHasRoutes'
  BY <1>2 DEF RegisteredHasRoutes
<1>10. JoinedHasRoutes'
  BY <1>2, <1>3, <1>8 DEF JoinedHasRoutes, Cast
<1>11. JoinedAlone'
  BY <1>2, <1>8 DEF JoinedAlone, Cast
<1>12. ActiveIsCurrent'
  BY <1>2, <1>6, <1>8 DEF ActiveIsCurrent
<1>13. OwnWorker'
  BY <1>2, <1>7 DEF OwnWorker, Cast
<1>14. OpeningUnused'
  BY <1>1, <1>2, <1>4, <1>5 DEF OpeningUnused, Cast
<1>15. FreshUnused'
  <2>1. ASSUME NEW g \in Reg, g > new PROVE g # new /\ g > regs
    BY <2>1, <1>1, RegFacts DEF new
  <2> QED BY <1>2, <1>5, <2>1 DEF FreshUnused
<1>16. AwaitedIsIoBound'
  <2>1. \A i \in 1 .. Len(bind) : i \in 1 .. Len(bind') /\ bind'[i] = bind[i]
    BY DEF Register, Cast
  <2> QED BY <1>2, <2>1 DEF AwaitedIsIoBound
<1>17. DropExplained'
  BY <1>2 DEF DropExplained
<1> QED BY <1>9, <1>10, <1>11, <1>12, <1>13, <1>14, <1>15, <1>16, <1>17

\* A queue that replaces another one makes the operator a renewed one.
LEMMA RegisteredKeeps ==
  ASSUME Cast, Routed, NEW g \in Reg, Registered(g), Cast'
  PROVE  Routed'
<1> DEFINE o == owner[g]
<1> USE DEF Routed
<1>1. /\ g \in opening /\ opening' = opening \ {g}
      /\ worker' = IF o \in load.cpu THEN [worker EXCEPT ![o] = g] ELSE worker
      /\ renewed' = IF worker[o] # None THEN renewed \union {o} ELSE renewed
      /\ UNCHANGED <<load, ops, routes, bind, owner, joining, regs, idx, queue, busy, muted>>
      /\ pc' = "process" => pc = "process"
  BY DEF Registered
<1>2. o \in Op /\ Unused(g)
  BY <1>1 DEF OpeningUnused
<1>3. \A p \in Op : worker'[p] = worker[p] \/ (p = o /\ worker'[p] = g)
  BY <1>1, <1>2 DEF Cast
<1>4. \A h : Active(h)' <=> Active(h)
  BY <1>1 DEF Active
<1>5. \A h : h # g /\ Unused(h) => Unused(h)'
  BY <1>1, <1>3, <1>4 DEF Unused
<1>6. RegisteredHasRoutes' /\ JoinedHasRoutes' /\ JoinedAlone' /\ AwaitedIsIoBound' /\ DropExplained'
  BY <1>1 DEF RegisteredHasRoutes, JoinedHasRoutes, JoinedAlone, AwaitedIsIoBound, DropExplained
<1>7. ActiveIsCurrent'
  <2> SUFFICES ASSUME NEW h \in Reg, Active(h), h \notin joining, owner[h] \notin renewed'
               PROVE  owner[h] \in ops /\ worker'[owner[h]] = h
    BY <1>1, <1>4 DEF ActiveIsCurrent
  <2>1. owner[h] \in ops /\ worker[owner[h]] = h
    BY <1>1 DEF ActiveIsCurrent
  <2>2. owner[h] # o
    BY <1>1, <2>1, RegFacts
  <2> QED BY <1>3, <2>1, <2>2 DEF Cast
<1>8. OwnWorker'
  BY <1>1, <1>3 DEF OwnWorker
<1>9. OpeningUnused'
  BY <1>1, <1>5 DEF OpeningUnused
<1>10. FreshUnused'
  BY <1>1, <1>5 DEF FreshUnused
<1> QED BY <1>6, <1>7, <1>8, <1>9, <1>10

\* The deregistered operator keeps its routes while its queue is joined.
LEMMA DeregisterKeeps ==
  ASSUME Cast, Routed, NEW o \in Op, Deregister(o), Cast'
  PROVE  Routed'
<1> USE DEF Routed
<1>1. /\ o \in ops /\ ops' = ops \ {o}
      /\ worker'[o] = None /\ \A p \in Op : p # o => worker'[p] = worker[p]
      /\ UNCHANGED <<load, bind, owner, opening, regs, renewed, pc, idx, queue, busy, muted>>
      /\ \/ worker[o] # None /\ joining' = joining \union {worker[o]} /\ routes' = routes
         \/ worker[o] = None /\ routes' = routes \ {o} /\ joining' = joining
  BY DEF Deregister, Cast, loop, work
<1>2. \A g \in joining : owner[g] = o => o \in renewed
  BY <1>1 DEF JoinedHasRoutes
<1>3. worker[o] # None => worker[o] \in Reg /\ owner[worker[o]] = o
  BY DEF OwnWorker, Cast
<1>4. \A h : Active(h)' <=> Active(h)
  BY <1>1 DEF Active
<1>5. \A h \in Reg : Unused(h) => Unused(h)'
  BY <1>1, <1>3, <1>4, RegFacts DEF Unused
<1>6. RegisteredHasRoutes'
  BY <1>1 DEF RegisteredHasRoutes
<1>7. JoinedHasRoutes'
  BY <1>1, <1>2, <1>3 DEF JoinedHasRoutes, RegisteredHasRoutes
<1>8. JoinedAlone'
  BY <1>1, <1>2, <1>3 DEF JoinedAlone
<1>9. ActiveIsCurrent'
  <2> SUFFICES ASSUME NEW h \in Reg, Active(h), h \notin joining', owner[h] \notin renewed
               PROVE  owner[h] \in ops' /\ worker'[owner[h]] = h
    BY <1>1, <1>4 DEF ActiveIsCurrent
  <2>1. owner[h] \in ops /\ worker[owner[h]] = h /\ h # None
    BY <1>1, RegFacts DEF ActiveIsCurrent
  <2>2. owner[h] # o
    BY <1>1, <2>1
  <2> QED BY <1>1, <2>1, <2>2 DEF Cast
<1>10. OwnWorker'
  BY <1>1 DEF OwnWorker
<1>11. OpeningUnused'
  BY <1>1, <1>5 DEF OpeningUnused, Cast
<1>12. FreshUnused'
  BY <1>1, <1>5 DEF FreshUnused
<1>13. AwaitedIsIoBound' /\ DropExplained'
  BY <1>1 DEF AwaitedIsIoBound, DropExplained
<1> QED BY <1>6, <1>7, <1>8, <1>9, <1>10, <1>11, <1>12, <1>13

\* The routes go with the one queue of the operator, unless it is a renewed one.
LEMMA JoinReturnsKeeps ==
  ASSUME Cast, Routed, NEW g \in Reg, JoinReturns(g), Cast'
  PROVE  Routed'
<1> DEFINE o == owner[g]
<1> USE DEF Routed
<1>1. /\ g \in joining /\ joining' = joining \ {g} /\ ~ Active(g)
      /\ routes' = routes \ {o}
      /\ UNCHANGED <<load, ops, bind, worker, owner, opening, regs, renewed, pc, idx, queue, busy, muted>>
  BY DEF JoinReturns, Active, loop, work
<1>2. \A h : Active(h)' <=> Active(h)
  BY <1>1 DEF Active
<1>3. \A h : Unused(h) => Unused(h)'
  BY <1>1, <1>2 DEF Unused
<1>4. RegisteredHasRoutes'
  BY <1>1 DEF RegisteredHasRoutes, JoinedHasRoutes
<1>5. JoinedHasRoutes'
  BY <1>1 DEF JoinedHasRoutes, JoinedAlone
<1>6. JoinedAlone'
  BY <1>1 DEF JoinedAlone
<1>7. ActiveIsCurrent'
  BY <1>1, <1>2 DEF ActiveIsCurrent
<1>8. OwnWorker' /\ AwaitedIsIoBound' /\ DropExplained'
  BY <1>1 DEF OwnWorker, AwaitedIsIoBound, DropExplained
<1>9. OpeningUnused' /\ FreshUnused'
  BY <1>1, <1>3 DEF OpeningUnused, FreshUnused
<1> QED BY <1>4, <1>5, <1>6, <1>7, <1>8, <1>9

\* Steps that leave the tables alone and give a queue work only if it is a
\* registered operator's current one.
LEMMA WorkKeeps ==
  ASSUME Cast, Routed, UNCHANGED <<load, table>>,
         \A g \in Reg : Active(g)' => Active(g) \/ \E o \in ops : worker[o] = g,
         AwaitedIsIoBound', DropExplained'
  PROVE  Routed'
<1> USE DEF Routed
<1>1. UNCHANGED <<load, ops, routes, bind, worker, owner, opening, joining, regs, renewed>>
  BY DEF table
<1>2. \A g \in Reg : Unused(g) => Unused(g)'
  BY <1>1 DEF Unused, Cast
<1>3. RegisteredHasRoutes' /\ JoinedHasRoutes' /\ JoinedAlone' /\ OwnWorker'
  BY <1>1 DEF RegisteredHasRoutes, JoinedHasRoutes, JoinedAlone, OwnWorker
<1>4. ActiveIsCurrent'
  <2> SUFFICES ASSUME NEW g \in Reg, Active(g)', g \notin joining
               PROVE  owner[g] \in renewed \/ (owner[g] \in ops /\ worker[owner[g]] = g)
    BY <1>1 DEF ActiveIsCurrent
  <2>1. CASE Active(g)
    BY <2>1 DEF ActiveIsCurrent
  <2>2. ASSUME NEW o \in ops, worker[o] = g PROVE owner[g] = o
    BY <2>2, RegFacts DEF OwnWorker, Cast
  <2> QED BY <2>1, <2>2
<1>5. OpeningUnused' /\ FreshUnused'
  BY <1>1, <1>2 DEF OpeningUnused, FreshUnused, Cast
<1> QED BY <1>3, <1>4, <1>5

\* A working queue belongs to an operator with routes, or to a renewed one.
LEMMA ActiveHasRoutes ==
  ASSUME Routed, NEW g \in Reg, Active(g)
  PROVE  owner[g] \in routes \union renewed
BY DEF Routed, ActiveIsCurrent, JoinedHasRoutes, RegisteredHasRoutes

LEMMA WorkerDoneKeeps ==
  ASSUME Cast, Routed, NEW g \in Reg, WorkerDone(g)
  PROVE  Routed'
<1>1. /\ Active(g) /\ UNCHANGED <<load, table, loop, queue>>
      /\ \A h \in Reg : Active(h)' => Active(h)
  BY DEF WorkerDone, Active, Cast
<1>2. muted' = muted \/ (muted' = muted \union {owner[g]} /\ owner[g] \notin routes)
  BY DEF WorkerDone, Emit
<1>3. DropExplained'
  BY <1>1, <1>2, ActiveHasRoutes DEF Routed, DropExplained, table
<1>4. AwaitedIsIoBound'
  BY <1>1 DEF Routed, AwaitedIsIoBound, table, loop
<1> QED BY <1>1, <1>3, <1>4, WorkKeeps

LEMMA DispatchKeeps ==
  ASSUME Cast, Routed, Dispatch
  PROVE  Routed'
<1>1. UNCHANGED <<load, table, busy, muted>> /\ pc = "dispatch"
  BY DEF Dispatch
<1>2. ASSUME NEW g \in Reg, Active(g)' PROVE Active(g) \/ \E o \in ops : worker[o] = g
  BY <1>1, <1>2, DispatchQueues DEF Active
<1>3. DropExplained'
  BY <1>1 DEF Routed, DropExplained, table
<1>4. AwaitedIsIoBound'
  <2> SUFFICES ASSUME pc' = "process" PROVE idx' \in 1 .. Len(bind) /\ bind[idx'] \notin load.cpu
    BY <1>1 DEF AwaitedIsIoBound, table
  <2>1. \E until \in idx .. Len(bind) + 1 :
          until <= Len(bind) /\ bind[until] \in ops \ load.cpu /\ idx' = until
    BY <1>1 DEF Dispatch
  <2>2. idx \in Nat \ {0} /\ Len(bind) \in Nat
    BY DEF Cast
  <2> QED BY <2>1, <2>2
<1> QED BY <1>1, <1>2, <1>3, <1>4, WorkKeeps

LEMMA RoutedNext ==
  ASSUME Cast, Routed, [Next]_vars, Cast'
  PROVE  Routed'
<1>1. CASE \E o \in Op : Register(o) \/ Deregister(o)
  BY <1>1, RegisterKeeps, DeregisterKeeps
<1>2. CASE \E g \in Reg : Registered(g) \/ JoinReturns(g) \/ WorkerDone(g)
  BY <1>2, RegisteredKeeps, JoinReturnsKeeps, WorkerDoneKeeps
<1>3. ASSUME NEW g \in Reg, WorkerGets(g) PROVE Routed'
  <2>1. UNCHANGED <<load, table, loop, muted>>
    BY <1>3 DEF WorkerGets
  <2>2. \A h \in Reg : Active(h)' => Active(h)
    BY <1>3 DEF WorkerGets, Active, Cast
  <2>3. AwaitedIsIoBound' /\ DropExplained'
    BY <2>1 DEF Routed, AwaitedIsIoBound, DropExplained, table, loop
  <2> QED BY <2>1, <2>2, <2>3, WorkKeeps
<1>4. CASE Dispatch
  BY <1>4, DispatchKeeps
<1>5. CASE Poll \/ Skip \/ CheckBackpressure \/ Commit \/ Rebalance \/ UNCHANGED vars
  <2>1. UNCHANGED <<load, table, queue, busy, muted>> /\ (pc' = "process" => pc = "process" /\ idx' = idx)
    BY <1>5 DEF Poll, Fetch, Skip, CheckBackpressure, Commit, Rebalance, vars, table, loop, work
  <2>2. \A h \in Reg : Active(h)' => Active(h)
    BY <2>1 DEF Active
  <2>3. AwaitedIsIoBound' /\ DropExplained'
    BY <2>1 DEF Routed, AwaitedIsIoBound, DropExplained, table
  <2> QED BY <2>1, <2>2, <2>3, WorkKeeps
<1>6. CASE ProcessReturns
  <2>1. /\ UNCHANGED <<load, table, queue, busy>> /\ pc' = "dispatch" /\ pc = "process"
        /\ muted' \subseteq muted \union {bind[idx]}
    BY <1>6 DEF ProcessReturns, Emit
  <2>2. \A h \in Reg : Active(h)' => Active(h)
    BY <2>1 DEF Active
  <2>3. AwaitedIsIoBound'
    BY <2>1 DEF AwaitedIsIoBound
  <2>4. DropExplained'
    BY <2>1 DEF Routed, AwaitedIsIoBound, DropExplained, table
  <2> QED BY <2>1, <2>2, <2>3, <2>4, WorkKeeps
<1>7. CASE Crash
  <2>1. /\ ops' = {} /\ joining' = {} /\ opening' = {} /\ pc' = "off"
        /\ \A o \in Op : worker'[o] = None
        /\ \A g \in Reg : ~ Active(g)'
        /\ UNCHANGED <<load, muted, renewed>>
    BY <1>7 DEF Crash, Active
  <2>2. \A g \in Reg : Unused(g)'
    BY <2>1, RegFacts DEF Unused
  <2> QED BY <2>1, <2>2 DEF Routed, RegisteredHasRoutes, JoinedHasRoutes, JoinedAlone, ActiveIsCurrent,
          OwnWorker, OpeningUnused, FreshUnused, AwaitedIsIoBound, DropExplained
<1> QED BY <1>1, <1>2, <1>3, <1>4, <1>5, <1>6, <1>7 DEF Next, ConsumeLoop

\* Outputs of a cpu-bound operator find their routes unless two registrations of
\* it overlapped (engine.py, register_operator, deregister_operator and _emit).
THEOREM OutputsFindRoutes == Spec => []DropExplained
<1>1. Cast /\ Routed /\ [Next]_vars => Cast' /\ Routed'
  BY CastNext, RoutedNext
<1>2. Routed => DropExplained
  BY DEF Routed
<1> QED BY CastInit, RoutedInit, <1>1, <1>2, PTL DEF Spec

-----------------------------------------------------------------------------
(* Types.  The batch holds the last records fetched, in order, and the tables *)
(* of the engine agree with each other.                                       *)

Bindings(o) == {i \in 1 .. Len(bind) : bind[i] = o}
IsBound(o) == \E i \in 1 .. Len(bind) : bind[i] = o

\* The record that is being dispatched or, with an empty batch, fetched next, and
\* the first of the bindings it has still to go to.
Current == read - Len(batch) + 1
From == IF batch = <<>> THEN 1 ELSE idx

Fetched ==
  /\ pc \in {"off", "poll", "commit"} => batch = <<>>
  /\ pc = "process" => batch # <<>>
  /\ Len(batch) <= read /\ Len(batch) <= Batch
  /\ \A i \in 1 .. Len(batch) : batch[i] = read - Len(batch) + i

Bound ==
  /\ Len(bind) <= regs /\ idx <= Len(bind) + 1
  /\ ops \subseteq load.op
  /\ \A o \in ops : IsBound(o)
  /\ \A o \in Op : since[o] # None => o \in load.op /\ (IsBound(o) => o \in ops)
  /\ \A g \in 1 .. regs : owner[g] \in load.op
  /\ \A g \in opening : IsBound(owner[g])
  /\ \A o \in Op : worker[o] # None => o \in load.cpu /\ IsBound(o)
  /\ \A o \in Op \ ops : worker[o] # None => queue[worker[o]] = <<>>

Ranges ==
  /\ faults \in 0 .. load.faults
  /\ routes \subseteq Op /\ renewed \subseteq Op /\ muted \subseteq Op
  /\ pc \in {"off", "poll", "dispatch", "process", "commit"}
  /\ reread \subseteq Rec
  /\ committed \in 0 .. pos
  /\ done \in [Op \X Rec -> Nat]
  /\ since \in [Op -> Nat \union {None}]
  /\ lost \subseteq Op \X Rec

Shape == Cast /\ Routed /\ Ranges /\ Fetched /\ Bound

\* The numbers of a situation.
LEMMA LoadFacts ==
  ASSUME Cast
  PROVE  /\ load \in Loads /\ load.op \subseteq Op /\ load.cpu \subseteq load.op /\ load.op # {}
         /\ load.records \in Nat /\ load.regs \in Nat \ {0} /\ load.faults \in Nat
         /\ 1 .. load.regs \subseteq Reg /\ 1 .. load.records \subseteq Rec
         /\ regs \in Nat /\ pos \in Nat /\ read \in Nat /\ Len(bind) \in Nat /\ Len(batch) \in Nat /\ idx \in Nat \ {0}
         /\ Batch \in Nat \ {0} /\ High \in Nat /\ None \notin Nat
BY EngineAssumption, RegFacts DEF Cast, Op

LEMMA ShapeTypes == Shape => TypeOK
<1> SUFFICES ASSUME Shape PROVE TypeOK
  OBVIOUS
<1>1. Cast /\ Ranges
  BY DEF Shape
<1>2. Len(bind) <= load.regs /\ idx \in 1 .. load.regs + 1
  <2>1. Len(bind) <= regs /\ idx <= Len(bind) + 1 /\ regs \in 0 .. load.regs
    BY DEF Shape, Bound, Cast
  <2> QED BY <1>1, <2>1, LoadFacts
<1>3. Len(batch) <= Batch
  BY DEF Shape, Fetched
<1> QED BY <1>1, <1>2, <1>3 DEF Cast, Ranges, TypeOK

LEMMA ShapeInit == Init => Shape
<1> SUFFICES ASSUME Init PROVE Shape
  OBVIOUS
<1>1. Cast /\ Routed
  BY CastInit, RoutedInit
<1>2. Ranges
  <2>1. faults \in 0 .. load.faults /\ committed \in 0 .. pos
    BY <1>1, LoadFacts DEF Init
  <2>2. done \in [Op \X Rec -> Nat] /\ since \in [Op -> Nat \union {None}]
    BY DEF Init
  <2> QED BY <2>1, <2>2 DEF Init, Ranges
<1>3. Fetched
  BY <1>1, LoadFacts DEF Init, Fetched
<1>4. Bound
  BY <1>1, LoadFacts, RegFacts DEF Init, Bound, IsBound
<1> QED BY <1>1, <1>2, <1>3, <1>4 DEF Shape

\* A registration and its owner, seen from a step that registers an operator.
LEMMA RegisterFacts ==
  ASSUME Shape, NEW o \in Op, Register(o)
  PROVE  /\ o \in load.op \ ops /\ regs + 1 \in Reg /\ regs' = regs + 1 /\ regs + 1 <= load.regs
         /\ ops' = ops \union {o} /\ routes' = routes \union {o}
         /\ bind' = Append(bind, o) /\ bind' \in Seq(Op) /\ Len(bind') = Len(bind) + 1
         /\ \A i \in 1 .. Len(bind) : bind'[i] = bind[i]
         /\ bind'[Len(bind) + 1] = o
         /\ owner'[regs + 1] = o /\ \A g \in Reg : g # regs + 1 => owner'[g] = owner[g]
         /\ owner' \in [Reg -> Op \union {None}]
         /\ opening' \in {opening, opening \union {regs + 1}}
         /\ renewed' \subseteq renewed \union {o}
         /\ since' = IF since[o] = None THEN [since EXCEPT ![o] = pos] ELSE since
         /\ UNCHANGED <<load, faults, worker, joining, loop, work>>
<1>0. Cast
  BY DEF Shape
<1>1. regs + 1 \in Reg /\ regs + 1 <= load.regs
  <2>1. regs \in Nat /\ load.regs \in Nat /\ 1 .. load.regs \subseteq Reg /\ regs < load.regs
    BY <1>0, LoadFacts DEF Register
  <2> QED BY <2>1
<1>2. bind \in Seq(Op) /\ owner \in [Reg -> Op \union {None}] /\ Len(bind) \in Nat
  BY <1>0 DEF Cast
<1>3. renewed' \subseteq renewed \union {o} /\ opening' \in {opening, opening \union {regs + 1}}
  BY DEF Register
<1> QED BY <1>0, <1>1, <1>2, <1>3 DEF Register, Cast

LEMMA RegisterBindings ==
  ASSUME Shape, NEW o \in Op, Register(o)
  PROVE  \A p : Bindings(p)' = IF p = o THEN Bindings(p) \union {Len(bind) + 1} ELSE Bindings(p)
<1>1. Len(bind) \in Nat
  BY LoadFacts DEF Shape
<1> QED BY <1>1, RegisterFacts DEF Bindings

LEMMA RegisterShape ==
  ASSUME Shape, NEW o \in Op, Register(o)
  PROVE  Ranges' /\ Fetched' /\ Bound'
<1>1. /\ load.regs \in Nat /\ Len(bind) \in Nat /\ idx \in Nat /\ regs \in Nat /\ pos \in Nat
      /\ load.op \subseteq Op /\ Cast /\ Ranges /\ Bound
  BY LoadFacts DEF Shape
<1>2. UNCHANGED <<load, faults, worker, joining, pc, batch, idx, read, pos, committed, reread,
                  queue, busy, done, muted, lost>>
  BY DEF Register, loop, work
<1>3. Ranges'
  <2>1. routes' \subseteq Op /\ renewed' \subseteq Op
    BY <1>1, RegisterFacts DEF Ranges
  <2>2. since' \in [Op -> Nat \union {None}]
    BY <1>1, RegisterFacts DEF Ranges
  <2> QED BY <1>1, <1>2, <2>1, <2>2 DEF Ranges
<1>4. Fetched'
  BY <1>2 DEF Shape, Fetched
<1>5. Bound'
  <2>1. IsBound(o)' /\ \A p \in Op : IsBound(p) => IsBound(p)'
    <3>1. Len(bind) + 1 \in 1 .. Len(bind') /\ \A i \in 1 .. Len(bind) : i \in 1 .. Len(bind')
      BY <1>1, RegisterFacts
    <3> QED BY <3>1, RegisterFacts DEF IsBound
  <2>2. \A g \in opening : g # regs + 1 /\ g \in Reg
    BY <1>1 DEF Shape, Routed, FreshUnused, Cast
  <2>3. /\ opening' \in {opening, opening \union {regs + 1}} /\ regs' = regs + 1 /\ regs + 1 \in Reg
        /\ owner'[regs + 1] = o /\ \A g \in Reg : g # regs + 1 => owner'[g] = owner[g]
        /\ Len(bind') = Len(bind) + 1 /\ ops' = ops \union {o} /\ o \in load.op
        /\ since' = IF since[o] = None THEN [since EXCEPT ![o] = pos] ELSE since
        /\ regs + 1 <= load.regs
    BY RegisterFacts
  <2>4. \A g \in opening' : \E i \in 1 .. Len(bind') : bind'[i] = owner'[g]
    <3> SUFFICES ASSUME NEW g \in opening' PROVE \E i \in 1 .. Len(bind') : bind'[i] = owner'[g]
      OBVIOUS
    <3>1. CASE g = regs + 1
      BY <3>1, <2>1, <2>3 DEF IsBound
    <3>2. CASE g \in opening /\ g # regs + 1
      <4>1. owner'[g] = owner[g] /\ owner[g] \in Op /\ IsBound(owner[g])
        BY <1>1, <3>2, <2>2, <2>3 DEF Bound, Shape, Routed, OpeningUnused
      <4>2. PICK i \in 1 .. Len(bind) : bind[i] = owner[g]
        BY <4>1 DEF IsBound
      <4>3. i \in 1 .. Len(bind') /\ bind'[i] = bind[i]
        BY <1>1, RegisterFacts
      <4> QED BY <4>1, <4>2, <4>3
    <3> QED BY <3>1, <3>2, <2>3
  <2>5. \A g \in 1 .. regs' : owner'[g] \in load.op
    <3> SUFFICES ASSUME NEW g \in 1 .. regs + 1 PROVE owner'[g] \in load.op
      BY <2>3
    <3>1. g \in Reg
      BY <1>1, <2>3, LoadFacts
    <3>2. g = regs + 1 \/ g \in 1 .. regs
      BY <1>1
    <3> QED BY <1>1, <2>3, <3>1, <3>2 DEF Bound
  <2>6. ASSUME NEW p \in Op, since'[p] # None PROVE p \in load.op /\ (IsBound(p)' => p \in ops')
    <3>1. CASE p = o
      BY <3>1, <2>3
    <3>2. CASE p # o
      <4>1. since[p] # None
        BY <1>1, <2>3, <2>6, <3>2 DEF Ranges
      <4>2. IsBound(p)' => IsBound(p)
        BY <1>1, <3>2, RegisterFacts DEF IsBound
      <4> QED BY <1>1, <2>3, <4>1, <4>2 DEF Bound
    <3> QED BY <3>1, <3>2
  <2>7. \A p \in ops' : IsBound(p)'
    BY <1>1, <2>1, <2>3 DEF Bound
  <2> QED BY <1>1, <1>2, <2>1, <2>3, <2>4, <2>5, <2>6, <2>7 DEF Bound, IsBound
<1> QED BY <1>3, <1>4, <1>5

LEMMA RegisteredShape ==
  ASSUME Shape, NEW g \in Reg, Registered(g)
  PROVE  Ranges' /\ Fetched' /\ Bound'
<1>1. Cast /\ Routed /\ Ranges /\ Fetched /\ Bound
  BY DEF Shape
<1>2. /\ g \in opening /\ opening' = opening \ {g}
      /\ worker' = IF owner[g] \in load.cpu THEN [worker EXCEPT ![owner[g]] = g] ELSE worker
      /\ renewed' \subseteq renewed \union {owner[g]}
      /\ UNCHANGED <<load, faults, ops, routes, bind, owner, joining, regs, since,
                     batch, idx, committed, reread, queue, busy, done, muted>>
  BY DEF Registered
<1>3. owner[g] \in Op /\ IsBound(owner[g]) /\ queue[g] = <<>>
  BY <1>1, <1>2 DEF Routed, OpeningUnused, Unused, Active, Bound
<1>4. \/ pc # "off" /\ UNCHANGED <<pc, read, pos, lost>>
      \/ /\ pc = "off" /\ pc' = "poll" /\ pos' \in committed .. load.records /\ read' = pos'
         /\ lost' \in {lost, lost \union (load.op \X (1 .. pos'))}
  <2>1. pos \in Nat /\ committed \in 0 .. pos /\ load.records \in Nat
    BY <1>1, LoadFacts DEF Ranges
  <2> QED BY <2>1 DEF Registered, StartPosition
<1>5. Ranges'
  <2>1. committed \in Nat /\ load.op \subseteq Op
    BY <1>1, LoadFacts DEF Ranges
  <2>2. pc' \in {"off", "poll", "dispatch", "process", "commit"} /\ committed \in 0 .. pos'
    BY <1>1, <1>4, <2>1, LoadFacts DEF Ranges
  <2>3. lost' \subseteq Op \X Rec
    <3>1. 1 .. load.records \subseteq Rec /\ load.records \in Nat
      BY <1>1, LoadFacts
    <3>2. pc = "off" => 1 .. pos' \subseteq 1 .. load.records
      BY <1>4, <2>1, <3>1
    <3>3. load.op \X (1 .. pos') \subseteq Op \X Rec \/ pc # "off"
      BY <2>1, <3>1, <3>2
    <3> QED BY <1>1, <1>4, <3>3 DEF Ranges
  <2> QED BY <1>1, <1>2, <1>3, <2>2, <2>3 DEF Ranges
<1>6. Fetched'
  <2>1. CASE pc # "off"
    BY <1>1, <1>2, <1>4, <2>1 DEF Fetched
  <2>2. CASE pc = "off"
    <3>1. batch' = <<>> /\ pos' \in Nat /\ Batch \in Nat
      BY <1>1, <1>2, <1>4, <2>2, LoadFacts DEF Fetched, Ranges
    <3> QED BY <1>2, <1>4, <2>2, <3>1 DEF Fetched
  <2> QED BY <2>1, <2>2
<1>7. Bound'
  <2>1. \A p \in Op : worker'[p] = worker[p] \/ (p = owner[g] /\ worker'[p] = g /\ p \in load.cpu)
    BY <1>1, <1>2, <1>3 DEF Cast
  <2> QED BY <1>1, <1>2, <1>3, <2>1 DEF Bound, IsBound
<1> QED BY <1>5, <1>6, <1>7

LEMMA DeregisterShape ==
  ASSUME Shape, NEW o \in Op, Deregister(o)
  PROVE  Ranges' /\ Fetched' /\ Bound'
<1>1. Cast /\ Routed /\ Ranges /\ Fetched /\ Bound
  BY DEF Shape
<1>2. /\ ops' = ops \ {o} /\ worker' = [worker EXCEPT ![o] = None] /\ routes' \subseteq routes
      /\ since' = [since EXCEPT ![o] = None]
      /\ UNCHANGED <<load, faults, bind, owner, opening, regs, renewed, pc, batch, idx, read, pos, committed,
                     reread, queue, busy, done, muted, lost>>
  BY DEF Deregister, loop, work
<1>3. Ranges'
  <2>1. since' \in [Op -> Nat \union {None}]
    BY <1>1, <1>2 DEF Ranges
  <2> QED BY <1>1, <1>2, <2>1 DEF Ranges
<1>4. Fetched'
  BY <1>1, <1>2 DEF Fetched
<1>5. Bound'
  <2>1. \A p \in Op : worker'[p] # None => p # o /\ worker'[p] = worker[p]
    BY <1>1, <1>2 DEF Cast
  <2>2. \A p \in Op : since'[p] # None => p # o /\ since[p] # None
    BY <1>1, <1>2 DEF Ranges
  <2>3. \A p \in Op : since'[p] # None => p \in load.op /\ (IsBound(p) => p \in ops')
    BY <1>1, <1>2, <2>2 DEF Bound
  <2> QED BY <1>1, <1>2, <2>1, <2>3 DEF Bound, IsBound
<1> QED BY <1>3, <1>4, <1>5

\* A step that leaves the tables alone, and idle queues empty.
LEMMA TablesStay ==
  ASSUME Shape, UNCHANGED <<load, table>>, idx' <= Len(bind) + 1,
         \A o \in Op \ ops : worker[o] # None => queue'[worker[o]] = queue[worker[o]]
  PROVE  Bound'
<1>1. Bound /\ UNCHANGED <<load, ops, routes, bind, worker, owner, opening, joining, regs, renewed, since>>
  BY DEF Shape, table
<1> QED BY <1>1 DEF Bound, IsBound

\* What a busy worker has in hand, and whose it is.
LEMMA ActiveFacts ==
  ASSUME Shape, NEW g \in Reg, Active(g)
  PROVE  g \in 1 .. regs /\ owner[g] \in load.op /\ owner[g] \in Op
<1>1. regs \in Nat /\ load.op \subseteq Op /\ g \in Nat
  BY LoadFacts, RegFacts DEF Shape
<1>2. g <= regs
  BY <1>1 DEF Shape, Routed, FreshUnused, Unused
<1>3. g # 0
  BY EngineAssumption DEF Reg
<1>4. g \in 1 .. regs
  BY <1>1, <1>2, <1>3
<1> QED BY <1>1, <1>4 DEF Shape, Bound

LEMMA WorkersShape ==
  ASSUME Shape, NEW g \in Reg, JoinReturns(g) \/ WorkerGets(g) \/ WorkerDone(g)
  PROVE  Ranges' /\ Fetched' /\ Bound'
<1>1. Cast /\ Routed /\ Ranges /\ Fetched /\ Bound
  BY DEF Shape
<1>2. UNCHANGED <<load, faults, ops, bind, worker, owner, opening, regs, renewed, since, loop, lost>>
  BY DEF JoinReturns, WorkerGets, WorkerDone, table, work
<1>3. routes' \subseteq routes
  BY DEF JoinReturns, WorkerGets, WorkerDone, table
<1>4. \A h \in Reg : queue'[h] = queue[h] \/ queue[h] # <<>>
  BY <1>1 DEF JoinReturns, WorkerGets, WorkerDone, table, work, Cast
<1>5. muted' \subseteq Op /\ done' \in [Op \X Rec -> Nat]
  <2>1. CASE WorkerDone(g)
    <3>1. Active(g) /\ busy[g] \in Rec
      BY <1>1, <2>1 DEF WorkerDone, Active, Cast
    <3>2. owner[g] \in Op
      BY <3>1, ActiveFacts
    <3>3. <<owner[g], busy[g]>> \in Op \X Rec
      BY <3>1, <3>2
    <3> QED BY <1>1, <2>1, <3>2, <3>3 DEF WorkerDone, Emit, Ranges
  <2>2. CASE JoinReturns(g) \/ WorkerGets(g)
    BY <1>1, <2>2 DEF JoinReturns, WorkerGets, work, Ranges
  <2> QED BY <2>1, <2>2
<1>6. Ranges'
  BY <1>1, <1>2, <1>3, <1>5 DEF Ranges, loop
<1>7. Fetched'
  BY <1>1, <1>2 DEF Fetched, loop
<1>8. Bound'
  BY <1>1, <1>2, <1>4 DEF Bound, IsBound, loop, Cast
<1> QED BY <1>6, <1>7, <1>8

LEMMA PollShape ==
  ASSUME Shape, Poll
  PROVE  Ranges' /\ Fetched' /\ Bound'
<1>1. Cast /\ Ranges /\ Fetched
  BY DEF Shape
<1>2. PICK k \in 0 .. Batch : /\ batch' = [i \in 1 .. k |-> pos + i]
                              /\ read' = IF k = 0 THEN pos ELSE pos + k
                              /\ pos' = read'
  BY DEF Poll, Fetch
<1>3. /\ pc' = "dispatch" /\ idx' = 1
      /\ UNCHANGED <<load, faults, table, work, committed, reread>>
  BY DEF Poll, Fetch
<1>4. k \in Nat /\ k <= Batch /\ pos \in Nat /\ Len(batch') = k /\ pos' = pos + k /\ read' = pos + k
  BY <1>1, <1>2, LoadFacts
<1>5. Ranges'
  <2>1. committed \in 0 .. pos'
    BY <1>1, <1>3, <1>4 DEF Ranges
  <2> QED BY <1>1, <1>3, <2>1 DEF Ranges, table, work
<1>6. Fetched'
  BY <1>2, <1>3, <1>4 DEF Fetched
<1>7. Bound'
  BY <1>1, <1>3, TablesStay, LoadFacts DEF work
<1> QED BY <1>5, <1>6, <1>7

\* What is in the batch: its records follow each other up to where it ends.
LEMMA BatchFacts ==
  ASSUME Shape, batch # <<>>
  PROVE  /\ Current = Head(batch) /\ Current \in Rec /\ Current \in 1 .. read
         /\ Tail(batch) \in Seq(Rec) /\ Len(Tail(batch)) = Len(batch) - 1
         /\ \A i \in 1 .. Len(Tail(batch)) : Tail(batch)[i] = batch[i + 1]
         /\ ToSet(batch) = Current .. read
<1>1. /\ batch \in Seq(Rec) /\ Len(batch) \in Nat \ {0} /\ read \in Nat /\ Len(batch) <= read
      /\ \A i \in 1 .. Len(batch) : batch[i] = read - Len(batch) + i
  <2>1. Cast /\ Fetched
    BY DEF Shape
  <2>2. batch \in Seq(Rec)
    BY <2>1 DEF Cast
  <2>3. read \in Nat
    BY <2>1, LoadFacts
  <2>4. Len(batch) \in Nat \ {0}
    BY <2>2
  <2>5. Len(batch) <= read /\ \A i \in 1 .. Len(batch) : batch[i] = read - Len(batch) + i
    BY <2>1 DEF Fetched
  <2> QED BY <2>2, <2>3, <2>4, <2>5
<1>2. Head(batch) = batch[1] /\ batch[1] \in Rec /\ 1 \in 1 .. Len(batch)
  BY <1>1
<1>3. Current = Head(batch) /\ Current \in 1 .. read
  BY <1>1, <1>2 DEF Current
<1>4. \A r \in Current .. read : \E i \in 1 .. Len(batch) : batch[i] = r
  <2> SUFFICES ASSUME NEW r \in Current .. read PROVE \E i \in 1 .. Len(batch) : batch[i] = r
    OBVIOUS
  <2>1. r - read + Len(batch) \in 1 .. Len(batch)
    BY <1>1 DEF Current
  <2>2. batch[r - read + Len(batch)] = r
    BY <1>1, <2>1
  <2> QED BY <2>1, <2>2
<1>5. \A i \in 1 .. Len(batch) : batch[i] \in Current .. read
  BY <1>1 DEF Current
<1>6. ToSet(batch) = Current .. read
  BY <1>1, <1>4, <1>5 DEF ToSet
<1>7. Tail(batch) \in Seq(Rec) /\ Len(Tail(batch)) = Len(batch) - 1
      /\ \A i \in 1 .. Len(Tail(batch)) : Tail(batch)[i] = batch[i + 1]
  BY <1>1
<1> QED BY <1>2, <1>3, <1>6, <1>7

LEMMA SkipShape ==
  ASSUME Shape, Skip
  PROVE  Ranges' /\ Fetched' /\ Bound'
<1>1. Cast /\ Ranges /\ Fetched
  BY DEF Shape
<1>2. /\ batch # <<>> /\ pc' = "poll" /\ batch' = <<>> /\ lost' = lost \union (load.op \X ToSet(batch))
      /\ UNCHANGED <<load, faults, table, queue, busy, done, muted, idx, read, pos, committed, reread>>
  BY DEF Skip
<1>3. lost' \subseteq Op \X Rec
  <2>1. ToSet(batch) \subseteq Rec
    BY <1>1 DEF Cast, ToSet
  <2>2. load.op \X ToSet(batch) \subseteq Op \X Rec
    BY <1>1, <2>1, LoadFacts
  <2> QED BY <1>1, <1>2, <2>2 DEF Ranges
<1>4. Ranges'
  BY <1>1, <1>2, <1>3 DEF Ranges, table
<1>5. Fetched'
  BY <1>1, <1>2, LoadFacts DEF Fetched
<1>6. Bound'
  BY <1>2, TablesStay DEF Shape, Bound
<1> QED BY <1>4, <1>5, <1>6

\* The parts of a dispatch.
LEMMA DispatchFacts ==
  ASSUME Shape, Dispatch
  PROVE  /\ pc = "dispatch" /\ batch # <<>> /\ UNCHANGED <<load, faults, table, read, pos, committed, reread, busy, done, muted>>
         /\ \E until \in idx .. Len(bind) + 1 :
              /\ \A i \in idx .. until - 1 : bind[i] \notin ops \ load.cpu
              /\ queue' = [g \in Reg |->
                   LET given == {i \in idx .. until - 1 : bind[i] \in ops /\ worker[bind[i]] = g}
                   IN  queue[g] \o [i \in 1 .. Cardinality(given) |-> Head(batch)]]
              /\ lost \union ({o \in ops \intersect load.cpu : worker[o] = None} \X {Head(batch)}) \subseteq lost'
              /\ \/ /\ until <= Len(bind) /\ bind[until] \in ops \ load.cpu
                    /\ pc' = "process" /\ idx' = until /\ batch' = batch
                 \/ /\ until = Len(bind) + 1 /\ pc' = pc /\ batch' = Tail(batch) /\ idx' = 1
                    /\ lost \union ((load.op \ ops) \X {Head(batch)}) \subseteq lost'
         /\ lost' \subseteq lost \union (load.op \X {Head(batch)})
<1>1. ops \subseteq load.op
  BY DEF Shape, Bound
<1>2. lost' \subseteq lost \union (load.op \X {Head(batch)})
  BY <1>1 DEF Dispatch
<1>3. pc = "dispatch" /\ batch # <<>> /\ UNCHANGED <<load, faults, table, read, pos, committed, reread, busy, done, muted>>
  BY DEF Dispatch
<1> QED BY <1>2, <1>3 DEF Dispatch

LEMMA DispatchShape ==
  ASSUME Shape, Dispatch
  PROVE  Ranges' /\ Fetched' /\ Bound'
<1>1. Cast /\ Routed /\ Ranges /\ Fetched /\ Bound
  BY DEF Shape
<1>2. /\ pc = "dispatch" /\ batch # <<>>
      /\ UNCHANGED <<load, faults, table, read, pos, committed, reread, busy, done, muted>>
      /\ lost' \subseteq lost \union (load.op \X {Head(batch)})
  BY DispatchFacts
<1>3. PICK until \in idx .. Len(bind) + 1 :
        \/ until <= Len(bind) /\ pc' = "process" /\ idx' = until /\ batch' = batch
        \/ pc' = pc /\ batch' = Tail(batch) /\ idx' = 1
  BY DispatchFacts
<1>4. /\ Head(batch) \in Rec /\ Len(Tail(batch)) = Len(batch) - 1
      /\ \A i \in 1 .. Len(Tail(batch)) : Tail(batch)[i] = batch[i + 1]
      /\ load.op \subseteq Op /\ Len(batch) \in Nat \ {0} /\ read \in Nat /\ Batch \in Nat
      /\ idx \in Nat \ {0} /\ Len(bind) \in Nat
  BY <1>1, <1>2, BatchFacts, LoadFacts DEF Cast
<1>5. Ranges'
  <2>1. load.op \X {Head(batch)} \subseteq Op \X Rec
    BY <1>4
  <2> QED BY <1>1, <1>2, <1>3, <2>1 DEF Ranges, table
<1>6. Fetched'
  <2>1. CASE batch' = batch
    BY <1>1, <1>2, <1>3, <2>1 DEF Fetched
  <2>2. CASE pc' = pc /\ batch' = Tail(batch)
    <3>1. \A i \in 1 .. Len(Tail(batch)) : i + 1 \in 1 .. Len(batch)
      BY <1>4
    <3>2. \A i \in 1 .. Len(Tail(batch)) : Tail(batch)[i] = read - Len(Tail(batch)) + i
      BY <1>1, <1>4, <3>1 DEF Fetched
    <3>3. Len(Tail(batch)) <= read /\ Len(Tail(batch)) <= Batch
      BY <1>1, <1>4 DEF Fetched
    <3> QED BY <1>2, <2>2, <3>2, <3>3 DEF Fetched
  <2> QED BY <1>3, <2>1, <2>2
<1>7. Bound'
  <2>1. idx' <= Len(bind) + 1
    BY <1>3, <1>4
  <2>2. ASSUME NEW o \in Op \ ops, worker[o] # None PROVE queue'[worker[o]] = queue[worker[o]]
    <3>1. worker[o] \in Reg /\ owner[worker[o]] = o
      BY <1>1, <2>2 DEF Cast, Routed, OwnWorker
    <3>2. \A p \in ops : worker[p] # worker[o]
      BY <1>1, <2>2, <3>1 DEF Cast, Routed, OwnWorker
    <3> QED BY <1>1, <3>1, <3>2, DispatchQueues
  <2> QED BY <1>2, <2>1, <2>2, TablesStay
<1> QED BY <1>5, <1>6, <1>7

LEMMA ProcessReturnsShape ==
  ASSUME Shape, ProcessReturns
  PROVE  Ranges' /\ Fetched' /\ Bound'
<1>1. Cast /\ Routed /\ Ranges /\ Fetched /\ Bound
  BY DEF Shape
<1>2. /\ pc = "process" /\ pc' = "dispatch" /\ idx' = idx + 1
      /\ UNCHANGED <<load, faults, table, queue, busy, lost, batch, read, pos, committed, reread>>
  BY DEF ProcessReturns
<1>3. bind[idx] \in Op /\ idx \in 1 .. Len(bind) /\ Head(batch) \in Rec
  BY <1>1, <1>2, BatchFacts DEF Routed, AwaitedIsIoBound, Fetched, Cast, Shape
<1>4. done' \in [Op \X Rec -> Nat] /\ muted' \subseteq Op
  <2>1. <<bind[idx], Head(batch)>> \in Op \X Rec
    BY <1>3
  <2> QED BY <1>1, <1>3, <2>1 DEF ProcessReturns, Emit, Ranges
<1>5. Ranges'
  BY <1>1, <1>2, <1>4 DEF Ranges, table
<1>6. Fetched'
  BY <1>1, <1>2, BatchFacts DEF Fetched
<1>7. Bound'
  <2>1. idx' <= Len(bind) + 1
    BY <1>1, <1>2, <1>3, LoadFacts
  <2> QED BY <1>2, <2>1, TablesStay
<1> QED BY <1>5, <1>6, <1>7

LEMMA CheckShape ==
  ASSUME Shape, CheckBackpressure \/ Commit \/ UNCHANGED vars
  PROVE  Ranges' /\ Fetched' /\ Bound'
<1>1. Cast /\ Routed /\ Ranges /\ Fetched /\ Bound
  BY DEF Shape
<1>2. /\ UNCHANGED <<load, table, work, batch, idx, read, pos, reread>>
      /\ \/ pc' \in {"poll", "commit"} /\ batch = <<>>
         \/ pc' = "poll" /\ pc = "commit"
         \/ pc' = pc
      /\ pc' \in {"off", "poll", "dispatch", "process", "commit"}
  <2>1. CASE CheckBackpressure
    BY <2>1 DEF CheckBackpressure
  <2>2. CASE Commit
    BY <2>2 DEF Commit
  <2>3. CASE UNCHANGED vars
    BY <1>1, <2>3 DEF vars, loop, Ranges
  <2> QED BY <2>1, <2>2, <2>3
<1>3. Ranges'
  <2>1. faults' \in 0 .. load.faults /\ committed' \in 0 .. pos
    <3>1. /\ load.faults \in Nat /\ pos \in Nat
      BY <1>1, LoadFacts
    <3> QED BY <1>1, <3>1 DEF CheckBackpressure, Commit, vars, loop, Ranges
  <2> QED BY <1>1, <1>2, <2>1 DEF Ranges, table, work
<1>4. Fetched'
  BY <1>1, <1>2 DEF Fetched
<1>5. Bound'
  BY <1>1, <1>2, TablesStay DEF work, Bound
<1> QED BY <1>3, <1>4, <1>5

LEMMA CrashShape ==
  ASSUME Shape, Crash
  PROVE  Ranges' /\ Fetched' /\ Bound'
<1>1. Cast /\ Routed /\ Ranges /\ Fetched /\ Bound
  BY DEF Shape
<1>2. /\ ops' = {} /\ routes' = {} /\ bind' = <<>> /\ opening' = {} /\ pc' = "off" /\ batch' = <<>>
      /\ idx' = 1 /\ faults' = faults + 1 /\ faults < load.faults
      /\ \A o \in Op : worker'[o] = None
      /\ UNCHANGED <<load, owner, regs, renewed, since, read, pos, committed, reread, done, muted>>
  BY DEF Crash
<1>3. Ranges'
  <2>1. faults' \in 0 .. load.faults
    BY <1>1, <1>2, LoadFacts DEF Ranges
  <2>2. lost' \subseteq Op \X Rec
    BY <1>1 DEF Crash, Ranges
  <2> QED BY <1>1, <1>2, <2>1, <2>2 DEF Ranges
<1>4. Fetched'
  BY <1>1, <1>2, LoadFacts DEF Fetched
<1>5. Bound'
  <2>1. Len(bind') = 0 /\ regs \in Nat
    BY <1>1, <1>2, LoadFacts
  <2>2. \A o \in Op : since[o] # None => o \in load.op /\ ~ IsBound(o)'
    BY <1>1, <2>1 DEF Bound, IsBound
  <2>3. \A g \in 1 .. regs' : owner'[g] \in load.op'
    BY <1>1, <1>2 DEF Bound
  <2> QED BY <1>2, <2>1, <2>2, <2>3 DEF Bound, IsBound
<1> QED BY <1>3, <1>4, <1>5

LEMMA RebalanceShape ==
  ASSUME Shape, Rebalance
  PROVE  Ranges' /\ Fetched' /\ Bound'
<1>1. Cast /\ Ranges /\ Fetched /\ Bound
  BY DEF Shape
<1>2. PICK p \in 0 .. load.records :
        /\ p = committed \/ (committed = 0 /\ p >= pos)
        /\ pos' = p /\ reread' = reread \union (p + 1 .. read)
        /\ lost' = lost \union (load.op \X (pos + 1 .. p))
  BY DEF Rebalance
<1>3. /\ faults' = faults + 1 /\ faults < load.faults
      /\ UNCHANGED <<load, table, pc, batch, idx, read, committed, queue, busy, done, muted>>
  BY DEF Rebalance
<1>4. /\ load.records \in Nat /\ 1 .. load.records \subseteq Rec /\ load.op \subseteq Op
      /\ committed \in 0 .. pos /\ pos \in Nat /\ read \in 0 .. load.records /\ load.faults \in Nat
  BY <1>1, LoadFacts DEF Ranges, Cast
<1>5. Ranges'
  <2>1. faults' \in 0 .. load.faults /\ committed \in 0 .. pos'
    BY <1>1, <1>2, <1>3, <1>4 DEF Ranges
  <2>2. p + 1 .. read \subseteq 1 .. load.records /\ pos + 1 .. p \subseteq 1 .. load.records
    BY <1>4
  <2>3. reread' \subseteq Rec
    BY <1>1, <1>2, <1>4, <2>2 DEF Ranges
  <2>4. load.op \X (pos + 1 .. p) \subseteq Op \X Rec
    BY <1>4, <2>2
  <2>5. lost' \subseteq Op \X Rec
    BY <1>1, <1>2, <2>4 DEF Ranges
  <2> QED BY <1>1, <1>3, <2>1, <2>3, <2>5 DEF Ranges, table
<1>6. Fetched'
  BY <1>1, <1>3 DEF Fetched
<1>7. Bound'
  BY <1>1, <1>3, TablesStay DEF Bound
<1> QED BY <1>5, <1>6, <1>7

LEMMA ShapeNext ==
  ASSUME Shape, [Next]_vars
  PROVE  Shape'
<1>1. Cast' /\ Routed'
  BY CastNext, RoutedNext DEF Shape
<1>2. Ranges' /\ Fetched' /\ Bound'
  BY RegisterShape, RegisteredShape, DeregisterShape, WorkersShape, PollShape, SkipShape, DispatchShape,
     ProcessReturnsShape, CheckShape, CrashShape, RebalanceShape DEF Next, ConsumeLoop
<1> QED BY <1>1, <1>2 DEF Shape

\* Types hold for any situations: in particular the consumer commits no position
\* it has not fetched, and no batch exceeds max_records (engine.py, _consume_loop).
THEOREM EngineTypeCorrect == Spec => []TypeOK
<1>1. Shape /\ [Next]_vars => Shape'
  BY ShapeNext
<1> QED BY ShapeInit, <1>1, ShapeTypes, PTL DEF Spec

-----------------------------------------------------------------------------
(* Committed records.  What an operator owes a record to is found at every    *)
(* place up to the position, but for what is still in the batch: a rebalance  *)
(* may have put the position before the batch, or behind it.                  *)

Owes(o, r)   == since[o] # None /\ since[o] < r
Covers(o, r) == done[<<o, r>>] > 0 \/ Pending(o, r) \/ <<o, r>> \in lost

CommittedCovered == \A o \in Op, r \in 1 .. committed : Owes(o, r) => Covers(o, r)
Handed(r) == r < Current \/ r > read
ReadCovered ==
  pc # "off" => \A o \in Op, r \in 1 .. pos : Handed(r) /\ Owes(o, r) => Covers(o, r)
HeadCovered ==
  batch # <<>> => \A i \in 1 .. idx - 1, o \in Op, r \in 1 .. pos :
                    bind[i] = o /\ r = Current /\ Owes(o, r) => Covers(o, r)
Covered == CommittedCovered /\ ReadCovered /\ HeadCovered

LEMMA Registrars ==
  ASSUME Shape
  PROVE  1 .. regs \subseteq Reg
<1>1. regs \in 0 .. load.regs /\ load.regs \in Nat /\ 1 .. load.regs \subseteq Reg
  BY LoadFacts DEF Shape, Cast
<1>2. 1 .. regs \subseteq 1 .. load.regs
  BY <1>1
<1> QED BY <1>1, <1>2

\* What is lost or done stays so, and the rest is passed on.
LEMMA QueueStays ==
  ASSUME Shape, Dispatch, NEW g \in Reg, NEW r \in Rec, r \in ToSet(queue[g])
  PROVE  r \in ToSet(queue'[g])
<1>1. PICK until \in idx .. Len(bind) + 1 :
        queue' = [h \in Reg |->
          LET given == {i \in idx .. until - 1 : bind[i] \in ops /\ worker[bind[i]] = h}
          IN  queue[h] \o [i \in 1 .. Cardinality(given) |-> Head(batch)]]
  BY DispatchFacts
<1> DEFINE given == {i \in idx .. until - 1 : bind[i] \in ops /\ worker[bind[i]] = g}
           more  == [i \in 1 .. Cardinality(given) |-> Head(batch)]
<1>2. Cardinality(given) \in Nat
  <2>1. given \subseteq idx .. until - 1 /\ idx \in Nat /\ until \in Nat /\ until >= 1
    BY LoadFacts DEF Shape
  <2>2. until - 1 \in Nat
    BY <2>1
  <2> QED BY <2>1, <2>2, CopiesAreFinite
<1>3. Head(batch) \in Rec
  BY BatchFacts, DispatchFacts
<1> HIDE DEF given
<1>4. more \in Seq(Rec)
  BY <1>2, <1>3
<1>5. queue'[g] = queue[g] \o more /\ queue[g] \in Seq(Rec)
  BY <1>1 DEF given, Shape, Cast
<1> HIDE DEF more
<1>6. PICK k \in 1 .. Len(queue[g]) : queue[g][k] = r
  BY <1>5 DEF ToSet
<1>7. k \in 1 .. Len(queue'[g]) /\ queue'[g][k] = r
  BY <1>4, <1>5, <1>6
<1> QED BY <1>7 DEF ToSet

LEMMA PendingRegister ==
  ASSUME Shape, NEW p \in Op, Register(p), NEW o \in Op, NEW r \in Rec, Pending(o, r)
  PROVE  Pending(o, r)'
<1>1. regs \in Nat /\ 1 .. regs \subseteq Reg
  BY LoadFacts, Registrars DEF Shape
<1>2. /\ regs' = regs + 1 /\ \A g \in Reg : g # regs + 1 => owner'[g] = owner[g]
      /\ UNCHANGED <<queue, busy>>
  BY RegisterFacts DEF work
<1>3. \A g \in 1 .. regs : g \in 1 .. regs + 1 /\ g # regs + 1 /\ g \in Reg
  BY <1>1
<1> QED BY <1>2, <1>3 DEF Pending

LEMMA CoversStays ==
  ASSUME Shape, [Next]_vars, NEW o \in Op, NEW r \in Rec, Covers(o, r)
  PROVE  Covers(o, r)'
<1>1. 1 .. regs \subseteq Reg /\ r # None /\ Cast /\ Ranges
  BY Registrars, RegFacts DEF Shape
<1>2. ASSUME NEW p \in Op, Register(p) PROVE Covers(o, r)'
  BY <1>2, PendingRegister DEF Covers, Register, work
<1>3. ASSUME UNCHANGED <<owner, regs, queue, busy, done>>, lost \subseteq lost' PROVE Covers(o, r)'
  BY <1>3 DEF Covers, Pending
<1>4. ASSUME NEW g \in Reg, Registered(g) PROVE Covers(o, r)'
  BY <1>3, <1>4 DEF Registered
<1>5. ASSUME NEW p \in Op, Deregister(p) PROVE Covers(o, r)'
  BY <1>3, <1>5 DEF Deregister, work
<1>6. ASSUME NEW g \in Reg, JoinReturns(g) PROVE Covers(o, r)'
  BY <1>3, <1>6 DEF JoinReturns, work
<1>7. ASSUME NEW g \in Reg, WorkerGets(g) PROVE Covers(o, r)'
  <2>1. /\ queue[g] # <<>> /\ busy[g] = None /\ queue[g] \in Seq(Rec)
        /\ busy'[g] = Head(queue[g]) /\ queue'[g] = Tail(queue[g])
        /\ \A h \in Reg : h # g => busy'[h] = busy[h] /\ queue'[h] = queue[h]
        /\ UNCHANGED <<owner, regs, done, lost>>
    BY <1>1, <1>7 DEF WorkerGets, table, Cast
  <2>2. r \in ToSet(queue[g]) => r = Head(queue[g]) \/ r \in ToSet(Tail(queue[g]))
    <3>1. ASSUME NEW k \in 1 .. Len(queue[g]), queue[g][k] = r, k # 1
          PROVE  k - 1 \in 1 .. Len(Tail(queue[g])) /\ Tail(queue[g])[k - 1] = r
      BY <2>1, <3>1
    <3>2. queue[g][1] = Head(queue[g])
      BY <2>1
    <3>3. \A q \in Seq(Rec) : DOMAIN q = 1 .. Len(q)
      OBVIOUS
    <3>4. Tail(queue[g]) \in Seq(Rec)
      BY <2>1
    <3>5. DOMAIN queue[g] = 1 .. Len(queue[g]) /\ DOMAIN Tail(queue[g]) = 1 .. Len(Tail(queue[g]))
      BY <2>1, <3>3, <3>4
    <3> QED BY <3>1, <3>2, <3>5 DEF ToSet
  <2>3. ASSUME Pending(o, r) PROVE Pending(o, r)'
    <3>1. PICK h \in 1 .. regs : owner[h] = o /\ (busy[h] = r \/ r \in ToSet(queue[h]))
      BY <2>3 DEF Pending
    <3>2. busy'[h] = r \/ r \in ToSet(queue'[h])
      BY <1>1, <2>1, <2>2, <3>1
    <3> QED BY <2>1, <3>1, <3>2 DEF Pending
  <2> QED BY <2>1, <2>3 DEF Covers
<1>8. ASSUME NEW g \in Reg, WorkerDone(g) PROVE Covers(o, r)'
  <2>1. /\ busy[g] # None /\ busy[g] \in Rec /\ owner[g] \in Op
        /\ done' = [done EXCEPT ![<<owner[g], busy[g]>>] = @ + 1]
        /\ \A h \in Reg : h # g => busy'[h] = busy[h]
        /\ UNCHANGED <<owner, regs, queue, lost>>
    BY <1>1, <1>8, ActiveFacts DEF WorkerDone, Emit, Active, table, Cast
  <2>2. done[<<o, r>>] \in Nat /\ done'[<<o, r>>] >= done[<<o, r>>]
        /\ (owner[g] = o /\ busy[g] = r => done'[<<o, r>>] > 0)
    <3>1. <<o, r>> \in Op \X Rec /\ <<owner[g], busy[g]>> \in Op \X Rec
      BY <2>1
    <3> QED BY <1>1, <2>1, <3>1 DEF Ranges
  <2>3. ASSUME Pending(o, r) PROVE done'[<<o, r>>] > 0 \/ Pending(o, r)'
    <3>1. PICK h \in 1 .. regs : owner[h] = o /\ (busy[h] = r \/ r \in ToSet(queue[h]))
      BY <2>3 DEF Pending
    <3>2. CASE h = g /\ busy[h] = r
      BY <2>2, <3>1, <3>2
    <3>3. CASE ~ (h = g /\ busy[h] = r)
      BY <1>1, <2>1, <3>1, <3>3 DEF Pending
    <3> QED BY <3>2, <3>3
  <2>4. done[<<o, r>>] > 0 => done'[<<o, r>>] > 0
    BY <1>1, <2>1, <2>2 DEF Ranges
  <2> QED BY <2>1, <2>3, <2>4 DEF Covers
<1>9. CASE Dispatch
  <2>1. UNCHANGED <<owner, regs, busy, done>> /\ lost \subseteq lost'
    BY <1>9, DispatchFacts DEF table
  <2>2. Pending(o, r) => Pending(o, r)'
    BY <1>1, <1>9, <2>1, QueueStays DEF Pending
  <2> QED BY <2>1, <2>2 DEF Covers
<1>10. CASE ProcessReturns
  <2>1. /\ UNCHANGED <<owner, regs, queue, busy, lost>>
        /\ done' = [done EXCEPT ![<<bind[idx], Head(batch)>>] = @ + 1]
    BY <1>10 DEF ProcessReturns, Emit, table
  <2>2. done[<<o, r>>] > 0 => done'[<<o, r>>] > 0
    <3>1. <<o, r>> \in Op \X Rec
      OBVIOUS
    <3> QED BY <1>1, <2>1, <3>1 DEF Ranges
  <2> QED BY <2>1, <2>2 DEF Covers, Pending
<1>11. CASE Poll \/ Skip \/ CheckBackpressure \/ Commit \/ Rebalance \/ UNCHANGED vars
  BY <1>3, <1>11 DEF Poll, Fetch, Skip, CheckBackpressure, Commit, Rebalance, vars, table, work
<1>12. CASE Crash
  <2>1. lost' = lost \union {x \in Op \X Rec : Pending(x[1], x[2])} /\ UNCHANGED done
    BY <1>12 DEF Crash
  <2>2. Pending(o, r) => <<o, r>> \in lost'
    BY <2>1
  <2> QED BY <2>1, <2>2 DEF Covers
<1> QED BY <1>2, <1>4, <1>5, <1>6, <1>7, <1>8, <1>9, <1>10, <1>11, <1>12 DEF Next, ConsumeLoop

\* No step makes an operator owe a record that has been fetched already.
LEMMA OwesOnlyNew ==
  ASSUME Shape, [Next]_vars, NEW o \in Op, NEW r \in Nat, r <= pos, Owes(o, r)'
  PROVE  Owes(o, r)
<1>1. Ranges /\ pos \in Nat
  BY LoadFacts DEF Shape
<1>2. ASSUME NEW p \in Op, Register(p) PROVE Owes(o, r)
  <2>1. since' = IF since[p] = None THEN [since EXCEPT ![p] = pos] ELSE since
    BY <1>2, RegisterFacts
  <2>2. since \in [Op -> Nat \union {None}]
    BY <1>1 DEF Ranges
  <2>3. since'[o] = since[o] \/ since'[o] = pos
    BY <2>1, <2>2
  <2> QED BY <1>1, <2>3 DEF Owes
<1>3. ASSUME NEW p \in Op, Deregister(p) PROVE Owes(o, r)
  BY <1>1, <1>3 DEF Deregister, Owes, Ranges
<1>4. CASE since' = since
  BY <1>4 DEF Owes
<1>5. CASE \E g \in Reg : Registered(g) \/ JoinReturns(g) \/ WorkerGets(g) \/ WorkerDone(g)
  BY <1>4, <1>5 DEF Registered, JoinReturns, WorkerGets, WorkerDone, table
<1>6. CASE ConsumeLoop \/ Rebalance \/ Crash \/ UNCHANGED vars
  BY <1>4, <1>6 DEF ConsumeLoop, Poll, Fetch, Skip, Dispatch, ProcessReturns, CheckBackpressure, Commit,
     Rebalance, Crash, vars, table
<1> QED BY <1>2, <1>3, <1>5, <1>6 DEF Next

LEMMA CoveredInit == Init => Covered
<1> SUFFICES ASSUME Init PROVE Covered
  OBVIOUS
<1> QED BY DEF Init, Covered, CommittedCovered, ReadCovered, HeadCovered

\* A step that moves neither the consumer nor the committed position.
LEMMA CoveredStays ==
  ASSUME Shape, Covered, [Next]_vars, UNCHANGED <<read, pos, batch, idx>>, pc' # "off" => pc # "off",
         committed' = committed, \A i \in 1 .. Len(bind) : bind'[i] = bind[i]
  PROVE  Covered'
<1>1. /\ committed \in 0 .. pos /\ pos \in Nat /\ Len(batch) \in Nat /\ 1 .. load.records \subseteq Rec
      /\ pos \in 0 .. load.records /\ load.records \in Nat /\ bind \in Seq(Op)
      /\ idx \in Nat \ {0} /\ idx <= Len(bind) + 1 /\ Len(bind) \in Nat
  BY LoadFacts DEF Shape, Ranges, Cast, Bound
<1>2. \A r \in 1 .. pos : r \in Rec /\ r \in Nat /\ r <= pos
  BY <1>1
<1>3. ASSUME NEW o \in Op, NEW r \in 1 .. pos, Owes(o, r) => Covers(o, r), Owes(o, r)'
      PROVE  Covers(o, r)'
  BY <1>2, <1>3, OwesOnlyNew, CoversStays
<1>4. CommittedCovered'
  BY <1>1, <1>3 DEF CommittedCovered, Covered
<1>5. ReadCovered'
  <2>1. Current' = Current
    BY DEF Current
  <2> QED BY <1>3, <2>1 DEF ReadCovered, Handed, Covered
<1>6. HeadCovered'
  <2> SUFFICES ASSUME batch # <<>>, NEW i \in 1 .. idx - 1, NEW o \in Op, NEW r \in 1 .. pos,
                      bind'[i] = o, r = Current, Owes(o, r)'
               PROVE  Covers(o, r)'
    BY DEF HeadCovered, Current
  <2>1. bind[i] = o
    BY <1>1
  <2>2. Owes(o, r) => Covers(o, r)
    BY <2>1 DEF Covered, HeadCovered
  <2> QED BY <1>3, <2>2
<1> QED BY <1>4, <1>5, <1>6 DEF Covered

\* A new consumer passes over what was never committed, and says so.
LEMMA CoveredRegistered ==
  ASSUME Shape, Covered, NEW g \in Reg, Registered(g), pc = "off", Shape'
  PROVE  Covered'
<1>1. /\ batch = <<>> /\ UNCHANGED <<load, committed, since, batch, idx, owner, regs, queue, busy, done>>
      /\ lost \subseteq lost' /\ pos \in Nat /\ committed \in 0 .. pos
  BY LoadFacts DEF Shape, Fetched, Registered, Ranges
<1>2. /\ committed # 0 => pos' = committed
      /\ committed = 0 => load.op \X (1 .. pos') \subseteq lost'
  BY <1>1 DEF Registered, StartPosition
<1>3. ASSUME NEW o \in Op, NEW r \in 1 .. committed, Owes(o, r) PROVE Covers(o, r)'
  BY <1>1, <1>3 DEF Covered, CommittedCovered, Covers, Pending
<1>4. CommittedCovered'
  BY <1>1, <1>3 DEF CommittedCovered, Owes
<1>5. ReadCovered'
  <2> SUFFICES ASSUME NEW o \in Op, NEW r \in 1 .. pos', Owes(o, r)' PROVE Covers(o, r)'
    BY DEF ReadCovered
  <2>1. Owes(o, r) /\ o \in load.op
    BY <1>1 DEF Owes, Shape, Bound
  <2>2. CASE committed = 0
    BY <1>2, <2>1, <2>2 DEF Covers
  <2>3. CASE committed # 0
    BY <1>2, <1>3, <2>1, <2>3
  <2> QED BY <2>2, <2>3
<1>6. HeadCovered'
  BY <1>1 DEF HeadCovered
<1> QED BY <1>4, <1>5, <1>6 DEF Covered

LEMMA GivenIsThere ==
  ASSUME NEW q \in Seq(Rec), NEW n \in Nat \ {0}, NEW r \in Rec
  PROVE  r \in ToSet(q \o [j \in 1 .. n |-> r])
<1> DEFINE more == [j \in 1 .. n |-> r]
<1>1. more \in Seq(Rec) /\ Len(more) = n /\ more[1] = r
  OBVIOUS
<1> HIDE DEF more
<1>2. q \o more \in Seq(Rec) /\ Len(q) + 1 \in 1 .. Len(q \o more) /\ (q \o more)[Len(q) + 1] = r
  BY <1>1
<1>3. r \in ToSet(q \o more)
  <2>1. \A s \in Seq(Rec) : DOMAIN s = 1 .. Len(s)
    OBVIOUS
  <2> QED BY <1>2, <2>1 DEF ToSet
<1> QED BY <1>3 DEF more

\* What the places before and at the present one of a dispatch have been given.
LEMMA DispatchCovers ==
  ASSUME Shape, Covered, Dispatch, NEW until \in idx .. Len(bind) + 1,
         \A i \in idx .. until - 1 : bind[i] \notin ops \ load.cpu,
         queue' = [g \in Reg |->
           LET given == {i \in idx .. until - 1 : bind[i] \in ops /\ worker[bind[i]] = g}
           IN  queue[g] \o [i \in 1 .. Cardinality(given) |-> Head(batch)]],
         {o \in ops \intersect load.cpu : worker[o] = None} \X {Head(batch)} \subseteq lost',
         NEW i \in 1 .. until - 1, NEW o \in Op, NEW r \in 1 .. pos, r = Head(batch), bind[i] = o, Owes(o, r)
  PROVE  Covers(o, r)'
<1>1. r = Current /\ r \in Rec /\ batch # <<>>
  BY BatchFacts, DispatchFacts
<1>2. idx \in Nat \ {0} /\ Len(bind) \in Nat
  BY LoadFacts DEF Shape
<1>3. CASE i < idx
  <2>1. i \in 1 .. idx - 1
    BY <1>2, <1>3
  <2>2. Covers(o, r)
    BY <1>1, <2>1 DEF Covered, HeadCovered
  <2> QED BY <1>1, <2>2, CoversStays DEF Next, ConsumeLoop
<1>4. CASE i >= idx
  <2>1. i \in idx .. until - 1 /\ i \in 1 .. Len(bind)
    BY <1>2, <1>4
  <2>2. o \in ops \intersect load.cpu
    <3>1. IsBound(o) /\ since[o] # None
      BY <2>1 DEF IsBound, Owes
    <3> QED BY <2>1, <3>1 DEF Shape, Bound
  <2>3. CASE worker[o] = None
    BY <1>1, <2>2, <2>3 DEF Covers
  <2>4. CASE worker[o] # None
    <3> DEFINE g == worker[o]
               given == {j \in idx .. until - 1 : bind[j] \in ops /\ worker[bind[j]] = g}
    <3>1. g \in Reg /\ owner[g] = o
      BY <2>4 DEF Shape, Cast, Routed, OwnWorker
    <3>2. g \in 1 .. regs
      <4>1. g \in Nat \ {0} /\ regs \in Nat
        <5>1. PICK l \in Loads : g \in 1 .. l.regs
          BY <3>1 DEF Reg
        <5> QED BY <5>1, LoadFacts, EngineAssumption DEF Shape
      <4>2. ~ (g > regs)
        BY <3>1 DEF Shape, Routed, FreshUnused, Unused
      <4> QED BY <4>1, <4>2
    <3>3. Cardinality(given) \in Nat /\ Cardinality(given) # 0
      <4>1. given \subseteq idx .. until - 1 /\ until \in Nat /\ until >= 1
        BY <1>2
      <4>2. i \in given
        BY <2>1, <2>2
      <4>3. IsFiniteSet(idx .. until - 1)
        BY <1>2, <4>1, FS_Interval
      <4>4. IsFiniteSet(given)
        BY <4>1, <4>3, FS_Subset
      <4> HIDE DEF given
      <4> QED BY <4>2, <4>4, FS_CardinalityType, FS_EmptySet
    <3> HIDE DEF given
    <3>4. queue'[g] = queue[g] \o [j \in 1 .. Cardinality(given) |-> r] /\ queue[g] \in Seq(Rec)
      BY <3>1 DEF Shape, Cast, given
    <3>7. r \in ToSet(queue'[g])
      BY <1>1, <3>3, <3>4, GivenIsThere
    <3>8. UNCHANGED <<owner, regs>>
      BY DEF Dispatch, table
    <3> QED BY <3>1, <3>2, <3>7, <3>8 DEF Covers, Pending
  <2> QED BY <2>3, <2>4
<1> QED BY <1>2, <1>3, <1>4

\* What is fetched lies behind the position: all before it has been passed.
LEMMA PollCovers ==
  ASSUME Shape, Covered, Poll
  PROVE  Covered'
<1>1. PICK k \in 0 .. Batch : /\ batch' = [i \in 1 .. k |-> pos + i]
                              /\ read' = IF k = 0 THEN pos ELSE pos + k
                              /\ pos' = read'
  BY DEF Poll, Fetch
<1>2. /\ pc = "poll" /\ pc' = "dispatch" /\ idx' = 1
      /\ UNCHANGED <<load, faults, table, work, committed, reread>>
  BY DEF Poll, Fetch
<1>3. /\ batch = <<>> /\ pos \in Nat /\ k \in Nat /\ read' = pos + k /\ pos' = pos + k /\ Len(batch') = k
      /\ read \in Nat /\ Len(batch) = 0
  BY <1>1, <1>2, LoadFacts DEF Shape, Fetched
<1>4. Current = read + 1 /\ Current' = pos + 1
  BY <1>3 DEF Current
<1>5. \A o \in Op, r \in Nat : (Owes(o, r)' <=> Owes(o, r)) /\ (Covers(o, r)' <=> Covers(o, r))
  BY <1>2 DEF Owes, Covers, Pending, table, work
<1>6. committed \in Nat
  BY <1>3 DEF Shape, Ranges
<1>7. CommittedCovered'
  BY <1>2, <1>5, <1>6 DEF CommittedCovered, Covered
<1>8. ReadCovered'
  <2> SUFFICES ASSUME NEW o \in Op, NEW r \in 1 .. pos', Handed(r)', Owes(o, r)' PROVE Covers(o, r)'
    BY DEF ReadCovered
  <2>1. r \in 1 .. pos /\ Handed(r)
    BY <1>3, <1>4 DEF Handed
  <2> QED BY <1>2, <1>5, <2>1 DEF ReadCovered, Covered
<1>9. HeadCovered'
  BY <1>2 DEF HeadCovered
<1> QED BY <1>7, <1>8, <1>9 DEF Covered

\* A rebalance changes the position only, and says what it passes over.
LEMMA RebalanceCovers ==
  ASSUME Shape, Covered, Rebalance
  PROVE  Covered'
<1>1. PICK p \in 0 .. load.records :
        /\ p = committed \/ (committed = 0 /\ p >= pos)
        /\ pos' = p /\ lost' = lost \union (load.op \X (pos + 1 .. p))
  BY DEF Rebalance
<1>2. pc # "off" /\ UNCHANGED <<load, table, pc, batch, idx, read, committed, queue, busy, done>>
  BY DEF Rebalance
<1>3. committed \in 0 .. pos /\ pos \in Nat /\ p \in Nat
  BY <1>1, LoadFacts DEF Shape, Ranges
<1>4. Current' = Current
  BY <1>2 DEF Current
<1>5. \A o \in Op, r \in Nat : (Owes(o, r)' <=> Owes(o, r)) /\ (Covers(o, r) => Covers(o, r)')
  BY <1>1, <1>2 DEF Owes, Covers, Pending, table
<1>6. ASSUME NEW o \in Op, NEW r \in 1 .. p, r \notin 1 .. pos, Owes(o, r) PROVE Covers(o, r)'
  <2>1. r \in pos + 1 .. p /\ o \in load.op
    BY <1>3, <1>6 DEF Owes, Shape, Bound
  <2> QED BY <1>1, <2>1 DEF Covers
<1>7. CommittedCovered'
  BY <1>2, <1>3, <1>5 DEF CommittedCovered, Covered
<1>8. ReadCovered'
  <2> SUFFICES ASSUME NEW o \in Op, NEW r \in 1 .. p, Handed(r)', Owes(o, r)' PROVE Covers(o, r)'
    BY <1>1 DEF ReadCovered
  <2>1. Handed(r) /\ Owes(o, r)
    BY <1>2, <1>4, <1>5 DEF Handed
  <2> QED BY <1>2, <1>3, <1>5, <1>6, <2>1 DEF ReadCovered, Covered
<1>9. HeadCovered'
  <2> SUFFICES ASSUME batch # <<>>, NEW i \in 1 .. idx - 1, NEW o \in Op, NEW r \in 1 .. p,
                      bind[i] = o, r = Current, Owes(o, r)'
               PROVE  Covers(o, r)'
    BY <1>1, <1>2, <1>4 DEF HeadCovered, table
  <2>1. Owes(o, r)
    BY <1>5
  <2>2. r \in 1 .. pos => Covers(o, r)
    BY <2>1 DEF HeadCovered, Covered
  <2> QED BY <1>3, <1>5, <1>6, <2>1, <2>2
<1> QED BY <1>7, <1>8, <1>9 DEF Covered

\* What is skipped is lost to all that read the topic.
LEMMA SkipCovers ==
  ASSUME Shape, Covered, Skip
  PROVE  Covered'
<1>1. /\ batch # <<>> /\ pc = "dispatch" /\ batch' = <<>>
      /\ lost' = lost \union (load.op \X ToSet(batch))
      /\ UNCHANGED <<load, faults, table, queue, busy, done, muted, idx, read, pos, committed, reread>>
  BY DEF Skip
<1>2. /\ ToSet(batch) = Current .. read /\ Current \in 1 .. read /\ pos \in Nat /\ read \in Nat
      /\ committed \in 0 .. pos /\ Len(batch') = 0
  BY <1>1, BatchFacts, LoadFacts DEF Shape, Ranges
<1>4. ASSUME NEW o \in Op, NEW r \in 1 .. pos, Owes(o, r)' PROVE Covers(o, r)'
  <2>1. Owes(o, r) /\ o \in load.op
    BY <1>1, <1>4 DEF Owes, table, Shape, Bound
  <2>2. CASE Handed(r)
    <3>1. Covers(o, r)
      BY <1>1, <1>2, <2>1, <2>2 DEF Covered, ReadCovered
    <3> QED BY <1>1, <3>1 DEF Covers, Pending, table
  <2>3. CASE ~ Handed(r)
    <3>1. r \in ToSet(batch)
      BY <1>2, <2>3 DEF Handed
    <3> QED BY <1>1, <2>1, <3>1 DEF Covers
  <2> QED BY <1>2, <2>2, <2>3
<1>5. CommittedCovered'
  BY <1>1, <1>2, <1>4 DEF CommittedCovered
<1>6. ReadCovered'
  BY <1>1, <1>4 DEF ReadCovered
<1>7. HeadCovered'
  BY <1>1 DEF HeadCovered
<1> QED BY <1>5, <1>6, <1>7 DEF Covered

\* A dispatch hands the record to whoever is bound, up to the one to be awaited.
LEMMA DispatchCovered ==
  ASSUME Shape, Covered, Dispatch
  PROVE  Covered'
<1>1. /\ pc = "dispatch" /\ batch # <<>>
      /\ UNCHANGED <<load, faults, table, read, pos, committed, reread, busy, done, muted>>
  BY DispatchFacts
<1>2. PICK until \in idx .. Len(bind) + 1 :
        /\ \A i \in idx .. until - 1 : bind[i] \notin ops \ load.cpu
        /\ queue' = [g \in Reg |->
             LET given == {i \in idx .. until - 1 : bind[i] \in ops /\ worker[bind[i]] = g}
             IN  queue[g] \o [i \in 1 .. Cardinality(given) |-> Head(batch)]]
        /\ lost \union ({o \in ops \intersect load.cpu : worker[o] = None} \X {Head(batch)}) \subseteq lost'
        /\ \/ /\ until <= Len(bind) /\ bind[until] \in ops \ load.cpu
              /\ pc' = "process" /\ idx' = until /\ batch' = batch
           \/ /\ until = Len(bind) + 1 /\ pc' = pc /\ batch' = Tail(batch) /\ idx' = 1
              /\ lost \union ((load.op \ ops) \X {Head(batch)}) \subseteq lost'
  BY DispatchFacts
<1>3. PICK h \in Rec : h = Head(batch) /\ h = Current /\ h \in 1 .. read
  BY <1>1, BatchFacts
<1>4. /\ pos \in Nat /\ committed \in 0 .. pos /\ 1 .. pos \subseteq Rec /\ Len(bind) \in Nat
      /\ idx \in Nat \ {0} /\ Len(batch) \in Nat /\ Len(Tail(batch)) = Len(batch) - 1
  <2>1. pos \in 0 .. load.records /\ load.records \in Nat /\ 1 .. load.records \subseteq Rec
    BY LoadFacts DEF Shape, Cast
  <2>2. 1 .. pos \subseteq Rec /\ pos \in Nat
    BY <2>1
  <2>3. committed \in 0 .. pos
    BY DEF Shape, Ranges
  <2>4. Len(bind) \in Nat /\ idx \in Nat \ {0} /\ Len(batch) \in Nat
    BY LoadFacts DEF Shape
  <2>5. Len(Tail(batch)) = Len(batch) - 1
    BY <1>1, BatchFacts
  <2> QED BY <2>2, <2>3, <2>4, <2>5
<1>5. \A o \in Op, r \in Nat : Owes(o, r)' <=> Owes(o, r)
  BY <1>1 DEF Owes, table
<1>6. ASSUME NEW o \in Op, NEW r \in Rec, Covers(o, r) PROVE Covers(o, r)'
  BY <1>6, CoversStays DEF Next, ConsumeLoop
<1>7. \A i \in 1 .. until - 1, o \in Op : h <= pos /\ bind[i] = o /\ Owes(o, h) => Covers(o, h)'
  <2>1. h <= pos => h \in 1 .. pos
    BY <1>3, <1>4
  <2> QED BY <1>2, <1>3, <2>1, DispatchCovers
<1>8. CommittedCovered'
  <2>1. \A r \in 1 .. committed : r \in Rec /\ r \in Nat
    BY <1>4
  <2> QED BY <1>1, <1>5, <1>6, <2>1 DEF CommittedCovered, Covered
<1>9. \A o \in Op, r \in 1 .. pos : Handed(r) /\ Owes(o, r)' => Covers(o, r)'
  <2>1. \A r \in 1 .. pos : r \in Rec /\ r \in Nat
    BY <1>4
  <2> QED BY <1>1, <1>5, <1>6, <2>1 DEF ReadCovered, Covered
<1>10. CASE until <= Len(bind) /\ idx' = until /\ batch' = batch
  <2>1. Current' = h
    BY <1>1, <1>3, <1>10 DEF Current
  <2>2. ReadCovered'
    BY <1>1, <1>3, <1>9, <2>1 DEF ReadCovered, Handed
  <2>3. HeadCovered'
    <3> SUFFICES ASSUME NEW i \in 1 .. until - 1, NEW o \in Op, h \in 1 .. pos, bind[i] = o, Owes(o, h)'
                 PROVE  Covers(o, h)'
      BY <1>1, <1>10, <2>1 DEF HeadCovered, table
    <3>1. h <= pos /\ Owes(o, h)
      BY <1>4, <1>5
    <3> QED BY <1>7, <3>1
  <2> QED BY <1>8, <2>2, <2>3 DEF Covered
<1>11. CASE until = Len(bind) + 1 /\ batch' = Tail(batch) /\ idx' = 1
            /\ (load.op \ ops) \X {Head(batch)} \subseteq lost'
  <2>1. Current' = h + 1
    <3>1. read \in Nat
      BY LoadFacts DEF Shape
    <3> QED BY <1>1, <1>3, <1>4, <1>11, <3>1 DEF Current
  <2>2. ASSUME NEW o \in Op, h <= pos, Owes(o, h) PROVE Covers(o, h)'
    <3>1. o \in load.op
      BY <2>2 DEF Owes, Shape, Bound
    <3>2. CASE o \notin ops
      BY <1>3, <1>11, <3>1, <3>2 DEF Covers
    <3>3. CASE o \in ops
      <4>1. PICK i \in 1 .. Len(bind) : bind[i] = o
        BY <3>3 DEF Shape, Bound, IsBound
      <4>2. i \in 1 .. until - 1
        BY <1>4, <1>11
      <4> QED BY <1>7, <2>2, <4>1, <4>2
    <3> QED BY <3>2, <3>3
  <2>3. ReadCovered'
    <3> SUFFICES ASSUME NEW o \in Op, NEW r \in 1 .. pos, Handed(r)', Owes(o, r)' PROVE Covers(o, r)'
      BY <1>1 DEF ReadCovered
    <3>1. r = h \/ Handed(r)
      BY <1>1, <1>3, <1>4, <2>1 DEF Handed
    <3>2. r \in Nat /\ r <= pos
      BY <1>4
    <3> QED BY <1>5, <1>9, <2>2, <3>1, <3>2
  <2>4. HeadCovered'
    BY <1>4, <1>11 DEF HeadCovered
  <2> QED BY <1>8, <2>3, <2>4 DEF Covered
<1> QED BY <1>2, <1>10, <1>11

LEMMA ProcessReturnsCovers ==
  ASSUME Shape, Covered, ProcessReturns
  PROVE  Covered'
<1>1. /\ pc = "process" /\ pc' = "dispatch" /\ idx' = idx + 1
      /\ done' = [done EXCEPT ![<<bind[idx], Head(batch)>>] = @ + 1]
      /\ UNCHANGED <<load, faults, table, queue, busy, lost, batch, read, pos, committed, reread>>
  BY DEF ProcessReturns, Emit
<1>2. PICK h \in Rec : h = Head(batch) /\ h = Current /\ h \in 1 .. read
  BY <1>1, BatchFacts DEF Shape, Fetched
<1>3. /\ pos \in 0 .. load.records /\ load.records \in Nat /\ 1 .. load.records \subseteq Rec
      /\ committed \in 0 .. pos /\ idx \in Nat \ {0}
      /\ done \in [Op \X Rec -> Nat]
  BY <1>2, LoadFacts DEF Shape, Cast, Ranges
<1>4. \A o \in Op, r \in Nat : Owes(o, r)' <=> Owes(o, r)
  BY <1>1 DEF Owes, table
<1>5. ASSUME NEW o \in Op, NEW r \in Rec, Covers(o, r) PROVE Covers(o, r)'
  BY <1>5, CoversStays DEF Next, ConsumeLoop
<1>6. \A r \in 1 .. pos : r \in Rec /\ r \in Nat
  BY <1>3
<1>7. Current' = Current
  BY <1>1 DEF Current
<1>8. CommittedCovered'
  BY <1>1, <1>3, <1>4, <1>5, <1>6 DEF CommittedCovered, Covered
<1>9. ReadCovered'
  BY <1>1, <1>4, <1>5, <1>6, <1>7 DEF ReadCovered, Handed, Covered
<1>10. HeadCovered'
  <2> SUFFICES ASSUME NEW i \in 1 .. idx, NEW o \in Op, bind[i] = o, Owes(o, h), batch # <<>>, h \in 1 .. pos
               PROVE  Covers(o, h)'
    <3>1. (idx - 1)' = idx
      BY <1>1, <1>3
    <3> QED BY <1>1, <1>2, <1>4, <1>7, <3>1 DEF HeadCovered, table
  <2>1. CASE i = idx
    <3>1. <<o, h>> \in Op \X Rec
      OBVIOUS
    <3>2. done'[<<o, h>>] = done[<<o, h>>] + 1 /\ done[<<o, h>>] \in Nat
      BY <1>1, <1>2, <1>3, <2>1, <3>1
    <3> QED BY <3>2 DEF Covers
  <2>2. CASE i # idx
    <3>1. i \in 1 .. idx - 1
      BY <1>3, <2>2
    <3> QED BY <1>2, <1>5, <3>1 DEF HeadCovered, Covered
  <2> QED BY <2>1, <2>2
<1> QED BY <1>8, <1>9, <1>10 DEF Covered

LEMMA CrashCovers ==
  ASSUME Shape, Covered, Crash
  PROVE  Covered'
<1>1. pc' = "off" /\ batch' = <<>> /\ UNCHANGED <<since, pos, committed>>
  BY DEF Crash
<1>2. /\ pos \in 0 .. load.records /\ load.records \in Nat /\ 1 .. load.records \subseteq Rec
      /\ committed \in 0 .. pos
  BY LoadFacts DEF Shape, Cast, Ranges
<1>3. \A r \in 1 .. committed : r \in Rec
  BY <1>2
<1>4. \A o \in Op, r \in Rec : Covers(o, r) => Covers(o, r)'
  BY CoversStays DEF Next
<1>5. CommittedCovered'
  BY <1>1, <1>3, <1>4 DEF CommittedCovered, Covered, Owes
<1> QED BY <1>1, <1>5 DEF Covered, ReadCovered, HeadCovered

\* What is committed had been read: the batch was through.
LEMMA CommitCoversNext ==
  ASSUME Shape, Covered, Commit
  PROVE  Covered'
<1>1. pc = "commit" /\ pc' = "poll" /\ committed' \in {committed, pos}
      /\ UNCHANGED <<load, table, work, batch, idx, read, pos, reread>>
  BY DEF Commit
<1>2. batch = <<>> /\ pos \in Nat /\ read \in Nat /\ committed \in 0 .. pos
  BY <1>1, LoadFacts DEF Shape, Fetched, Ranges
<1>3. Current = read + 1 /\ \A r \in Nat : Handed(r)
  BY <1>1, <1>2 DEF Current, Handed
<1>4. \A o \in Op, r \in Nat : (Owes(o, r)' <=> Owes(o, r)) /\ (Covers(o, r)' <=> Covers(o, r))
  BY <1>1 DEF Owes, Covers, Pending, table, work
<1>5. \A o \in Op, r \in 1 .. pos : Owes(o, r)' => Covers(o, r)'
  BY <1>1, <1>2, <1>3, <1>4 DEF Covered, ReadCovered
<1>6. CommittedCovered'
  BY <1>1, <1>2, <1>5 DEF CommittedCovered
<1>7. ReadCovered'
  BY <1>1, <1>5 DEF ReadCovered
<1>8. HeadCovered'
  BY <1>1, <1>2 DEF HeadCovered
<1> QED BY <1>6, <1>7, <1>8 DEF Covered

LEMMA CoveredNext ==
  ASSUME Shape, Covered, [Next]_vars
  PROVE  Covered'
<1>1. ASSUME UNCHANGED <<read, pos, batch, idx, pc, committed, bind>> PROVE Covered'
  BY <1>1, CoveredStays
<1>2. ASSUME NEW o \in Op, Register(o) PROVE Covered'
  <2>1. UNCHANGED <<read, pos, batch, idx, pc, committed>> /\ \A i \in 1 .. Len(bind) : bind'[i] = bind[i]
    BY <1>2, RegisterFacts DEF loop
  <2> QED BY <2>1, CoveredStays
<1>3. ASSUME NEW o \in Op, Deregister(o) PROVE Covered'
  BY <1>1, <1>3 DEF Deregister, loop
<1>4. ASSUME NEW g \in Reg, Registered(g) PROVE Covered'
  <2>1. CASE pc = "off"
    BY <1>4, <2>1, ShapeNext, CoveredRegistered
  <2>2. CASE pc # "off"
    BY <1>1, <1>4, <2>2 DEF Registered
  <2> QED BY <2>1, <2>2
<1>5. ASSUME NEW g \in Reg, JoinReturns(g) \/ WorkerGets(g) \/ WorkerDone(g) PROVE Covered'
  BY <1>1, <1>5 DEF JoinReturns, WorkerGets, WorkerDone, table, loop
<1>6. CASE CheckBackpressure
  <2>1. /\ UNCHANGED <<read, pos, batch, idx, committed, bind>> /\ pc = "dispatch"
    BY <1>6 DEF CheckBackpressure, table
  <2> QED BY <2>1, CoveredStays
<1>7. CASE UNCHANGED vars
  BY <1>1, <1>7 DEF vars, table, loop
<1> QED BY <1>2, <1>3, <1>4, <1>5, <1>6, <1>7, PollCovers, SkipCovers, DispatchCovered,
           ProcessReturnsCovers, CrashCovers, RebalanceCovers, CommitCoversNext DEF Next, ConsumeLoop

\* The commit of a position never leaves a record behind that nobody accounts for,
\* for any interleaving of registrations, commits, rebalances and crashes (engine.py,
\* _consume_loop commits after the dispatch of the whole batch).
THEOREM CommittedIsCovered == Spec => []CommitCovers
<1>1. Shape /\ Covered /\ [Next]_vars => Shape' /\ Covered'
  BY ShapeNext, CoveredNext
<1>2. Covered => CommitCovers
  BY DEF Covered, CommittedCovered, CommitCovers, Owes, Covers
<1> QED BY ShapeInit, CoveredInit, <1>1, <1>2, PTL DEF Spec

-----------------------------------------------------------------------------
(* Duplicates.  Every registration of an operator entitles it to one          *)
(* processing of a record, which is either done, in hand or in a queue, or    *)
(* still to be dispatched; unless a rebalance has handed it out again.        *)

\* Where a record waits for an operator: place 0 of a registration is its worker.
Holds(g, k, r) ==
  \/ k = 0 /\ busy[g] = r
  \/ k \in 1 .. Len(queue[g]) /\ queue[g][k] = r
Slots(o, r) == {x \in Reg \X Nat : owner[x[1]] = o /\ Holds(x[1], x[2], r)}

\* The bindings over which it is still to come.
Due(o, r) == {i \in Bindings(o) : pc = "off" \/ r > Current \/ (r = Current /\ i >= From)}

Entitled(o, r) ==
  /\ IsFiniteSet(Slots(o, r))
  /\ done[<<o, r>>] + Cardinality(Slots(o, r)) + Cardinality(Due(o, r)) <= Registrations(o)
\* A consumer that is put back reads again what lies between.
Again == pos + 1 .. read \subseteq reread
Counted == Again /\ \A o \in Op, r \in Rec \ reread : Entitled(o, r)

LEMMA RecNumbers == Rec \subseteq Nat \ {0}
<1>1. ASSUME NEW r \in Rec PROVE r \in Nat \ {0}
  <2>1. PICK l \in Loads : r \in 1 .. l.records
    BY DEF Rec
  <2> QED BY <2>1, EngineAssumption
<1> QED BY <1>1

\* Cardinalities of subsets.
LEMMA Subsets ==
  ASSUME NEW S, IsFiniteSet(S), NEW T, T \subseteq S
  PROVE  /\ IsFiniteSet(T) /\ Cardinality(T) \in Nat /\ Cardinality(S) \in Nat
         /\ Cardinality(T) <= Cardinality(S)
BY FS_Subset, FS_CardinalityType

LEMMA DueFinite ==
  ASSUME Shape, NEW o \in Op, NEW r \in Rec
  PROVE  IsFiniteSet(Bindings(o)) /\ IsFiniteSet(Due(o, r)) /\ Cardinality(Due(o, r)) \in Nat
<1>1. IsFiniteSet(1 .. Len(bind))
  <2>1. 1 \in Int /\ Len(bind) \in Int
    BY LoadFacts DEF Shape
  <2> QED BY <2>1, FS_Interval
<1>2. Bindings(o) \subseteq 1 .. Len(bind) /\ Due(o, r) \subseteq 1 .. Len(bind)
  BY DEF Bindings, Due
<1> QED BY <1>1, <1>2, Subsets

LEMMA RegistrationsCount ==
  ASSUME Shape, NEW o \in Op
  PROVE  IsFiniteSet({g \in 1 .. regs : owner[g] = o}) /\ Registrations(o) \in Nat
<1>1. IsFiniteSet(1 .. regs)
  <2>1. 1 \in Int /\ regs \in Int
    BY LoadFacts DEF Shape
  <2> QED BY <2>1, FS_Interval
<1>2. {g \in 1 .. regs : owner[g] = o} \subseteq 1 .. regs
  OBVIOUS
<1> QED BY <1>1, <1>2, Subsets DEF Registrations

\* Less in hand, and less to come, is still within the entitlement.
LEMMA EntitledStays ==
  ASSUME Shape, Shape', NEW o \in Op, NEW r \in Rec, Entitled(o, r),
         done'[<<o, r>>] = done[<<o, r>>], Slots(o, r)' \subseteq Slots(o, r),
         Due(o, r)' \subseteq Due(o, r), UNCHANGED <<owner, regs>>
  PROVE  Entitled(o, r)'
<1>1. PICK d \in Nat : d = done[<<o, r>>]
  <2>1. <<o, r>> \in Op \X Rec
    OBVIOUS
  <2> QED BY <2>1 DEF Shape, Ranges
<1>2. PICK s \in Nat, t \in Nat : s = Cardinality(Slots(o, r)) /\ t = Cardinality(Slots(o, r)') /\ t <= s
  <2>1. IsFiniteSet(Slots(o, r))
    BY DEF Entitled
  <2> QED BY <2>1, Subsets
<1>3. IsFiniteSet(Slots(o, r)')
  BY Subsets DEF Entitled
<1>4. PICK u \in Nat, v \in Nat : u = Cardinality(Due(o, r)) /\ v = Cardinality(Due(o, r)') /\ v <= u
  BY DueFinite, Subsets
<1>5. PICK n \in Nat : n = Registrations(o)
  BY RegistrationsCount
<1>6. Registrations(o)' = Registrations(o)
  BY DEF Registrations
<1>7. d + s + u <= n
  BY <1>1, <1>2, <1>4, <1>5 DEF Entitled
<1>8. d + t + v <= n
  BY <1>2, <1>4, <1>7
<1>9. Cardinality(Slots(o, r))' = t /\ Cardinality(Due(o, r))' = v /\ done'[<<o, r>>] = d /\ Registrations(o)' = n
  BY <1>1, <1>2, <1>4, <1>5, <1>6
<1> QED BY <1>3, <1>8, <1>9 DEF Entitled

LEMMA CountedInit == Init => Counted
<1> SUFFICES ASSUME Init, NEW o \in Op, NEW r \in Rec PROVE Entitled(o, r)
  BY DEF Init, Counted, Again
<1>1. Shape
  BY ShapeInit
<1>2. Slots(o, r) = {}
  <2>1. r # None
    BY RegFacts
  <2> QED BY <2>1 DEF Init, Slots, Holds
<1>3. Bindings(o) = {} /\ Due(o, r) = {}
  BY DEF Init, Bindings, Due
<1>4. done[<<o, r>>] = 0
  <2>1. <<o, r>> \in Op \X Rec
    OBVIOUS
  <2> QED BY <2>1 DEF Init
<1>5. IsFiniteSet({}) /\ Cardinality({}) = 0
  BY FS_EmptySet
<1>6. PICK n \in Nat : n = Registrations(o)
  BY <1>1, RegistrationsCount
<1>7. 0 + 0 + 0 <= n
  OBVIOUS
<1> QED BY <1>2, <1>3, <1>4, <1>5, <1>6, <1>7 DEF Entitled

\* A registration adds one binding, and one entitlement.
LEMMA EntitledRegister ==
  ASSUME Shape, Shape', NEW p \in Op, Register(p), NEW o \in Op, NEW r \in Rec, Entitled(o, r)
  PROVE  Entitled(o, r)'
<1>1. /\ regs' = regs + 1 /\ regs + 1 \in Reg /\ owner'[regs + 1] = p /\ Len(bind') = Len(bind) + 1
      /\ \A g \in Reg : g # regs + 1 => owner'[g] = owner[g]
      /\ UNCHANGED <<queue, busy, done, pc, batch, idx, read, pos>>
  BY RegisterFacts DEF work, loop
<1>2. regs \in Nat /\ Len(bind) \in Nat /\ 1 .. regs \subseteq Reg
  BY LoadFacts, Registrars DEF Shape
<1>3. ~ Active(regs + 1)
  <2>1. regs + 1 > regs
    BY <1>2
  <2> QED BY <1>1, <2>1 DEF Shape, Routed, FreshUnused, Unused
<1>4. Slots(o, r)' = Slots(o, r)
  <2>1. r # None /\ \A k \in Nat : ~ Holds(regs + 1, k, r)
    BY <1>1, <1>3, RegFacts DEF Active, Holds, Shape, Cast
  <2>2. \A g \in Reg, k \in Nat : Holds(g, k, r)' <=> Holds(g, k, r)
    BY <1>1 DEF Holds
  <2> QED BY <1>1, <2>1, <2>2 DEF Slots
<1>5. PICK d \in Nat, s \in Nat, u \in Nat, n \in Nat :
        /\ d = done[<<o, r>>] /\ s = Cardinality(Slots(o, r)) /\ u = Cardinality(Due(o, r))
        /\ n = Registrations(o) /\ d + s + u <= n
  <2>1. <<o, r>> \in Op \X Rec
    OBVIOUS
  <2>2. done[<<o, r>>] \in Nat
    BY <2>1 DEF Shape, Ranges
  <2>3. Cardinality(Slots(o, r)) \in Nat
    BY FS_CardinalityType DEF Entitled
  <2> QED BY <2>2, <2>3, DueFinite, RegistrationsCount DEF Entitled
<1>6. Current' = Current /\ From' = From
  BY <1>1 DEF Current, From
<1>7. CASE o = p
  <2>1. Due(o, r)' \subseteq Due(o, r) \union {Len(bind) + 1}
    BY <1>1, <1>6, <1>7, RegisterBindings DEF Due
  <2>2. PICK v \in Nat : v = Cardinality(Due(o, r)') /\ v <= u + 1
    <3>1. /\ IsFiniteSet(Due(o, r) \union {Len(bind) + 1})
          /\ Cardinality(Due(o, r) \union {Len(bind) + 1}) <= u + 1
          /\ Cardinality(Due(o, r) \union {Len(bind) + 1}) \in Nat
      <4>1. IsFiniteSet(Due(o, r)) /\ u = Cardinality(Due(o, r))
        BY <1>5, DueFinite
      <4>2. /\ IsFiniteSet(Due(o, r) \union {Len(bind) + 1})
            /\ Cardinality(Due(o, r) \union {Len(bind) + 1}) \in {u, u + 1}
        BY <4>1, FS_AddElement
      <4> QED BY <4>2
    <3>2. /\ Cardinality(Due(o, r)') \in Nat
          /\ Cardinality(Due(o, r)') <= Cardinality(Due(o, r) \union {Len(bind) + 1})
      BY <2>1, <3>1, Subsets
    <3>3. PICK a \in Nat, b \in Nat : a = Cardinality(Due(o, r) \union {Len(bind) + 1}) /\ b = Cardinality(Due(o, r)')
      BY <3>1, <3>2
    <3> QED BY <3>1, <3>2, <3>3
  <2>3. Registrations(o)' = n + 1
    <3> DEFINE S == {g \in 1 .. regs : owner[g] = o}
               T == {g \in 1 .. regs + 1 : owner'[g] = o}
    <3>1. T = S \union {regs + 1} /\ regs + 1 \notin S
      BY <1>1, <1>2, <1>7
    <3>2. IsFiniteSet(S) /\ Cardinality(S) = n
      BY <1>5, RegistrationsCount DEF Registrations
    <3> HIDE DEF S
    <3>3. Cardinality(T) = n + 1
      BY <3>1, <3>2, FS_AddElement
    <3> QED BY <1>1, <3>3 DEF Registrations
  <2>4. d + s + v <= n + 1
    BY <1>5, <2>2
  <2>5. IsFiniteSet(Slots(o, r)') /\ Cardinality(Slots(o, r))' = s /\ Cardinality(Due(o, r))' = v /\ done'[<<o, r>>] = d
    BY <1>1, <1>4, <1>5, <2>2 DEF Entitled
  <2> QED BY <2>3, <2>4, <2>5 DEF Entitled
<1>8. CASE o # p
  <2>1. Due(o, r)' = Due(o, r)
    BY <1>1, <1>6, <1>8, RegisterBindings DEF Due
  <2>2. Registrations(o)' = n
    <3>1. {g \in 1 .. regs + 1 : owner'[g] = o} = {g \in 1 .. regs : owner[g] = o}
      BY <1>1, <1>2, <1>8
    <3> QED BY <1>1, <1>5, <3>1 DEF Registrations
  <2>3. IsFiniteSet(Slots(o, r)') /\ Cardinality(Slots(o, r))' = s /\ Cardinality(Due(o, r))' = u /\ done'[<<o, r>>] = d
    BY <1>1, <1>4, <1>5, <2>1 DEF Entitled
  <2> QED BY <1>5, <2>2, <2>3 DEF Entitled
<1> QED BY <1>7, <1>8

\* A worker takes the first record of its queue: each of the others moves up.
LEMMA EntitledGets ==
  ASSUME Shape, Shape', NEW g \in Reg, WorkerGets(g), NEW o \in Op, NEW r \in Rec, Entitled(o, r)
  PROVE  Entitled(o, r)'
<1>1. /\ queue[g] # <<>> /\ busy[g] = None /\ queue[g] \in Seq(Rec)
      /\ busy'[g] = Head(queue[g]) /\ queue'[g] = Tail(queue[g])
      /\ \A h \in Reg : h # g => busy'[h] = busy[h] /\ queue'[h] = queue[h]
      /\ UNCHANGED <<owner, regs, bind, pc, batch, idx, read, pos, done>>
  BY DEF WorkerGets, table, loop, Shape, Cast
<1> DEFINE S == Slots(o, r)
           T == Slots(o, r)'
           f == [x \in T |-> IF x[1] = g THEN <<g, x[2] + 1>> ELSE x]
<1>2. \A k \in Nat : Holds(g, k, r)' => Holds(g, k + 1, r)
  <2>1. Len(Tail(queue[g])) = Len(queue[g]) - 1 /\ Len(queue[g]) \in Nat \ {0}
    BY <1>1
  <2>2. \A k \in 1 .. Len(Tail(queue[g])) : k + 1 \in 1 .. Len(queue[g]) /\ Tail(queue[g])[k] = queue[g][k + 1]
    BY <1>1, <2>1
  <2>3. Head(queue[g]) = queue[g][1] /\ 0 + 1 \in 1 .. Len(queue[g])
    BY <1>1, <2>1
  <2> QED BY <1>1, <2>2, <2>3 DEF Holds
<1>3. \A h \in Reg, k \in Nat : h # g => (Holds(h, k, r)' <=> Holds(h, k, r))
  BY <1>1 DEF Holds
<1>4. \A x \in T : x \in Reg \X Nat /\ f[x] \in S
  <2> SUFFICES ASSUME NEW x \in T PROVE x \in Reg \X Nat /\ f[x] \in S
    OBVIOUS
  <2>1. PICK h \in Reg, k \in Nat : x = <<h, k>> /\ owner[h] = o /\ Holds(h, k, r)'
    BY <1>1 DEF Slots
  <2>2. CASE h = g
    <3>1. f[x] = <<g, k + 1>> /\ k + 1 \in Nat
      BY <2>1, <2>2
    <3> QED BY <1>2, <2>1, <2>2, <3>1 DEF Slots
  <2>3. CASE h # g
    BY <1>3, <2>1, <2>3 DEF Slots
  <2> QED BY <2>1, <2>2, <2>3
<1>5. \A x, y \in T : f[x] = f[y] => x = y
  <2> SUFFICES ASSUME NEW x \in T, NEW y \in T, f[x] = f[y] PROVE x = y
    OBVIOUS
  <2>1. PICK a \in Reg, i \in Nat : x = <<a, i>>
    BY <1>4
  <2>2. PICK b \in Reg, j \in Nat : y = <<b, j>>
    BY <1>4
  <2>3. f[x] = IF a = g THEN <<g, i + 1>> ELSE <<a, i>>
    BY <2>1
  <2>4. f[y] = IF b = g THEN <<g, j + 1>> ELSE <<b, j>>
    BY <2>2
  <2>5. a = b
    BY <2>3, <2>4
  <2>6. i = j
    BY <2>3, <2>4, <2>5
  <2> QED BY <2>1, <2>2, <2>5, <2>6
<1>6. f \in Injection(T, S)
  BY <1>4, <1>5 DEF Injection, IsInjective
<1>7. IsFiniteSet(S)
  BY DEF Entitled
<1>8. IsFiniteSet(T) /\ Cardinality(T) <= Cardinality(S) /\ Cardinality(T) \in Nat /\ Cardinality(S) \in Nat
  BY <1>6, <1>7, FS_Injection, FS_CardinalityType
<1>9. Due(o, r)' = Due(o, r) /\ Registrations(o)' = Registrations(o) /\ done' = done
  BY <1>1 DEF Due, Bindings, Current, From, Registrations
<1>10. PICK d \in Nat, s \in Nat, u \in Nat, n \in Nat, t \in Nat :
        /\ d = done[<<o, r>>] /\ s = Cardinality(S) /\ u = Cardinality(Due(o, r))
        /\ n = Registrations(o) /\ d + s + u <= n /\ t = Cardinality(T) /\ t <= s
  <2>1. <<o, r>> \in Op \X Rec
    OBVIOUS
  <2>2. done[<<o, r>>] \in Nat
    BY <2>1 DEF Shape, Ranges
  <2> HIDE DEF T
  <2> QED BY <1>8, <2>2, DueFinite, RegistrationsCount DEF Entitled
<1>11. d + t + u <= n
  BY <1>10
<1> QED BY <1>8, <1>9, <1>10, <1>11 DEF Entitled

\* A worker is done with what it had in hand.
LEMMA EntitledDone ==
  ASSUME Shape, Shape', NEW g \in Reg, WorkerDone(g), NEW o \in Op, NEW r \in Rec, Entitled(o, r)
  PROVE  Entitled(o, r)'
<1>1. /\ busy[g] \in Rec /\ owner[g] \in Op /\ None \notin Rec
      /\ done' = [done EXCEPT ![<<owner[g], busy[g]>>] = @ + 1]
      /\ busy' = [busy EXCEPT ![g] = None]
      /\ UNCHANGED <<owner, regs, bind, pc, batch, idx, read, pos, queue>>
  BY ActiveFacts, RegFacts DEF WorkerDone, Emit, Active, table, loop, Shape, Cast
<1>2. done \in [Op \X Rec -> Nat] /\ <<o, r>> \in Op \X Rec /\ <<owner[g], busy[g]>> \in Op \X Rec
  BY <1>1 DEF Shape, Ranges
<1>3. Due(o, r)' = Due(o, r) /\ Registrations(o)' = Registrations(o)
  BY <1>1 DEF Due, Bindings, Current, From, Registrations
<1>4. \A h \in Reg, k \in Nat : Holds(h, k, r)' => Holds(h, k, r) /\ (h = g => k # 0)
  BY <1>1 DEF Holds, Shape, Cast
<1>5. Slots(o, r)' \subseteq Slots(o, r) \ {<<g, 0>>}
  BY <1>1, <1>4 DEF Slots
<1>6. CASE owner[g] = o /\ busy[g] = r
  <2>1. <<g, 0>> \in Slots(o, r)
    BY <1>6 DEF Slots, Holds
  <2>2. IsFiniteSet(Slots(o, r))
    BY DEF Entitled
  <2>3. /\ IsFiniteSet(Slots(o, r) \ {<<g, 0>>}) /\ Cardinality(Slots(o, r)) \in Nat
        /\ Cardinality(Slots(o, r) \ {<<g, 0>>}) = Cardinality(Slots(o, r)) - 1
    BY <2>1, <2>2, FS_RemoveElement, FS_CardinalityType
  <2>4. PICK t \in Nat : /\ t = Cardinality(Slots(o, r)') /\ t <= Cardinality(Slots(o, r)) - 1
                         /\ IsFiniteSet(Slots(o, r)')
    BY <1>5, <2>3, Subsets
  <2>5. PICK d \in Nat, s \in Nat, u \in Nat, n \in Nat :
          /\ d = done[<<o, r>>] /\ s = Cardinality(Slots(o, r)) /\ u = Cardinality(Due(o, r))
          /\ n = Registrations(o) /\ d + s + u <= n
    BY <1>2, <2>3, DueFinite, RegistrationsCount DEF Entitled
  <2>6. done'[<<o, r>>] = d + 1
    BY <1>1, <1>2, <1>6, <2>5
  <2>7. d + 1 + t + u <= n
    BY <2>4, <2>5
  <2> QED BY <1>3, <2>4, <2>5, <2>6, <2>7 DEF Entitled
<1>7. CASE ~ (owner[g] = o /\ busy[g] = r)
  <2>1. done'[<<o, r>>] = done[<<o, r>>]
    BY <1>1, <1>2, <1>7
  <2> QED BY <1>1, <1>3, <1>5, <2>1, EntitledStays
<1> QED BY <1>6, <1>7

\* An awaited operator is done with the record, and its binding behind it.
LEMMA EntitledReturns ==
  ASSUME Shape, Shape', ProcessReturns, NEW o \in Op, NEW r \in Rec, Entitled(o, r)
  PROVE  Entitled(o, r)'
<1>1. /\ batch # <<>> /\ idx' = idx + 1 /\ pc = "process" /\ pc' = "dispatch"
      /\ done' = [done EXCEPT ![<<bind[idx], Head(batch)>>] = @ + 1]
      /\ UNCHANGED <<owner, regs, bind, batch, read, pos, queue, busy>>
  BY DEF ProcessReturns, Emit, table, Shape, Fetched
<1>2. /\ idx \in 1 .. Len(bind) /\ bind[idx] \in Op /\ Head(batch) = Current /\ Head(batch) \in Rec
      /\ idx \in Nat /\ Len(bind) \in Nat
  BY <1>1, BatchFacts, LoadFacts DEF Shape, Routed, AwaitedIsIoBound, Cast
<1>3. done \in [Op \X Rec -> Nat] /\ <<o, r>> \in Op \X Rec /\ <<bind[idx], Head(batch)>> \in Op \X Rec
  BY <1>2 DEF Shape, Ranges
<1>4. Slots(o, r)' = Slots(o, r) /\ Registrations(o)' = Registrations(o)
  BY <1>1 DEF Slots, Holds, Registrations
<1>5. Current' = Current /\ From' = idx + 1 /\ From = idx
  BY <1>1 DEF Current, From
<1>6. Due(o, r)' \subseteq Due(o, r) /\ (r = Current => Due(o, r)' \subseteq Due(o, r) \ {idx})
  <2>1. PICK q \in Nat, c \in Rec : q = idx /\ From = q /\ From' = q + 1 /\ Current = c /\ Current' = c
    BY <1>2, <1>5
  <2>2. Due(o, r) = {i \in Bindings(o) : r > c \/ (r = c /\ i >= q)}
    BY <1>1, <2>1 DEF Due
  <2>3. Due(o, r)' = {i \in Bindings(o) : r > c \/ (r = c /\ i >= q + 1)}
    BY <1>1, <2>1 DEF Due, Bindings
  <2>4. \A i \in Bindings(o) : i \in Nat
    BY <1>2 DEF Bindings
  <2>5. c \in Nat /\ r \in Nat
    BY RecNumbers
  <2> QED BY <2>1, <2>2, <2>3, <2>4, <2>5
<1>7. CASE bind[idx] = o /\ Head(batch) = r
  <2>1. idx \in Due(o, r)
    BY <1>2, <1>5, <1>7 DEF Due, Bindings
  <2>2. /\ IsFiniteSet(Due(o, r) \ {idx}) /\ Cardinality(Due(o, r)) \in Nat
        /\ Cardinality(Due(o, r) \ {idx}) = Cardinality(Due(o, r)) - 1
    BY <2>1, DueFinite, FS_RemoveElement
  <2>3. PICK v \in Nat : v = Cardinality(Due(o, r)') /\ v <= Cardinality(Due(o, r)) - 1
    BY <1>2, <1>6, <1>7, <2>2, Subsets
  <2>4. PICK d \in Nat, s \in Nat, u \in Nat, n \in Nat :
          /\ d = done[<<o, r>>] /\ s = Cardinality(Slots(o, r)) /\ u = Cardinality(Due(o, r))
          /\ n = Registrations(o) /\ d + s + u <= n
    <3>1. Cardinality(Slots(o, r)) \in Nat
      BY FS_CardinalityType DEF Entitled
    <3> QED BY <1>3, <3>1, DueFinite, RegistrationsCount DEF Entitled
  <2>5. done'[<<o, r>>] = d + 1
    BY <1>1, <1>3, <1>7, <2>4
  <2>6. d + 1 + s + v <= n
    BY <2>3, <2>4
  <2>7. IsFiniteSet(Slots(o, r)') /\ Cardinality(Slots(o, r))' = s /\ Cardinality(Due(o, r))' = v
        /\ Registrations(o)' = n
    BY <1>4, <2>3, <2>4 DEF Entitled
  <2> QED BY <2>5, <2>6, <2>7 DEF Entitled
<1>8. CASE ~ (bind[idx] = o /\ Head(batch) = r)
  <2>1. done'[<<o, r>>] = done[<<o, r>>]
    BY <1>1, <1>3, <1>8
  <2> QED BY <1>1, <1>4, <1>6, <2>1, EntitledStays
<1> QED BY <1>7, <1>8

\* What a dispatch appends to a queue: its record, once for each place it passes.
Given(until, g) == {i \in idx .. until - 1 : bind[i] \in ops /\ worker[bind[i]] = g}

LEMMA Appended ==
  ASSUME NEW q \in Seq(Rec), NEW n \in Nat, NEW h \in Rec, NEW t, t = q \o [j \in 1 .. n |-> h]
  PROVE  /\ t \in Seq(Rec) /\ Len(t) = Len(q) + n
         /\ \A k \in 1 .. Len(t) : \/ k \in 1 .. Len(q) /\ t[k] = q[k]
                                   \/ k \in Len(q) + 1 .. Len(q) + n /\ t[k] = h
<1> DEFINE m == [j \in 1 .. n |-> h]
<1>1. m \in Seq(Rec) /\ Len(m) = n /\ \A j \in 1 .. n : m[j] = h
  OBVIOUS
<1>2. t = q \o m
  OBVIOUS
<1> HIDE DEF m
<1>3. t \in Seq(Rec) /\ Len(t) = Len(q) + n
  BY <1>1, <1>2
<1>4. ASSUME NEW k \in 1 .. Len(t), k \notin 1 .. Len(q)
      PROVE  k \in Len(q) + 1 .. Len(q) + n /\ t[k] = h
  <2>1. k - Len(q) \in 1 .. n /\ k \in Len(q) + 1 .. Len(q) + n
    BY <1>3, <1>4
  <2>2. t[k] = m[k - Len(q)]
    BY <1>1, <1>2, <1>4, <2>1
  <2> QED BY <1>1, <2>1, <2>2
<1>5. \A k \in 1 .. Len(q) : t[k] = q[k]
  BY <1>1, <1>2
<1> QED BY <1>3, <1>4, <1>5

\* The queues after a dispatch up to a place.
Passed(until) ==
  /\ queue' = [g \in Reg |-> queue[g] \o [i \in 1 .. Cardinality(Given(until, g)) |-> Head(batch)]]
  /\ \/ until <= Len(bind) /\ pc' = "process" /\ idx' = until /\ batch' = batch
     \/ pc' = pc /\ batch' = Tail(batch) /\ idx' = 1

LEMMA DispatchPasses ==
  ASSUME Shape, Dispatch
  PROVE  /\ pc = "dispatch" /\ batch # <<>> /\ UNCHANGED <<load, faults, table, read, pos, committed, reread, busy, done, muted>>
         /\ \E until \in idx .. Len(bind) + 1 : Passed(until)
<1> USE DEF Given, Passed
<1> QED BY DispatchFacts

LEMMA GivenFacts ==
  ASSUME Shape, NEW until \in idx .. Len(bind) + 1, NEW g \in Reg
  PROVE  /\ IsFiniteSet(Given(until, g)) /\ Cardinality(Given(until, g)) \in Nat
         /\ \A i \in Given(until, g) : i \in 1 .. Len(bind) /\ i >= idx /\ i < until /\ bind[i] = owner[g]
         /\ Given(until, g) # {} => owner[g] \in Op /\ worker[owner[g]] = g
         /\ Given(until, g) = {} => Cardinality(Given(until, g)) = 0
<1>1. idx \in Nat \ {0} /\ Len(bind) \in Nat /\ until \in Nat /\ until - 1 \in Int /\ None \notin Reg
  BY LoadFacts, RegFacts DEF Shape
<1>2. IsFiniteSet(idx .. until - 1)
  BY <1>1, FS_Interval
<1>3. IsFiniteSet(Given(until, g)) /\ Cardinality(Given(until, g)) \in Nat
  BY <1>2, Subsets DEF Given
<1>4. ASSUME NEW i \in Given(until, g)
      PROVE  i \in 1 .. Len(bind) /\ i >= idx /\ i < until /\ bind[i] = owner[g] /\ bind[i] \in Op /\ worker[bind[i]] = g
  <2>1. i \in 1 .. Len(bind) /\ i >= idx /\ i < until
    BY <1>1 DEF Given
  <2>2. bind[i] \in Op /\ worker[bind[i]] = g
    BY <2>1 DEF Given, Shape, Cast
  <2> QED BY <1>1, <2>1, <2>2 DEF Shape, Routed, OwnWorker
<1>5. Given(until, g) = {} => Cardinality(Given(until, g)) = 0
  BY FS_EmptySet
<1> QED BY <1>3, <1>4, <1>5

LEMMA EntitledDispatch ==
  ASSUME Shape, Shape', Dispatch, NEW o \in Op, NEW r \in Rec, Entitled(o, r)
  PROVE  Entitled(o, r)'
<1>1. /\ pc = "dispatch" /\ pc # "off" /\ batch # <<>>
      /\ UNCHANGED <<load, faults, table, read, pos, committed, reread, busy, done, muted>>
  BY DispatchPasses
<1>2. PICK until \in idx .. Len(bind) + 1 : Passed(until)
  BY DispatchPasses
<1>3. PICK h \in Rec : h = Head(batch) /\ h = Current
  BY <1>1, BatchFacts
<1>4. /\ h \in Nat /\ r \in Nat /\ idx \in Nat \ {0} /\ Len(bind) \in Nat /\ read \in Nat
      /\ Len(batch) \in Nat /\ Len(Tail(batch)) = Len(batch) - 1 /\ until \in Nat
  <2>1. Len(Tail(batch)) = Len(batch) - 1
    BY <1>1, BatchFacts
  <2>2. idx \in Nat \ {0} /\ Len(bind) \in Nat /\ read \in Nat /\ Len(batch) \in Nat
    BY LoadFacts DEF Shape
  <2> QED BY <2>1, <2>2, RecNumbers
<1>5. UNCHANGED <<owner, regs, bind, busy, done>> /\ Bindings(o)' = Bindings(o) /\ pc' # "off"
  BY <1>1, <1>2 DEF table, Bindings, Passed
<1>6. \A i \in Bindings(o) : i \in 1 .. Len(bind) /\ bind[i] = o /\ i \in Nat
  BY <1>4 DEF Bindings
<1>7. Due(o, r) = {i \in Bindings(o) : r > h \/ (r = h /\ i >= idx)}
  BY <1>1, <1>3 DEF Due, From
<1>8. Due(o, r)' \subseteq {i \in Bindings(o) : r > h \/ (r = h /\ i >= until)}
  <2>1. CASE until <= Len(bind) /\ idx' = until /\ batch' = batch
    <3>1. Current' = h /\ From' = until
      BY <1>1, <1>3, <2>1 DEF Current, From
    <3> QED BY <1>3, <1>5, <3>1 DEF Due
  <2>2. CASE batch' = Tail(batch)
    <3>1. Current' = h + 1
      BY <1>1, <1>3, <1>4, <2>2 DEF Current
    <3>2. Due(o, r)' = {i \in Bindings(o) : r > h + 1 \/ (r = h + 1 /\ i >= From')}
      BY <1>5, <3>1 DEF Due
    <3> QED BY <1>4, <3>2
  <2> QED BY <1>2, <2>1, <2>2 DEF Passed
<1>9. ASSUME NEW g \in Reg
      PROVE  /\ Cardinality(Given(until, g)) \in Nat /\ Len(queue[g]) \in Nat
             /\ \A k \in Nat : Holds(g, k, r)' =>
                  \/ Holds(g, k, r)
                  \/ r = h /\ k \in Len(queue[g]) + 1 .. Len(queue[g]) + Cardinality(Given(until, g))
  <2>1. Cardinality(Given(until, g)) \in Nat /\ queue[g] \in Seq(Rec)
    BY GivenFacts DEF Shape, Cast
  <2>2. queue'[g] = queue[g] \o [i \in 1 .. Cardinality(Given(until, g)) |-> h]
    BY <1>2, <1>3 DEF Passed
  <2> QED BY <1>5, <2>1, <2>2, Appended DEF Holds
<1>10. CASE r # h
  <2>1. Slots(o, r)' \subseteq Slots(o, r)
    BY <1>5, <1>9, <1>10 DEF Slots
  <2>2. Due(o, r)' \subseteq Due(o, r)
    BY <1>7, <1>8, <1>10
  <2> QED BY <1>5, <2>1, <2>2, EntitledStays
<1>11. CASE r = h /\ \A g \in Reg : owner[g] = o => Given(until, g) = {}
  <2>1. \A g \in Reg : owner[g] = o => Cardinality(Given(until, g)) = 0
    BY <1>11, GivenFacts
  <2>2. Slots(o, r)' \subseteq Slots(o, r)
    <3>1. \A g \in Reg, k \in Nat : owner[g] = o /\ Holds(g, k, r)' => Holds(g, k, r)
      BY <1>9, <2>1
    <3> QED BY <1>5, <3>1 DEF Slots
  <2>3. Due(o, r)' \subseteq Due(o, r)
    BY <1>4, <1>6, <1>7, <1>8
  <2> QED BY <1>5, <2>2, <2>3, EntitledStays
<1>12. CASE r = h /\ \E g \in Reg : owner[g] = o /\ Given(until, g) # {}
  <2>1. PICK g \in Reg : owner[g] = o /\ Given(until, g) # {}
    BY <1>12
  <2>2. worker[o] = g /\ \A x \in Reg : owner[x] = o /\ Given(until, x) # {} => x = g
    BY <2>1, GivenFacts
  <2>3. PICK n \in Nat, m \in Nat : n = Cardinality(Given(until, g)) /\ m = Len(queue[g])
    BY <1>9
  <2> DEFINE New == {g} \X (m + 1 .. m + n)
  <2>4. IsFiniteSet(New) /\ Cardinality(New) = n
    <3>1. IsFiniteSet({g}) /\ Cardinality({g}) = 1
      BY FS_Singleton
    <3>2. IsFiniteSet(m + 1 .. m + n) /\ Cardinality(m + 1 .. m + n) = n
      <4>1. m + 1 \in Int /\ m + n \in Int /\ (m + 1 > m + n => n = 0) /\ (m + n) - (m + 1) + 1 = n
        BY <2>3
      <4> QED BY <4>1, FS_Interval
    <3> QED BY <3>1, <3>2, FS_Product
  <2>5. Slots(o, r)' \subseteq Slots(o, r) \union New
    <3> SUFFICES ASSUME NEW x \in Slots(o, r)' PROVE x \in Slots(o, r) \union New
      OBVIOUS
    <3>1. PICK a \in Reg, k \in Nat : x = <<a, k>> /\ owner[a] = o /\ Holds(a, k, r)'
      BY <1>5 DEF Slots
    <3>2. CASE Holds(a, k, r)
      BY <3>1, <3>2 DEF Slots
    <3>3. CASE ~ Holds(a, k, r)
      <4>1. k \in Len(queue[a]) + 1 .. Len(queue[a]) + Cardinality(Given(until, a))
        BY <1>9, <3>1, <3>3
      <4>2. Given(until, a) # {}
        BY <1>9, <4>1, GivenFacts
      <4>3. a = g
        BY <2>2, <3>1, <4>2
      <4> QED BY <2>3, <3>1, <4>1, <4>3
    <3> QED BY <3>2, <3>3
  <2>6. PICK d \in Nat, s \in Nat, u \in Nat, c \in Nat :
          /\ d = done[<<o, r>>] /\ s = Cardinality(Slots(o, r)) /\ u = Cardinality(Due(o, r))
          /\ c = Registrations(o) /\ d + s + u <= c
    <3>1. Cardinality(Slots(o, r)) \in Nat
      BY FS_CardinalityType DEF Entitled
    <3>2. <<o, r>> \in Op \X Rec
      OBVIOUS
    <3>3. done[<<o, r>>] \in Nat
      BY <3>2 DEF Shape, Ranges
    <3> QED BY <3>1, <3>3, DueFinite, RegistrationsCount DEF Entitled
  <2>7. PICK t \in Nat : t = Cardinality(Slots(o, r)') /\ t <= s + n /\ IsFiniteSet(Slots(o, r)')
    <3>1. /\ IsFiniteSet(Slots(o, r) \union New) /\ IsFiniteSet(Slots(o, r) \intersect New)
          /\ Cardinality(Slots(o, r) \union New) = s + n - Cardinality(Slots(o, r) \intersect New)
      BY <2>4, <2>6, FS_Union, FS_Intersection DEF Entitled
    <3>2. Cardinality(Slots(o, r) \intersect New) \in Nat
      BY <3>1, FS_CardinalityType
    <3> HIDE DEF New
    <3>3. Cardinality(Slots(o, r) \union New) <= s + n /\ Cardinality(Slots(o, r) \union New) \in Nat
      BY <3>1, <3>2, FS_CardinalityType
    <3>4. IsFiniteSet(Slots(o, r)') /\ Cardinality(Slots(o, r)') \in Nat
          /\ Cardinality(Slots(o, r)') <= Cardinality(Slots(o, r) \union New)
      BY <2>5, <3>1, Subsets
    <3>5. PICK a \in Nat, b \in Nat : a = Cardinality(Slots(o, r) \union New) /\ b = Cardinality(Slots(o, r)')
      BY <3>3, <3>4
    <3> QED BY <3>3, <3>4, <3>5
  <2>8. PICK v \in Nat : v = Cardinality(Due(o, r)') /\ v + n <= u
    <3>1. \A i \in Given(until, g) : i \in Due(o, r) /\ i \notin Due(o, r)'
      <4> SUFFICES ASSUME NEW i \in Given(until, g) PROVE i \in Due(o, r) /\ i \notin Due(o, r)'
        OBVIOUS
      <4>1. i \in 1 .. Len(bind) /\ i >= idx /\ i < until /\ bind[i] = o /\ i \in Nat
        BY <1>4, <2>1, GivenFacts
      <4> QED BY <1>4, <1>7, <1>8, <1>12, <4>1 DEF Bindings
    <3>2. Due(o, r)' \subseteq Due(o, r)
      BY <1>4, <1>6, <1>7, <1>8
    <3> DEFINE D == Due(o, r)'
    <3>3. IsFiniteSet(D) /\ Cardinality(D) \in Nat
      BY <3>2, DueFinite, Subsets
    <3>4. IsFiniteSet(Given(until, g)) /\ D \intersect Given(until, g) = {}
          /\ D \union Given(until, g) \subseteq Due(o, r)
      BY <3>1, <3>2, GivenFacts
    <3> HIDE DEF D
    <3>5. Cardinality(D \union Given(until, g)) = Cardinality(D) + n - 0
      BY <2>3, <3>3, <3>4, FS_Union, FS_EmptySet
    <3>6. Cardinality(D \union Given(until, g)) <= u
      BY <2>6, <3>4, DueFinite, Subsets
    <3>7. Cardinality(D) + n <= u
      BY <2>3, <2>6, <3>3, <3>5, <3>6
    <3> QED BY <3>3, <3>7 DEF D
  <2>9. d + t + v <= c
    <3>1. t <= s + n /\ v + n <= u /\ d + s + u <= c
      BY <2>6, <2>7, <2>8
    <3>2. d \in Nat /\ s \in Nat /\ u \in Nat /\ c \in Nat /\ n \in Nat /\ t \in Nat /\ v \in Nat
      OBVIOUS
    <3> QED BY <3>1, <3>2
  <2>10. done'[<<o, r>>] = d /\ Registrations(o)' = c /\ Cardinality(Slots(o, r))' = t /\ Cardinality(Due(o, r))' = v
    BY <1>5, <2>6, <2>7, <2>8 DEF Registrations
  <2> QED BY <2>7, <2>9, <2>10 DEF Entitled
<1> QED BY <1>4, <1>10, <1>11, <1>12

LEMMA CountedNext ==
  ASSUME Shape, Counted, [Next]_vars
  PROVE  Counted'
<1>0. Shape'
  BY ShapeNext
<1>01. reread \subseteq reread'
  BY DEF Next, ConsumeLoop, Register, Registered, Deregister, JoinReturns, WorkerGets, WorkerDone, Poll, Fetch,
     Skip, Dispatch, ProcessReturns, CheckBackpressure, Commit, Rebalance, Crash, vars, loop
<1>02. Again'
  <2>1. pos' = read' \/ UNCHANGED <<read, pos>> \/ (read' = read /\ pos' + 1 .. read \subseteq reread')
    BY DEF Next, ConsumeLoop, Register, Registered, Deregister, JoinReturns, WorkerGets, WorkerDone, Poll, Fetch,
       Skip, Dispatch, ProcessReturns, CheckBackpressure, Commit, Rebalance, Crash, vars, loop
  <2>2. read' \in Nat
    BY <1>0, EngineAssumption DEF Shape, Cast
  <2>3. pos' = read' => pos' + 1 .. read' = {}
    <3>1. \A n \in Nat : n + 1 .. n = {}
      OBVIOUS
    <3> QED BY <2>2, <3>1
  <2> QED BY <1>01, <2>1, <2>3 DEF Counted, Again
<1> SUFFICES ASSUME NEW o \in Op, NEW r \in Rec \ reread PROVE Entitled(o, r)'
  BY <1>01, <1>02 DEF Counted
<1>1. Entitled(o, r) /\ r \in Rec
  BY DEF Counted
<1>2. ASSUME NEW p \in Op, Register(p) PROVE Entitled(o, r)'
  BY <1>0, <1>1, <1>2, EntitledRegister
<1>3. ASSUME UNCHANGED <<owner, regs, done, queue, busy>>, Due(o, r)' \subseteq Due(o, r) PROVE Entitled(o, r)'
  <2>1. Slots(o, r)' = Slots(o, r)
    BY <1>3 DEF Slots, Holds
  <2> QED BY <1>0, <1>1, <1>3, <2>1, EntitledStays
<1>4. ASSUME UNCHANGED <<owner, regs, done, queue, busy, bind, read, pos, batch, idx>>, pc' = "off" <=> pc = "off"
      PROVE  Entitled(o, r)'
  <2>1. Due(o, r)' = Due(o, r)
    BY <1>4 DEF Due, Bindings, Current, From
  <2> QED BY <1>3, <1>4, <2>1
<1>5. ASSUME NEW p \in Op, Deregister(p) PROVE Entitled(o, r)'
  BY <1>4, <1>5 DEF Deregister, loop, work
<1>6. ASSUME NEW g \in Reg, JoinReturns(g) PROVE Entitled(o, r)'
  BY <1>4, <1>6 DEF JoinReturns, loop, work
<1>7. ASSUME NEW g \in Reg, Registered(g) PROVE Entitled(o, r)'
  <2>1. CASE pc # "off"
    BY <1>4, <1>7, <2>1 DEF Registered
  <2>2. CASE pc = "off"
    <3>1. UNCHANGED <<owner, regs, done, queue, busy, bind>>
      BY <1>7 DEF Registered
    <3>2. Due(o, r)' \subseteq Due(o, r)
      BY <2>2, <3>1 DEF Due, Bindings
    <3> QED BY <1>3, <3>1, <3>2
  <2> QED BY <2>1, <2>2
<1>8. CASE Poll
  <2>1. PICK k \in 0 .. Batch : /\ batch' = [i \in 1 .. k |-> pos + i]
                                /\ read' = IF k = 0 THEN pos ELSE pos + k
    BY <1>8 DEF Poll, Fetch
  <2>2. /\ pc = "poll" /\ pc' = "dispatch" /\ idx' = 1 /\ UNCHANGED <<table, work>>
    BY <1>8 DEF Poll, Fetch
  <2>3. /\ batch = <<>> /\ Len(batch) = 0 /\ pos \in Nat /\ read \in Nat /\ k \in Nat
        /\ Len(batch') = k /\ read' = pos + k
    BY <2>1, <2>2, LoadFacts DEF Shape, Fetched
  <2>4. Current = read + 1 /\ Current' = pos + 1 /\ From = 1 /\ From' = 1
    BY <2>2, <2>3 DEF Current, From
  <2>5. r > pos + 1 \/ r = pos + 1 => r > read + 1 \/ r = read + 1
    <3>1. r \in Nat /\ r \notin pos + 1 .. read
      BY RecNumbers DEF Counted, Again
    <3> QED BY <2>3, <3>1
  <2>6. Due(o, r)' \subseteq Due(o, r)
    <3>1. \A i \in Bindings(o) : i >= 1
      BY LoadFacts DEF Bindings, Shape
    <3> QED BY <2>2, <2>4, <2>5, <3>1 DEF Due, Bindings, table
  <2> QED BY <1>3, <2>2, <2>6 DEF table, work
<1>9. CASE Skip
  <2>1. /\ pc = "dispatch" /\ pc' = "poll" /\ batch # <<>> /\ batch' = <<>> /\ read \in Nat
        /\ UNCHANGED <<table, read, idx, queue, busy, done>>
    BY <1>9, LoadFacts DEF Skip, Shape
  <2>2. PICK c \in Nat : c = Current /\ c <= read
    BY <2>1, BatchFacts
  <2>3. Current' = read + 1 /\ r \in Nat
    BY <2>1, RecNumbers DEF Current
  <2>4. From' = 1 /\ Bindings(o)' = Bindings(o)
    BY <2>1 DEF From, Bindings, table
  <2>5. Due(o, r)' \subseteq Due(o, r)
    <3>1. r > read + 1 \/ r = read + 1 => r > c
      BY <2>1, <2>2, <2>3
    <3>2. Due(o, r)' \subseteq {i \in Bindings(o) : r > c}
      BY <2>1, <2>3, <2>4, <3>1 DEF Due
    <3> QED BY <2>2, <3>2 DEF Due
  <2> QED BY <1>3, <2>1, <2>5 DEF table
<1>10. CASE CheckBackpressure \/ Commit \/ UNCHANGED vars
  <2>1. UNCHANGED <<owner, regs, done, queue, busy, bind, read, pos, batch, idx>>
    BY <1>10 DEF CheckBackpressure, Commit, vars, table, loop, work
  <2>2. pc' = "off" <=> pc = "off"
    BY <1>10 DEF CheckBackpressure, Commit, vars, loop
  <2> QED BY <1>4, <2>1, <2>2
<1>11. CASE Crash
  <2>1. Due(o, r)' = {}
    BY <1>11 DEF Crash, Due, Bindings
  <2>2. Slots(o, r)' = {}
    BY <1>11, RegFacts DEF Crash, Slots, Holds
  <2> QED BY <1>0, <1>1, <1>11, <2>1, <2>2, EntitledStays DEF Crash
<1>12. CASE Rebalance
  <2>1. UNCHANGED <<owner, regs, done, queue, busy, bind, pc, batch, idx, read>>
    BY <1>12 DEF Rebalance, table
  <2>2. Due(o, r)' = Due(o, r)
    BY <2>1 DEF Due, Bindings, Current, From
  <2> QED BY <1>3, <2>1, <2>2
<1> QED BY <1>0, <1>1, <1>2, <1>5, <1>6, <1>7, <1>8, <1>9, <1>10, <1>11, <1>12, EntitledGets, EntitledDone,
           EntitledReturns, EntitledDispatch DEF Next, ConsumeLoop

\* An operator processes a record no more often than it was registered, whatever is
\* fetched again after a crash, unless a rebalance handed the record out again
\* (engine.py, register_operator, _start_consumer and _dispatch_record).
THEOREM DuplicatesAreExplained == Spec => []DuplicatesExplained
<1>1. Shape /\ Counted /\ [Next]_vars => Shape' /\ Counted'
  BY ShapeNext, CountedNext
<1>2. Shape /\ Counted => DuplicatesExplained
  <2> SUFFICES ASSUME Shape, Counted, NEW o \in Op, NEW r \in Rec \ reread PROVE done[<<o, r>>] <= Registrations(o)
    BY DEF DuplicatesExplained
  <2>1. <<o, r>> \in Op \X Rec
    OBVIOUS
  <2>2. PICK d \in Nat, s \in Nat, u \in Nat, n \in Nat :
          /\ d = done[<<o, r>>] /\ s = Cardinality(Slots(o, r)) /\ u = Cardinality(Due(o, r))
          /\ n = Registrations(o) /\ d + s + u <= n
    <3>1. done[<<o, r>>] \in Nat
      BY <2>1 DEF Shape, Ranges
    <3>2. Cardinality(Slots(o, r)) \in Nat
      BY FS_CardinalityType DEF Counted, Entitled
    <3> QED BY <3>1, <3>2, DueFinite, RegistrationsCount DEF Counted, Entitled
  <2>3. d <= n
    BY <2>2
  <2> QED BY <2>2, <2>3
<1> QED BY ShapeInit, CountedInit, <1>1, <1>2, PTL DEF Spec

-----------------------------------------------------------------------------
(* The backlog.  A position is committed when no queue is above the high-water *)
(* mark, and what is dispatched lies behind the committed position, so that    *)
(* nothing committed is added to a queue afterwards.                           *)

UpTo(q, c) == {i \in DOMAIN q : q[i] <= c}
Old(g) == UpTo(queue[g], committed)
Ahead == batch # <<>> => committed < Current
Checked == pc = "commit" => \A o \in Op : worker[o] # None => Len(queue[worker[o]]) <= High
Kept == Ahead /\ Checked /\ BacklogBounded

\* The committed records of a queue are no more than it holds.
LEMMA OldFacts ==
  ASSUME NEW q \in Seq(Rec), NEW c
  PROVE  /\ UpTo(q, c) \subseteq 1 .. Len(q) /\ IsFiniteSet(UpTo(q, c)) /\ Len(q) \in Nat
         /\ Cardinality(UpTo(q, c)) \in Nat /\ Cardinality(UpTo(q, c)) <= Len(q)
<1>1. DOMAIN q = 1 .. Len(q) /\ Len(q) \in Nat
  OBVIOUS
<1>2. UpTo(q, c) \subseteq 1 .. Len(q)
  BY <1>1 DEF UpTo
<1>3. IsFiniteSet(1 .. Len(q)) /\ Cardinality(1 .. Len(q)) = Len(q)
  BY <1>1, FS_Interval
<1>4. IsFiniteSet(UpTo(q, c)) /\ Cardinality(UpTo(q, c)) \in Nat
      /\ Cardinality(UpTo(q, c)) <= Cardinality(1 .. Len(q))
  BY <1>2, <1>3, Subsets
<1> QED BY <1>1, <1>2, <1>3, <1>4

LEMMA KeptInit == Init => Kept
<1> SUFFICES ASSUME Init PROVE Kept
  OBVIOUS
<1> QED BY DEF Init, Kept, Ahead, Checked, BacklogBounded

LEMMA AheadNext ==
  ASSUME Shape, Shape', Ahead, [Next]_vars
  PROVE  Ahead'
<1>1. ASSUME UNCHANGED <<batch, read, committed>> PROVE Ahead'
  BY <1>1 DEF Ahead, Current
<1>2. CASE \E o \in Op : Register(o) \/ Deregister(o)
  BY <1>1, <1>2 DEF Register, Deregister, loop
<1>3. ASSUME NEW g \in Reg, Registered(g) PROVE Ahead'
  <2>1. CASE pc = "off"
    BY <1>3, <2>1 DEF Registered, Shape, Fetched, Ahead
  <2>2. CASE pc # "off"
    BY <1>1, <1>3, <2>2 DEF Registered
  <2> QED BY <2>1, <2>2
<1>4. CASE \E g \in Reg : JoinReturns(g) \/ WorkerGets(g) \/ WorkerDone(g)
  BY <1>1, <1>4 DEF JoinReturns, WorkerGets, WorkerDone, loop
<1>5. CASE Poll
  <2>1. PICK k \in 0 .. Batch : /\ batch' = [i \in 1 .. k |-> pos + i]
                                /\ read' = IF k = 0 THEN pos ELSE pos + k
    BY <1>5 DEF Poll, Fetch
  <2>2. committed' = committed /\ committed \in 0 .. pos /\ pos \in Nat /\ k \in Nat /\ Len(batch') = k
    BY <1>5, <2>1, LoadFacts DEF Poll, Fetch, Shape, Ranges
  <2>3. Current' = pos + 1
    BY <2>1, <2>2 DEF Current
  <2> QED BY <2>2, <2>3 DEF Ahead
<1>6. CASE Skip \/ Crash
  BY <1>6 DEF Skip, Crash, Ahead
<1>7. CASE Dispatch
  <2>1. /\ batch # <<>> /\ batch' \in {batch, Tail(batch)} /\ UNCHANGED <<read, committed>>
    BY <1>7 DEF Dispatch
  <2>2. /\ Len(Tail(batch)) = Len(batch) - 1 /\ Len(batch) \in Nat /\ read \in Nat
        /\ committed \in 0 .. pos /\ pos \in Nat
    BY <2>1, BatchFacts, LoadFacts DEF Shape, Ranges
  <2>3. Current' \in {Current, Current + 1} /\ Current \in Int
    BY <2>1, <2>2 DEF Current
  <2> QED BY <2>1, <2>2, <2>3 DEF Ahead
<1>8. CASE ProcessReturns \/ CheckBackpressure \/ Rebalance \/ UNCHANGED vars
  BY <1>1, <1>8 DEF ProcessReturns, CheckBackpressure, Rebalance, vars, loop
<1>9. CASE Commit
  BY <1>9 DEF Commit, Ahead, Shape, Fetched
<1> QED BY <1>2, <1>3, <1>4, <1>5, <1>6, <1>7, <1>8, <1>9 DEF Next, ConsumeLoop

LEMMA CheckedNext ==
  ASSUME Shape, Shape', Checked, [Next]_vars
  PROVE  Checked'
<1>1. High \in Nat /\ Cast /\ Bound /\ Routed
  BY LoadFacts DEF Shape
<1>2. ASSUME pc' = "commit" => pc = "commit", UNCHANGED <<worker, queue>> PROVE Checked'
  BY <1>2 DEF Checked
<1>3. ASSUME NEW o \in Op, Register(o) PROVE Checked'
  BY <1>2, <1>3 DEF Register, loop, work
<1>4. ASSUME NEW o \in Op, Deregister(o) PROVE Checked'
  <2>1. UNCHANGED <<pc, queue>> /\ \A p \in Op : worker'[p] # None => worker'[p] = worker[p]
    BY <1>1, <1>4 DEF Deregister, loop, work, Cast
  <2> QED BY <2>1 DEF Checked
<1>5. ASSUME NEW g \in Reg, Registered(g) PROVE Checked'
  <2>1. pc' = "commit" => pc = "commit"
    BY <1>5 DEF Registered
  <2>2. queue' = queue /\ queue[g] = <<>> /\ owner[g] \in Op
    BY <1>1, <1>5 DEF Registered, Routed, OpeningUnused, Unused, Active
  <2>3. \A p \in Op : worker'[p] = worker[p] \/ worker'[p] = g
    BY <1>1, <1>5, <2>2 DEF Registered, Cast
  <2>4. Len(queue[g]) <= High
    BY <1>1, <2>2
  <2> QED BY <2>1, <2>2, <2>3, <2>4 DEF Checked
<1>6. ASSUME NEW g \in Reg, WorkerGets(g) PROVE Checked'
  <2>1. /\ UNCHANGED <<pc, worker>> /\ queue[g] # <<>> /\ queue[g] \in Seq(Rec) /\ queue'[g] = Tail(queue[g])
        /\ \A h \in Reg : h # g => queue'[h] = queue[h]
    BY <1>1, <1>6 DEF WorkerGets, table, loop, Cast
  <2>2. Len(Tail(queue[g])) = Len(queue[g]) - 1 /\ Len(queue[g]) \in Nat
    BY <2>1
  <2>3. ASSUME NEW o \in Op, worker[o] # None, Len(queue[worker[o]]) <= High PROVE Len(queue'[worker[o]]) <= High
    <3>1. worker[o] \in Reg
      BY <1>1, <2>3 DEF Cast
    <3>2. CASE worker[o] = g
      <4>1. PICK n \in Nat : n = Len(queue[g]) /\ n <= High
        BY <2>2, <2>3, <3>2
      <4>2. Len(queue'[g]) = n - 1
        BY <2>1, <2>2, <4>1
      <4> QED BY <1>1, <3>2, <4>1, <4>2
    <3> QED BY <2>1, <2>3, <3>1, <3>2
  <2> QED BY <2>1, <2>3 DEF Checked
<1>7. ASSUME NEW g \in Reg, JoinReturns(g) \/ WorkerDone(g) PROVE Checked'
  BY <1>2, <1>7 DEF JoinReturns, WorkerDone, table, loop, work
<1>8. CASE CheckBackpressure
  <2> SUFFICES ASSUME pc' = "commit", NEW o \in Op, worker[o] # None PROVE Len(queue[worker[o]]) <= High
    BY <1>8 DEF Checked, CheckBackpressure, table, work
  <2>1. PICK i \in 1 .. Len(bind) : bind[i] = o
    BY <1>1 DEF Bound, IsBound
  <2>2. i \in Asked
    BY <2>1 DEF Asked
  <2>3. ~ (Depth(i) > High)
    BY <1>8, <2>2 DEF CheckBackpressure
  <2>4. queue[worker[o]] \in Seq(Rec)
    BY <1>1 DEF Cast
  <2>5. Len(queue[worker[o]]) \in Nat
    BY <2>4
  <2> QED BY <1>1, <2>1, <2>3, <2>5 DEF Depth
<1>9. CASE Poll \/ Skip \/ Dispatch \/ ProcessReturns \/ Commit \/ Crash
  BY <1>9 DEF Poll, Fetch, Skip, Dispatch, ProcessReturns, Commit, Crash, Checked
<1>10. CASE Rebalance \/ UNCHANGED vars
  BY <1>2, <1>10 DEF Rebalance, vars, table, loop, work
<1> QED BY <1>3, <1>4, <1>5, <1>6, <1>7, <1>8, <1>9, <1>10 DEF Next, ConsumeLoop

\* A worker takes the first record of its queue: what stays is no more than before.
LEMMA OldTail ==
  ASSUME NEW q \in Seq(Rec), q # <<>>, NEW c
  PROVE  Cardinality(UpTo(Tail(q), c)) <= Cardinality(UpTo(q, c))
<1>1. /\ Tail(q) \in Seq(Rec) /\ Len(q) \in Nat /\ Len(Tail(q)) = Len(q) - 1
      /\ DOMAIN q = 1 .. Len(q)
  OBVIOUS
<1>2. DOMAIN Tail(q) = 1 .. Len(Tail(q))
  BY <1>1
<1>3. \A i \in 1 .. Len(Tail(q)) : i + 1 \in 1 .. Len(q) /\ Tail(q)[i] = q[i + 1]
  BY <1>1
<1> DEFINE S == UpTo(q, c)
           T == UpTo(Tail(q), c)
           f == [i \in T |-> i + 1]
<1>4. \A i \in T : i \in Nat /\ f[i] \in S
  BY <1>1, <1>2, <1>3 DEF UpTo
<1>5. \A i, j \in T : f[i] = f[j] => i = j
  BY <1>4
<1>6. f \in Injection(T, S)
  BY <1>4, <1>5 DEF Injection, IsInjective
<1>7. IsFiniteSet(S)
  BY OldFacts
<1> HIDE DEF S, T, f
<1>8. Cardinality(T) <= Cardinality(S)
  BY <1>6, <1>7, FS_Injection
<1> QED BY <1>8 DEF S, T

\* A dispatch adds nothing that is committed.
LEMMA OldDispatch ==
  ASSUME Shape, Shape', Ahead, Dispatch, NEW g \in Reg
  PROVE  Old(g)' = Old(g)
<1>1. /\ batch # <<>> /\ committed' = committed
      /\ \E until \in idx .. Len(bind) + 1 : Passed(until)
  BY DispatchPasses
<1>2. PICK until \in idx .. Len(bind) + 1 : Passed(until)
  BY <1>1
<1>3. PICK h \in Rec : h = Head(batch) /\ h = Current
  BY <1>1, BatchFacts
<1>4. committed \in Nat /\ h \in Nat /\ committed < h
  <2>1. committed \in Nat
    BY LoadFacts DEF Shape, Ranges
  <2>2. h \in Nat
    BY RecNumbers
  <2> QED BY <1>1, <1>3, <2>1, <2>2 DEF Ahead
<1>5. PICK n \in Nat : n = Cardinality(Given(until, g))
  BY GivenFacts
<1>6. queue'[g] = queue[g] \o [i \in 1 .. n |-> h]
  BY <1>2, <1>3, <1>5 DEF Passed
<1>7. queue[g] \in Seq(Rec)
  BY DEF Shape, Cast
<1>8. /\ queue'[g] \in Seq(Rec) /\ Len(queue'[g]) = Len(queue[g]) + n
      /\ \A k \in 1 .. Len(queue'[g]) :
           \/ k \in 1 .. Len(queue[g]) /\ queue'[g][k] = queue[g][k]
           \/ k \in Len(queue[g]) + 1 .. Len(queue[g]) + n /\ queue'[g][k] = h
  BY <1>6, <1>7, Appended
<1>9. /\ Len(queue[g]) \in Nat /\ DOMAIN queue[g] = 1 .. Len(queue[g])
      /\ DOMAIN queue'[g] = 1 .. Len(queue'[g])
  BY <1>7, <1>8
<1>10. Old(g) = {i \in 1 .. Len(queue[g]) : queue[g][i] <= committed}
  BY <1>9 DEF Old, UpTo
<1>11. Old(g)' = {i \in 1 .. Len(queue'[g]) : queue'[g][i] <= committed}
  BY <1>1, <1>9 DEF Old, UpTo
<1>12. \A i \in 1 .. Len(queue[g]) : i \in 1 .. Len(queue'[g]) /\ queue'[g][i] = queue[g][i]
  BY <1>8, <1>9
<1>13. \A i \in 1 .. Len(queue'[g]) : queue'[g][i] <= committed => i \in 1 .. Len(queue[g])
  BY <1>4, <1>8, <1>9
<1> QED BY <1>10, <1>11, <1>12, <1>13

LEMMA BacklogNext ==
  ASSUME Shape, Shape', Kept, [Next]_vars
  PROVE  BacklogBounded'
<1>1. High \in Nat /\ Cast /\ Cast' /\ Routed /\ None \notin Reg
  BY LoadFacts, RegFacts DEF Shape
<1>2. BacklogBounded <=> \A o \in Op : worker[o] # None => Cardinality(Old(worker[o])) <= High
  BY DEF BacklogBounded, Old, UpTo
<1>3. BacklogBounded' <=> \A o \in Op : worker'[o] # None => Cardinality(Old(worker[o])') <= High
  BY DEF BacklogBounded, Old, UpTo
<1>4. ASSUME UNCHANGED <<queue, committed>>,
             \A o \in Op : worker'[o] # None => worker'[o] = worker[o] \/ queue[worker'[o]] = <<>>
      PROVE  BacklogBounded'
  <2> SUFFICES ASSUME NEW o \in Op, worker'[o] # None PROVE Cardinality(Old(worker[o])') <= High
    BY <1>3
  <2>1. worker'[o] \in Reg
    BY <1>1 DEF Cast
  <2>2. Old(worker[o])' = Old(worker'[o])
    BY <1>4 DEF Old
  <2>3. CASE worker'[o] = worker[o]
    BY <1>2, <2>2, <2>3 DEF Kept
  <2>4. CASE queue[worker'[o]] = <<>>
    <3>1. /\ Cardinality(Old(worker'[o])) \in Nat /\ Cardinality(Old(worker'[o])) <= Len(queue[worker'[o]])
      BY <1>1, <2>1, OldFacts DEF Cast, Old
    <3>2. Len(queue[worker'[o]]) = 0
      BY <2>4
    <3> QED BY <1>1, <2>2, <3>1, <3>2
  <2> QED BY <1>4, <2>3, <2>4
<1>5. ASSUME NEW o \in Op, Register(o) PROVE BacklogBounded'
  BY <1>4, <1>5 DEF Register, loop, work
<1>6. ASSUME NEW o \in Op, Deregister(o) PROVE BacklogBounded'
  <2>1. UNCHANGED <<queue, committed>> /\ \A p \in Op : worker'[p] # None => worker'[p] = worker[p]
    BY <1>1, <1>6 DEF Deregister, loop, work, Cast
  <2> QED BY <1>4, <2>1
<1>7. ASSUME NEW g \in Reg, Registered(g) PROVE BacklogBounded'
  <2>1. UNCHANGED <<queue, committed>> /\ queue[g] = <<>> /\ owner[g] \in Op
    BY <1>1, <1>7 DEF Registered, Routed, OpeningUnused, Unused, Active
  <2>2. \A p \in Op : worker'[p] = worker[p] \/ worker'[p] = g
    BY <1>1, <1>7, <2>1 DEF Registered, Cast
  <2> QED BY <1>4, <2>1, <2>2
<1>8. ASSUME NEW g \in Reg, WorkerGets(g) PROVE BacklogBounded'
  <2> SUFFICES ASSUME NEW o \in Op, worker'[o] # None PROVE Cardinality(Old(worker[o])') <= High
    BY <1>3
  <2>1. /\ worker' = worker /\ committed' = committed /\ worker[o] \in Reg
        /\ \A h \in Reg : h # g => queue'[h] = queue[h]
    BY <1>1, <1>8 DEF WorkerGets, table, loop, Cast
  <2>2. Cardinality(Old(worker[o])) <= High
    BY <1>2, <2>1 DEF Kept
  <2>3. CASE worker[o] # g
    <3>1. Old(worker[o])' = Old(worker[o])
      BY <2>1, <2>3 DEF Old
    <3> QED BY <2>2, <3>1
  <2>4. CASE worker[o] = g
    <3>1. queue[g] \in Seq(Rec) /\ queue[g] # <<>> /\ queue'[g] = Tail(queue[g]) /\ queue'[g] \in Seq(Rec)
      BY <1>1, <1>8 DEF WorkerGets, Cast
    <3>2. Cardinality(UpTo(queue'[g], committed)) <= Cardinality(UpTo(queue[g], committed))
      BY <3>1, OldTail
    <3>3. Cardinality(UpTo(queue'[g], committed)) \in Nat /\ Cardinality(UpTo(queue[g], committed)) \in Nat
      BY <3>1, OldFacts
    <3>4. Cardinality(UpTo(queue'[g], committed)) <= High
      <4>1. Cardinality(UpTo(queue[g], committed)) <= High
        BY <2>2, <2>4 DEF Old
      <4> QED BY <1>1, <3>2, <3>3, <4>1
    <3>5. Old(worker[o])' = UpTo(queue'[g], committed)
      BY <2>1, <2>4 DEF Old
    <3> QED BY <3>4, <3>5
  <2> QED BY <2>3, <2>4
<1>9. ASSUME NEW g \in Reg, JoinReturns(g) \/ WorkerDone(g) PROVE BacklogBounded'
  BY <1>4, <1>9 DEF JoinReturns, WorkerDone, table, loop, work
<1>10. CASE Dispatch
  <2> SUFFICES ASSUME NEW o \in Op, worker'[o] # None PROVE Cardinality(Old(worker[o])') <= High
    BY <1>3
  <2>1. worker' = worker /\ worker[o] \in Reg
    BY <1>1, <1>10 DEF Dispatch, table, Cast
  <2>2. Old(worker[o])' = Old(worker[o])
    <3>1. \A g \in Reg : Old(g)' = Old(g)
      BY <1>10, OldDispatch DEF Kept
    <3> QED BY <2>1, <3>1 DEF Old
  <2> QED BY <1>2, <2>1, <2>2 DEF Kept
<1>11. CASE Commit
  <2> SUFFICES ASSUME NEW o \in Op, worker'[o] # None PROVE Cardinality(Old(worker[o])') <= High
    BY <1>3
  <2>1. UNCHANGED <<worker, queue>> /\ worker[o] \in Reg /\ pc = "commit"
    BY <1>1, <1>11 DEF Commit, table, work, Cast
  <2>2. Len(queue[worker[o]]) <= High /\ queue[worker[o]] \in Seq(Rec)
    BY <1>1, <2>1 DEF Kept, Checked, Cast
  <2>3. PICK q \in Seq(Rec) : q = queue[worker[o]]
    BY <2>2
  <2>4. Cardinality(UpTo(q, committed')) \in Nat /\ Cardinality(UpTo(q, committed')) <= Len(q) /\ Len(q) \in Nat
    BY OldFacts
  <2>5. Old(worker[o])' = UpTo(q, committed')
    BY <2>1, <2>3 DEF Old
  <2> QED BY <1>1, <2>2, <2>3, <2>4, <2>5
<1>12. CASE Poll \/ Skip \/ ProcessReturns \/ CheckBackpressure \/ Rebalance \/ UNCHANGED vars
  BY <1>4, <1>12 DEF Poll, Fetch, Skip, ProcessReturns, CheckBackpressure, Rebalance, vars, table, loop, work
<1>13. CASE Crash
  BY <1>13 DEF Crash, BacklogBounded
<1> QED BY <1>5, <1>6, <1>7, <1>8, <1>9, <1>10, <1>11, <1>12, <1>13 DEF Next, ConsumeLoop

\* However registrations, batches and workers interleave, a crash takes no more
\* committed records from the queue of a registered operator than the high-water mark
\* allows (engine.py, _consume_loop and _check_backpressure).
THEOREM BacklogIsBounded == Spec => []BacklogBounded
<1>1. Shape /\ Kept /\ [Next]_vars => Shape' /\ Kept'
  <2>1. Shape /\ Kept /\ [Next]_vars => Shape'
    BY ShapeNext
  <2> QED BY <2>1, AheadNext, CheckedNext, BacklogNext DEF Kept
<1>2. Kept => BacklogBounded
  BY DEF Kept
<1> QED BY ShapeInit, KeptInit, <1>1, <1>2, PTL DEF Spec
=============================================================================
