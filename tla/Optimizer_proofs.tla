--------------------------- MODULE Optimizer_proofs ---------------------------
(* Proofs about Optimizer, for every set of operators, tiers and callers.     *)
EXTENDS Optimizer, Integers, TLAPS

\* The lock: those in the line are in an update, nobody is in it twice, waiters
\* are in it, and only its head may be inside.
LineInv ==
  /\ \A i \in 1 .. Len(line) : at[line[i]] # "idle"
  /\ \A i, j \in 1 .. Len(line) : line[i] = line[j] => i = j
  /\ \A a \in Caller : at[a] = "waiting" => \E i \in 1 .. Len(line) : line[i] = a
  /\ \A a \in Caller : at[a] = "putting" => line # <<>> /\ line[1] = a

\* Whoever is in an update knows what to write; inside the lock the cache has it.
WriteInv ==
  \A a \in Caller :
    /\ at[a] # "idle" => write[a] \in Op \X (Tier \union {NoTier})
    /\ at[a] = "putting" => cache[write[a][1]] = write[a][2]

OInv == TypeOK /\ LineInv /\ WriteInv /\ EtcdFollowsCache

LEMMA InitOInv == Init => OInv
<1> SUFFICES ASSUME Init PROVE OInv
  OBVIOUS
<1>1. hosts \in [Op -> SUBSET Tier] /\ move \in [Op -> Move \union {Still}]
  BY DEF Init, HandoverInit
<1>2. cache \in [Op -> Tier \union {NoTier}] /\ etcd = cache
  BY DEF Init
<1>3. TypeOK
  BY <1>1, <1>2 DEF Init, TypeOK
<1> QED
  BY <1>2, <1>3 DEF Init, OInv, LineInv, WriteInv, EtcdFollowsCache

\* The moves keep their types.
LEMMA BeginType ==
  ASSUME TypeOK, NEW o \in Op, NEW s \in Tier, NEW d \in Tier, Begin(o, s, d)
  PROVE  hosts' \in [Op -> SUBSET Tier] /\ move' \in [Op -> Move \union {Still}]
BY DEF TypeOK, Begin, Move

LEMMA MoveOnType ==
  ASSUME TypeOK, NEW o \in Op, Copy(o) \/ Settle(o) \/ Refuse(o)
  PROVE  hosts' \in [Op -> SUBSET Tier] /\ move' \in [Op -> Move \union {Still}]
<1>1. move[o] \in Move
  BY DEF TypeOK, Copy, Settle, Refuse, At, Still
<1>2. move[o].src \in Tier /\ move[o].dst \in Tier
  BY <1>1 DEF Move
<1>3. [move[o] EXCEPT !.stage = "copied"] \in Move /\ [move[o] EXCEPT !.stage = "settled"] \in Move
  BY <1>1 DEF Move
<1>4. move' \in [Op -> Move \union {Still}]
  BY <1>3 DEF TypeOK, Copy, Settle, Refuse
<1>5. hosts' \in [Op -> SUBSET Tier]
  BY <1>2 DEF TypeOK, Copy, Settle, Refuse
<1> QED BY <1>4, <1>5

LEMMA FinishType ==
  ASSUME TypeOK, NEW S, Finish(S)
  PROVE  hosts' \in [Op -> SUBSET Tier] /\ move' \in [Op -> Move \union {Still}]
BY DEF TypeOK, Finish

\* What the code after an update, or after the plan was made, starts from: the
\* caller a is not in the line ahead of it, the others are as before, and etcd
\* has what the cache has unless another caller is putting.
Ahead(a, s) ==
  /\ s \in Seq(Caller)
  /\ \A i \in 1 .. Len(s) : s[i] # a /\ at[s[i]] # "idle"
  /\ \A i, j \in 1 .. Len(s) : s[i] = s[j] => i = j
  /\ \A b \in Caller \ {a} : at[b] = "waiting" => \E i \in 1 .. Len(s) : s[i] = b
  /\ \A b \in Caller \ {a} : at[b] = "putting" => s # <<>> /\ s[1] = b

Settled(a) ==
  \A o \in Op \ unput' :
    (\A b \in Caller \ {a} : at[b] = "putting" => write[b][1] # o) => etcd'[o] = cache[o]

\* The types of what an update changes.
LEMMA UpdateType ==
  ASSUME TypeOK, NEW a \in Caller, NEW o \in Op, NEW t \in Tier \union {NoTier},
         NEW s \in Seq(Caller), Update(a, o, t, s)
  PROVE  /\ line' \in Seq(Caller)
         /\ at' \in [Caller -> {"idle", "waiting", "putting"}]
         /\ write' \in [Caller -> {NoWrite} \union (Op \X (Tier \union {NoTier}))]
         /\ cache' \in [Op -> Tier \union {NoTier}]
<1>1. line' \in Seq(Caller)
  BY DEF Update
<1>2. at' \in [Caller -> {"idle", "waiting", "putting"}]
  BY DEF TypeOK, Update
<1>3. cache' \in [Op -> Tier \union {NoTier}]
  BY DEF TypeOK, Update
<1>4. <<o, t>> \in Op \X (Tier \union {NoTier})
  OBVIOUS
<1>5. write' = [write EXCEPT ![a] = <<o, t>>]
  BY DEF Update
<1>6. write' \in [Caller -> {NoWrite} \union (Op \X (Tier \union {NoTier}))]
  BY <1>4, <1>5 DEF TypeOK
<1> QED BY <1>1, <1>2, <1>3, <1>6

\* An update takes the free lock or queues up.
LEMMA UpdateLine ==
  ASSUME TypeOK, NEW a \in Caller, NEW o \in Op, NEW t \in Tier \union {NoTier},
         NEW s \in Seq(Caller), Ahead(a, s), Update(a, o, t, s)
  PROVE  LineInv'
<1>1. line' = Append(s, a) /\ Len(line') = Len(s) + 1 /\ line'[Len(s) + 1] = a
  BY DEF Update
<1>2. \A i \in 1 .. Len(s) : line'[i] = s[i] /\ s[i] \in Caller
  BY <1>1
<1>3. at'[a] # "idle" /\ \A b \in Caller \ {a} : at'[b] = at[b]
  BY DEF Update, TypeOK
<1>4. \A i \in 1 .. Len(line') : at'[line'[i]] # "idle"
  BY <1>1, <1>2, <1>3 DEF Ahead
<1>5. \A i, j \in 1 .. Len(line') : line'[i] = line'[j] => i = j
  BY <1>1, <1>2 DEF Ahead
<1>6. ASSUME NEW b \in Caller, at'[b] = "putting"
      PROVE  line' # <<>> /\ line'[1] = b
  <2>1. CASE b = a
    <3>1. s = <<>>
      BY <1>6, <2>1 DEF Update, TypeOK
    <3> QED BY <1>1, <2>1, <3>1
  <2>2. CASE b # a
    <3>1. s # <<>> /\ s[1] = b
      BY <1>3, <1>6, <2>2 DEF Ahead
    <3> QED BY <1>1, <1>2, <3>1
  <2> QED BY <2>1, <2>2
<1>7. ASSUME NEW b \in Caller, at'[b] = "waiting"
      PROVE  \E i \in 1 .. Len(line') : line'[i] = b
  <2>1. CASE b = a
    BY <1>1, <2>1
  <2>2. CASE b # a
    <3>1. PICK i \in 1 .. Len(s) : s[i] = b
      BY <1>3, <1>7, <2>2 DEF Ahead
    <3> QED BY <1>1, <1>2, <3>1
  <2> QED BY <2>1, <2>2
<1> QED BY <1>4, <1>5, <1>6, <1>7 DEF LineInv

\* It changes the cache only inside the lock, and then nobody else is there.
LEMMA UpdateWrites ==
  ASSUME TypeOK, NEW a \in Caller, NEW o \in Op, NEW t \in Tier \union {NoTier},
         NEW s \in Seq(Caller), Ahead(a, s), Settled(a), WriteInv, Update(a, o, t, s)
  PROVE  WriteInv' /\ EtcdFollowsCache'
<1>0. <<o, t>> \in Op \X (Tier \union {NoTier}) /\ <<o, t>>[1] = o /\ <<o, t>>[2] = t
  OBVIOUS
<1>1. write'[a] = <<o, t>> /\ \A b \in Caller \ {a} : write'[b] = write[b] /\ at'[b] = at[b]
  BY DEF Update, TypeOK
<1>2. CASE s = <<>>
  <2>1. at'[a] = "putting" /\ cache'[o] = t /\ \A p \in Op \ {o} : cache'[p] = cache[p]
    BY <1>2 DEF Update, TypeOK
  <2>2. \A b \in Caller \ {a} : at[b] # "putting"
    BY <1>2 DEF Ahead
  <2>3. WriteInv'
    <3>1. \A b \in Caller \ {a} : at'[b] # "putting" /\ (at'[b] # "idle" => write'[b] \in Op \X (Tier \union {NoTier}))
      BY <1>1, <2>2 DEF WriteInv
    <3>2. write'[a] \in Op \X (Tier \union {NoTier}) /\ cache'[write'[a][1]] = write'[a][2]
      BY <1>1, <1>0, <2>1
    <3> QED BY <3>1, <3>2 DEF WriteInv
  <2>4. \A p \in Op \ unput' : etcd'[p] = cache[p]
    BY <2>2 DEF Settled
  <2> QED BY <1>1, <2>1, <2>3, <2>4 DEF EtcdFollowsCache, Writing
<1>3. CASE s # <<>>
  <2>1. at'[a] = "waiting" /\ cache' = cache
    BY <1>3 DEF Update, TypeOK
  <2>2. WriteInv'
    <3>1. \A b \in Caller \ {a} :
            /\ at'[b] # "idle" => write'[b] \in Op \X (Tier \union {NoTier})
            /\ at'[b] = "putting" => cache'[write'[b][1]] = write'[b][2]
      BY <1>1, <2>1 DEF WriteInv
    <3>2. write'[a] \in Op \X (Tier \union {NoTier}) /\ at'[a] # "putting"
      BY <1>1, <1>0, <2>1
    <3> QED BY <3>1, <3>2 DEF WriteInv
  <2> QED BY <1>1, <2>1, <2>2 DEF EtcdFollowsCache, Writing, Settled
<1> QED BY <1>2, <1>3

\* The loop over the candidates, from the return of one await to the next.
LEMMA ProceedKeeps ==
  ASSUME TypeOK, WriteInv, NEW a \in Caller, NEW s, Ahead(a, s), Settled(a),
         NEW p \in SUBSET Candidate, Proceed(a, p, s),
         etcd' \in [Op -> Tier \union {NoTier}],
         stray' \subseteq Request, unput' \subseteq Op, excused' \subseteq Op
  PROVE  OInv'
<1> DEFINE busy == {c \in p : ~At(c.op, "still")}
<1>0. s \in Seq(Caller)
  BY DEF Ahead
<1>1. ASSUME NEW c \in p \ busy, NEW skipped \in SUBSET busy,
             Begin(c.op, c.src, c.dst), Update(a, c.op, c.dst, s),
             plan' = [plan EXCEPT ![a] = p \ (skipped \union {c})]
      PROVE  OInv'
  <2>1. c.op \in Op /\ c.src \in Tier /\ c.dst \in Tier /\ c.dst \in Tier \union {NoTier}
    BY DEF Candidate
  <2>2. hosts' \in [Op -> SUBSET Tier] /\ move' \in [Op -> Move \union {Still}]
    BY <1>1, <2>1, BeginType
  <2>3. plan' \in [Caller -> SUBSET Candidate]
    BY <1>1 DEF TypeOK
  <2>4. TypeOK'
    <3>1. /\ line' \in Seq(Caller)
          /\ at' \in [Caller -> {"idle", "waiting", "putting"}]
          /\ write' \in [Caller -> {NoWrite} \union (Op \X (Tier \union {NoTier}))]
          /\ cache' \in [Op -> Tier \union {NoTier}]
      BY <1>0, <1>1, <2>1, UpdateType
    <3> QED BY <2>2, <2>3, <3>1 DEF TypeOK
  <2>5. LineInv'
    BY <1>0, <1>1, <2>1, UpdateLine
  <2>6. WriteInv' /\ EtcdFollowsCache'
    BY <1>0, <1>1, <2>1, UpdateWrites
  <2> QED BY <2>4, <2>5, <2>6 DEF OInv
<1>2. ASSUME plan' = [plan EXCEPT ![a] = {}], at' = [at EXCEPT ![a] = "idle"],
             write' = [write EXCEPT ![a] = NoWrite], line' = s,
             UNCHANGED <<hosts, move, cache>>
      PROVE  OInv'
  <2>1. TypeOK'
    BY <1>0, <1>2 DEF TypeOK
  <2>2. at'[a] = "idle" /\ \A b \in Caller \ {a} : at'[b] = at[b] /\ write'[b] = write[b]
    BY <1>2 DEF TypeOK
  <2>3. LineInv'
    <3>1. \A i \in 1 .. Len(s) : s[i] \in Caller
      BY <1>0
    <3> QED BY <1>2, <2>2, <3>1 DEF LineInv, Ahead
  <2>4. WriteInv'
    BY <1>2, <2>2 DEF WriteInv
  <2>5. EtcdFollowsCache'
    BY <1>2, <2>2 DEF EtcdFollowsCache, Writing, Settled
  <2> QED BY <2>1, <2>3, <2>4, <2>5 DEF OInv
<1>3. \/ \E c \in p \ busy, skipped \in SUBSET busy :
           /\ Begin(c.op, c.src, c.dst)
           /\ Update(a, c.op, c.dst, s)
           /\ plan' = [plan EXCEPT ![a] = p \ (skipped \union {c})]
      \/ /\ plan' = [plan EXCEPT ![a] = {}]
         /\ at' = [at EXCEPT ![a] = "idle"]
         /\ write' = [write EXCEPT ![a] = NoWrite]
         /\ line' = s
         /\ UNCHANGED <<hosts, move, cache>>
  BY DEF Proceed
<1> QED BY <1>1, <1>2, <1>3

\* An idle caller is not in the line.
LEMMA IdleStarts ==
  ASSUME OInv, NEW a \in Caller, at[a] = "idle", UNCHANGED <<etcd, unput>>
  PROVE  Ahead(a, line) /\ Settled(a)
<1>1. Ahead(a, line)
  BY DEF OInv, TypeOK, LineInv, Ahead
<1>2. Settled(a)
  BY DEF OInv, EtcdFollowsCache, Writing, Settled
<1> QED BY <1>1, <1>2

LEMMA RunKeeps ==
  ASSUME OInv, NEW a \in Caller, RunOptimization(a)
  PROVE  OInv'
<1>1. PICK p \in Plans : Proceed(a, p, line)
  BY DEF RunOptimization
<1>2. p \in SUBSET Candidate
  BY DEF Plans
<1>3. Ahead(a, line) /\ Settled(a)
  BY IdleStarts DEF RunOptimization
<1>4. /\ etcd' \in [Op -> Tier \union {NoTier}]
      /\ stray' \subseteq Request /\ unput' \subseteq Op /\ excused' \subseteq Op
  BY DEF RunOptimization, OInv, TypeOK
<1> QED BY <1>1, <1>2, <1>3, <1>4, ProceedKeeps DEF OInv

LEMMA RemoveKeeps ==
  ASSUME OInv, NEW a \in Caller, NEW o \in Op, RemoveOperator(a, o)
  PROVE  OInv'
<1>1. Ahead(a, line) /\ Settled(a)
  BY IdleStarts DEF RemoveOperator
<1>2. line \in Seq(Caller) /\ NoTier \in Tier \union {NoTier} /\ Update(a, o, NoTier, line)
  BY DEF RemoveOperator, OInv, TypeOK
<1>3. TypeOK'
  <2>1. /\ line' \in Seq(Caller)
        /\ at' \in [Caller -> {"idle", "waiting", "putting"}]
        /\ write' \in [Caller -> {NoWrite} \union (Op \X (Tier \union {NoTier}))]
        /\ cache' \in [Op -> Tier \union {NoTier}]
    BY <1>2, UpdateType DEF OInv
  <2> QED BY <2>1 DEF RemoveOperator, OInv, TypeOK
<1>4. LineInv'
  BY <1>1, <1>2, UpdateLine DEF OInv
<1>5. WriteInv' /\ EtcdFollowsCache'
  BY <1>1, <1>2, UpdateWrites DEF OInv
<1> QED BY <1>3, <1>4, <1>5 DEF OInv

\* The waiter at the head finds nobody inside, so that etcd has what the cache
\* had for its operator until now.
LEMMA AcquireKeeps ==
  ASSUME OInv, NEW a \in Caller, Acquire(a)
  PROVE  OInv'
<1> DEFINE o == write[a][1]
           t == write[a][2]
<1>1. write[a] \in Op \X (Tier \union {NoTier}) /\ o \in Op /\ t \in Tier \union {NoTier}
  BY DEF OInv, WriteInv, Acquire
<1>2. line # <<>> /\ line[1] = a
  <2>1. line \in Seq(Caller)
    BY DEF OInv, TypeOK
  <2>2. \E i \in 1 .. Len(line) : line[i] = a
    BY DEF OInv, LineInv, Acquire
  <2> QED BY <2>1, <2>2 DEF Acquire
<1>3. \A b \in Caller : at[b] # "putting"
  BY <1>2 DEF OInv, LineInv, Acquire
<1>4. at'[a] = "putting" /\ \A b \in Caller \ {a} : at'[b] = at[b]
  BY DEF OInv, TypeOK, Acquire
<1>5. cache'[o] = t /\ \A p \in Op \ {o} : cache'[p] = cache[p]
  BY <1>1 DEF OInv, TypeOK, Acquire
<1>6. TypeOK'
  BY <1>1 DEF OInv, TypeOK, Acquire
<1>7. LineInv'
  BY <1>2, <1>3, <1>4 DEF OInv, TypeOK, LineInv, Acquire
<1>8. WriteInv'
  <2>1. write' = write
    BY DEF Acquire
  <2> QED BY <1>1, <1>3, <1>4, <1>5, <2>1 DEF OInv, WriteInv
<1>9. EtcdFollowsCache'
  BY <1>3, <1>4, <1>5 DEF OInv, EtcdFollowsCache, Writing, Acquire
<1> QED BY <1>6, <1>7, <1>8, <1>9 DEF OInv

\* Whoever leaves the lock leaves the line in order.
LEMMA AheadOfTail ==
  ASSUME OInv, NEW a \in Caller, at[a] = "putting"
  PROVE  Ahead(a, Tail(line))
<1>0. line \in Seq(Caller) /\ line # <<>> /\ line[1] = a
  BY DEF OInv, TypeOK, LineInv
<1>1. /\ Tail(line) \in Seq(Caller) /\ Len(Tail(line)) = Len(line) - 1
      /\ \A i \in 1 .. Len(line) - 1 : Tail(line)[i] = line[i + 1]
      /\ Len(line) \in Nat
  BY <1>0
<1>2. \A i \in 1 .. Len(Tail(line)) : Tail(line)[i] # a /\ at[Tail(line)[i]] # "idle"
  BY <1>0, <1>1 DEF OInv, LineInv
<1>3. \A i, j \in 1 .. Len(Tail(line)) : Tail(line)[i] = Tail(line)[j] => i = j
  BY <1>1 DEF OInv, LineInv
<1>4. \A b \in Caller \ {a} : at[b] # "putting"
  BY <1>0 DEF OInv, LineInv
<1>5. ASSUME NEW b \in Caller \ {a}, at[b] = "waiting"
      PROVE  \E i \in 1 .. Len(Tail(line)) : Tail(line)[i] = b
  <2>1. PICK i \in 1 .. Len(line) : line[i] = b
    BY <1>5 DEF OInv, LineInv
  <2>2. i # 1 /\ i - 1 \in 1 .. Len(Tail(line)) /\ Tail(line)[i - 1] = line[(i - 1) + 1]
    BY <1>0, <1>1, <1>5, <2>1
  <2> QED BY <2>1, <2>2
<1> QED BY <1>1, <1>2, <1>3, <1>4, <1>5 DEF Ahead

\* The caller inside leaves the line; its put was applied, or its operator is
\* known to differ.
LEMMA PutKeeps ==
  ASSUME OInv, NEW a \in Caller, PutReturns(a)
  PROVE  OInv'
<1> DEFINE o == write[a][1]
           t == write[a][2]
<1>1. write[a] \in Op \X (Tier \union {NoTier}) /\ o \in Op /\ t \in Tier \union {NoTier}
      /\ cache[o] = t
  BY DEF OInv, WriteInv, PutReturns
<1>2. line \in Seq(Caller) /\ line # <<>> /\ line[1] = a
  BY DEF OInv, TypeOK, LineInv, PutReturns
<1>3. /\ etcd' \in [Op -> Tier \union {NoTier}]
      /\ stray' \subseteq Request /\ unput' \subseteq Op /\ excused' \subseteq Op
  BY <1>1 DEF OInv, TypeOK, PutReturns
<1>4. Ahead(a, Tail(line))
  BY AheadOfTail DEF PutReturns
<1>5. Settled(a)
  <2>1. ASSUME NEW p \in Op \ unput',
               \A b \in Caller \ {a} : at[b] = "putting" => write[b][1] # p
        PROVE  etcd'[p] = cache[p]
    <3>1. CASE p = o
      BY <1>1, <2>1, <3>1 DEF OInv, TypeOK, PutReturns
    <3>2. CASE p # o
      <4>1. p \in Op \ unput /\ etcd'[p] = etcd[p]
        BY <2>1, <3>2 DEF OInv, TypeOK, PutReturns
      <4>2. ~Writing(p, "putting")
        BY <2>1, <3>2 DEF Writing
      <4> QED BY <4>1, <4>2 DEF OInv, EtcdFollowsCache
    <3> QED BY <3>1, <3>2
  <2> QED BY <2>1 DEF Settled
<1>6. plan[a] \in SUBSET Candidate /\ Proceed(a, plan[a], Tail(line))
  BY DEF OInv, TypeOK, PutReturns
<1> QED BY <1>3, <1>4, <1>5, <1>6, ProceedKeeps DEF OInv

\* The migrations, and what they leave behind, do not touch the record.
LEMMA MoveOnKeeps ==
  ASSUME OInv, \/ \E o \in Op : MoveOn(o)
               \/ \E r \in stray : ServeLate(r)
  PROVE  OInv'
<1>1. hosts' \in [Op -> SUBSET Tier] /\ move' \in [Op -> Move \union {Still}]
  <2>1. ASSUME NEW o \in Op, MoveOn(o)
        PROVE  hosts' \in [Op -> SUBSET Tier] /\ move' \in [Op -> Move \union {Still}]
    BY <2>1, MoveOnType, FinishType DEF OInv, MoveOn
  <2>2. ASSUME NEW r \in stray, ServeLate(r)
        PROVE  hosts' \in [Op -> SUBSET Tier] /\ move' \in [Op -> Move \union {Still}]
    BY <2>2 DEF OInv, TypeOK, ServeLate, Request
  <2> QED BY <2>1, <2>2
<1>2. stray' \subseteq Request /\ excused' \subseteq Op
  <2>1. \A o \in Op : Abandoned(o) \subseteq Request
    BY DEF Abandoned
  <2>2. \A r \in stray : r.op \in Op
    BY DEF OInv, TypeOK, Request
  <2>3. ASSUME NEW o \in Op, MoveOn(o) PROVE stray' \subseteq Request /\ excused' \subseteq Op
    BY <2>1, <2>3 DEF OInv, TypeOK, MoveOn
  <2>4. ASSUME NEW r \in stray, ServeLate(r) PROVE stray' \subseteq Request /\ excused' \subseteq Op
    BY <2>2, <2>4 DEF OInv, TypeOK, ServeLate
  <2> QED BY <2>3, <2>4
<1>3. UNCHANGED <<cache, etcd, line, at, write, plan, unput>>
  BY DEF MoveOn, ServeLate
<1>4. TypeOK'
  BY <1>1, <1>2, <1>3 DEF OInv, TypeOK
<1>5. LineInv' /\ WriteInv'
  BY <1>3 DEF OInv, LineInv, WriteInv
<1>6. EtcdFollowsCache'
  BY <1>3 DEF OInv, EtcdFollowsCache, Writing
<1> QED BY <1>4, <1>5, <1>6 DEF OInv

LEMMA RestartKeeps ==
  ASSUME OInv, Restart
  PROVE  OInv'
<1>1. hosts' \in [Op -> SUBSET Tier] /\ move' \in [Op -> Move \union {Still}]
  BY FinishType DEF OInv, Restart
<1>2. \A a \in Caller : at[a] = "waiting" => write[a][1] \in Op
  BY DEF OInv, WriteInv
<1>3. stray' \subseteq Request /\ unput' \subseteq Op /\ excused' \subseteq Op
  BY <1>2 DEF OInv, TypeOK, Restart, Abandoned
<1>4. /\ cache' = etcd /\ etcd' = etcd /\ line' = <<>>
      /\ at' = [a \in Caller |-> "idle"]
      /\ write' = [a \in Caller |-> NoWrite]
      /\ plan' = [a \in Caller |-> {}]
  BY DEF Restart
<1>5. TypeOK'
  BY <1>1, <1>3, <1>4 DEF OInv, TypeOK
<1>6. LineInv' /\ WriteInv' /\ EtcdFollowsCache'
  BY <1>4 DEF LineInv, WriteInv, EtcdFollowsCache
<1> QED BY <1>5, <1>6 DEF OInv

LEMMA OInvNext == OInv /\ [Next]_vars => OInv'
<1> SUFFICES ASSUME OInv, [Next]_vars PROVE OInv'
  OBVIOUS
<1>1. ASSUME NEW a \in Caller, RunOptimization(a) PROVE OInv'
  BY <1>1, RunKeeps
<1>2. ASSUME NEW a \in Caller, Acquire(a) PROVE OInv'
  BY <1>2, AcquireKeeps
<1>3. ASSUME NEW a \in Caller, PutReturns(a) PROVE OInv'
  BY <1>3, PutKeeps
<1>4. ASSUME NEW a \in Caller, NEW o \in Op, RemoveOperator(a, o) PROVE OInv'
  BY <1>4, RemoveKeeps
<1>5. ASSUME (\E o \in Op : MoveOn(o)) \/ (\E r \in stray : ServeLate(r)) PROVE OInv'
  BY <1>5, MoveOnKeeps
<1>6. CASE Restart
  BY <1>6, RestartKeeps
<1>7. CASE UNCHANGED vars
  BY <1>7 DEF vars, OInv, TypeOK, LineInv, WriteInv, EtcdFollowsCache, Writing
<1> QED BY <1>1, <1>2, <1>3, <1>4, <1>5, <1>6, <1>7 DEF Next

\* The variables of the optimizer, the placement state and the lock keep their
\* types, whatever runs and removals overlap.
THEOREM OptimizerTypeCorrect == Spec => []TypeOK
<1>1. OInv => TypeOK
  BY DEF OInv
<1> QED BY <1>1, InitOInv, OInvNext, PTL DEF Spec

\* The lock of update_operator_placement and remove_operator orders the puts
\* like the cache writes: outside of a put, etcd has what the cache has, except
\* for operators one of whose puts was lost.
THEOREM EtcdIsFaithful == Spec => []EtcdFollowsCache
<1>1. OInv => EtcdFollowsCache
  BY DEF OInv
<1> QED BY <1>1, InitOInv, OInvNext, PTL DEF Spec

\* Whoever waits in update_operator_placement or remove_operator is in the line,
\* and whoever is at its head can go on: no put that raises keeps the lock.
THEOREM LockIsPassedOn == Spec => []LockIsHeld
<1>1. OInv => LockIsHeld
  <2> SUFFICES ASSUME OInv PROVE LockIsHeld
    OBVIOUS
  <2>1. TypeOK /\ LineInv
    BY DEF OInv
  <2>2. line \in Seq(Caller) /\ at \in [Caller -> {"idle", "waiting", "putting"}]
    BY <2>1 DEF TypeOK
  <2>3. DOMAIN line = 1 .. Len(line) /\ (line # <<>> => Head(line) = line[1] /\ line[1] \in Caller)
    BY <2>2
  <2>4. line # <<>> => 1 \in 1 .. Len(line)
    BY <2>2
  <2>5. line # <<>> => at[Head(line)] \in {"waiting", "putting"}
    BY <2>1, <2>2, <2>3, <2>4 DEF LineInv
  <2> QED BY <2>1, <2>3, <2>5 DEF LineInv, LockIsHeld
<1> QED BY <1>1, InitOInv, OInvNext, PTL DEF Spec

-----------------------------------------------------------------------------
(* The order of the records.                                                *)

\* The last record in the line for an operator that is being migrated is that
\* of this migration, or a removal.
InOrder(s) ==
  \A o \in Op, i \in 1 .. Len(s) :
    /\ ~At(o, "still")
    /\ write[s[i]][1] = o
    /\ \A j \in 1 .. Len(s) : j > i => write[s[j]][1] # o
    => write[s[i]][2] \in {move[o].dst, NoTier}

RInv == OInv /\ InOrder(line) /\ MoveIsRecorded

\* An update that records a migration just started, or a removal, is the last.
LEMMA UpdateOrder ==
  ASSUME RInv, NEW a \in Caller, at[a] # "waiting", NEW s, Ahead(a, s), InOrder(s),
         NEW o \in Op, NEW t \in Tier \union {NoTier}, Update(a, o, t, s),
         \A p \in Op \ {o} : move'[p] = move[p],
         t = NoTier \/ t = move'[o].dst
  PROVE  InOrder(line)' /\ MoveIsRecorded'
<1>1. s \in Seq(Caller) /\ line' = Append(s, a)
  BY DEF Ahead, Update
<1>2. /\ Len(line') = Len(s) + 1 /\ line'[Len(s) + 1] = a /\ Len(s) \in Nat
      /\ \A i \in 1 .. Len(s) : line'[i] = s[i] /\ s[i] \in Caller /\ s[i] # a
  BY <1>1 DEF Ahead
<1>3. write' = [write EXCEPT ![a] = <<o, t>>] /\ write \in [Caller -> {NoWrite} \union (Op \X (Tier \union {NoTier}))]
  BY DEF Update, RInv, OInv, TypeOK
<1>4. write'[a] = <<o, t>> /\ write'[a][1] = o /\ write'[a][2] = t
      /\ \A b \in Caller \ {a} : write'[b] = write[b]
  BY <1>3
<1>5. \A b \in Caller \ {a} : at'[b] = at[b]
  BY DEF Update, RInv, OInv, TypeOK
<1>6. ASSUME NEW p \in Op, NEW i \in 1 .. Len(line'), ~At(p, "still")', write'[line'[i]][1] = p,
             \A j \in 1 .. Len(line') : j > i => write'[line'[j]][1] # p
      PROVE  write'[line'[i]][2] \in {move'[p].dst, NoTier}
  <2>1. CASE p = o
    <3>1. i = Len(s) + 1
      BY <1>2, <1>4, <1>6, <2>1
    <3> QED BY <1>2, <1>4, <2>1, <3>1
  <2>2. CASE p # o
    <3>1. i \in 1 .. Len(s)
      BY <1>2, <1>4, <1>6, <2>2
    <3>2. ~At(p, "still") /\ move'[p] = move[p]
      BY <1>6, <2>2 DEF At
    <3>3. write[s[i]] = write'[line'[i]]
      BY <1>2, <1>4, <3>1
    <3>4. \A j \in 1 .. Len(s) : j > i => write[s[j]][1] # p
      BY <1>2, <1>4, <1>6
    <3> QED BY <1>6, <3>1, <3>2, <3>3, <3>4 DEF InOrder
  <2> QED BY <2>1, <2>2
<1>7. ASSUME NEW p \in Op, ~At(p, "still")'
      PROVE  cache'[p] \in {move'[p].dst, NoTier} \/ Writing(p, "waiting")'
  <2>1. CASE p = o
    <3>1. CASE s = <<>>
      BY <2>1, <3>1 DEF Update, RInv, OInv, TypeOK
    <3>2. CASE s # <<>>
      <4>1. at'[a] = "waiting"
        BY <3>2 DEF Update, RInv, OInv, TypeOK
      <4> QED BY <1>4, <2>1, <4>1 DEF Writing
    <3> QED BY <3>1, <3>2
  <2>2. CASE p # o
    <3>1. ~At(p, "still") /\ move'[p] = move[p] /\ cache'[p] = cache[p]
      BY <1>7, <2>2 DEF At, Update, RInv, OInv, TypeOK
    <3>2. Writing(p, "waiting") => Writing(p, "waiting")'
      BY <1>4, <1>5 DEF Writing
    <3> QED BY <3>1, <3>2 DEF RInv, MoveIsRecorded
  <2> QED BY <2>1, <2>2
<1> QED BY <1>6, <1>7 DEF InOrder, MoveIsRecorded

LEMMA ProceedOrder ==
  ASSUME RInv, NEW a \in Caller, at[a] # "waiting", NEW s, Ahead(a, s), InOrder(s),
         NEW p \in SUBSET Candidate, Proceed(a, p, s)
  PROVE  InOrder(line)' /\ MoveIsRecorded'
<1> DEFINE busy == {c \in p : ~At(c.op, "still")}
<1>1. ASSUME NEW c \in p \ busy, Begin(c.op, c.src, c.dst), Update(a, c.op, c.dst, s)
      PROVE  InOrder(line)' /\ MoveIsRecorded'
  <2>1. c.op \in Op /\ c.dst \in Tier \union {NoTier}
    BY DEF Candidate
  <2>2. move'[c.op].dst = c.dst /\ \A q \in Op \ {c.op} : move'[q] = move[q]
    BY <1>1, <2>1 DEF Begin, RInv, OInv, TypeOK
  <2> QED BY <1>1, <2>1, <2>2, UpdateOrder
<1>2. ASSUME at' = [at EXCEPT ![a] = "idle"], write' = [write EXCEPT ![a] = NoWrite],
             line' = s, UNCHANGED <<move, cache>>
      PROVE  InOrder(line)' /\ MoveIsRecorded'
  <2>1. s \in Seq(Caller) /\ \A i \in 1 .. Len(s) : s[i] \in Caller \ {a}
    BY DEF Ahead
  <2>2. \A b \in Caller \ {a} : write'[b] = write[b] /\ at'[b] = at[b]
    BY <1>2 DEF RInv, OInv, TypeOK
  <2>3. InOrder(line)'
    BY <1>2, <2>1, <2>2 DEF InOrder, At
  <2>4. \A o \in Op : Writing(o, "waiting") => Writing(o, "waiting")'
    BY <2>2 DEF Writing
  <2>5. MoveIsRecorded'
    BY <1>2, <2>4 DEF RInv, MoveIsRecorded, At
  <2> QED BY <2>3, <2>5
<1>3. \/ \E c \in p \ busy : Begin(c.op, c.src, c.dst) /\ Update(a, c.op, c.dst, s)
      \/ /\ at' = [at EXCEPT ![a] = "idle"]
         /\ write' = [write EXCEPT ![a] = NoWrite]
         /\ line' = s
         /\ UNCHANGED <<move, cache>>
  BY DEF Proceed
<1> QED BY <1>1, <1>2, <1>3

\* The head of the line writes the cache; any other waiter for its operator is
\* behind it.
LEMMA AcquireOrder ==
  ASSUME RInv, NEW a \in Caller, Acquire(a)
  PROVE  InOrder(line)' /\ MoveIsRecorded'
<1> DEFINE o == write[a][1]
           t == write[a][2]
<1>1. write[a] \in Op \X (Tier \union {NoTier}) /\ o \in Op /\ t \in Tier \union {NoTier}
  BY DEF RInv, OInv, WriteInv, Acquire
<1>2. line \in Seq(Caller) /\ line # <<>> /\ line[1] = a
  <2>1. line \in Seq(Caller)
    BY DEF RInv, OInv, TypeOK
  <2>2. \E i \in 1 .. Len(line) : line[i] = a
    BY DEF RInv, OInv, LineInv, Acquire
  <2> QED BY <2>1, <2>2 DEF Acquire
<1>3. \A b \in Caller \ {a} : at'[b] = at[b]
  BY DEF RInv, OInv, TypeOK, Acquire
<1>4. InOrder(line)'
  BY DEF RInv, InOrder, At, Acquire
<1>5. ASSUME NEW p \in Op, ~At(p, "still")'
      PROVE  cache'[p] \in {move'[p].dst, NoTier} \/ Writing(p, "waiting")'
  <2>1. ~At(p, "still") /\ move' = move /\ write' = write
    BY <1>5 DEF At, Acquire
  <2>2. CASE p # o
    <3>1. cache'[p] = cache[p]
      BY <1>1, <2>2 DEF RInv, OInv, TypeOK, Acquire
    <3>2. Writing(p, "waiting") => Writing(p, "waiting")'
      BY <1>3, <2>1, <2>2 DEF Writing
    <3> QED BY <2>1, <3>1, <3>2 DEF RInv, MoveIsRecorded
  <2>3. CASE p = o
    <3>1. cache'[o] = t
      BY <1>1 DEF RInv, OInv, TypeOK, Acquire
    <3>2. CASE \E j \in 1 .. Len(line) : j > 1 /\ write[line[j]][1] = o
      <4>1. PICK j \in 1 .. Len(line) : j > 1 /\ write[line[j]][1] = o
        BY <3>2
      <4>2. line[j] \in Caller /\ line[j] # a
        BY <1>2, <4>1 DEF RInv, OInv, LineInv
      <4>3. at[line[j]] # "idle" /\ at[line[j]] # "putting"
        BY <1>2, <4>2 DEF RInv, OInv, LineInv
      <4>4. at'[line[j]] = "waiting" /\ write'[line[j]][1] = p
        BY <1>3, <2>1, <2>3, <4>1, <4>2, <4>3 DEF RInv, OInv, TypeOK
      <4> QED BY <4>2, <4>4 DEF Writing
    <3>3. CASE \A j \in 1 .. Len(line) : j > 1 => write[line[j]][1] # o
      <4>1. 1 \in 1 .. Len(line)
        BY <1>2
      <4>2. t \in {move[o].dst, NoTier}
        BY <1>1, <1>2, <2>1, <2>3, <3>3, <4>1 DEF RInv, InOrder
      <4> QED BY <2>1, <2>3, <3>1, <4>2
    <3> QED BY <3>2, <3>3
  <2> QED BY <2>2, <2>3
<1> QED BY <1>4, <1>5 DEF MoveIsRecorded

LEMMA PutOrder ==
  ASSUME RInv, NEW a \in Caller, PutReturns(a)
  PROVE  InOrder(line)' /\ MoveIsRecorded'
<1>1. line \in Seq(Caller) /\ line # <<>> /\ line[1] = a
  BY DEF RInv, OInv, TypeOK, LineInv, PutReturns
<1>2. /\ Tail(line) \in Seq(Caller) /\ Len(Tail(line)) = Len(line) - 1
      /\ \A i \in 1 .. Len(line) - 1 : Tail(line)[i] = line[i + 1]
      /\ Len(line) \in Nat
  BY <1>1
<1>3. InOrder(Tail(line))
  <2>1. ASSUME NEW p \in Op, NEW i \in 1 .. Len(Tail(line)), ~At(p, "still"),
               write[Tail(line)[i]][1] = p,
               \A j \in 1 .. Len(Tail(line)) : j > i => write[Tail(line)[j]][1] # p
        PROVE  write[Tail(line)[i]][2] \in {move[p].dst, NoTier}
    <3>1. i + 1 \in 1 .. Len(line) /\ line[i + 1] = Tail(line)[i]
      BY <1>2
    <3>2. ASSUME NEW j \in 1 .. Len(line), j > i + 1
          PROVE  write[line[j]][1] # p
      <4>1. j - 1 \in 1 .. Len(Tail(line)) /\ j - 1 > i /\ (j - 1) + 1 = j
        BY <1>2, <3>2
      <4>2. Tail(line)[j - 1] = line[j]
        BY <1>2, <4>1
      <4> QED BY <2>1, <4>1, <4>2
    <3> QED BY <2>1, <3>1, <3>2 DEF RInv, InOrder
  <2> QED BY <2>1 DEF InOrder
<1>4. Ahead(a, Tail(line))
  BY AheadOfTail DEF RInv, PutReturns
<1>5. plan[a] \in SUBSET Candidate /\ Proceed(a, plan[a], Tail(line)) /\ at[a] # "waiting"
  BY DEF RInv, OInv, TypeOK, PutReturns
<1> QED BY <1>3, <1>4, <1>5, ProceedOrder

\* Migrations keep their target as long as they last.
LEMMA MovesOrder ==
  ASSUME RInv, \/ \E o \in Op : MoveOn(o)
               \/ \E r \in stray : ServeLate(r)
               \/ Restart
  PROVE  InOrder(line)' /\ MoveIsRecorded'
<1>1. CASE Restart
  <2>1. \A o \in Op : At(o, "still")'
    BY <1>1 DEF Restart, Finish, At, Still
  <2> QED BY <2>1 DEF InOrder, MoveIsRecorded
<1>2. ASSUME NEW o \in Op, MoveOn(o)
      PROVE  InOrder(line)' /\ MoveIsRecorded'
  <2>1. \A p \in Op : ~At(p, "still")' => ~At(p, "still") /\ move'[p].dst = move[p].dst
    <3>1. move \in [Op -> Move \union {Still}] /\ \A p \in Op : move[p] \in Move \/ move[p] = Still
      BY DEF RInv, OInv, TypeOK
    <3>2. CASE Copy(o) \/ Settle(o) \/ Refuse(o)
      <4>1. move[o] \in Move
        BY <3>1, <3>2 DEF Copy, Settle, Refuse, At, Still
      <4>2. [move[o] EXCEPT !.stage = "copied"].dst = move[o].dst
            /\ [move[o] EXCEPT !.stage = "settled"].dst = move[o].dst
        BY <4>1 DEF Move
      <4>3. move'[o].dst = move[o].dst /\ \A p \in Op \ {o} : move'[p] = move[p]
        BY <3>1, <3>2, <4>2 DEF Copy, Settle, Refuse
      <4>4. ~At(o, "still")
        BY <3>2 DEF Copy, Settle, Refuse, At
      <4> QED BY <4>3, <4>4 DEF At
    <3>3. CASE Finish({o})
      BY <3>3 DEF Finish, At, Still
    <3> QED BY <1>2, <3>2, <3>3 DEF MoveOn
  <2>2. UNCHANGED <<cache, line, at, write>>
    BY <1>2 DEF MoveOn
  <2>3. InOrder(line)'
    BY <2>1, <2>2 DEF RInv, InOrder
  <2>4. MoveIsRecorded'
    BY <2>1, <2>2 DEF RInv, MoveIsRecorded, Writing
  <2> QED BY <2>3, <2>4
<1>3. CASE \E r \in stray : ServeLate(r)
  BY <1>3 DEF ServeLate, RInv, InOrder, MoveIsRecorded, Writing, At
<1> QED BY <1>1, <1>2, <1>3

LEMMA RInvNext == RInv /\ [Next]_vars => RInv'
<1> SUFFICES ASSUME RInv, [Next]_vars PROVE InOrder(line)' /\ MoveIsRecorded'
  BY OInvNext DEF RInv
<1>1. ASSUME NEW a \in Caller, RunOptimization(a) PROVE InOrder(line)' /\ MoveIsRecorded'
  <2>1. PICK p \in Plans : Proceed(a, p, line)
    BY <1>1 DEF RunOptimization
  <2>2. p \in SUBSET Candidate /\ at[a] # "waiting"
    BY <1>1 DEF Plans, RunOptimization
  <2>3. Ahead(a, line)
    BY <1>1, IdleStarts DEF RInv, RunOptimization
  <2> QED BY <2>1, <2>2, <2>3, ProceedOrder DEF RInv
<1>2. ASSUME NEW a \in Caller, NEW o \in Op, RemoveOperator(a, o)
      PROVE  InOrder(line)' /\ MoveIsRecorded'
  <2>1. Ahead(a, line) /\ at[a] # "waiting"
    BY <1>2, IdleStarts DEF RInv, RemoveOperator
  <2>2. Update(a, o, NoTier, line) /\ move' = move /\ NoTier \in Tier \union {NoTier}
    BY <1>2 DEF RemoveOperator
  <2> QED BY <2>1, <2>2, UpdateOrder DEF RInv
<1>3. ASSUME NEW a \in Caller, Acquire(a) PROVE InOrder(line)' /\ MoveIsRecorded'
  BY <1>3, AcquireOrder
<1>4. ASSUME NEW a \in Caller, PutReturns(a) PROVE InOrder(line)' /\ MoveIsRecorded'
  BY <1>4, PutOrder
<1>5. ASSUME (\E o \in Op : MoveOn(o)) \/ (\E r \in stray : ServeLate(r)) \/ Restart
      PROVE  InOrder(line)' /\ MoveIsRecorded'
  BY <1>5, MovesOrder
<1>6. CASE UNCHANGED vars
  BY <1>6 DEF vars, RInv, InOrder, MoveIsRecorded, Writing, At
<1> QED BY <1>1, <1>2, <1>3, <1>4, <1>5, <1>6 DEF Next

\* While _run_optimization moves an operator, the placement cache names the
\* target of that migration, unless its record still waits for the lock or the
\* operator was removed: a record of an earlier migration never comes last.
THEOREM RecordsInOrder == Spec => []MoveIsRecorded
<1>1. Init => RInv
  BY InitOInv DEF Init, HandoverInit, RInv, InOrder, MoveIsRecorded, At, Still
<1>2. RInv => MoveIsRecorded
  BY DEF RInv
<1> QED BY <1>1, <1>2, RInvNext, PTL DEF Spec

-----------------------------------------------------------------------------
(* The truth of the records.                                                *)

\* A move has two sides, and once it has copied the operator the target has it,
\* unless it is excused.
MovesInv ==
  \A o \in Op : ~At(o, "still") =>
    /\ move[o].src # move[o].dst
    /\ At(o, "copying") \/ o \in excused \/ move[o].dst \in hosts[o]

\* The last record in the line for an operator that is not being migrated is
\* true, or a removal, or excused.
Sound(s) ==
  \A o \in Op \ excused, i \in 1 .. Len(s) :
    /\ At(o, "still")
    /\ write[s[i]][1] = o
    /\ \A j \in 1 .. Len(s) : j > i => write[s[j]][1] # o
    => write[s[i]][2] \in hosts[o] \union {NoTier}

Truth == MovesInv /\ Sound(line) /\ PlacementExplained
TInv  == RInv /\ Truth

LEMMA BeginMoves ==
  ASSUME TypeOK, MovesInv, NEW o \in Op, NEW s \in Tier, NEW d \in Tier, Begin(o, s, d),
         excused \subseteq excused'
  PROVE  MovesInv' /\ ~At(o, "still")' /\ hosts' = hosts /\ \A q \in Op \ {o} : move'[q] = move[q]
BY DEF TypeOK, MovesInv, Begin, At

\* A new record comes last: it is a removal, or of a migration that now runs.
LEMMA UpdateTruth ==
  ASSUME TInv, NEW a \in Caller, at[a] # "waiting", NEW s, Ahead(a, s), Sound(s),
         NEW o \in Op, NEW t \in Tier \union {NoTier}, Update(a, o, t, s),
         hosts' = hosts, excused \subseteq excused', MovesInv',
         \A p \in Op \ {o} : move'[p] = move[p],
         t = NoTier \/ ~At(o, "still")'
  PROVE  Truth'
<1>1. s \in Seq(Caller) /\ line' = Append(s, a)
  BY DEF Ahead, Update
<1>2. /\ Len(line') = Len(s) + 1 /\ line'[Len(s) + 1] = a /\ Len(s) \in Nat
      /\ \A i \in 1 .. Len(s) : line'[i] = s[i] /\ s[i] \in Caller /\ s[i] # a
  BY <1>1 DEF Ahead
<1>3. write'[a] = <<o, t>> /\ write'[a][1] = o /\ write'[a][2] = t
      /\ \A b \in Caller \ {a} : write'[b] = write[b] /\ at'[b] = at[b]
  BY DEF Update, TInv, RInv, OInv, TypeOK
<1>4. ASSUME NEW p \in Op \ excused', NEW i \in 1 .. Len(line'), At(p, "still")', write'[line'[i]][1] = p,
             \A j \in 1 .. Len(line') : j > i => write'[line'[j]][1] # p
      PROVE  write'[line'[i]][2] \in hosts'[p] \union {NoTier}
  <2>1. CASE p = o
    <3>1. i = Len(s) + 1
      BY <1>2, <1>3, <1>4, <2>1
    <3> QED BY <1>2, <1>3, <1>4, <2>1, <3>1
  <2>2. CASE p # o
    <3>1. i \in 1 .. Len(s)
      BY <1>2, <1>3, <1>4, <2>2
    <3>2. At(p, "still") /\ p \in Op \ excused
      BY <1>4, <2>2 DEF At
    <3>3. write[s[i]] = write'[line'[i]]
      BY <1>2, <1>3, <3>1
    <3>4. \A j \in 1 .. Len(s) : j > i => write[s[j]][1] # p
      BY <1>2, <1>3, <1>4
    <3> QED BY <1>4, <3>1, <3>2, <3>3, <3>4 DEF Sound
  <2> QED BY <2>1, <2>2
<1>5. ASSUME NEW p \in Op \ excused' PROVE RecordIsTrue(p)'
  <2>1. CASE p = o
    <3>1. CASE s = <<>>
      BY <2>1, <3>1 DEF Update, RecordIsTrue, TInv, RInv, OInv, TypeOK
    <3>2. CASE s # <<>>
      <4>1. at'[a] = "waiting"
        BY <3>2 DEF Update, TInv, RInv, OInv, TypeOK
      <4> QED BY <1>3, <2>1, <4>1 DEF Writing, RecordIsTrue
    <3> QED BY <3>1, <3>2
  <2>2. CASE p # o
    <3>1. move'[p] = move[p] /\ cache'[p] = cache[p] /\ p \in Op \ excused
      BY <2>2 DEF Update, TInv, RInv, OInv, TypeOK
    <3>2. Writing(p, "waiting") => Writing(p, "waiting")'
      BY <1>3 DEF Writing
    <3> QED BY <3>1, <3>2 DEF TInv, Truth, PlacementExplained, RecordIsTrue, At
  <2> QED BY <2>1, <2>2
<1> QED BY <1>4, <1>5 DEF Truth, Sound, PlacementExplained

LEMMA ProceedTruth ==
  ASSUME TInv, NEW a \in Caller, at[a] # "waiting", NEW s, Ahead(a, s), Sound(s),
         NEW p \in SUBSET Candidate, Proceed(a, p, s), excused \subseteq excused'
  PROVE  Truth'
<1> DEFINE busy == {c \in p : ~At(c.op, "still")}
<1>1. ASSUME NEW c \in p \ busy, Begin(c.op, c.src, c.dst), Update(a, c.op, c.dst, s)
      PROVE  Truth'
  <2>1. c.op \in Op /\ c.src \in Tier /\ c.dst \in Tier
    BY DEF Candidate
  <2>2. /\ MovesInv' /\ ~At(c.op, "still")' /\ hosts' = hosts
        /\ \A q \in Op \ {c.op} : move'[q] = move[q]
    BY <1>1, <2>1, BeginMoves DEF TInv, RInv, OInv, Truth
  <2> QED BY <1>1, <2>1, <2>2, UpdateTruth
<1>2. ASSUME at' = [at EXCEPT ![a] = "idle"], write' = [write EXCEPT ![a] = NoWrite],
             line' = s, UNCHANGED <<hosts, move, cache>>
      PROVE  Truth'
  <2>1. s \in Seq(Caller) /\ \A i \in 1 .. Len(s) : s[i] \in Caller \ {a}
    BY DEF Ahead
  <2>2. \A b \in Caller \ {a} : write'[b] = write[b] /\ at'[b] = at[b]
    BY <1>2 DEF TInv, RInv, OInv, TypeOK
  <2>3. Sound(line)'
    BY <1>2, <2>1, <2>2 DEF Sound, At
  <2>4. \A o \in Op : Writing(o, "waiting") => Writing(o, "waiting")'
    BY <2>2 DEF Writing
  <2>5. PlacementExplained'
    BY <1>2, <2>4 DEF TInv, Truth, PlacementExplained, RecordIsTrue, At
  <2>6. MovesInv'
    BY <1>2 DEF TInv, Truth, MovesInv, At
  <2> QED BY <2>3, <2>5, <2>6 DEF Truth
<1>3. \/ \E c \in p \ busy : Begin(c.op, c.src, c.dst) /\ Update(a, c.op, c.dst, s)
      \/ /\ at' = [at EXCEPT ![a] = "idle"]
         /\ write' = [write EXCEPT ![a] = NoWrite]
         /\ line' = s
         /\ UNCHANGED <<hosts, move, cache>>
  BY DEF Proceed
<1> QED BY <1>1, <1>2, <1>3

LEMMA AcquireTruth ==
  ASSUME TInv, NEW a \in Caller, Acquire(a)
  PROVE  Truth'
<1> DEFINE o == write[a][1]
           t == write[a][2]
<1>1. write[a] \in Op \X (Tier \union {NoTier}) /\ o \in Op /\ t \in Tier \union {NoTier}
  BY DEF TInv, RInv, OInv, WriteInv, Acquire
<1>2. line \in Seq(Caller) /\ line # <<>> /\ line[1] = a
  <2>1. line \in Seq(Caller)
    BY DEF TInv, RInv, OInv, TypeOK
  <2>2. \E i \in 1 .. Len(line) : line[i] = a
    BY DEF TInv, RInv, OInv, LineInv, Acquire
  <2> QED BY <2>1, <2>2 DEF Acquire
<1>3. /\ \A b \in Caller \ {a} : at'[b] = at[b]
      /\ UNCHANGED <<hosts, move, line, write, excused>>
  BY DEF TInv, RInv, OInv, TypeOK, Acquire
<1>4. Sound(line)' /\ MovesInv'
  BY <1>3 DEF TInv, Truth, Sound, MovesInv, At
<1>5. ASSUME NEW p \in Op \ excused PROVE RecordIsTrue(p)'
  <2>1. CASE p # o
    <3>1. cache'[p] = cache[p]
      BY <1>1, <2>1 DEF TInv, RInv, OInv, TypeOK, Acquire
    <3>2. Writing(p, "waiting") => Writing(p, "waiting")'
      BY <1>3, <2>1 DEF Writing
    <3> QED BY <1>3, <3>1, <3>2 DEF TInv, Truth, PlacementExplained, RecordIsTrue, At
  <2>2. CASE p = o
    <3>1. cache'[p] = t
      BY <1>1, <2>2 DEF TInv, RInv, OInv, TypeOK, Acquire
    <3>2. CASE \E j \in 1 .. Len(line) : j > 1 /\ write[line[j]][1] = p
      <4>1. PICK j \in 1 .. Len(line) : j > 1 /\ write[line[j]][1] = p
        BY <3>2
      <4>2. line[j] \in Caller /\ line[j] # a
        BY <1>2, <4>1 DEF TInv, RInv, OInv, LineInv
      <4>3. at[line[j]] # "idle" /\ at[line[j]] # "putting"
        BY <1>2, <4>2 DEF TInv, RInv, OInv, LineInv
      <4>4. at'[line[j]] = "waiting" /\ write'[line[j]][1] = p
        BY <1>3, <4>1, <4>2, <4>3 DEF TInv, RInv, OInv, TypeOK
      <4> QED BY <4>2, <4>4 DEF Writing, RecordIsTrue
    <3>3. CASE \A j \in 1 .. Len(line) : j > 1 => write[line[j]][1] # p
      <4>1. 1 \in 1 .. Len(line)
        BY <1>2
      <4>2. At(p, "still") => t \in hosts[p] \union {NoTier}
        BY <1>2, <2>2, <3>3, <4>1 DEF TInv, Truth, Sound
      <4> QED BY <1>3, <3>1, <4>2 DEF RecordIsTrue, At
    <3> QED BY <3>2, <3>3
  <2> QED BY <2>1, <2>2
<1> QED BY <1>3, <1>4, <1>5 DEF Truth, PlacementExplained

LEMMA PutTruth ==
  ASSUME TInv, NEW a \in Caller, PutReturns(a)
  PROVE  Truth'
<1>1. line \in Seq(Caller) /\ line # <<>> /\ line[1] = a
  BY DEF TInv, RInv, OInv, TypeOK, LineInv, PutReturns
<1>2. /\ Tail(line) \in Seq(Caller) /\ Len(Tail(line)) = Len(line) - 1
      /\ \A i \in 1 .. Len(line) - 1 : Tail(line)[i] = line[i + 1]
      /\ Len(line) \in Nat
  BY <1>1
<1>3. Sound(Tail(line))
  <2>1. ASSUME NEW p \in Op \ excused, NEW i \in 1 .. Len(Tail(line)), At(p, "still"),
               write[Tail(line)[i]][1] = p,
               \A j \in 1 .. Len(Tail(line)) : j > i => write[Tail(line)[j]][1] # p
        PROVE  write[Tail(line)[i]][2] \in hosts[p] \union {NoTier}
    <3>1. i + 1 \in 1 .. Len(line) /\ line[i + 1] = Tail(line)[i]
      BY <1>2
    <3>2. ASSUME NEW j \in 1 .. Len(line), j > i + 1
          PROVE  write[line[j]][1] # p
      <4>1. j - 1 \in 1 .. Len(Tail(line)) /\ j - 1 > i /\ (j - 1) + 1 = j
        BY <1>2, <3>2
      <4>2. Tail(line)[j - 1] = line[j]
        BY <1>2, <4>1
      <4> QED BY <2>1, <4>1, <4>2
    <3> QED BY <2>1, <3>1, <3>2 DEF TInv, Truth, Sound
  <2> QED BY <2>1 DEF Sound
<1>4. Ahead(a, Tail(line))
  BY AheadOfTail DEF TInv, RInv, PutReturns
<1>5. /\ plan[a] \in SUBSET Candidate /\ Proceed(a, plan[a], Tail(line)) /\ at[a] # "waiting"
      /\ excused \subseteq excused'
  BY DEF TInv, RInv, OInv, TypeOK, PutReturns
<1> QED BY <1>3, <1>4, <1>5, ProceedTruth

\* A step of a migration: the others are left alone, and what the migration has
\* reached stays true.
LEMMA MoveOnTruth ==
  ASSUME TInv, NEW o \in Op, MoveOn(o)
  PROVE  Truth'
<1>0. /\ hosts \in [Op -> SUBSET Tier] /\ move \in [Op -> Move \union {Still}]
      /\ \A p \in Op : move[p] \in Move \/ move[p] = Still
  BY DEF TInv, RInv, OInv, TypeOK
<1>1. UNCHANGED <<cache, line, at, write>> /\ excused \subseteq excused'
  BY DEF MoveOn
<1>2. \A p \in Op \ {o} : move'[p] = move[p] /\ hosts'[p] = hosts[p]
  BY <1>0 DEF MoveOn, Copy, Settle, Refuse, Finish
<1>3. ~At(o, "still") /\ move[o] \in Move
  BY <1>0 DEF MoveOn, Copy, Settle, Refuse, Finish, At, Still
<1>4. CASE Copy(o) \/ Settle(o) \/ (Refuse(o) /\ o \in excused')
  <2>1. /\ [move[o] EXCEPT !.stage = "copied"].stage = "copied"
        /\ [move[o] EXCEPT !.stage = "copied"].dst = move[o].dst
        /\ [move[o] EXCEPT !.stage = "copied"].src = move[o].src
        /\ [move[o] EXCEPT !.stage = "settled"].stage = "settled"
        /\ [move[o] EXCEPT !.stage = "settled"].dst = move[o].dst
        /\ [move[o] EXCEPT !.stage = "settled"].src = move[o].src
        /\ move[o].src \in Tier /\ move[o].dst \in Tier
    BY <1>3 DEF Move
  <2>2. /\ ~At(o, "still")' /\ move'[o].src = move[o].src /\ move'[o].dst = move[o].dst
    BY <1>0, <1>4, <2>1 DEF Copy, Settle, Refuse, At
  <2>3. move[o].src # move[o].dst
    BY <1>3 DEF TInv, Truth, MovesInv
  <2>4. o \in excused' \/ move[o].dst \in hosts'[o]
    <3>1. CASE Copy(o)
      BY <1>0, <3>1 DEF Copy
    <3>2. CASE Settle(o)
      <4>1. o \in excused \/ move[o].dst \in hosts[o]
        BY <3>2 DEF TInv, Truth, MovesInv, Settle, At
      <4> QED BY <1>0, <1>1, <2>3, <3>2, <4>1 DEF Settle
    <3>3. CASE o \in excused'
      BY <3>3
    <3> QED BY <1>4, <3>1, <3>2, <3>3
  <2>5. MovesInv'
    BY <1>1, <1>2, <2>2, <2>3, <2>4 DEF TInv, Truth, MovesInv, At
  <2>6. Sound(line)'
    BY <1>1, <1>2, <2>2 DEF TInv, Truth, Sound, At
  <2>7. PlacementExplained'
    BY <1>1, <1>2, <2>2 DEF TInv, Truth, PlacementExplained, RecordIsTrue, Writing, At
  <2> QED BY <2>5, <2>6, <2>7 DEF Truth
<1>5. CASE Finish({o}) /\ (At(o, "copying") => o \in excused')
  <2>1. At(o, "still")' /\ hosts' = hosts
    BY <1>5 DEF Finish, At, Still
  <2>2. o \notin excused' => move[o].dst \in hosts[o]
    BY <1>1, <1>3, <1>5 DEF TInv, Truth, MovesInv
  <2>3. MovesInv'
    BY <1>1, <1>2, <2>1 DEF TInv, Truth, MovesInv, At
  <2>4. Sound(line)'
    <3>1. ASSUME NEW p \in Op \ excused', NEW i \in 1 .. Len(line), At(p, "still")', write[line[i]][1] = p,
                 \A j \in 1 .. Len(line) : j > i => write[line[j]][1] # p
          PROVE  write[line[i]][2] \in hosts'[p] \union {NoTier}
      <4>1. CASE p = o
        <5>1. write[line[i]][2] \in {move[o].dst, NoTier}
          BY <1>3, <3>1, <4>1 DEF TInv, RInv, InOrder
        <5> QED BY <2>1, <2>2, <3>1, <4>1, <5>1
      <4>2. CASE p # o
        <5>1. At(p, "still") /\ p \in Op \ excused
          BY <1>1, <1>2, <3>1, <4>2 DEF At
        <5> QED BY <2>1, <3>1, <5>1 DEF TInv, Truth, Sound
      <4> QED BY <4>1, <4>2
    <3> QED BY <1>1, <3>1 DEF Sound
  <2>5. ASSUME NEW p \in Op \ excused' PROVE RecordIsTrue(p)'
    <3>1. CASE p = o
      <4>1. cache[o] \in {move[o].dst, NoTier} \/ Writing(o, "waiting")
        BY <1>3 DEF TInv, RInv, MoveIsRecorded
      <4>2. Writing(o, "waiting") => Writing(o, "waiting")'
        BY <1>1 DEF Writing
      <4> QED BY <1>1, <2>1, <2>2, <2>5, <3>1, <4>1, <4>2 DEF RecordIsTrue
    <3>2. CASE p # o
      <4>1. Writing(p, "waiting") => Writing(p, "waiting")'
        BY <1>1 DEF Writing
      <4> QED BY <1>1, <1>2, <2>5, <3>2, <4>1 DEF TInv, Truth, PlacementExplained, RecordIsTrue, At
    <3> QED BY <3>1, <3>2
  <2> QED BY <2>3, <2>4, <2>5 DEF Truth, PlacementExplained
<1>6. \/ Copy(o) \/ Settle(o) \/ (Refuse(o) /\ o \in excused')
      \/ Finish({o}) /\ (At(o, "copying") => o \in excused')
  BY DEF MoveOn
<1> QED BY <1>4, <1>5, <1>6

\* A request that is executed late changes where one operator runs: a restore
\* adds a tier, and a terminate is an excuse.
LEMMA LateTruth ==
  ASSUME TInv, NEW r \in stray, ServeLate(r)
  PROVE  Truth'
<1>1. r.op \in Op /\ hosts \in [Op -> SUBSET Tier]
  BY DEF TInv, RInv, OInv, TypeOK, Request
<1>2. UNCHANGED <<move, cache, line, at, write>> /\ excused \subseteq excused'
  BY DEF ServeLate
<1>3. \A p \in Op \ excused' : hosts[p] \subseteq hosts'[p]
  BY <1>1 DEF ServeLate
<1>4. MovesInv'
  BY <1>2, <1>3 DEF TInv, Truth, MovesInv, At
<1>5. Sound(line)'
  BY <1>2, <1>3 DEF TInv, Truth, Sound, At
<1>6. PlacementExplained'
  BY <1>2, <1>3 DEF TInv, Truth, PlacementExplained, RecordIsTrue, Writing, At
<1> QED BY <1>4, <1>5, <1>6 DEF Truth

\* The next process keeps the record of an operator only if etcd had the last
\* one and no other was waiting.
LEMMA RestartTruth ==
  ASSUME TInv, Restart
  PROVE  Truth'
<1>1. /\ \A o \in Op : At(o, "still")'
      /\ hosts' = hosts /\ cache' = etcd /\ line' = <<>>
      /\ at' = [a \in Caller |-> "idle"]
  BY DEF Restart, Finish, At, Still
<1>2. ASSUME NEW p \in Op \ excused' PROVE RecordIsTrue(p)'
  <2>1. p \notin excused /\ ~At(p, "copying") /\ cache[p] = etcd[p] /\ ~Writing(p, "waiting")
    BY <1>2 DEF Restart, Writing
  <2>2. CASE At(p, "still")
    BY <1>1, <1>2, <2>1, <2>2 DEF TInv, Truth, PlacementExplained, RecordIsTrue
  <2>3. CASE ~At(p, "still")
    <3>1. cache[p] \in {move[p].dst, NoTier} /\ move[p].dst \in hosts[p]
      BY <1>2, <2>1, <2>3 DEF TInv, RInv, MoveIsRecorded, Truth, MovesInv
    <3> QED BY <1>1, <2>1, <3>1 DEF RecordIsTrue
  <2> QED BY <2>2, <2>3
<1>3. MovesInv' /\ Sound(line)'
  BY <1>1 DEF MovesInv, Sound
<1> QED BY <1>2, <1>3 DEF Truth, PlacementExplained

LEMMA TInvNext == TInv /\ [Next]_vars => TInv'
<1> SUFFICES ASSUME TInv, [Next]_vars PROVE Truth'
  BY RInvNext DEF TInv
<1>1. ASSUME NEW a \in Caller, RunOptimization(a) PROVE Truth'
  <2>1. PICK p \in Plans : Proceed(a, p, line)
    BY <1>1 DEF RunOptimization
  <2>2. p \in SUBSET Candidate /\ at[a] # "waiting" /\ excused \subseteq excused'
    BY <1>1 DEF Plans, RunOptimization
  <2>3. Ahead(a, line) /\ Sound(line)
    BY <1>1, IdleStarts DEF TInv, RInv, Truth, RunOptimization
  <2> QED BY <2>1, <2>2, <2>3, ProceedTruth
<1>2. ASSUME NEW a \in Caller, NEW o \in Op, RemoveOperator(a, o) PROVE Truth'
  <2>1. Ahead(a, line) /\ Sound(line) /\ at[a] # "waiting"
    BY <1>2, IdleStarts DEF TInv, RInv, Truth, RemoveOperator
  <2>2. /\ Update(a, o, NoTier, line) /\ NoTier \in Tier \union {NoTier}
        /\ move' = move /\ hosts' = hosts /\ excused' = excused
    BY <1>2 DEF RemoveOperator
  <2>3. MovesInv'
    BY <2>2 DEF TInv, Truth, MovesInv, At
  <2> QED BY <2>1, <2>2, <2>3, UpdateTruth
<1>3. ASSUME NEW a \in Caller, Acquire(a) PROVE Truth'
  BY <1>3, AcquireTruth
<1>4. ASSUME NEW a \in Caller, PutReturns(a) PROVE Truth'
  BY <1>4, PutTruth
<1>5. ASSUME NEW o \in Op, MoveOn(o) PROVE Truth'
  BY <1>5, MoveOnTruth
<1>6. CASE Restart
  BY <1>6, RestartTruth
<1>8. ASSUME NEW r \in stray, ServeLate(r) PROVE Truth'
  BY <1>8, LateTruth
<1>7. CASE UNCHANGED vars
  BY <1>7 DEF vars, TInv, Truth, MovesInv, Sound, PlacementExplained, RecordIsTrue, Writing, At
<1> QED BY <1>1, <1>2, <1>3, <1>4, <1>5, <1>6, <1>7, <1>8 DEF Next

\* The tier that _run_optimization and update_operator_placement leave recorded
\* for an operator at rest runs it, unless a move of it was given up before the
\* target had it or a put was lost: overlapping runs, stale plans, removals and
\* restarts do not falsify a record.
THEOREM RecordsAreTrue == Spec => []PlacementExplained
<1>1. Init => TInv
  <2> SUFFICES ASSUME Init PROVE TInv
    OBVIOUS
  <2>1. OInv /\ line = <<>> /\ \A o \in Op : At(o, "still") /\ cache[o] \in hosts[o]
    BY InitOInv DEF Init, HandoverInit, At, Still
  <2> QED BY <2>1 DEF TInv, RInv, InOrder, MoveIsRecorded, Truth, MovesInv, Sound,
                      PlacementExplained, RecordIsTrue
<1>2. TInv => PlacementExplained
  BY DEF TInv, Truth
<1> QED BY <1>1, <1>2, TInvNext, PTL DEF Spec
=============================================================================
