------------------------ MODULE LeaderElection_proofs ------------------------
(* Proofs about LeaderElection, for every number of instances and leases and  *)
(* every time to live.                                                        *)
EXTENDS LeaderElection, TLAPS

\* What keeps a lease alive, and with it the key that may be attached to it: the
\* lease that a refreshing leader stored has at least the time left that the
\* sleeping refresh still needs.
HoldsLease(i) ==
  /\ flag[i]
  /\ mine[i] # NoLease
  /\ ttl[mine[i]] >= TTL - slept[i]

Holding   == \A i \in Instance : task[i] = "running" => HoldsLease(i)
OwnLeases == \A i, j \in Instance : (i # j /\ mine[i] = mine[j]) => mine[i] = NoLease
LInv == TypeOK /\ Holding /\ OwnLeases

LEMMA IntervalIsNat == Interval \in Nat
BY ElectionAssumption DEF Interval

LEMMA LInvInit == Init => LInv
BY IntervalIsNat, ElectionAssumption DEF Init, LInv, TypeOK, Holding, OwnLeases, NoLease

\* Starting an election leaves the leases of the others alone.
LEMMA StartKeeps ==
  ASSUME LInv, NEW i \in Instance, StartElection(i)
  PROVE  LInv'
<1> USE ElectionAssumption, IntervalIsNat DEF LInv
<1>1. PICK l \in Lease :
        /\ ~flag[i] /\ Fresh(l)
        /\ mine' = [mine EXCEPT ![i] = l]
        /\ ttl' = [ttl EXCEPT ![l] = TTL]
        /\ key' \in {key, l}
        /\ \/ /\ flag' = [flag EXCEPT ![i] = TRUE]
              /\ task' = [task EXCEPT ![i] = "running"]
              /\ slept' = [slept EXCEPT ![i] = 0]
           \/ UNCHANGED <<flag, task, slept>>
  BY DEF StartElection, Claim, Elect
<1>2. TypeOK'
  <2>1. mine' \in [Instance -> Lease \union {NoLease}] /\ key' \in Lease \union {NoLease}
    BY <1>1 DEF TypeOK
  <2>2. ttl' \in [Lease -> 0 .. TTL] /\ slept' \in [Instance -> 0 .. Interval + Lag]
    BY <1>1 DEF TypeOK
  <2>3. flag' \in [Instance -> BOOLEAN]
    BY <1>1 DEF TypeOK
  <2>4. task' \in [Instance -> {"none", "running", "raised"}]
    BY <1>1 DEF TypeOK
  <2> QED BY <2>1, <2>2, <2>3, <2>4 DEF TypeOK
<1>3. OwnLeases'
  BY <1>1 DEF TypeOK, OwnLeases, Fresh
<1>4. ASSUME NEW j \in Instance, j # i, task'[j] = "running"
      PROVE  HoldsLease(j)'
  <2>1. task[j] = "running" /\ HoldsLease(j)
    BY <1>1, <1>4 DEF TypeOK, Holding
  <2>3. flag'[j] = flag[j] /\ mine'[j] = mine[j] /\ slept'[j] = slept[j]
    BY <1>1, <1>4 DEF TypeOK
  <2>4. ttl'[mine[j]] = ttl[mine[j]]
    BY <1>1, <2>1 DEF TypeOK, Fresh, HoldsLease
  <2> QED BY <2>1, <2>3, <2>4 DEF HoldsLease
<1>5. ASSUME task'[i] = "running"
      PROVE  HoldsLease(i)'
  <2>1. task[i] # "running"
    BY <1>1 DEF Holding, HoldsLease
  <2>2. flag'[i] /\ slept'[i] = 0 /\ mine'[i] = l /\ ttl'[l] = TTL
    BY <1>1, <1>5, <2>1 DEF TypeOK
  <2> QED BY <2>2 DEF HoldsLease
<1> QED BY <1>2, <1>3, <1>4, <1>5 DEF Holding

\* A timely refresh finds its lease alive and renews it.
LEMMA RefreshKeeps ==
  ASSUME LInv, Timely, NEW i \in Instance, Refresh(i)
  PROVE  LInv'
<1> USE ElectionAssumption, IntervalIsNat DEF LInv
<1>1. HoldsLease(i) /\ mine[i] \in Lease
  BY DEF Refresh, Holding, HoldsLease, TypeOK
<1>2. TypeOK'
  BY <1>1 DEF Refresh, TypeOK
<1>3. OwnLeases'
  BY DEF Refresh, OwnLeases
<1>4. ASSUME NEW j \in Instance, task'[j] = "running"
      PROVE  HoldsLease(j)'
  <2>1. task[j] = "running" /\ HoldsLease(j)
    BY <1>4 DEF Refresh, TypeOK, Holding
  <2>2. UNCHANGED <<flag, mine>>
    BY DEF Refresh
  <2>3. CASE j = i
    <3>1. ttl[mine[i]] > 0
      BY <1>1 DEF HoldsLease, TypeOK, Timely
    <3>2. slept'[i] = 0 /\ ttl'[mine[i]] = TTL
      BY <1>1, <1>4, <2>3, <3>1 DEF Refresh, TypeOK
    <3> QED BY <1>1, <2>2, <2>3, <3>2 DEF HoldsLease
  <2>4. CASE j # i
    <3>1. mine[j] # mine[i]
      BY <1>1, <2>1, <2>4 DEF OwnLeases, HoldsLease
    <3>2. mine[j] \in Lease
      BY <2>1 DEF HoldsLease, TypeOK
    <3>3. ttl'[mine[j]] = ttl[mine[j]]
      BY <3>1, <3>2 DEF Refresh, TypeOK
    <3>4. slept'[j] = slept[j]
      BY <2>4 DEF Refresh, TypeOK
    <3> QED BY <2>1, <2>2, <3>3, <3>4 DEF HoldsLease
  <2> QED BY <2>3, <2>4
<1> QED BY <1>2, <1>3, <1>4 DEF Holding

\* Whoever gives up its own lease takes none from another.
LEMMA StopKeeps ==
  ASSUME LInv, NEW i \in Instance, StopElection(i) \/ Restart(i)
  PROVE  LInv'
<1> USE ElectionAssumption, IntervalIsNat DEF LInv
<1>1. /\ task' = [task EXCEPT ![i] = "none"]
      /\ slept' = [slept EXCEPT ![i] = 0]
      /\ \A j \in Instance \ {i} : flag'[j] = flag[j] /\ mine'[j] = mine[j]
      /\ mine'[i] \in {mine[i], NoLease}
  BY DEF StopElection, Restart, TypeOK
<1>2. \/ UNCHANGED <<ttl, key>>
      \/ Revoke(mine[i])
  BY DEF StopElection, Restart
<1>3. TypeOK'
  <2>1. task' \in [Instance -> {"none", "running", "raised"}]
    BY <1>1 DEF TypeOK
  <2>2. slept' \in [Instance -> 0 .. Interval + Lag]
    BY <1>1 DEF TypeOK
  <2>3. ttl' \in [Lease -> 0 .. TTL] /\ key' \in Lease \union {NoLease}
    BY <1>2 DEF TypeOK, Revoke
  <2>4. flag' \in [Instance -> BOOLEAN] /\ mine' \in [Instance -> Lease \union {NoLease}]
    BY DEF StopElection, Restart, TypeOK
  <2> QED BY <2>1, <2>2, <2>3, <2>4 DEF TypeOK
<1>4. OwnLeases'
  BY <1>1 DEF OwnLeases
<1>5. ASSUME NEW j \in Instance, task'[j] = "running"
      PROVE  HoldsLease(j)'
  <2>1. j # i /\ task[j] = "running" /\ HoldsLease(j) /\ slept'[j] = slept[j]
    BY <1>1, <1>5 DEF TypeOK, Holding
  <2>2. mine[i] # mine[j] /\ mine[j] \in Lease
    BY <2>1 DEF OwnLeases, HoldsLease, TypeOK
  <2>3. ttl'[mine[j]] = ttl[mine[j]]
    BY <1>2, <2>1, <2>2 DEF Revoke, HoldsLease, TypeOK
  <2> QED BY <1>1, <2>1, <2>3 DEF HoldsLease
<1> QED BY <1>3, <1>4, <1>5 DEF Holding

\* The lease of a sleeping refresh outlives the sleep.
LEMMA TickKeeps ==
  ASSUME LInv, Timely, Tick
  PROVE  LInv'
<1> USE ElectionAssumption, IntervalIsNat DEF LInv
<1>1. TypeOK'
  <2>1. slept' \in [Instance -> 0 .. Interval + Lag]
    BY DEF Tick, TypeOK
  <2>2. ttl' \in [Lease -> 0 .. TTL] /\ key' \in Lease \union {NoLease}
    BY DEF Tick, TypeOK
  <2> QED BY <2>1, <2>2 DEF Tick, TypeOK
<1>2. OwnLeases'
  BY DEF Tick, OwnLeases
<1>3. ASSUME NEW j \in Instance, task'[j] = "running"
      PROVE  HoldsLease(j)'
  <2>1. task[j] = "running" /\ HoldsLease(j) /\ mine[j] \in Lease
    BY <1>3 DEF Tick, Holding, HoldsLease, TypeOK
  <2>2. slept[j] < Interval + Lag /\ slept'[j] = slept[j] + 1 /\ slept[j] \in Nat
    BY <2>1 DEF Tick, TypeOK
  <2>3. ttl'[mine[j]] = ttl[mine[j]] - 1 /\ ttl'[mine[j]] >= TTL - slept'[j]
    BY <2>1, <2>2 DEF Tick, HoldsLease, TypeOK, Timely
  <2> QED BY <2>1, <2>3 DEF Tick, HoldsLease
<1> QED BY <1>1, <1>2, <1>3 DEF Holding

LEMMA LInvNext ==
  ASSUME LInv, Timely, [Next]_vars
  PROVE  LInv'
<1>1. ASSUME NEW i \in Instance, StartElection(i) PROVE LInv'
  BY <1>1, StartKeeps
<1>2. ASSUME NEW i \in Instance, Refresh(i) PROVE LInv'
  BY <1>2, RefreshKeeps
<1>3. ASSUME NEW i \in Instance, StopElection(i) \/ Restart(i) PROVE LInv'
  BY <1>3, StopKeeps
<1>4. CASE Tick
  BY <1>4, TickKeeps
<1>5. CASE UNCHANGED vars
  BY <1>5 DEF vars, LInv, TypeOK, Holding, HoldsLease, OwnLeases
<1> QED BY <1>1, <1>2, <1>3, <1>4, <1>5 DEF Next

\* The key of a leader that goes on leading is neither expired nor revoked nor
\* claimed by another.
LEMMA LInvKeepsLock ==
  ASSUME LInv, Timely, [Next]_vars, NEW i \in Instance,
         Leads(i), key = mine[i], Leads(i)', mine'[i] = mine[i]
  PROVE  key' = key
<1> USE ElectionAssumption, IntervalIsNat DEF LInv
<1>1. HoldsLease(i) /\ key \in Lease /\ key # NoLease /\ flag[i] /\ task[i] = "running"
  BY DEF Leads, Holding, HoldsLease, TypeOK
<1>2. ASSUME NEW j \in Instance, StartElection(j) PROVE key' = key
  BY <1>1, <1>2 DEF StartElection, Claim
<1>3. ASSUME NEW j \in Instance, Refresh(j) PROVE key' = key
  BY <1>3 DEF Refresh
<1>4. ASSUME NEW j \in Instance, StopElection(j) \/ Restart(j) PROVE key' = key
  <2>1. task' = [task EXCEPT ![j] = "none"]
    BY <1>4 DEF StopElection, Restart
  <2>2. j # i
    BY <2>1 DEF Leads, TypeOK
  <2>3. mine[j] # key
    BY <1>1, <2>2 DEF OwnLeases
  <2>4. UNCHANGED key \/ Revoke(mine[j])
    BY <1>4 DEF StopElection, Restart
  <2> QED BY <2>3, <2>4 DEF Revoke
<1>5. CASE Tick
  <2>1. slept[i] < Interval + Lag /\ slept[i] \in Nat
    BY <1>1, <1>5 DEF Tick, TypeOK
  <2>2. ttl[key] > 1 /\ ttl[key] \in Nat
    BY <1>1, <2>1 DEF HoldsLease, TypeOK, Timely
  <2>3. ttl'[key] = ttl[key] - 1
    BY <1>1, <1>5, <2>2 DEF Tick
  <2>4. ttl'[key] # 0
    BY <2>2, <2>3
  <2> QED BY <1>5, <2>4 DEF Tick
<1>6. CASE UNCHANGED vars
  BY <1>6 DEF vars
<1> QED BY <1>2, <1>3, <1>4, <1>5, <1>6 DEF Next

\* While every refresh runs less than a lease's time after the last one, a leader
\* that holds the lock keeps it as long as it leads (start_election,
\* stop_election and maintain_leadership, with every one of their etcd calls free
\* to raise).
THEOREM HolderKeepsLock == Timely /\ Spec => LockKept
<1>1. Init => LInv
  BY LInvInit
<1>2. Timely /\ LInv /\ [Next]_vars => LInv'
  BY LInvNext
<1>3. Timely => Timely'
  BY DEF Timely, Interval
<1>4. Timely /\ LInv /\ [Next]_vars =>
        [\A i \in Instance :
           (Leads(i) /\ key = mine[i] /\ Leads(i)' /\ mine'[i] = mine[i]) => key' = key]_vars
  BY LInvKeepsLock
<1> QED
  BY <1>1, <1>2, <1>3, <1>4, PTL DEF Spec, LockKept

\* The flag, lease and task of every instance and the keys of etcd keep their
\* types, also when refreshes come too late and leases expire under a leader.
THEOREM ElectionTypeCorrect == Spec => []TypeOK
<1> USE ElectionAssumption, IntervalIsNat
<1>1. Init => TypeOK
  BY DEF Init, TypeOK
<1>2. ASSUME TypeOK, [Next]_vars PROVE TypeOK'
  <2>1. ASSUME NEW i \in Instance, StartElection(i) PROVE TypeOK'
    <3>1. PICK l \in Lease :
            /\ mine' = [mine EXCEPT ![i] = l]
            /\ ttl' = [ttl EXCEPT ![l] = TTL]
            /\ key' \in {key, l}
            /\ \/ /\ flag' = [flag EXCEPT ![i] = TRUE]
                  /\ task' = [task EXCEPT ![i] = "running"]
                  /\ slept' = [slept EXCEPT ![i] = 0]
               \/ UNCHANGED <<flag, task, slept>>
      BY <2>1 DEF StartElection, Claim, Elect
    <3>2. mine' \in [Instance -> Lease \union {NoLease}] /\ key' \in Lease \union {NoLease}
      BY <1>2, <3>1 DEF TypeOK
    <3>3. ttl' \in [Lease -> 0 .. TTL] /\ slept' \in [Instance -> 0 .. Interval + Lag]
      BY <1>2, <3>1 DEF TypeOK
    <3>4. flag' \in [Instance -> BOOLEAN]
      BY <1>2, <3>1 DEF TypeOK
    <3>5. task' \in [Instance -> {"none", "running", "raised"}]
      BY <1>2, <3>1 DEF TypeOK
    <3> QED BY <3>2, <3>3, <3>4, <3>5 DEF TypeOK
  <2>2. ASSUME NEW i \in Instance, Refresh(i) PROVE TypeOK'
    BY <1>2, <2>2 DEF Refresh, TypeOK
  <2>3. ASSUME NEW i \in Instance, StopElection(i) PROVE TypeOK'
    <3>1. mine' \in [Instance -> Lease \union {NoLease}] /\ flag' \in [Instance -> BOOLEAN]
      BY <1>2, <2>3 DEF StopElection, TypeOK
    <3>2. slept' \in [Instance -> 0 .. Interval + Lag]
      BY <1>2, <2>3 DEF StopElection, TypeOK
    <3>3. task' \in [Instance -> {"none", "running", "raised"}]
      BY <1>2, <2>3 DEF StopElection, TypeOK
    <3>4. ttl' \in [Lease -> 0 .. TTL] /\ key' \in Lease \union {NoLease}
      BY <1>2, <2>3 DEF StopElection, Revoke, TypeOK
    <3> QED BY <3>1, <3>2, <3>3, <3>4 DEF TypeOK
  <2>4. ASSUME NEW i \in Instance, Restart(i) PROVE TypeOK'
    BY <1>2, <2>4 DEF Restart, Revoke, TypeOK
  <2>5. CASE Tick
    BY <1>2, <2>5 DEF Tick, TypeOK
  <2>6. CASE UNCHANGED vars
    BY <1>2, <2>6 DEF vars, TypeOK
  <2> QED BY <1>2, <2>1, <2>2, <2>3, <2>4, <2>5, <2>6 DEF Next
<1> QED BY <1>1, <1>2, PTL DEF Spec
=============================================================================
