---------------------------- MODULE LeaderElection ----------------------------
(***************************************************************************)
(* Leader election between AODE instances (aode/etcd/client.py): an        *)
(* instance holds the lock while etcd has its lease attached to the lock   *)
(* key.  maintain_leadership refreshes the lease every third of its time   *)
(* to live.  is_leader() is a flag of the instance; it is set by every     *)
(* election whose transaction is answered, because etcd3 (^0.12) answers   *)
(* with a pair (succeeded, responses), which is true whatever it holds.    *)
(*                                                                         *)
(* All calls to etcd are synchronous, so each operation of an instance is  *)
(* one step; the time such calls take counts as lateness (Lag) of the next *)
(* refresh.  Leases and the key are etcd's, modelled as the code uses them.*)
(***************************************************************************)
EXTENDS Naturals

CONSTANTS
  Instance,   (* the AODE processes                                         *)
  Lease,      (* bound: lease ids; an id may be granted again once unused   *)
  TTL,        (* the time to live of a lease                                *)
  Lag,        (* how late the event loop may run a refresh that is due      *)
  Faults      (* the etcd calls that may raise                              *)

NoLease      == "none"
Interval_Bug == (2 * TTL) \div 3   \* a plausible mistake in the next line
Interval     == TTL \div 3

ASSUME ElectionAssumption ==
  /\ NoLease \notin Lease
  /\ TTL \in Nat \ {0}
  /\ Lag \in Nat
  /\ Faults \subseteq {"transaction", "refresh", "revoke"}

VARIABLES
  flag,      (* _is_leader                                                  *)
  mine,      (* EtcdClient._lease of an instance                            *)
  task,      (* its maintain_leadership task: none, running, or raised      *)
  slept,     (* how long that task has been sleeping                        *)
  ttl,       (* etcd: time left of a lease, 0: not granted or expired       *)
  key        (* etcd: the lease of the lock key, NoLease: no such key       *)

vars == <<flag, mine, task, slept, ttl, key>>

TypeOK ==
  /\ flag \in [Instance -> BOOLEAN]
  /\ mine \in [Instance -> Lease \union {NoLease}]
  /\ task \in [Instance -> {"none", "running", "raised"}]
  /\ slept \in [Instance -> 0 .. Interval + Lag]
  /\ ttl \in [Lease -> 0 .. TTL]
  /\ key \in Lease \union {NoLease}

Init ==
  /\ flag = [i \in Instance |-> FALSE]
  /\ mine = [i \in Instance |-> NoLease]
  /\ task = [i \in Instance |-> "none"]
  /\ slept = [i \in Instance |-> 0]
  /\ ttl = [l \in Lease |-> 0]
  /\ key = NoLease

-----------------------------------------------------------------------------
(* The definitions named ..._Bug are not part of the model: each is a       *)
(* plausible mistake in the definition that follows it.                     *)

\* lease(): a fresh lease.  No instance still refers to the id it gets.
Fresh(l) == ttl[l] = 0 /\ \A i \in Instance : mine[i] # l

Elect(i) ==
  /\ flag' = [flag EXCEPT ![i] = TRUE]
  /\ task' = [task EXCEPT ![i] = "running"]
  /\ slept' = [slept EXCEPT ![i] = 0]

\* The effect of the transaction in etcd: the key is created unless it exists.
Claim(l) == key' = IF key = NoLease THEN l ELSE key

StartElection_Bug(i) ==   \* the refresh task starts before the election
  \E l \in Lease :
    /\ ~flag[i] /\ task[i] # "running" /\ Fresh(l)
    /\ mine' = [mine EXCEPT ![i] = l]
    /\ ttl' = [ttl EXCEPT ![l] = TTL]
    /\ \/ Claim(l) /\ Elect(i)
       \/ /\ "transaction" \in Faults
          /\ Claim(l)
          /\ task' = [task EXCEPT ![i] = "running"]
          /\ slept' = [slept EXCEPT ![i] = 0]
          /\ UNCHANGED flag

\* start_election of an instance that does not lead (a caller's duty).  The
\* lease is stored whether or not the transaction creates the key.  Any answer
\* makes the caller a leader; a transaction that raises does not, although it
\* may have been applied.
StartElection(i) ==
  \E l \in Lease :
    /\ ~flag[i] /\ Fresh(l)
    /\ mine' = [mine EXCEPT ![i] = l]
    /\ ttl' = [ttl EXCEPT ![l] = TTL]
    /\ \/ Claim(l) /\ Elect(i)
       \/ /\ "transaction" \in Faults
          /\ Claim(l) \/ UNCHANGED key
          /\ UNCHANGED <<flag, task, slept>>

\* maintain_leadership after its sleep.  Refreshing an expired lease changes
\* nothing and raises nothing; an exception ends the task and nobody awaits it.
Refresh(i) ==
  /\ task[i] = "running" /\ slept[i] >= Interval
  /\ \/ /\ slept' = [slept EXCEPT ![i] = 0]
        /\ ttl' = [ttl EXCEPT ![mine[i]] = IF @ > 0 THEN TTL ELSE 0]
        /\ UNCHANGED task
     \/ /\ "refresh" \in Faults
        /\ task' = [task EXCEPT ![i] = "raised"]
        /\ slept' = [slept EXCEPT ![i] = 0]
        /\ UNCHANGED ttl
  /\ UNCHANGED <<flag, mine, key>>

\* etcd deletes the key with the lease it is attached to.
Revoke(l) ==
  /\ ttl' = [ttl EXCEPT ![l] = 0]
  /\ key' = IF key = l THEN NoLease ELSE key

\* stop_election of a leader.  Awaiting a task that has raised raises again:
\* then nothing is released.  When the revocation raises, the flag stays.
StopElection(i) ==
  /\ flag[i] /\ task[i] # "raised"
  /\ task' = [task EXCEPT ![i] = "none"]
  /\ slept' = [slept EXCEPT ![i] = 0]
  /\ \/ /\ Revoke(mine[i])
        /\ mine' = [mine EXCEPT ![i] = NoLease]
        /\ flag' = [flag EXCEPT ![i] = FALSE]
     \/ /\ "revoke" \in Faults
        /\ UNCHANGED <<flag, mine, ttl, key>>

\* The process ends, with (close) or without revoking the lease it stored last;
\* a new one may start.
Restart(i) ==
  /\ \/ mine[i] # NoLease /\ Revoke(mine[i])
     \/ UNCHANGED <<ttl, key>>
  /\ flag' = [flag EXCEPT ![i] = FALSE]
  /\ mine' = [mine EXCEPT ![i] = NoLease]
  /\ task' = [task EXCEPT ![i] = "none"]
  /\ slept' = [slept EXCEPT ![i] = 0]

\* A unit of time passes.  No refresh is later than Lag.
Tick ==
  /\ \A i \in Instance : task[i] = "running" => slept[i] < Interval + Lag
  /\ slept' = [i \in Instance |-> IF task[i] = "running" THEN slept[i] + 1 ELSE slept[i]]
  /\ ttl' = [l \in Lease |-> IF ttl[l] > 0 THEN ttl[l] - 1 ELSE 0]
  /\ key' = IF key # NoLease /\ ttl'[key] = 0 THEN NoLease ELSE key
  /\ UNCHANGED <<flag, mine, task>>

Next ==
  \/ \E i \in Instance : StartElection(i) \/ Refresh(i) \/ StopElection(i) \/ Restart(i)
  \/ Tick

Spec == Init /\ [][Next]_vars

\* Time passes, and the event loop runs a refresh that is due.
FairSpec == Spec /\ WF_vars(Tick) /\ \A i \in Instance : WF_vars(Refresh(i))

-----------------------------------------------------------------------------
(* Properties.                                                              *)

\* Refreshes come in time when a late one still finds its lease alive.
Timely == Interval + Lag < TTL

Leads(i) == flag[i] /\ task[i] = "running"

\* When refreshes are timely, a leader that holds the lock keeps it for as long
\* as it leads and refreshes: no election, resignation, restart, lost transaction
\* or expiry of another's lease takes the key from it.
LockKept ==
  [][\A i \in Instance :
       (Leads(i) /\ key = mine[i] /\ Leads(i)' /\ mine'[i] = mine[i]) => key' = key]_vars

\* "is_leader() returns False when another instance holds the lock"
\* (test_is_leader_false_when_lock_held_by_another).
NotLeaderWhileOtherHolds ==
  \A i, j \in Instance : (i # j /\ key # NoLease /\ key = mine[j]) => ~flag[i]

\* A lock that no leader refreshes any more - its holder restarted or lost its
\* refresh task, or a raised transaction left the key behind - becomes free
\* without anybody's help.
Abandoned == key # NoLease /\ \A i \in Instance : Leads(i) => mine[i] # key
LockFreed == Abandoned ~> ~Abandoned
=============================================================================
