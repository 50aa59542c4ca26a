-------------------------------- MODULE Lease --------------------------------
(***************************************************************************)
(* The single-writer lease of src/harness/lease.py: processes that each    *)
(* ask the log, then the clock, whether they may write, and write in a     *)
(* later step.  The lease is the last lease event of the log.  acquire is  *)
(* open to anybody at any time, and its event carries the time it read     *)
(* before it appended.                                                     *)
(***************************************************************************)
EXTENDS Integers, SequencesExt

CONSTANTS
    Owners,     \* the processes, each with an owner name of its own
    Ttl,        \* ttl_seconds
    MaxTime,    \* bound on the clock
    MaxEntries  \* bound on the length of the log

ASSUME LeaseAssumption == Ttl \in Nat \ {0} /\ MaxTime \in Nat /\ MaxEntries \in Nat

VARIABLES
    leaseLog,  \* lease events, and the writes and renewals the lease guards
    time,      \* time.time()
    writer     \* of each process: where it is, what for, and the lease it read

leaseVars == <<leaseLog, time, writer>>

NoLease == [owner |-> "nobody", expires |-> 0]
Place(at, for, lease, expires) == [at |-> at, for |-> for, lease |-> lease, expires |-> expires]
Idle == Place("idle", "nothing", NoLease, 0)

LeaseEvent(p, kind, expires, now) ==
    [kind |-> kind, owner |-> p, expires |-> expires, at |-> now]
WriteEvent(p, now) == [kind |-> "write", owner |-> p, expires |-> 0, at |-> now]

LeaseInit == leaseLog = <<>> /\ time = 0 /\ writer = [p \in Owners |-> Idle]

-----------------------------------------------------------------------------
TakeOver(lease, e) ==
    IF e.kind = "write" THEN lease ELSE [owner |-> e.owner, expires |-> e.expires]

\* The last lease event is the lease.
fold_lease(events) == FoldLeft(TakeOver, NoLease, events)

\* current: the first step of a guarded write and of renew.
ReadLease(p, for) ==
    /\ writer[p].at = "idle"
    /\ writer' = [writer EXCEPT ![p] = Place("checking", for, fold_lease(leaseLog), 0)]
    /\ UNCHANGED <<leaseLog, time>>

\* Slip: a lease that has run out is good as long as nobody else took it.
MayWriteExpired(p, lease) == lease.owner = p

\* check, once the lease is read: it is p's, and it has not expired.
MayWrite(p, lease) == lease.owner = p /\ time < lease.expires

\* require: it raises, or p goes on to what it checked for.
require(p) ==
    /\ writer[p].at = "checking"
    /\ writer' = [writer EXCEPT ![p] =
          IF ~MayWrite(p, @.lease) THEN Idle
          ELSE IF @.for = "write" THEN Place("writing", "write", @.lease, 0)
          ELSE Place("appending", "renew", @.lease, time + Ttl)]
    /\ UNCHANGED <<leaseLog, time>>

\* write of guarded_write; the next one checks again.
write(p) ==
    /\ writer[p].at = "writing"
    /\ Len(leaseLog) < MaxEntries
    /\ leaseLog' = Append(leaseLog, WriteEvent(p, time))
    /\ writer' = [writer EXCEPT ![p] = Idle]
    /\ UNCHANGED time

\* acquire asks nobody.
acquire(p) ==
    /\ writer[p].at = "idle"
    /\ writer' = [writer EXCEPT ![p] = Place("appending", "acquire", NoLease, time + Ttl)]
    /\ UNCHANGED <<leaseLog, time>>

AppendLease(p) ==
    /\ writer[p].at = "appending"
    /\ Len(leaseLog) < MaxEntries
    /\ leaseLog' = Append(leaseLog, LeaseEvent(p, writer[p].for, writer[p].expires, time))
    /\ writer' = [writer EXCEPT ![p] = Idle]
    /\ UNCHANGED time

KillWriter(p) ==
    /\ writer[p] # Idle
    /\ writer' = [writer EXCEPT ![p] = Idle]
    /\ UNCHANGED <<leaseLog, time>>

TimePasses ==
    /\ time < MaxTime
    /\ time' = time + 1
    /\ UNCHANGED <<leaseLog, writer>>

LeaseNext ==
    \/ \E p \in Owners :
          \/ \E for \in {"write", "renew"} : ReadLease(p, for)
          \/ require(p) \/ write(p) \/ acquire(p) \/ AppendLease(p) \/ KillWriter(p)
    \/ TimePasses

LeaseSpec == LeaseInit /\ [][LeaseNext]_leaseVars

-----------------------------------------------------------------------------
Guarded(p) == {i \in 1..Len(leaseLog) :
                  leaseLog[i].owner = p /\ leaseLog[i].kind \in {"write", "renew"}}

LeaseAfter(n) == fold_lease(SubSeq(leaseLog, 1, n))

AtOf(i) == IF i = 0 THEN 0 ELSE leaseLog[i].at

\* The check and the write are separate steps, so a process may write, or
\* renew, after it lost the lease or let it run out, but once only: between any
\* guarded step of its before that one, or the start, and that one there was a
\* moment at which the lease was its own and had not run out (lease.py 73-93,
\* 145-167).
OneStaleStepAtMost ==
    \A p \in Owners : \A j \in Guarded(p), i \in {0} \cup Guarded(p) :
        i < j => \E k \in i..(j - 1), t \in AtOf(i)..leaseLog[j].at :
                    LeaseAfter(k).owner = p /\ t < LeaseAfter(k).expires
=============================================================================
