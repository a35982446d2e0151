------------------------------ MODULE FileLease ------------------------------
(***************************************************************************)
(* The lease of LocalFileStore (vault/store/local_file.py): a lock file    *)
(* that several processes create, read, replace and unlink, one file       *)
(* system call per action.  Only link is exclusive; replace and unlink act *)
(* on whatever file is there when they run.                                *)
(*                                                                         *)
(* Each process loops: acquire_lease, the work the lease protects (left    *)
(* abstract here; VaultRefresh has it), release_lease.  A call that is     *)
(* refused returns to the start; waiting and lease_held only decide when   *)
(* it asks again, and it may ask again at any time.                        *)
(*                                                                         *)
(* Abstracted: the temporary file (it has a unique name, and its content   *)
(* is complete before link or replace publish it, so a lock that can be    *)
(* read parses), and the holder id, for which the process stands (callers  *)
(* whose ids collide are VaultRefresh's concern).  A test that a lock      *)
(* exists and the unlink or read it guards are one step: for a file that   *)
(* is gone by then neither changes anything.                               *)
(***************************************************************************)
EXTENDS LeaseTable

CONSTANTS
  Procs,      \* processes that share the directory
  LeaseTTL,   \* lease_ttl
  MaxTime,    \* bound: the clock stops here
  MaxDeaths,  \* bound: processes that die
  MaxDrops    \* bound: delete_connection calls

ASSUME FileConstantsOK ==
  /\ LeaseTTL \in Nat \ {0}
  /\ MaxTime \in Nat
  /\ MaxDeaths \in Nat
  /\ MaxDrops \in Nat
  /\ NoLease \notin [holder : Procs, until : Nat]

VARIABLES
  now,     \* the clock
  lock,    \* the lock file: NoLease when there is none
  pc,      \* where each process is
  tnow,    \* the instant it passed to acquire_lease
  until,   \* the until it passed when it got the lease
  deaths,  \* deaths so far (bound)
  drops,   \* deleted connections so far (bound)
  drop,    \* the processes that got a lease which was deleted since (history)
  faults   \* circumstances met so far (history, see Faults)

vars == <<now, lock, pc, tnow, until, deaths, drops, drop, faults>>
bounds == <<deaths, drops>>

Labels == {"idle", "link", "read", "replace", "confirm", "owner", "unlink"}

\* The process has been told, or is about to be told, that it owns the lease.
Owns(p) == pc[p] \in {"confirm", "owner", "unlink"}

\* The process has found the lock expired and is stealing it.
Stealing == {"replace", "confirm"}

(***************************************************************************)
(* The circumstances in which the file lock is not a lease any more.       *)
(*   overrun  an owner outlived its lease                                  *)
(*   rivals   two processes were stealing one expired lock                 *)
(*   deleted  the connection was deleted while a process was stealing or   *)
(*            releasing its lock                                           *)
(***************************************************************************)
Faults == {"overrun", "rivals", "deleted"}

TypeOK ==
  /\ now \in Nat
  /\ lock \in LeaseRows(Procs)
  /\ pc \in [Procs -> Labels]
  /\ tnow \in [Procs -> Nat]
  /\ until \in [Procs -> Nat]
  /\ deaths \in Nat
  /\ drops \in Nat
  /\ drop \subseteq Procs
  /\ faults \subseteq Faults

Goto(p, label) == pc' = [pc EXCEPT ![p] = label]

Mine(p) == lock # NoLease /\ lock.holder = p

\* Mutant of ExpiredLock: a lock that cannot be read counts as expired.
ExpiredOrGone(t) == lock # NoLease => lock.until <= t

ExpiredLock(t) == lock # NoLease /\ lock.until <= t

\* A grant that has already run out when it is given is an overrun.
NoteGrant(p) ==
  faults' = IF tnow[p] + LeaseTTL <= now THEN faults \cup {"overrun"}
                                         ELSE faults

\* The process reads the clock and calls acquire_lease; the lock content it
\* may publish is written to a temporary file.
Ask(p) ==
  /\ pc[p] = "idle"
  /\ tnow' = [tnow EXCEPT ![p] = now]
  /\ Goto(p, "link")
  /\ UNCHANGED <<now, lock, until, bounds, drop, faults>>

\* os.link: fails if there is a lock, else publishes ours.
Link(p) ==
  /\ pc[p] = "link"
  /\ \/ /\ lock = NoLease
        /\ lock' = Leased(p, tnow[p] + LeaseTTL)
        /\ until' = [until EXCEPT ![p] = tnow[p] + LeaseTTL]
        /\ drop' = drop \ {p}
        /\ Goto(p, "owner")
        /\ NoteGrant(p)
     \/ /\ lock # NoLease
        /\ Goto(p, "read")
        /\ UNCHANGED <<lock, until, drop, faults>>
  /\ UNCHANGED <<now, tnow, bounds>>

\* _lease_until: a lock that is gone again, or has not run out, refuses us.
ReadUntil(p) ==
  /\ pc[p] = "read"
  /\ \/ /\ ExpiredLock(tnow[p])
        /\ Goto(p, "replace")
        /\ faults' = IF \E q \in Procs \ {p} : pc[q] \in Stealing
                       THEN faults \cup {"rivals"} ELSE faults
     \/ /\ ~ExpiredLock(tnow[p])
        /\ Goto(p, "idle")
        /\ UNCHANGED faults
  /\ UNCHANGED <<now, lock, tnow, until, bounds, drop>>

\* os.replace: publishes our lock over whatever is there by now.
ReplaceLock(p) ==
  /\ pc[p] = "replace"
  /\ lock' = Leased(p, tnow[p] + LeaseTTL)
  /\ until' = [until EXCEPT ![p] = tnow[p] + LeaseTTL]
  /\ drop' = drop \ {p}
  /\ Goto(p, "confirm")
  /\ NoteGrant(p)
  /\ UNCHANGED <<now, tnow, bounds>>

\* The read after the replace: the lock is ours only if it names us.
Confirm(p) ==
  /\ pc[p] = "confirm"
  /\ \/ /\ Mine(p)
        /\ Goto(p, "owner")
        /\ UNCHANGED <<until, drop>>
     \/ /\ ~Mine(p)
        /\ until' = [until EXCEPT ![p] = 0]
        /\ drop' = drop \ {p}
        /\ Goto(p, "idle")
  /\ UNCHANGED <<now, lock, tnow, bounds, faults>>

\* Mutant of ReadHolder: the owner unlinks without looking.
ReadHolderTrusting(p) ==
  /\ pc[p] = "owner"
  /\ Goto(p, "unlink")
  /\ UNCHANGED <<now, lock, tnow, until, bounds, drop, faults>>

\* release_lease reads the lock and goes on only if it names us.
ReadHolder(p) ==
  /\ pc[p] = "owner"
  /\ \/ /\ Mine(p)
        /\ Goto(p, "unlink")
        /\ UNCHANGED <<until, drop>>
     \/ /\ ~Mine(p)
        /\ until' = [until EXCEPT ![p] = 0]
        /\ drop' = drop \ {p}
        /\ Goto(p, "idle")
  /\ UNCHANGED <<now, lock, tnow, bounds, faults>>

\* unlink removes whatever lock is there by now.
Unlink(p) ==
  /\ pc[p] = "unlink"
  /\ lock' = NoLease
  /\ until' = [until EXCEPT ![p] = 0]
  /\ drop' = drop \ {p}
  /\ Goto(p, "idle")
  /\ UNCHANGED <<now, tnow, bounds, faults>>

Tick ==
  /\ now < MaxTime
  /\ now' = now + 1
  /\ faults' = IF \E p \in Procs : Owns(p) /\ until[p] <= now + 1
                 THEN faults \cup {"overrun"} ELSE faults
  /\ UNCHANGED <<lock, pc, tnow, until, bounds, drop>>

\* A process dies; its lock stays.
Die(p) ==
  /\ deaths < MaxDeaths
  /\ pc[p] # "idle"
  /\ deaths' = deaths + 1
  /\ until' = [until EXCEPT ![p] = 0]
  /\ drop' = drop \ {p}
  /\ Goto(p, "idle")
  /\ UNCHANGED <<now, lock, tnow, drops, faults>>

\* delete_connection unlinks the lock, whoever holds it.
DeleteConnection ==
  /\ drops < MaxDrops
  /\ drops' = drops + 1
  /\ lock' = NoLease
  /\ drop' = {p \in Procs : Owns(p)}
  /\ faults' = IF \E p \in Procs : pc[p] \in Stealing \cup {"unlink"}
                 THEN faults \cup {"deleted"} ELSE faults
  /\ UNCHANGED <<now, pc, tnow, until, deaths>>

Init ==
  /\ now = 0
  /\ lock = NoLease
  /\ pc = [p \in Procs |-> "idle"]
  /\ tnow = [p \in Procs |-> 0]
  /\ until = [p \in Procs |-> 0]
  /\ deaths = 0
  /\ drops = 0
  /\ drop = {}
  /\ faults = {}

Next ==
  \/ \E p \in Procs :
       \/ Ask(p) \/ Link(p) \/ ReadUntil(p) \/ ReplaceLock(p) \/ Confirm(p)
       \/ ReadHolder(p) \/ Unlink(p) \/ Die(p)
  \/ Tick
  \/ DeleteConnection

Spec == Init /\ [][Next]_vars

-----------------------------------------------------------------------------
(* The lock file against the lease it is meant to be. *)

Service == INSTANCE LeaseService WITH
  Clients <- Procs,
  Ids     <- [p \in Procs |-> {p}],
  TTL     <- LeaseTTL,
  lease   <- lock,
  owner   <- {p \in Procs : Owns(p)},
  valid   <- {p \in Procs : Owns(p) /\ p \notin drop},
  id      <- [p \in Procs |-> IF Owns(p) THEN p ELSE NoLease]

-----------------------------------------------------------------------------
(* Properties. *)

\* The four system calls of acquire_lease and the two of release_lease behave
\* like the atomic lease of LeaseService at every step, as long as no owner
\* outlives its lease, no two processes steal one expired lock, and no
\* deletion falls into a steal or a release.  The death of an owner, the
\* theft of its lock and any number of waiters are covered.
ImplementsLease ==
  Service!Init /\ [][faults' = {} => [Service!Next]_Service!svars]_vars

\* Under the same premises at most one process owns an unexpired lock.
FileSingleWriter ==
  faults = {} => \A p, q \in Procs :
                   (/\ pc[p] \in {"owner", "unlink"} /\ p \notin drop
                    /\ pc[q] \in {"owner", "unlink"} /\ q \notin drop) => p = q

-----------------------------------------------------------------------------
(* What the repository says, and the code does not keep. *)

\* "exactly one stealer wins": no two processes come out of acquire_lease as
\* owners of unexpired leases, whatever they stole, while no owner was late.
OneStealerWins ==
  faults \cap {"overrun", "deleted"} = {} =>
    \A p, q \in Procs :
      pc[p] \in {"owner", "unlink"} /\ pc[q] \in {"owner", "unlink"}
        /\ p \notin drop /\ q \notin drop => p = q

-----------------------------------------------------------------------------
(* Inductive strengthenings, used by FileStoreProofs. *)

\* What holds whatever went wrong.
AlwaysInv ==
  /\ \A p \in Procs : tnow[p] <= now /\ (~Owns(p) => until[p] = 0)
  /\ \A p \in drop : Owns(p)
  /\ drops = 0 => drop = {}

\* Owners are in time, and the lock is that of every owner that nobody
\* deleted; a process about to replace the lock is alone with it, and the lock
\* is the expired one it has read.
LockInv ==
  faults = {} =>
    /\ \A p \in Procs : Owns(p) => until[p] > now
    /\ \A p \in Procs : Owns(p) /\ p \notin drop => lock = Leased(p, until[p])
    /\ \A p \in drop : pc[p] = "owner" /\ ~Mine(p)
    /\ \A p \in Procs :
         pc[p] = "replace" => lock # NoLease /\ lock.until <= tnow[p]
    /\ \A p, q \in Procs : pc[p] \in Stealing /\ pc[q] \in Stealing => p = q

=============================================================================
