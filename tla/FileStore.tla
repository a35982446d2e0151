------------------------------- MODULE FileStore -------------------------------
(***************************************************************************)
(* LocalFileStore (vault/store/local_file.py) as the embedded engines use  *)
(* it (vault/local_inprocess.py): processes that each run their own        *)
(* AccessService over one directory.  A connection is three files without  *)
(* a common transaction -- the record, the sealed token and the lock --    *)
(* and every action below is one file system call of get_connection,       *)
(* put_connection, write_token or delete_connection.  The lock is          *)
(* FileLease, whose actions this module extends: only the owner of the     *)
(* lock calls write_token, everything else runs without it.                *)
(*                                                                         *)
(* A process reads the connection; from there it may import it anew,       *)
(* revoke it, or ask for the lease and, as its owner, read again, let the  *)
(* provider refresh, write the token and release (refresh_if_needed).  A   *)
(* refused process reads again before it asks again, as the waiting loop   *)
(* does.  An exception ends the operation; an owner still releases.        *)
(*                                                                         *)
(* Abstracted: the contents.  Record and token carry the number of the     *)
(* put_connection they stem from; a refresh keeps the number, and whether  *)
(* a token has expired is a free choice (VaultRefresh has the clock and    *)
(* the provider).  Two writers of one open file leave the content of the   *)
(* last.  The exists() of an unlink and the unlink are one step.           *)
(***************************************************************************)
EXTENDS FileLease, FiniteSets

CONSTANTS
  MaxPuts,  \* bound: calls of put_connection
  Torn      \* a file that cannot be parsed: truncated, half written, zeroed

ASSUME StoreConstantsOK ==
  /\ MaxPuts \in Nat
  /\ Torn \notin 0..MaxPuts

VARIABLES
  rec,       \* the record file
  tok,       \* the sealed token file
  tmp,       \* the temporary file write_token shares with every other writer
  step,      \* the next file system call of each process
  fd,        \* where the file a process has open for writing is by now
  held,      \* the content each process has in hand
  puts,      \* calls of put_connection so far (numbers them)
  meant,     \* the last completed call: the number of a put, NoFile for a delete (history)
  overlaps   \* circumstances met so far (history, see Overlaps)

fvars == <<rec, tok, tmp, step, fd, held, puts, meant, overlaps>>
files == <<rec, tok, tmp>>
hist == <<puts, meant, overlaps>>

NoFile == 0

\* A file is absent, unreadable, or whole: the number of a put.
Files == 0..MaxPuts \cup {Torn}
Whole(f) == f \notin {NoFile, Torn}

GetSteps    == {"exists", "record", "tokexists", "token"}
WriteSteps  == {"seal", "reread", "opentmp", "filltmp", "publish"}
PutSteps    == {"open", "fill", "putseal"}
DeleteSteps == {"zero", "untoken", "unrecord", "unlock"}
Steps == {"rest", "got", "asking", "done"} \cup GetSteps \cup WriteSteps \cup PutSteps \cup DeleteSteps

\* put_connection and delete_connection run without the lease.
Changing(p) == step[p] \in PutSteps \cup DeleteSteps

\* From the read under the lease to the last write of write_token.
Writing(p) == pc[p] = "owner" /\ step[p] \in GetSteps \cup WriteSteps

(***************************************************************************)
(* The circumstances in which files may be left in disagreement.           *)
(*   change   a put or a delete overlapped another                         *)
(*   write    a put or a delete overlapped a refresh under the lease       *)
(*   death    a process died in the middle of a put or a delete, or with   *)
(*            a file open that has another user                            *)
(***************************************************************************)
Overlaps == {"change", "write", "death"}

StoreTypeOK ==
  /\ TypeOK
  /\ rec \in Files /\ tok \in Files /\ tmp \in Files
  /\ step \in [Procs -> Steps]
  /\ fd \in [Procs -> {"none", "rec", "tmp", "gone"}]
  /\ held \in [Procs -> 0..MaxPuts]
  /\ puts \in 0..MaxPuts
  /\ meant \in 0..MaxPuts
  /\ overlaps \subseteq Overlaps

At(p, s) == step[p] = s
To(p, s) == step' = [step EXCEPT ![p] = s]

\* A raised exception, or the end of a call: an owner goes on to release.
Finish(p) ==
  /\ To(p, IF pc[p] = "owner" THEN "done" ELSE "rest")
  /\ held' = [held EXCEPT ![p] = NoFile]

Others(p) == Procs \ {p}

-----------------------------------------------------------------------------
(* get_connection: four calls, none of them under a lock of its own. *)

StartGet(p) ==
  /\ At(p, "rest") /\ pc[p] = "idle"
  /\ To(p, "exists")
  /\ UNCHANGED <<vars, files, fd, held, hist>>

\* rp.exists(): None if there is no record.
RecordExists(p) ==
  /\ At(p, "exists")
  /\ \/ rec = NoFile /\ Finish(p)
     \/ rec # NoFile /\ To(p, "record") /\ UNCHANGED held
  /\ UNCHANGED <<vars, files, fd, hist>>

\* json.loads(rp.read_text()) raises for a record that is gone or torn.
ReadRecord(p) ==
  /\ At(p, "record")
  /\ \/ Whole(rec) /\ To(p, "tokexists") /\ UNCHANGED held
     \/ ~Whole(rec) /\ Finish(p)
  /\ UNCHANGED <<vars, files, fd, hist>>

\* A connection without a token: revoke and import may go on, refresh raises.
TokenExists(p) ==
  /\ At(p, "tokexists")
  /\ \/ tok # NoFile /\ To(p, "token") /\ UNCHANGED held
     \/ tok = NoFile /\ pc[p] = "owner" /\ Finish(p)
     \/ tok = NoFile /\ pc[p] = "idle" /\ To(p, "got") /\ UNCHANGED held
  /\ UNCHANGED <<vars, files, fd, hist>>

\* open_token raises for a token that is gone or torn.  Under the lease the
\* token is refreshed, unless it is found fresh or the provider fails.
ReadToken(p) ==
  /\ At(p, "token")
  /\ \/ /\ Whole(tok)
        /\ To(p, IF pc[p] = "owner" THEN "seal" ELSE "got")
        /\ held' = [held EXCEPT ![p] = tok]
     \/ (~Whole(tok) \/ pc[p] = "owner") /\ Finish(p)
  /\ UNCHANGED <<vars, files, fd, hist>>

\* The caller is content with what it read.
Return(p) ==
  /\ At(p, "got")
  /\ Finish(p)
  /\ UNCHANGED <<vars, files, fd, hist>>

-----------------------------------------------------------------------------
(* write_token, by the owner of the lease. *)

\* _write_sealed: a temporary file of its own, then os.replace.
SealToken(p) ==
  /\ At(p, "seal")
  /\ tok' = held[p]
  /\ To(p, "reread")
  /\ UNCHANGED <<vars, rec, tmp, fd, held, hist>>

\* The record is read only now, and raises if it is gone or torn.
RereadRecord(p) ==
  /\ At(p, "reread")
  /\ \/ Whole(rec) /\ held' = [held EXCEPT ![p] = rec] /\ To(p, "opentmp")
     \/ ~Whole(rec) /\ Finish(p)
  /\ UNCHANGED <<vars, files, fd, hist>>

\* write_text opens rp.with_suffix(".tmp"), one name for all writers.
OpenTmp(p) ==
  /\ At(p, "opentmp")
  /\ tmp' = Torn
  /\ fd' = [fd EXCEPT ![p] = "tmp"]
  /\ To(p, "filltmp")
  /\ UNCHANGED <<vars, rec, tok, held, hist>>

\* The content lands in the file that was opened, whatever its name is now.
FillOpen(p, next) ==
  /\ rec' = IF fd[p] = "rec" THEN held[p] ELSE rec
  /\ tmp' = IF fd[p] = "tmp" THEN held[p] ELSE tmp
  /\ fd' = [fd EXCEPT ![p] = "none"]
  /\ To(p, next)

FillTmp(p) ==
  /\ At(p, "filltmp")
  /\ FillOpen(p, "publish")
  /\ UNCHANGED <<vars, tok, held, hist>>

\* The record's name is given to another file, or to none.
MoveOpen(here) ==
  [q \in Procs |-> IF fd[q] = "rec" THEN "gone"
                   ELSE IF here /\ fd[q] = "tmp" THEN "rec" ELSE fd[q]]

\* os.replace of the shared temporary file; raises if another took it.
PublishTmp(p) ==
  /\ At(p, "publish")
  /\ \/ /\ tmp # NoFile
        /\ rec' = tmp
        /\ tmp' = NoFile
        /\ fd' = MoveOpen(TRUE)
     \/ tmp = NoFile /\ UNCHANGED <<rec, tmp, fd>>
  /\ Finish(p)
  /\ UNCHANGED <<vars, tok, hist>>

-----------------------------------------------------------------------------
(* put_connection: import_connection and finish_connect. *)

\* What the start of a put or a delete, or of a refresh, overlaps with.
NoteOverlap(S) == overlaps' = overlaps \cup S

ChangeOverlaps(p) ==
  {o \in {"change", "write"} :
     \E q \in Others(p) : IF o = "change" THEN Changing(q) ELSE Writing(q)}

StartPut(p) ==
  /\ step[p] \in {"rest", "got"} /\ pc[p] = "idle"
  /\ puts < MaxPuts
  /\ puts' = puts + 1
  /\ held' = [held EXCEPT ![p] = puts + 1]
  /\ To(p, "open")
  /\ NoteOverlap(ChangeOverlaps(p))
  /\ UNCHANGED <<vars, files, fd, meant>>

\* write_text truncates the record in place.
OpenRecord(p) ==
  /\ At(p, "open")
  /\ rec' = Torn
  /\ fd' = [fd EXCEPT ![p] = "rec"]
  /\ To(p, "fill")
  /\ UNCHANGED <<vars, tok, tmp, held, hist>>

FillRecord(p) ==
  /\ At(p, "fill")
  /\ FillOpen(p, "putseal")
  /\ UNCHANGED <<vars, tok, held, hist>>

\* Mutant of PutToken: a token that is there already is kept.
PutTokenOnce(p) ==
  /\ At(p, "putseal")
  /\ tok' = IF tok = NoFile THEN held[p] ELSE tok
  /\ meant' = held[p]
  /\ Finish(p)
  /\ UNCHANGED <<vars, rec, tmp, fd, puts, overlaps>>

PutToken(p) ==
  /\ At(p, "putseal")
  /\ tok' = held[p]
  /\ meant' = held[p]
  /\ Finish(p)
  /\ UNCHANGED <<vars, rec, tmp, fd, puts, overlaps>>

-----------------------------------------------------------------------------
(* delete_connection, after the read and the manage check of revoke. *)

StartDelete(p) ==
  /\ At(p, "got")
  /\ drops + Cardinality({q \in Procs : step[q] \in DeleteSteps}) < MaxDrops
  /\ To(p, "zero")
  /\ held' = [held EXCEPT ![p] = NoFile]
  /\ NoteOverlap(ChangeOverlaps(p))
  /\ UNCHANGED <<vars, files, fd, puts, meant>>

\* The token file is overwritten with zeros where it is.
ZeroToken(p) ==
  /\ At(p, "zero")
  /\ \/ tok # NoFile /\ tok' = Torn /\ To(p, "untoken")
     \/ tok = NoFile /\ UNCHANGED tok /\ To(p, "unrecord")
  /\ UNCHANGED <<vars, rec, tmp, fd, held, hist>>

\* unlink removes whatever token is there by now, and raises if there is none.
UnlinkToken(p) ==
  /\ At(p, "untoken")
  /\ tok' = NoFile
  /\ IF tok = NoFile THEN To(p, "rest") ELSE To(p, "unrecord")
  /\ UNCHANGED <<vars, rec, tmp, fd, held, hist>>

UnlinkRecord(p) ==
  /\ At(p, "unrecord")
  /\ rec' = NoFile
  /\ fd' = MoveOpen(FALSE)
  /\ To(p, "unlock")
  /\ UNCHANGED <<vars, tok, tmp, held, hist>>

\* The lock goes last: FileLease's DeleteConnection.
UnlinkLock(p) ==
  /\ At(p, "unlock")
  /\ DeleteConnection
  /\ meant' = NoFile
  /\ To(p, "rest")
  /\ UNCHANGED <<files, fd, held, puts, overlaps>>

-----------------------------------------------------------------------------
(* The lease around write_token: FileLease's actions, called by the refresh. *)

\* The token is expired: refresh_if_needed asks for the lease.
AskLease(p) ==
  /\ At(p, "got") /\ held[p] # NoFile
  /\ Ask(p)
  /\ To(p, "asking")
  /\ held' = [held EXCEPT ![p] = NoFile]
  /\ UNCHANGED <<files, fd, hist>>

\* Granted, it reads the connection again; refused, it waits and rereads.
Acquire(p) ==
  /\ At(p, "asking")
  /\ Link(p) \/ ReadUntil(p) \/ ReplaceLock(p) \/ Confirm(p)
  /\ \/ pc'[p] = "idle" /\ To(p, "rest") /\ UNCHANGED overlaps
     \/ /\ pc'[p] = "owner" /\ To(p, "exists")
        /\ NoteOverlap({o \in {"write"} : \E q \in Others(p) : Changing(q)})
     \/ pc'[p] \notin {"idle", "owner"} /\ UNCHANGED <<step, overlaps>>
  /\ UNCHANGED <<files, fd, held, puts, meant>>

\* Mutant of Release: the lease is given back before write_token is through.
ReleaseEarly(p) ==
  /\ step[p] \in {"done", "rest"} \cup WriteSteps
  /\ ReadHolder(p) \/ Unlink(p)
  /\ IF At(p, "done") /\ pc'[p] = "idle" THEN To(p, "rest") ELSE UNCHANGED step
  /\ UNCHANGED <<files, fd, held, hist>>

\* The finally of refresh_if_needed.
Release(p) ==
  /\ At(p, "done")
  /\ ReadHolder(p) \/ Unlink(p)
  /\ IF pc'[p] = "idle" THEN To(p, "rest") ELSE UNCHANGED step
  /\ UNCHANGED <<files, fd, held, hist>>

\* A process dies between two calls, with or without the lease, and starts
\* again; its files stay as they are.
Crash(p) ==
  /\ step[p] \notin {"rest", "got"}
  /\ \/ Die(p)
     \/ /\ pc[p] = "idle" /\ deaths < MaxDeaths
        /\ deaths' = deaths + 1
        /\ UNCHANGED <<now, lock, pc, tnow, until, drops, drop, faults>>
  /\ To(p, "rest")
  /\ fd' = [fd EXCEPT ![p] = "none"]
  /\ NoteOverlap(IF \/ Changing(p)
                    \/ fd[p] = "rec"
                    \/ fd[p] = "tmp" /\ \E q \in Others(p) : step[q] \in {"filltmp", "publish"}
                    THEN {"death"} ELSE {})
  /\ held' = [held EXCEPT ![p] = NoFile]
  /\ UNCHANGED <<files, puts, meant>>

Clock == Tick /\ UNCHANGED fvars

StoreInit ==
  /\ Init
  /\ rec = NoFile /\ tok = NoFile /\ tmp = NoFile
  /\ step = [p \in Procs |-> "rest"]
  /\ fd = [p \in Procs |-> "none"]
  /\ held = [p \in Procs |-> NoFile]
  /\ puts = 0
  /\ meant = NoFile
  /\ overlaps = {}

Get(p) ==
  StartGet(p) \/ RecordExists(p) \/ ReadRecord(p) \/ TokenExists(p) \/ ReadToken(p) \/ Return(p)

WriteToken(p) ==
  SealToken(p) \/ RereadRecord(p) \/ OpenTmp(p) \/ FillTmp(p) \/ PublishTmp(p)

Put(p) == StartPut(p) \/ OpenRecord(p) \/ FillRecord(p) \/ PutToken(p)

Delete(p) ==
  StartDelete(p) \/ ZeroToken(p) \/ UnlinkToken(p) \/ UnlinkRecord(p) \/ UnlinkLock(p)

StoreNext ==
  \/ \E p \in Procs :
       \/ Get(p) \/ WriteToken(p) \/ Put(p) \/ Delete(p)
       \/ AskLease(p) \/ Acquire(p) \/ Release(p) \/ Crash(p)
  \/ Clock

StoreSpec == StoreInit /\ [][StoreNext]_<<vars, fvars>>

-----------------------------------------------------------------------------
(* Properties. *)

Settled == \A p \in Procs : ~Changing(p) /\ ~Writing(p)

\* A record that cannot be parsed is one that put_connection is writing in
\* place at this moment, or died writing; while the lock is a lease and nothing
\* was deleted, no write_token ever leaves one.  A sealed token that cannot be
\* opened is one that delete_connection is about to unlink, or died before it.
TornHasWriter ==
  /\ rec = Torn => \/ "death" \in overlaps
                   \/ \E p \in Procs : fd[p] = "rec" /\ (faults = {} /\ drops = 0 => At(p, "fill"))
  /\ tok = Torn => "death" \in overlaps \/ \E p \in Procs : At(p, "untoken")

\* Between calls the record and the token are those of the last completed put,
\* or both are gone if it was a delete, unless a put or delete overlapped
\* another or a refresh, or died.  Any number of refreshes may overlap, even
\* two owners that share the temporary file after an overrun or a double
\* steal: a broken lease costs a failed call, never the record.
SettledStore == Settled /\ overlaps = {} => rec = meant /\ tok = meant

-----------------------------------------------------------------------------
(* What the repository says, and the code does not keep. *)

\* After a revoke the sealed token is off the disk, whatever refresh was under
\* way, until the connection is put again.
RevokedTokenIsGone ==
  meant = NoFile /\ overlaps \subseteq {"write"} /\ (\A p \in Procs : ~Changing(p))
    => tok = NoFile

-----------------------------------------------------------------------------
(* Inductive strengthenings, used by FileStoreProofs. *)

\* Where a process is in the lease while it is at a step of the store, and
\* when it has a file open.
StepOK(p) ==
  /\ step[p] \in {"rest", "got"} \cup PutSteps \cup DeleteSteps => pc[p] = "idle"
  /\ step[p] \in GetSteps => pc[p] \in {"idle", "owner"}
  /\ step[p] \in WriteSteps => pc[p] = "owner"
  /\ step[p] = "asking" => pc[p] \in {"link", "read", "replace", "confirm"}
  /\ step[p] = "done" => pc[p] \in {"owner", "unlink"}
  /\ fd[p] # "none" => step[p] \in {"fill", "filltmp"}
  /\ fd[p] = "tmp" => step[p] = "filltmp"

StepInv == \A p \in Procs : StepOK(p)

\* While somebody is about to publish the shared temporary file, it is torn
\* only if somebody has it open.
TmpInv ==
  /\ tmp = Torn
  /\ \E p \in Procs : step[p] \in {"filltmp", "publish"}
  => "death" \in overlaps \/ \E p \in Procs : fd[p] = "tmp"

TornInv == TmpInv /\ TornHasWriter

\* A change is alone with the files, and what it has done so far is there;
\* without one the files are those of the last change, but for a record that
\* is being written by two refreshes, which write it as it was.
SettledInv ==
  overlaps = {} =>
    /\ \A p, q \in Procs : Changing(p) /\ (Changing(q) \/ Writing(q)) => p = q
    /\ \A p \in Procs :
         /\ At(p, "fill") => fd[p] = "rec"
         /\ At(p, "putseal") => rec = held[p]
         /\ At(p, "untoken") => tok = Torn
         /\ At(p, "unrecord") => tok = NoFile
         /\ At(p, "unlock") => rec = NoFile /\ tok = NoFile
    /\ (\A p \in Procs : ~Changing(p)) => rec \in {meant, Torn} /\ tok = meant
    /\ \A p \in Procs :
         /\ step[p] \in {"seal", "opentmp", "filltmp"} => held[p] = meant
         /\ step[p] \in {"filltmp", "publish"} => tmp \in {meant, Torn, NoFile}

=============================================================================
