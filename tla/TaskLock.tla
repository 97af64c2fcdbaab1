------------------------------ MODULE TaskLock ------------------------------
(***************************************************************************)
(* The operation lock of one component (TaskLock in task_commands.rs): a   *)
(* file created without overwriting, revalidated before every durable      *)
(* write, taken off its path by renaming it into a private quarantine, and *)
(* either removed there or linked back when it is not the expected file.   *)
(* task unlock and task recover break the lock of a dead owner.            *)
(*                                                                         *)
(* A process is one kvist command and creates at most one lock file, so a  *)
(* lock file (its nonce, pid and inode) is named by the process that       *)
(* created it.  Each file-system call is one step.                         *)
(***************************************************************************)
CONSTANTS
    Proc,       \* the commands started on the component
    NoLock      \* no file

ASSUME NoLockAssumption == NoLock \notin Proc

VARIABLES
    path,        \* the file at the lock path
    quarantine,  \* the file each process keeps in its quarantine
    retained,    \* the file a breaker read at the lock path
    alive,       \* the processes whose /proc entry exists
    pc,
    overlapped   \* history: two breakers were between reading and renaming

vars == <<path, quarantine, retained, alive, pc, overlapped>>

---------------------------------------------------------------------------
(* The steps of a process *)

Owning == {"owner", "write"}                          \* a TaskLock value exists
Holding == Owning \cup {"verify", "r-verify", "r-discard", "release"}
Renaming == {"u-rename", "r-rename"}
PC == Holding \cup Renaming \cup
      {"start", "check", "inspect", "u-check", "r-check", "r-create",
       "discard", "restore", "relinked", "done"}

File == Proc \cup {NoLock}

TypeOK ==
    /\ path \in File
    /\ quarantine \in [Proc -> File]
    /\ retained \in [Proc -> File]
    /\ alive \in SUBSET Proc
    /\ pc \in [Proc -> PC]
    /\ overlapped \in BOOLEAN

At(p, here) == pc[p] = here
Goto(p, there) == pc' = [pc EXCEPT ![p] = there]

\* lock_owner_appears_live
AppearsLive(file) == file \in alive

Init ==
    /\ path = NoLock
    /\ quarantine = [p \in Proc |-> NoLock]
    /\ retained = [p \in Proc |-> NoLock]
    /\ alive = Proc
    /\ pc = [p \in Proc |-> "start"]
    /\ overlapped = FALSE

---------------------------------------------------------------------------
(* TaskLock::create, revalidate and release *)

\* Mutant: the new file replaces the one that is there.
CreateOverwriting(p, from, to, refused) ==
    /\ At(p, from)
    /\ path' = p /\ Goto(p, to)
    /\ UNCHANGED <<quarantine, retained, alive, overlapped>>

\* persist_noclobber puts the file there only if there is none.
Create(p, from, to, refused) ==
    /\ At(p, from)
    /\ IF path = NoLock
       THEN path' = p /\ Goto(p, to)
       ELSE path' = path /\ Goto(p, refused)
    /\ UNCHANGED <<quarantine, retained, alive, overlapped>>

\* A read of the lock path that decides where the process goes next.
ReadBack(p, from, to, changed) ==
    /\ At(p, from)
    /\ Goto(p, IF path = p THEN to ELSE changed)
    /\ UNCHANGED <<path, quarantine, retained, alive, overlapped>>

Acquire(p) == Create(p, "start", "verify", "done") \/ ReadBack(p, "verify", "owner", "done")

\* lock.revalidate() before a durable write, then the write.
Revalidate(p) == ReadBack(p, "owner", "write", "done")

Write(p) ==
    /\ At(p, "write")
    /\ Goto(p, "owner")
    /\ UNCHANGED <<path, quarantine, retained, alive, overlapped>>

\* fs::rename of the lock path into a fresh quarantine path of the process.
Rename(p, from, to) ==
    /\ At(p, from)
    /\ IF path = NoLock
       THEN Goto(p, "done") /\ UNCHANGED <<path, quarantine>>
       ELSE /\ quarantine' = [quarantine EXCEPT ![p] = path]
            /\ path' = NoLock
            /\ Goto(p, to)
    /\ UNCHANGED <<retained, alive, overlapped>>

\* remove_if_owned, by release or by Drop
Release(p) ==
    \/ ReadBack(p, "owner", "release", "done")
    \/ Rename(p, "release", "check")
    \/ /\ At(p, "check")
       /\ Goto(p, IF quarantine[p] = p THEN "discard" ELSE "restore")
       /\ UNCHANGED <<path, quarantine, retained, alive, overlapped>>

\* Mutant: the process forgets that it had a quarantine.
DiscardForgetful(p, from, to) ==
    /\ At(p, from)
    /\ quarantine' = [q \in Proc \ {p} |-> quarantine[q]]
    /\ Goto(p, to)
    /\ UNCHANGED <<path, retained, alive, overlapped>>

\* fs::remove_file of the quarantined file.
Discard(p, from, to) ==
    /\ At(p, from)
    /\ quarantine' = [quarantine EXCEPT ![p] = NoLock]
    /\ Goto(p, to)
    /\ UNCHANGED <<path, retained, alive, overlapped>>

\* restore_quarantined_lock: link the file back unless another one is there.
Restore(p) ==
    \/ /\ At(p, "restore")
       /\ IF path = NoLock
          THEN path' = quarantine[p] /\ Goto(p, "relinked")
          ELSE path' = path /\ Goto(p, "done")
       /\ UNCHANGED <<quarantine, retained, alive, overlapped>>
    \/ Discard(p, "relinked", "done")

---------------------------------------------------------------------------
(* Breaking the lock of a dead owner: task unlock and task recover *)

\* Mutant: the owner of the retained lock is not looked up in /proc.
InspectAnyOwner(p, from, to) ==
    /\ At(p, from)
    /\ path # NoLock
    /\ retained' = [retained EXCEPT ![p] = path]
    /\ overlapped' = (overlapped \/ \E q \in Proc : pc[q] \in Renaming)
    /\ Goto(p, to)
    /\ UNCHANGED <<path, quarantine, alive>>

\* The breaker reads the lock and sees that its owner is dead.
Inspect(p, from, to) ==
    /\ At(p, from)
    /\ path # NoLock /\ ~AppearsLive(path)
    /\ retained' = [retained EXCEPT ![p] = path]
    /\ overlapped' = (overlapped \/ \E q \in Proc : pc[q] \in Renaming)
    /\ Goto(p, to)
    /\ UNCHANGED <<path, quarantine, alive>>

\* There is no lock, its owner lives, or (recover) it is another lock than
\* the one the attempt's evidence names.
GiveUp(p) ==
    /\ pc[p] \in {"start", "inspect"}
    /\ Goto(p, "done")
    /\ UNCHANGED <<path, quarantine, retained, alive, overlapped>>

\* Mutant: what was renamed is taken for what was read.
CheckSkipped(p, from, to) ==
    /\ At(p, from)
    /\ Goto(p, to)
    /\ UNCHANGED <<path, quarantine, retained, alive, overlapped>>

\* The quarantined file is the one that was read, and its owner is still dead.
CheckQuarantined(p, from, to) ==
    /\ At(p, from)
    /\ Goto(p, IF quarantine[p] = retained[p] /\ ~AppearsLive(quarantine[p])
               THEN to ELSE "restore")
    /\ UNCHANGED <<path, quarantine, retained, alive, overlapped>>

\* remove_stale_path
Unlock(p) ==
    \/ Inspect(p, "start", "u-rename")
    \/ Rename(p, "u-rename", "u-check")
    \/ CheckQuarantined(p, "u-check", "discard")

\* recover_path: after the first create has failed.
Recover(p) ==
    \/ Create(p, "start", "verify", "inspect")
    \/ Inspect(p, "inspect", "r-rename")
    \/ Rename(p, "r-rename", "r-check")
    \/ CheckQuarantined(p, "r-check", "r-create")
    \/ Create(p, "r-create", "r-verify", "restore")
    \/ ReadBack(p, "r-verify", "r-discard", "restore")
    \/ Discard(p, "r-discard", "owner")

---------------------------------------------------------------------------
\* The command is over and its process exits.
Exit(p) ==
    /\ At(p, "done") /\ p \in alive
    /\ alive' = alive \ {p}
    /\ UNCHANGED <<path, quarantine, retained, pc, overlapped>>

\* The process dies between any two of its calls.
Crash(p) ==
    /\ pc[p] \notin {"start", "done"}
    /\ alive' = alive \ {p}
    /\ Goto(p, "done")
    /\ UNCHANGED <<path, quarantine, retained, overlapped>>

Next ==
    \E p \in Proc :
        \/ Acquire(p) \/ Revalidate(p) \/ Write(p) \/ Release(p)
        \/ Discard(p, "discard", "done") \/ Restore(p)
        \/ Unlock(p) \/ Recover(p) \/ GiveUp(p)
        \/ Exit(p) \/ Crash(p)

Spec == Init /\ [][Next]_vars

---------------------------------------------------------------------------
(* Correctness *)

\* Exclusive locking: two commands never own the lock at once, as long as no
\* two breakers were between reading a stale lock and renaming it at the same
\* time.  Crashes at any step, recovery's takeover and a release or unlock
\* that meets a new owner are all allowed.
ExclusiveUnlessOverlapped ==
    ~overlapped => \A p, q \in Proc : (pc[p] \in Owning /\ pc[q] \in Owning) => p = q

\* Even when breakers overlap, nobody but its owner destroys the lock file of
\* a live command: it is at the lock path or kept in somebody's quarantine.
LiveLockSurvives ==
    \A p \in Proc :
        pc[p] \in Owning =>
            path = p \/ \E q \in Proc : quarantine[q] = p /\ pc[q] # "relinked"

\* Unless breakers overlapped, the lock of a live command leaves its path only
\* in that command's own release: unlock and recover never take it, although
\* they look at the owner one call before they rename.
LiveOwnerKeepsPath ==
    [][(path \in alive /\ path' # path /\ ~overlapped) => pc[path] = "release"]_vars

\* maerg/REQUIREMENTS.md: writes must use exclusive user-owned locking.
ExclusiveWrites ==
    \A p, q \in Proc : (pc[p] = "write" /\ pc[q] = "write") => p = q
=============================================================================
