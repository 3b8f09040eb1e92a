------------------------------ MODULE AuditLog ------------------------------
(***************************************************************************)
(* The persistent audit log (packages/fw-agent/src/audit-log.js): append   *)
(* to one file, and past a size limit shift the numbered generations up by *)
(* one and start a fresh file.  Every file system call of a rotation is a  *)
(* step, because the processes that load the agent (a host and the         *)
(* children it re-injects, packages/fw-agent/index.js) share the directory.*)
(*                                                                         *)
(* A segment stands for one file's content, numbered by creation; names[0] *)
(* is audit.log and names[i] is audit.log.i.                               *)
(***************************************************************************)
EXTENDS Naturals

CONSTANTS
    Proc,          \* processes that share the log directory
    MaxRotations,  \* MAX_ROTATIONS: the generations kept
    MaxSize,       \* MAX_FILE_SIZE, in events
    MaxEvents,     \* bound on the events written in all
    Faults,        \* what may go wrong
    NoSegment      \* no file of that name, or no descriptor

ASSUME AuditAssumption ==
    /\ MaxRotations \in Nat \ {0}
    /\ MaxSize \in Nat
    /\ MaxEvents \in Nat
    /\ Faults \subseteq {"crash", "rename", "open"}
    /\ NoSegment \notin Nat

VARIABLES
    names,      \* which segment each name refers to
    size,       \* events in each segment
    fd,         \* this.fd: the segment each process appends to
    pc,         \* where each process is in write() and _rotate()
    index,      \* the loop variable i of _rotate()
    made,       \* segments created so far
    discarded,  \* segments that lost their last name (history)
    events,     \* events written so far, for the bound
    failures    \* which of the faults have happened (history)

logVars == <<names, size, fd, pc, index, made, discarded, events>>
vars    == <<logVars, failures>>

Generations == 1..MaxRotations
Names    == 0..MaxRotations
Segments == 1..(MaxEvents + 1)
Steps    == {"down", "idle", "wrote", "shift", "retire", "open"}

Init ==
    /\ names = [n \in Names |-> NoSegment]
    /\ size = [s \in Segments |-> 0]
    /\ fd = [p \in Proc |-> NoSegment]
    /\ pc = [p \in Proc |-> "down"]
    /\ index = [p \in Proc |-> 0]
    /\ made = 0
    /\ discarded = {}
    /\ events = 0
    /\ failures = {}

Happens(fault) == fault \in Faults /\ failures' = failures \cup {fault}
NoFault == UNCHANGED failures

Goto(p, step) == pc' = [pc EXCEPT ![p] = step]

-----------------------------------------------------------------------------
(* Opening the active segment: _init, and the end of _rotate. *)

\* Mutant: the file is opened for writing, which empties an existing one.
Open_Truncates(p) ==
    /\ pc[p] \in {"down", "open"}
    /\ made < MaxEvents + 1
    /\ made' = made + 1
    /\ names' = [names EXCEPT ![0] = made + 1]
    /\ discarded' = discarded \cup ({names[0]} \ {NoSegment})
    /\ fd' = [fd EXCEPT ![p] = made + 1]
    /\ Goto(p, "idle")
    /\ UNCHANGED <<size, index, events>> /\ NoFault

\* openSecure in append mode: the existing file, or a new one.
Open(p) ==
    /\ pc[p] \in {"down", "open"}
    /\ IF names[0] # NoSegment
         THEN /\ fd' = [fd EXCEPT ![p] = names[0]]
              /\ UNCHANGED <<names, made>>
         ELSE /\ made < MaxEvents + 1
              /\ made' = made + 1
              /\ names' = [names EXCEPT ![0] = made + 1]
              /\ fd' = [fd EXCEPT ![p] = made + 1]
    /\ Goto(p, "idle")
    /\ UNCHANGED <<size, index, discarded, events>> /\ NoFault

\* Both attempts fail: fd stays null and write() goes to stderr from now on.
OpenFails(p) ==
    /\ Happens("open")
    /\ pc[p] \in {"down", "open"}
    /\ fd' = [fd EXCEPT ![p] = NoSegment]
    /\ Goto(p, "idle")
    /\ UNCHANGED <<names, size, index, made, discarded, events>>

-----------------------------------------------------------------------------
(* write() *)

Write(p) ==
    /\ pc[p] = "idle"
    /\ fd[p] # NoSegment
    /\ events < MaxEvents
    /\ events' = events + 1
    /\ size' = [size EXCEPT ![fd[p]] = @ + 1]
    /\ Goto(p, "wrote")
    /\ UNCHANGED <<names, fd, index, made, discarded>> /\ NoFault

\* Mutants: the loop starts one generation too low, or too high.
FirstIndex_TooLow  == MaxRotations - 2
FirstIndex_TooHigh == MaxRotations

FirstIndex == MaxRotations - 1

\* Mutant: the old descriptor is kept through the rotation.
CloseFd_Kept(p) == UNCHANGED fd

CloseFd(p) == fd' = [fd EXCEPT ![p] = NoSegment]

\* fstat after the write; past the limit _rotate() closes the descriptor.
Stat(p) ==
    /\ pc[p] = "wrote"
    /\ IF size[fd[p]] > MaxSize
         THEN /\ CloseFd(p)
              /\ index' = [index EXCEPT ![p] = FirstIndex]
              /\ Goto(p, IF FirstIndex > 0 THEN "shift" ELSE "retire")
         ELSE /\ Goto(p, "idle")
              /\ UNCHANGED <<fd, index>>
    /\ UNCHANGED <<names, size, made, discarded, events>> /\ NoFault

-----------------------------------------------------------------------------
(* _rotate() *)

\* renameSync replaces the target, whose old segment is gone.
Rename(from, to) ==
    /\ names' = [names EXCEPT ![to] = names[from], ![from] = NoSegment]
    /\ discarded' = discarded \cup ({names[to]} \ {NoSegment})

NextIndex(i) == i - 1

\* A missing source is skipped, a failure swallowed.
RenameOrSkip(from, to) ==
    \/ /\ names[from] # NoSegment
       /\ Rename(from, to)
       /\ NoFault
    \/ /\ \/ names[from] = NoSegment /\ NoFault
          \/ names[from] # NoSegment /\ Happens("rename")
       /\ UNCHANGED <<names, discarded>>

\* One turn of the loop.
Shift(p) ==
    /\ pc[p] = "shift"
    /\ RenameOrSkip(index[p], index[p] + 1)
    /\ index' = [index EXCEPT ![p] = NextIndex(index[p])]
    /\ Goto(p, IF NextIndex(index[p]) > 0 THEN "shift" ELSE "retire")
    /\ UNCHANGED <<size, fd, made, events>>

\* audit.log becomes audit.log.1.
Retire(p) ==
    /\ pc[p] = "retire"
    /\ RenameOrSkip(0, 1)
    /\ Goto(p, "open")
    /\ UNCHANGED <<size, fd, index, made, events>>

-----------------------------------------------------------------------------
\* close(), called on shutdown and on exit; the process is gone afterwards.
Close(p) ==
    /\ pc[p] = "idle"
    /\ CloseFd(p)
    /\ Goto(p, "down")
    /\ UNCHANGED <<names, size, index, made, discarded, events>> /\ NoFault

\* The process is killed between any two calls; another may start later.
Crash(p) ==
    /\ Happens("crash")
    /\ pc[p] \notin {"down", "idle"}
    /\ fd' = [fd EXCEPT ![p] = NoSegment]
    /\ Goto(p, "down")
    /\ UNCHANGED <<names, size, index, made, discarded, events>>

Next ==
    \E p \in Proc :
        \/ Open(p) \/ OpenFails(p)
        \/ Write(p) \/ Stat(p)
        \/ Shift(p) \/ Retire(p)
        \/ Close(p) \/ Crash(p)

Spec == Init /\ [][Next]_vars

-----------------------------------------------------------------------------
TypeOK ==
    /\ names \in [Names -> Segments \cup {NoSegment}]
    /\ size \in [Segments -> Nat]
    /\ fd \in [Proc -> Segments \cup {NoSegment}]
    /\ pc \in [Proc -> Steps]
    /\ index \in [Proc -> 0..(MaxRotations - 1)]
    /\ made \in 0..(MaxEvents + 1)
    /\ discarded \subseteq Segments
    /\ events \in 0..MaxEvents
    /\ failures \subseteq Faults

\* README.md, Persistent Audit Log: "Log files rotate at 10 MB, keeping 5
\* generations".  As long as nothing failed, and when no rotation is under way,
\* a segment is gone only if MaxRotations newer ones were rotated out after it.
KeepsGenerations ==
    failures = {} /\ (\A p \in Proc : pc[p] \in {"down", "idle", "wrote"}) =>
        \A s \in discarded : made - s > MaxRotations

\* A rotation, finished or cut short by a crash, gives up the oldest segment
\* there is, unless a rename fails.
OnlyOldestDiscarded ==
    [][\A s \in discarded' \ discarded, n \in Names :
         "rename" \notin failures' /\ names[n] # NoSegment => names[n] >= s]_vars

\* A descriptor that a process holds is that of audit.log, at every step of a
\* rotation too: none is left open on a file that was rotated away.
WritesToActive ==
    \A p \in Proc : fd[p] # NoSegment => fd[p] = names[0]
=============================================================================
