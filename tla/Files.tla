-------------------------------- MODULE Files --------------------------------
(* Open files, as the system calls of several processes share them             *)
(* (kernel/file.c, the descriptor half of kernel/sysfile.c, kernel/pipe.c      *)
(* pipealloc and pipeclose, and what fork, exit and wait in kernel/proc.c do   *)
(* to a descriptor table).  Every operator is one system call, or one critical *)
(* section of it, of process p; r is what the call returns.  A pipe holds      *)
(* whole messages here: module Pipe has its bytes.                             *)
EXTENDS Naturals, Integers, Sequences, FiniteSets, FiniteSetsExt

CONSTANTS NPROC,     \* processes
          NOFILE,    \* descriptors of a process
          NFILE,     \* entries of ftable
          PIPESIZE   \* messages a pipe holds

ASSUME FilesAssumption == {NPROC, NOFILE, NFILE, PIPESIZE} \subseteq Nat \ {0}

Procs == 1..NPROC
Fds == 0..NOFILE - 1

VARIABLES file,    \* ftable: references, type and end of each entry
          pipe,    \* each pipe: its two open flags and its contents; named after its read file
          ofile,   \* the descriptors of each process; 0 is an empty one
          closing, \* the file each process has dropped the last reference to and must still close
          state, parent

filesvars == <<file, pipe, ofile, closing, state, parent>>

NoFile == [ref |-> 0, type |-> "none", pipe |-> 0, writable |-> FALSE]
NoPipe == [readopen |-> FALSE, writeopen |-> FALSE, data |-> << >>]

(* The first process has the console as its standard files: one entry of      *)
(* ftable that init opens and duplicates twice.                               *)
FilesInit ==
  /\ file = [f \in 1..NFILE |-> IF f = 1 THEN [NoFile EXCEPT !.ref = 3, !.type = "console"] ELSE NoFile]
  /\ pipe = [k \in 1..NFILE |-> NoPipe]
  /\ ofile = [p \in Procs |-> [fd \in Fds |-> IF p = 1 /\ fd < 3 THEN 1 ELSE 0]]
  /\ closing = [p \in Procs |-> NoFile]
  /\ state = [p \in Procs |-> IF p = 1 THEN "used" ELSE "unused"]
  /\ parent = [p \in Procs |-> 0]

FreeFiles == {f \in 1..NFILE : file[f].ref = 0}
FreePipes == {k \in 1..NFILE : ~pipe[k].readopen /\ ~pipe[k].writeopen}
FreeFds(p) == {fd \in Fds : ofile[p][fd] = 0}

(* argfd *)
Open(p, fd) == fd \in Fds /\ ofile[p][fd] # 0

Second(S) == Min(S \ {Min(S)})

(* sys_pipe: pipealloc takes two files and a page, fdalloc two descriptors;   *)
(* a failure of any gives back what was taken.  kalloc may have no page.      *)
sys_pipe(p, nomem, r) ==
  /\ IF nomem \/ Cardinality(FreeFiles) < 2 \/ Cardinality(FreeFds(p)) < 2
     THEN r = <<-1, -1>> /\ UNCHANGED <<file, pipe, ofile>>
     ELSE LET f0 == Min(FreeFiles)
              f1 == Second(FreeFiles)
              pi == Min(FreePipes)
          IN  /\ r = <<Min(FreeFds(p)), Second(FreeFds(p))>>
              /\ pipe' = [pipe EXCEPT ![pi] = [readopen |-> TRUE, writeopen |-> TRUE, data |-> << >>]]
              /\ file' = [file EXCEPT ![f0] = [ref |-> 1, type |-> "pipe", pipe |-> pi, writable |-> FALSE],
                                      ![f1] = [ref |-> 1, type |-> "pipe", pipe |-> pi, writable |-> TRUE]]
              /\ ofile' = [ofile EXCEPT ![p][r[1]] = f0, ![p][r[2]] = f1]
  /\ UNCHANGED <<closing, state, parent>>

(* sys_open of a file of type t: filealloc and fdalloc *)
sys_open(p, t, r) ==
  /\ IF FreeFiles = {} \/ FreeFds(p) = {}
     THEN r = -1 /\ UNCHANGED <<file, ofile>>
     ELSE /\ r = Min(FreeFds(p))
          /\ file' = [file EXCEPT ![Min(FreeFiles)] = [NoFile EXCEPT !.ref = 1, !.type = t, !.writable = TRUE]]
          /\ ofile' = [ofile EXCEPT ![p][r] = Min(FreeFiles)]
  /\ UNCHANGED <<pipe, closing, state, parent>>

(* sys_dup: fdalloc, then filedup *)
sys_dup(p, fd, r) ==
  /\ IF ~Open(p, fd) \/ FreeFds(p) = {}
     THEN r = -1 /\ UNCHANGED <<file, ofile>>
     ELSE /\ r = Min(FreeFds(p))
          /\ ofile' = [ofile EXCEPT ![p][r] = ofile[p][fd]]
          /\ file' = [file EXCEPT ![ofile[p][fd]].ref = @ + 1]
  /\ UNCHANGED <<pipe, closing, state, parent>>

LastRef_Early(f) == file[f].ref <= 2
LastRef(f) == file[f].ref = 1

(* fileclose, under ftable.lock: drop a reference; the last one empties the   *)
(* entry, and what it referred to is closed after the lock is released.       *)
fileclose(p, fd) ==
  LET f == ofile[p][fd]
      last == LastRef(f)
  IN  /\ ofile' = [ofile EXCEPT ![p][fd] = 0]
      /\ file' = [file EXCEPT ![f] = IF last THEN NoFile ELSE [@ EXCEPT !.ref = @ - 1]]
      /\ closing' = [closing EXCEPT ![p] = IF last /\ file[f].type = "pipe" THEN file[f] ELSE NoFile]

sys_close(p, fd, r) ==
  /\ closing[p] = NoFile
  /\ IF Open(p, fd)
     THEN r = 0 /\ fileclose(p, fd)
     ELSE r = -1 /\ UNCHANGED <<file, ofile, closing>>
  /\ UNCHANGED <<pipe, state, parent>>

(* pipeclose, outside ftable.lock: the pipe's page is freed with its second end *)
pipeclose(p) ==
  /\ closing[p] # NoFile
  /\ pipe' = [pipe EXCEPT ![closing[p].pipe] =
                 LET q == IF closing[p].writable THEN [@ EXCEPT !.writeopen = FALSE]
                                                 ELSE [@ EXCEPT !.readopen = FALSE]
                 IN  IF q.readopen \/ q.writeopen THEN q ELSE NoPipe]
  /\ closing' = [closing EXCEPT ![p] = NoFile]
  /\ UNCHANGED <<file, ofile, state, parent>>

(* fileread and piperead: 0 is end of file, which a pipe shows when it is     *)
(* empty and its write end is closed; the console and the files are empty.    *)
sys_read(p, fd, r) ==
  /\ IF ~Open(p, fd)
     THEN r = -1 /\ UNCHANGED pipe
     ELSE LET f == file[ofile[p][fd]]
              q == pipe[f.pipe]
          IN  IF f.type # "pipe" THEN r = 0 /\ UNCHANGED pipe
              ELSE IF f.writable THEN r = -1 /\ UNCHANGED pipe
              ELSE /\ q.data # << >> \/ ~q.writeopen
                   /\ r = IF q.data = << >> THEN 0 ELSE Head(q.data)
                   /\ pipe' = [pipe EXCEPT ![f.pipe].data = IF @ = << >> THEN @ ELSE Tail(@)]
  /\ UNCHANGED <<file, ofile, closing, state, parent>>

(* filewrite and pipewrite: a full pipe blocks the writer, one whose read end *)
(* is closed makes the call fail.                                             *)
sys_write(p, fd, x, r) ==
  /\ IF ~Open(p, fd)
     THEN r = -1 /\ UNCHANGED pipe
     ELSE LET f == file[ofile[p][fd]]
              q == pipe[f.pipe]
          IN  IF f.type # "pipe" THEN r = 0 /\ UNCHANGED pipe
              ELSE IF ~f.writable \/ ~q.readopen THEN r = -1 /\ UNCHANGED pipe
              ELSE /\ Len(q.data) < PIPESIZE
                   /\ r = 0
                   /\ pipe' = [pipe EXCEPT ![f.pipe].data = Append(@, x)]
  /\ UNCHANGED <<file, ofile, closing, state, parent>>

(* fork: every descriptor of the parent is duplicated in the child; there may *)
(* be no memory for it                                                        *)
fork(p, nomem, r) ==
  /\ LET free == {c \in Procs : state[c] = "unused"}
     IN  IF nomem \/ free = {}
         THEN r = -1 /\ UNCHANGED <<file, ofile, state, parent>>
         ELSE /\ r = Min(free)
              /\ state' = [state EXCEPT ![r] = "used"]
              /\ parent' = [parent EXCEPT ![r] = p]
              /\ ofile' = [ofile EXCEPT ![r] = ofile[p]]
              /\ file' = [f \in 1..NFILE |->
                            [file[f] EXCEPT !.ref = @ + Cardinality({fd \in Fds : ofile[p][fd] = f})]]
  /\ UNCHANGED <<pipe, closing>>

(* exit, first part: close the open files, one after the other *)
exitClose(p) ==
  /\ closing[p] = NoFile
  /\ FreeFds(p) # Fds
  /\ fileclose(p, Min(Fds \ FreeFds(p)))
  /\ UNCHANGED <<pipe, state, parent>>

(* exit, second part: the children go to init, which reaps them, so the dead  *)
(* ones are free at once; the process itself waits for its parent as a zombie. *)
exit(p) ==
  /\ closing[p] = NoFile
  /\ FreeFds(p) = Fds
  /\ state' = [c \in Procs |->
                 IF c = p THEN (IF parent[p] = 0 THEN "unused" ELSE "zombie")
                 ELSE IF parent[c] = p /\ state[c] = "zombie" THEN "unused" ELSE state[c]]
  /\ parent' = [c \in Procs |-> IF parent[c] = p THEN 0 ELSE parent[c]]
  /\ UNCHANGED <<file, pipe, ofile, closing>>

(* wait: reap the first dead child; without children the call fails *)
wait(p, r) ==
  LET kids == {c \in Procs : parent[c] = p}
      dead == {c \in kids : state[c] = "zombie"}
  IN  /\ IF dead = {}
         THEN kids = {} /\ r = -1 /\ UNCHANGED <<state, parent>>
         ELSE /\ r = Min(dead)
              /\ state' = [state EXCEPT ![r] = "unused"]
              /\ parent' = [parent EXCEPT ![r] = 0]
      /\ UNCHANGED <<file, pipe, ofile, closing>>

------------------------------------------------------------------------------

FilesTypeOK ==
  /\ \A f \in 1..NFILE : /\ file[f].ref \in 0..NPROC * NOFILE
                         /\ file[f].type \in {"none", "pipe", "console", "file"}
  /\ \A p \in Procs : /\ \A fd \in Fds : ofile[p][fd] \in 0..NFILE
                      /\ state[p] \in {"unused", "used", "zombie"}

(* An entry of ftable counts exactly the descriptors that name it, so it is   *)
(* neither reused while a process can still reach it nor lost when none can   *)
(* (file.c filedup, fileclose; fork's and exit's loops over ofile).           *)
ReferencesExact ==
  \A f \in 1..NFILE :
     file[f].ref = Cardinality({<<p, fd>> \in Procs \X Fds : ofile[p][fd] = f})

(* An end of a pipe is open exactly while an entry of ftable stands for it, or *)
(* the process that dropped that entry has not reached pipeclose yet: no file  *)
(* names a freed pipe, and end-of-file and broken-pipe appear when the last    *)
(* descriptor goes (file.c fileclose, which closes the pipe after unlocking).  *)
EndsExact ==
  \A k \in 1..NFILE, w \in BOOLEAN :
     LET holders == {f \in 1..NFILE : file[f].ref > 0 /\ file[f].type = "pipe"
                                      /\ file[f].pipe = k /\ file[f].writable = w}
         late == {p \in Procs : closing[p].type = "pipe" /\ closing[p].pipe = k
                                /\ closing[p].writable = w}
     IN  /\ Cardinality(holders) + Cardinality(late) =
              (IF (IF w THEN pipe[k].writeopen ELSE pipe[k].readopen) THEN 1 ELSE 0)

FilesExact == FilesTypeOK /\ ReferencesExact /\ EndsExact
==============================================================================
