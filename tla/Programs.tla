------------------------------- MODULE Programs -------------------------------
(* User programs that talk through pipes, on the descriptors of module Files:  *)
(* user/primes.c, pingpong.c, xargs.c, cat.c, echo.c, the pipeline of grind.c, *)
(* and runcmd of the shell for any command its parser yields.                  *)
(*                                                                             *)
(* A process executes a list of steps, one system call each, and a forked      *)
(* child starts with the list its fork names; what a program computes between  *)
(* two calls is part of the list.                                              *)
EXTENDS Files, Shell

CONSTANTS MaxNum,    \* the last number primes.c feeds its pipeline (35 in the code)
          MaxFail,   \* bound on the calls that find no memory
          Lines,     \* the command lines the shell runs
          Texts      \* the token sequences the parser is checked on

VARIABLES prog,   \* the program that runs: its name, or the command line of the shell
          todo,   \* the steps each process still has to take
          fds,    \* its descriptor variables: the pairs p[0] and p[1]
          var,    \* its other variables
          out,    \* what was written to the console and to the file
          failed  \* the calls that found no memory

progvars == <<filesvars, prog, todo, fds, var, out, failed>>

Newline == 9   \* the character that ends a line of xargs's input; 1 stands for any other
Vars == [dividend |-> 0, prime |-> 0, num |-> 0, p |-> 0]

(* a descriptor, as a program names it: a number, or an end of p[dividend%2] or *)
(* of p[(dividend-1)%2]                                                         *)
Fd(q, x) == CASE x[1] = "fd" -> x[2]
              [] x[1] = "cur" -> fds[q][var[q].dividend % 2][x[2]]
              [] x[1] = "prev" -> fds[q][(var[q].dividend + 1) % 2][x[2]]

Stdin == <<"fd", 0>>
Stdout == <<"fd", 1>>
CurR == <<"cur", 0>>
CurW == <<"cur", 1>>
PrevR == <<"prev", 0>>
PrevW == <<"prev", 1>>
Exit == <<"exit">>
Wait == <<"wait">>
Close(x) == <<"close", x>>
Dup(x) == <<"dup", x>>
Read(x, v) == <<"read", x, v>>
Write(x, v) == <<"write", x, v>>
Put(x, c) == <<"put", x, c>>
Pipe(w, onfail) == <<"pipe", w, onfail>>
Fork(child, onfail) == <<"fork", child, onfail>>
Zero(v, yes, no) == <<"zero", v, yes, no>>
Goto(name) == <<"goto", name>>

(* what runcmd does with a pipe once it has forked both sides *)
PipeParent_KeepWrite == <<Close(CurR), Wait, Wait, Exit>>
PipeParent == <<Close(CurR), Close(CurW), Wait, Wait, Exit>>

(* runcmd.  fork1 and the check of pipe() panic, which exits; the words are    *)
(* the names of the programs exec finds.                                       *)
RECURSIVE runcmd(_)
runcmd(cmd) ==
  CASE cmd[1] = "exec" -> IF cmd[2] = << >> THEN <<Exit>> ELSE <<Goto(cmd[2][1])>>
    [] cmd[1] = "redir" -> <<Close(IF cmd[3][1] = "<" THEN Stdin ELSE Stdout), <<"open">>>> \o runcmd(cmd[2])
    [] cmd[1] = "list" -> <<Fork(runcmd(cmd[2]), <<Exit>>), Wait>> \o runcmd(cmd[3])
    [] cmd[1] = "pipe" ->
         <<Pipe("cur", <<Exit>>),
           Fork(<<Close(Stdout), Dup(CurW), Close(CurR), Close(CurW)>> \o runcmd(cmd[2]), <<Exit>>),
           Fork(<<Close(Stdin), Dup(CurR), Close(CurR), Close(CurW)>> \o runcmd(cmd[3]), <<Exit>>)>>
         \o PipeParent
    [] cmd[1] = "back" -> <<Fork(runcmd(cmd[2]), <<Exit>>), Exit>>

(* main of sh: fork1, parsecmd and runcmd in the child, wait *)
runline(line) == IF line.ok THEN runcmd(line.cmd) ELSE <<Exit>>
sh(s) == <<Fork(runline(parsecmd(s)), <<Exit>>), Wait, Exit>>

(* primes.c: main, the loop of a stage that has no successor yet, and the one  *)
(* of a stage that has                                                         *)
primes == <<Pipe("cur", << >>),
            Fork(<<<<"inc", "dividend">>, Close(PrevW), Read(PrevR, "prime"), Write(Stdout, "prime"),
                   Goto("sieve")>>, << >>),
            Close(CurR), <<"set", "num", 2>>, Goto("feed")>>
feed == <<Write(CurW, "num"), <<"inc", "num">>, <<"more", <<Goto("feed")>>, <<Close(CurW), Wait, Exit>>>>>>
sieve == <<Read(PrevR, "num"),
           Zero("num", <<Close(PrevR), Wait, Exit>>,
             <<<<"divides", <<Goto("sieve")>>,
                <<Pipe("cur", << >>),
                  Fork(<<<<"inc", "dividend">>, Close(PrevW), Read(PrevR, "prime"),
                         Zero("prime", <<Close(PrevR), Exit>>, <<Write(Stdout, "prime"), Goto("sieve")>>)>>, << >>),
                  Close(CurR), Write(CurW, "num"), Goto("filter")>>>>>>)>>
filter == <<Read(PrevR, "num"),
            Zero("num", <<Close(CurW), Close(PrevR), Wait, Exit>>,
              <<<<"divides", <<Goto("filter")>>, <<Write(CurW, "num"), Goto("filter")>>>>>>)>>

(* pingpong.c: p1 is the current pair of descriptors, p2 the previous one; the *)
(* child prints 1 for "received ping", the parent 2 for "received pong"        *)
pingpong == <<Pipe("cur", << >>), Pipe("prev", << >>),
              Fork(<<Close(CurW), Close(PrevR), Read(CurR, "num"), Put(Stdout, 1), Put(PrevW, 5),
                     Close(CurR), Close(PrevW), Exit>>, << >>),
              Close(CurR), Close(PrevW), Put(CurW, 5), Read(PrevR, "num"), Put(Stdout, 2),
              Close(CurW), Close(PrevR), Exit>>

(* xargs.c: one command per input line, run to its end before the next; the    *)
(* command prints the length of the line it is given                           *)
xargs_NoWait ==
  <<Read(Stdin, "num"),
    Zero("num", <<Exit>>,
      <<<<"newline", <<Fork(<<Write(Stdout, "p"), Exit>>, << >>), <<"set", "p", 0>>, Goto("xargs")>>,
                     <<<<"inc", "p">>, Goto("xargs")>>>>>>)>>
xargs == <<Read(Stdin, "num"),
           Zero("num", <<Exit>>,
             <<<<"newline", <<Fork(<<Write(Stdout, "p"), Exit>>, << >>), <<"set", "p", 0>>, Wait, Goto("xargs")>>,
                            <<<<"inc", "p">>, Goto("xargs")>>>>>>)>>

(* cat.c with no argument: a failing write ends it *)
cat == <<Read(Stdin, "num"), Zero("num", <<Exit>>, <<Write(Stdout, "num"), Goto("cat")>>)>>

(* grind.c, case 22: echo hi | cat, with aa the current pair, bb the previous *)
grind == <<Pipe("cur", <<Exit>>), Pipe("prev", <<Exit>>),
           Fork(<<Close(PrevR), Close(PrevW), Close(CurR), Close(Stdout), Dup(CurW), Close(CurW),
                  Goto("two")>>, <<Exit>>),
           Fork(<<Close(CurW), Close(PrevR), Close(Stdin), Dup(CurR), Close(CurR), Close(Stdout),
                  Dup(PrevW), Close(PrevW), Goto("cat")>>, <<Exit>>),
           Close(CurR), Close(CurW), Close(PrevW), Read(PrevR, "num"), Write(Stdout, "num"), Close(PrevR),
           Wait, Wait, Exit>>

Text == <<1, 1, Newline, Newline, 1, Newline, 1>>   \* three lines, and a rest that no newline ends

(* exec: the programs the commands name *)
Code(name) ==
  CASE name = "primes" -> primes
    [] name = "feed" -> feed
    [] name = "sieve" -> sieve
    [] name = "filter" -> filter
    [] name = "pingpong" -> pingpong
    [] name = "xargs" -> xargs
    [] name = "cat" -> cat
    [] name = "grind" -> grind
    [] name = "one" -> <<Put(Stdout, 1), Exit>>        \* echo.c
    [] name = "two" -> <<Put(Stdout, 2), Exit>>
    [] name = "text" -> [i \in 1..Len(Text) |-> Put(Stdout, Text[i])] \o <<Exit>>

Runs == {<<name>> : name \in {"primes", "pingpong", "grind"}} \cup {<<"sh", s>> : s \in Lines}

ProgInit ==
  /\ FilesInit
  /\ prog \in Runs \cup {<<"parse", s>> : s \in Texts}
  /\ todo = [q \in Procs |-> IF q # 1 THEN << >>
                             ELSE CASE prog[1] = "sh" -> sh(prog[2])
                                    [] prog[1] = "parse" -> <<Exit>>
                                    [] OTHER -> Code(prog[1])]
  /\ fds = [q \in Procs |-> [i \in 0..1 |-> [e \in 0..1 |-> -1]]]
  /\ var = [q \in Procs |-> Vars]
  /\ out = << >>
  /\ failed = 0

Ready(q, op) == state[q] = "used" /\ closing[q] = NoFile /\ Head(todo[q])[1] = op
Arg(q, i) == Head(todo[q])[i]
Continue(q, more) == todo' = [todo EXCEPT ![q] = more \o Tail(@)]
Jump(q, steps) == todo' = [todo EXCEPT ![q] = steps]

Failing(nomem) == (nomem => failed < MaxFail) /\ failed' = IF nomem THEN failed + 1 ELSE failed

(* Memory fails only a pipe() whose result the program checks: the others go   *)
(* on with uninitialised descriptors.                                          *)
DoPipe(q) ==
  /\ Ready(q, "pipe")
  /\ \E r \in {<<-1, -1>>} \cup (Fds \X Fds), nomem \in BOOLEAN :
       /\ nomem => Arg(q, 3) # << >>
       /\ sys_pipe(q, nomem, r)
       /\ Failing(nomem)
       /\ Continue(q, IF r[1] = -1 THEN Arg(q, 3) ELSE << >>)
       /\ LET i == (var[q].dividend + IF Arg(q, 2) = "cur" THEN 0 ELSE 1) % 2
          IN  fds' = [fds EXCEPT ![q][i] = [e \in 0..1 |-> r[e + 1]]]
  /\ UNCHANGED <<prog, var, out>>

DoFork(q) ==
  /\ Ready(q, "fork")
  /\ \E r \in Procs \cup {-1}, nomem \in BOOLEAN :
       /\ fork(q, nomem, r)
       /\ Failing(nomem)
       /\ todo' = [c \in Procs |-> IF c = q THEN (IF r = -1 THEN Arg(q, 3) ELSE << >>) \o Tail(todo[q])
                                   ELSE IF c = r THEN Arg(q, 2) ELSE todo[c]]
       /\ fds' = [c \in Procs |-> IF c = r THEN fds[q] ELSE fds[c]]
       /\ var' = [c \in Procs |-> IF c = r THEN var[q] ELSE var[c]]
  /\ UNCHANGED <<prog, out>>

DoClose(q) ==
  /\ Ready(q, "close")
  /\ \E r \in {-1, 0} : sys_close(q, Fd(q, Arg(q, 2)), r)
  /\ Continue(q, << >>)
  /\ UNCHANGED <<prog, fds, var, out, failed>>

DoDup(q) ==
  /\ Ready(q, "dup")
  /\ \E r \in Fds \cup {-1} : sys_dup(q, Fd(q, Arg(q, 2)), r)
  /\ Continue(q, << >>)
  /\ UNCHANGED <<prog, fds, var, out, failed>>

DoOpen(q) ==
  /\ Ready(q, "open")
  /\ \E r \in Fds \cup {-1} : sys_open(q, "file", r) /\ Continue(q, IF r = -1 THEN <<Exit>> ELSE << >>)
  /\ UNCHANGED <<prog, fds, var, out, failed>>

DoRead(q) ==
  /\ Ready(q, "read")
  /\ \E r \in -1..MaxNum + Newline : sys_read(q, Fd(q, Arg(q, 2)), r) /\ var' = [var EXCEPT ![q][Arg(q, 3)] = r]
  /\ Continue(q, << >>)
  /\ UNCHANGED <<prog, fds, out, failed>>

(* write, of a variable or of a character; cat leaves its loop when it fails *)
DoWrite(q) ==
  /\ Ready(q, "write") \/ Ready(q, "put")
  /\ LET fd == Fd(q, Arg(q, 2))
         x == IF Arg(q, 1) = "put" THEN Arg(q, 3) ELSE var[q][Arg(q, 3)]
     IN  \E r \in {-1, 0} :
           /\ sys_write(q, fd, x, r)
           /\ IF r = -1 /\ Tail(todo[q]) = <<Goto("cat")>> THEN Jump(q, <<Exit>>) ELSE Continue(q, << >>)
           /\ out' = IF Open(q, fd) /\ file[ofile[q][fd]].type # "pipe"
                     THEN Append(out, <<file[ofile[q][fd]].type, x>>) ELSE out
  /\ UNCHANGED <<prog, fds, var, failed>>

DoWait(q) ==
  /\ Ready(q, "wait")
  /\ \E r \in Procs \cup {-1} : wait(q, r)
  /\ Continue(q, << >>)
  /\ UNCHANGED <<prog, fds, var, out, failed>>

DoExit(q) ==
  /\ Ready(q, "exit")
  /\ \/ exitClose(q) /\ UNCHANGED <<todo, fds, var>>
     \/ /\ exit(q)
        /\ Jump(q, << >>)
        /\ fds' = [fds EXCEPT ![q] = [i \in 0..1 |-> [e \in 0..1 |-> -1]]]
        /\ var' = [var EXCEPT ![q] = Vars]
  /\ UNCHANGED <<prog, out, failed>>

DoPipeClose(q) == pipeclose(q) /\ UNCHANGED <<prog, todo, fds, var, out, failed>>

(* what a program does on its own: tests, assignments and jumps *)
Compute(q) ==
  /\ \/ Ready(q, "goto") /\ Jump(q, Code(Arg(q, 2))) /\ UNCHANGED var
     \/ Ready(q, "set") /\ Continue(q, << >>) /\ var' = [var EXCEPT ![q][Arg(q, 2)] = Arg(q, 3)]
     \/ Ready(q, "inc") /\ Continue(q, << >>) /\ var' = [var EXCEPT ![q][Arg(q, 2)] = @ + 1]
     \/ /\ Ready(q, "zero")
        /\ Continue(q, IF var[q][Arg(q, 2)] <= 0 THEN Arg(q, 3) ELSE Arg(q, 4))
        /\ UNCHANGED var
     \/ /\ Ready(q, "divides")
        /\ Continue(q, IF var[q].num % var[q].prime = 0 THEN Arg(q, 2) ELSE Arg(q, 3))
        /\ UNCHANGED var
     \/ Ready(q, "more") /\ Continue(q, IF var[q].num <= MaxNum THEN Arg(q, 2) ELSE Arg(q, 3)) /\ UNCHANGED var
     \/ Ready(q, "newline") /\ Continue(q, IF var[q].num = Newline THEN Arg(q, 2) ELSE Arg(q, 3)) /\ UNCHANGED var
  /\ UNCHANGED <<filesvars, prog, fds, out, failed>>

Step(q) == \/ DoPipe(q) \/ DoFork(q) \/ DoClose(q) \/ DoDup(q) \/ DoOpen(q) \/ DoRead(q) \/ DoWrite(q)
           \/ DoWait(q) \/ DoExit(q) \/ DoPipeClose(q) \/ Compute(q)

ProgNext == prog[1] # "parse" /\ \E q \in Procs : Step(q)

(* the machine does not stop while a process can run; no fairness between     *)
(* processes is needed                                                        *)
ProgSpec == ProgInit /\ [][ProgNext]_progvars /\ WF_progvars(ProgNext)

------------------------------------------------------------------------------
(* What a command writes, run alone and in order: a list of <<where, what>>,   *)
(* given its standard input.                                                   *)
On(where, m) == SelectSeq(m, LAMBDA x : x[1] = where)

LineLengths(s) ==
  LET ends == {0} \cup {i \in 1..Len(s) : s[i] = Newline}
      cuts == SetToSortSeq(ends, <)
  IN  [k \in 1..Len(cuts) - 1 |-> cuts[k + 1] - cuts[k] - 1]

RECURSIVE Meaning(_, _)
Meaning(cmd, in) ==
  LET To(where, s) == [i \in 1..Len(s) |-> <<where, s[i]>>]
      Contents(m) == [i \in 1..Len(m) |-> m[i][2]]
  IN  CASE cmd[1] = "exec" ->
             IF cmd[2] = << >> THEN << >>
             ELSE To("console", CASE cmd[2][1] = "one" -> <<1>>
                                  [] cmd[2][1] = "two" -> <<2>>
                                  [] cmd[2][1] = "text" -> Text
                                  [] cmd[2][1] = "cat" -> in
                                  [] cmd[2][1] = "xargs" -> LineLengths(in))
        [] cmd[1] = "redir" ->
             IF cmd[3][1] = "<" THEN Meaning(cmd[2], << >>)
             ELSE To("file", Contents(Meaning(cmd[2], in)))
        [] cmd[1] = "list" -> Meaning(cmd[2], in) \o Meaning(cmd[3], << >>)
        [] cmd[1] = "pipe" ->
             LET left == Meaning(cmd[2], in)
             IN  On("file", left) \o Meaning(cmd[3], Contents(On("console", left)))
        [] cmd[1] = "back" -> Meaning(cmd[2], in)

LineMeaning(line) == IF line.ok THEN Meaning(line.cmd, << >>) ELSE << >>

Prime(n) == n > 1 /\ \A k \in 2..n - 1 : n % k # 0

Expected(g) ==
     CASE g[1] = "primes" -> LET s == SetToSortSeq({n \in 2..MaxNum : Prime(n)}, <)
                             IN  [i \in 1..Len(s) |-> <<"console", s[i]>>]
       [] g[1] = "pingpong" -> <<<<"console", 1>>, <<"console", 2>>>>
       [] g[1] = "grind" -> <<<<"console", 2>>>>
       [] g[1] = "sh" -> LineMeaning(parsecmd(g[2]))

Background == prog[1] = "sh" /\ "&" \in Range(prog[2])
Finished == prog[1] = "parse" \/ \A q \in Procs : state[q] # "used"

SameOutput(m, expected) ==
  LET Count(x, s) == Len(SelectSeq(s, LAMBDA y : y = x))
  IN  /\ Background \/ \A where \in {"console", "file"} : On(where, m) = On(where, expected)
      /\ \A x \in Range(m) \cup Range(expected) : Count(x, m) = Count(x, expected)

(* The processes of a program together write what the program is for: the     *)
(* sieve of primes.c the primes in order, pingpong.c the ping before the pong, *)
(* a shell pipeline what its commands give one after the other, each line of   *)
(* xargs.c's input once and in order.  Only background commands may reorder.   *)
(* (Stated when all have exited: a wrong output on the way is wrong at the end.) *)
OutputRight == Finished /\ failed = 0 /\ prog[1] # "parse" => SameOutput(out, Expected(prog))

(* Every program ends: each end of each pipe is closed by every process that   *)
(* has it, so no reader waits for an end of file that never comes and no       *)
(* parent for a child that never exits, also when a fork or a pipe fails       *)
(* (primes.c, pingpong.c, xargs.c, sh.c runcmd).                               *)
Completes == <>[]Finished

(* The shell's parser agrees with the grammar on every text. *)
ParseExact == prog[1] = "parse" /\ Open(1, 0) => ParsesLine(prog[2])
==============================================================================
