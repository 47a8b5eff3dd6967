-------------------------------- MODULE Shell --------------------------------
(* The shell's parser (user/sh.c) on a line that is already cut into tokens,   *)
(* and what its commands mean.  A command is a tuple whose first element is    *)
(* its type; a parse yields the command and the tokens left, or fails where    *)
(* the code calls panic, which ends the process that parses.                   *)
EXTENDS Naturals, Sequences, SequencesExt

CONSTANT MAXARGS   \* size of argv

ASSUME ShellAssumption == MAXARGS \in Nat \ {0}

Redirections == {"<", ">", ">>"}
Symbols == Redirections \cup {"|", ";", "&", "(", ")"}

execcmd(argv) == <<"exec", argv>>
redircmd(cmd, r) == <<"redir", cmd, r>>      \* r: the symbol and the file
pipecmd(left, right) == <<"pipe", left, right>>
listcmd(left, right) == <<"list", left, right>>
backcmd(cmd) == <<"back", cmd>>

(* a command with its redirections around it, the last one outermost *)
Redirect(cmd, redirs) == FoldLeft(redircmd, cmd, redirs)

peek(s, toks) == s # << >> /\ Head(s) \in toks

Parsed(cmd, rest) == [ok |-> TRUE, cmd |-> cmd, rest |-> rest]
panic == [ok |-> FALSE, cmd |-> << >>, rest |-> << >>]
Then(r, Next(_)) == IF r.ok THEN Next(r) ELSE panic    \* panic does not return

RECURSIVE parseline(_), parsepipe(_), parseredirs(_, _), parseargs(_, _, _), Back(_)

(* parseredirs, which adds to the redirections found so far *)
parseredirs(s, redirs) ==
  IF ~peek(s, Redirections) THEN Parsed(redirs, s)
  ELSE IF Len(s) = 1 \/ s[2] \in Symbols THEN panic
  ELSE parseredirs(SubSeq(s, 3, Len(s)), Append(redirs, <<s[1], s[2]>>))

parseblock(s) ==
  Then(parseline(Tail(s)), LAMBDA line :
    IF ~peek(line.rest, {")"}) THEN panic
    ELSE Then(parseredirs(Tail(line.rest), << >>), LAMBDA redirs :
           Parsed(Redirect(line.cmd, redirs.cmd), redirs.rest)))

TooMany_Late(argv) == Len(argv) >= MAXARGS
TooMany(argv) == Len(argv) + 1 >= MAXARGS

(* the loop of parseexec, with the arguments and redirections found so far *)
parseargs(s, argv, redirs) ==
  IF s = << >> \/ peek(s, {"|", ")", "&", ";"}) THEN Parsed(Redirect(execcmd(argv), redirs), s)
  ELSE IF Head(s) \in Symbols \/ TooMany(argv) THEN panic
  ELSE Then(parseredirs(Tail(s), redirs), LAMBDA more :
         parseargs(more.rest, Append(argv, Head(s)), more.cmd))

parseexec(s) ==
  IF peek(s, {"("}) THEN parseblock(s)
  ELSE Then(parseredirs(s, << >>), LAMBDA redirs : parseargs(redirs.rest, << >>, redirs.cmd))

parsepipe(s) ==
  Then(parseexec(s), LAMBDA left :
    IF ~peek(left.rest, {"|"}) THEN left
    ELSE Then(parsepipe(Tail(left.rest)), LAMBDA right :
           Parsed(pipecmd(left.cmd, right.cmd), right.rest)))

Back(c) == IF peek(c.rest, {"&"}) THEN Back(Parsed(backcmd(c.cmd), Tail(c.rest))) ELSE c

parseline(s) ==
  Then(parsepipe(s), LAMBDA pipe :
    Then(Back(pipe), LAMBDA left :
      IF ~peek(left.rest, {";"}) THEN left
      ELSE Then(parseline(Tail(left.rest)), LAMBDA right :
             Parsed(listcmd(left.cmd, right.cmd), right.rest))))

parsecmd(s) == Then(parseline(s), LAMBDA line : IF line.rest = << >> THEN line ELSE panic)

------------------------------------------------------------------------------
(* The grammar the parser is meant for: the commands a token sequence stands   *)
(* for, by all the ways of cutting it up.                                      *)

Before(s, i) == SubSeq(s, 1, i - 1)
After(s, i) == SubSeq(s, i + 1, Len(s))
Positions(s, tok) == {i \in 1..Len(s) : s[i] = tok}

RedirectionsOnly(s) == /\ Len(s) % 2 = 0
                       /\ \A i \in 1..Len(s) : s[i] \in Redirections <=> i % 2 = 1
                       /\ \A i \in 1..Len(s) : i % 2 = 0 => s[i] \notin Symbols
Pairs(s) == [i \in 1..Len(s) \div 2 |-> <<s[2 * i - 1], s[2 * i]>>]

RECURSIVE LineTrees(_), BackTrees(_), PipeTrees(_)

SimpleTrees(s) ==
  LET symbols == {i \in 1..Len(s) : s[i] \in Symbols}
      files == {i + 1 : i \in symbols}
      argv == [i \in 1..Len(s) |-> IF i \in symbols \cup files THEN "<" ELSE s[i]]
      args == SelectSeq(argv, LAMBDA w : w # "<")
      redirs == SetToSortSeq(symbols, <)
  IN  IF /\ \A i \in symbols : s[i] \in Redirections /\ i + 1 \in (1..Len(s)) \ symbols
         /\ Len(args) < MAXARGS
      THEN {Redirect(execcmd(args), [k \in 1..Len(redirs) |-> <<s[redirs[k]], s[redirs[k] + 1]>>])}
      ELSE {}

BlockTrees(s) ==
  IF ~peek(s, {"("}) THEN {}
  ELSE UNION {{Redirect(t, Pairs(After(s, i))) : t \in LineTrees(Tail(Before(s, i)))} :
                i \in {j \in Positions(s, ")") : RedirectionsOnly(After(s, j))}}

PipeTrees(s) ==
  SimpleTrees(s) \cup BlockTrees(s)
  \cup UNION {{pipecmd(l, r) : l \in SimpleTrees(Before(s, i)) \cup BlockTrees(Before(s, i)),
                               r \in PipeTrees(After(s, i))} : i \in Positions(s, "|")}

BackTrees(s) ==
  PipeTrees(s) \cup
  IF s # << >> /\ Last(s) = "&" THEN {backcmd(t) : t \in BackTrees(Front(s))} ELSE {}

LineTrees(s) ==
  BackTrees(s)
  \cup UNION {{listcmd(l, r) : l \in BackTrees(Before(s, i)), r \in LineTrees(After(s, i))} :
                i \in Positions(s, ";")}

Trees(r) == IF r.ok THEN {r.cmd} ELSE {}

(* The recursive-descent parser of sh.c accepts exactly the lines of the       *)
(* grammar and gives each the one command it stands for: no line is ambiguous, *)
(* every token is used, and argv keeps room for its terminating zero           *)
(* (parsecmd, parseline, parsepipe, parseblock, parseredirs, parseexec).       *)
ParsesLine(s) == LineTrees(s) = Trees(parsecmd(s))
==============================================================================
