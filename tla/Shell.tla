-------------------------------- MODULE Shell ---------------------------------
(***************************************************************************)
(* The shell (programs/shell/src/shell.c) and what it uses of the library  *)
(* (os_terminal_readline, os_parse_command and os_system_run of            *)
(* programs/stdlib/src/os.c, strtok and strncpy of string.c) and of the    *)
(* kernel: getkey, putchar and print (src/isr80h/io.c), the screen of      *)
(* module Terminal, and command 7 with process_inject_arguments.  Beside   *)
(* it runs, once it was started, one program that prints and ends.         *)
(*                                                                         *)
(* Characters are letters, SPACE, BACKSPACE and RETURN.  The keys typed    *)
(* for the foreground process wait in its queue (module KeyQueue, which    *)
(* the keyboard's buffers are checked to implement in Keyboard).           *)
(***************************************************************************)
EXTENDS Terminal, SequencesExt, FiniteSets

CONSTANTS
  Letter,
  BUFF_SIZE,                   \* sizeof(buff) in main
  ARGUMENT_SIZE,               \* sizeof(argument) in struct command_argument
  OS_MAX_PROGRAM_ALLOCATIONS,
  MAX_KEYS,                    \* bound: keys typed for the shell
  MAX_AHEAD,                   \* bound: keys that wait at a time
  MAX_PRINTS                   \* bound: what the program prints

VARIABLES
  term,         \* the screen
  queue,        \* the shell's keyboard buffer
  pc,           \* where in main the shell is
  out,          \* buff, as far as it is filled
  allocations,  \* entries used in the shell's table of allocations
  program,      \* "none", or "running" and in the foreground
  prints,       \* what the program has printed so far
  typed,        \* history: the keys the shell has fetched
  ran,          \* history: what os_parse_command made of each line
  started,      \* history: the line and the arguments of each program started
  line          \* history: where the line began on the screen, and whether
                \* only what was typed on it has been drawn since

vars == <<term, queue, pc, out, allocations, program, prints, typed, ran,
          started, line>>

RETURN == "RETURN"

Key == Letter \cup {SPACE, BACKSPACE, RETURN}

------------------------------------------------------------------------------
(* strtok and os_parse_command. *)

\* The delimiters from position i on are skipped; the position after s is
\* that of its NUL.
SkipDelims(s, i) ==
  CHOOSE j \in i .. Len(s) + 1 :
    /\ j = Len(s) + 1 \/ s[j] # SPACE
    /\ \A k \in i .. j - 1 : s[k] = SPACE

TokenEnd(s, i) ==
  CHOOSE j \in i .. Len(s) + 1 :
    /\ j = Len(s) + 1 \/ s[j] = SPACE
    /\ \A k \in i .. j - 1 : s[k] # SPACE

\* Mutant: leading delimiters give an empty token.
strtok_eager(s, backup) ==
  IF backup > Len(s) THEN [token |-> << >>, backup |-> backup, null |-> TRUE]
  ELSE LET end == TokenEnd(s, backup)
       IN  [token |-> SubSeq(s, backup, end - 1), null |-> FALSE,
            backup |-> IF end > Len(s) THEN end ELSE end + 1]

\* From backup_string on: the token, and where the next search starts.
strtok(s, backup) ==
  LET begin == SkipDelims(s, backup)
      end == TokenEnd(s, begin)
  IN  IF begin > Len(s) THEN [token |-> << >>, backup |-> backup, null |-> TRUE]
      ELSE [token |-> SubSeq(s, begin, end - 1), null |-> FALSE,
            backup |-> IF end > Len(s) THEN end ELSE end + 1]

\* What the copy of s in a buffer of count characters holds.
strncpy(s, count) == SubSeq(s, 1, Min({Len(s), count - 1}))

\* One os_malloc for each word, which is cut to fit; without memory the list
\* ends there, or is NULL (the empty sequence) if it is the first.  The set of
\* one element in parse makes TLC compute each call of strtok once.
os_parse_command(command, free) ==
  LET NextWord(p) ==
        LET t == strtok(command, p.backup)
        IN  IF ~p.more \/ t.null \/ Len(p.words) = free
            THEN [p EXCEPT !.more = FALSE]
            ELSE [words |-> Append(p.words, strncpy(t.token, ARGUMENT_SIZE)),
                  backup |-> t.backup, more |-> TRUE]
      parse[n \in 0 .. Len(command) + 1] ==
        IF n = 0 THEN [words |-> << >>, backup |-> 1, more |-> TRUE]
        ELSE CHOOSE p \in {NextWord(q) : q \in {parse[n - 1]}} : TRUE
  IN  parse[Len(command) + 1].words

------------------------------------------------------------------------------

Init ==
  /\ term = terminal_initalize
  /\ queue = << >>
  /\ pc = "banner"
  /\ out = << >>
  /\ allocations = 0
  /\ program = "none"
  /\ prints = 0
  /\ typed = << >>
  /\ ran = << >>
  /\ started = << >>
  /\ line = [start |-> 0, clean |-> FALSE]

\* A key goes to the foreground process; what the program does with its own
\* is not followed.
Type ==
  /\ program # "running"
  /\ Len(typed) + Len(queue) < MAX_KEYS /\ Len(queue) < MAX_AHEAD
  /\ \E k \in Key : queue' = Append(queue, k)
  /\ UNCHANGED <<term, pc, out, allocations, program, prints, typed, ran,
                 started, line>>

\* print of a fixed text and what follows it in main.
Show(from, text, to) ==
  /\ pc = from
  /\ term' = print(term, text)
  /\ pc' = to
  /\ UNCHANGED <<queue, allocations, program, prints, typed, ran, started>>

Banner == Show("banner", <<"v", NEWLINE>>, "prompt") /\ UNCHANGED <<out, line>>

Prompt ==
  /\ Show("prompt", <<">", SPACE>>, "read")
  /\ out' = << >>
  /\ line' = [start |-> Cursor(term'), clean |-> Cursor(term') \in Cells]

NewlineAfterLine ==
  Show("line", <<NEWLINE>>, "run") /\ UNCHANGED <<out, line>>

\* Mutant: the shell goes on when the program has ended.
NewlineAfterRun_joins ==
  program = "none" /\ Show("ran", <<NEWLINE>>, "prompt") /\ UNCHANGED <<out, line>>

NewlineAfterRun ==
  Show("ran", <<NEWLINE>>, "prompt") /\ UNCHANGED <<out, line>>

\* The line stays as it is drawn unless the backspace runs into the prompt or
\* into the left margin, or the line runs over the end of the screen.
DrawnAsTyped(k) ==
  k = BACKSPACE => out # << >> /\ term.col # 0

\* A backspace at the start of the line is a character of it.
Edited(k) ==
  IF k = BACKSPACE /\ Len(out) >= 1 THEN Front(out) ELSE Append(out, k)

LineIsFull(o) == Len(o) = BUFF_SIZE - 1

\* One key of os_terminal_readline: getkey, putchar, the buffer.
os_terminal_readline ==
  /\ pc = "read" /\ queue # << >>
  /\ LET k == Head(queue)
     IN  /\ queue' = Tail(queue)
         /\ typed' = Append(typed, k)
         /\ \/ /\ k = RETURN
               /\ pc' = "line"
               /\ UNCHANGED <<term, out, line>>
            \/ /\ k # RETURN
               /\ term' = terminal_writechar(term, k)
               /\ out' = Edited(k)
               /\ line' = [line EXCEPT !.clean =
                             @ /\ DrawnAsTyped(k) /\ Cursor(term') \in Cells]
               /\ pc' = IF LineIsFull(out') THEN "line" ELSE "read"
  /\ UNCHANGED <<allocations, program, prints, ran, started>>

\* os_system_run and command 7: the words, if there are any, are the name of
\* a program and its arguments.  The file may be missing or the process table
\* full; a program whose arguments find no memory is in the foreground and
\* will run without them.
os_system_run ==
  /\ pc = "run"
  /\ \E words \in {os_parse_command(out, OS_MAX_PROGRAM_ALLOCATIONS - allocations)} :
       /\ ran' = Append(ran, words)
       /\ allocations' = allocations + Len(words)
       /\ \/ UNCHANGED <<program, started>>
          \/ /\ words # << >> /\ program = "none"
             /\ program' = "running"
             /\ \E argv \in {words, << >>} :
                  started' = Append(started, [line |-> Len(ran'), argv |-> argv])
  /\ pc' = "ran"
  /\ UNCHANGED <<term, queue, out, prints, typed, line>>

\* The program prints, in the middle of a line that is being typed or not.
ProgramPrints ==
  /\ program # "none" /\ prints < MAX_PRINTS
  /\ prints' = prints + 1
  /\ term' = print(term, <<"x">>)
  /\ line' = [line EXCEPT !.clean = FALSE]
  /\ UNCHANGED <<queue, pc, out, allocations, program, typed, ran, started>>

\* The program ends and the shell is in the foreground again.
ProgramExits ==
  /\ program # "none"
  /\ program' = "none"
  /\ UNCHANGED <<term, queue, pc, out, allocations, prints, typed, ran,
                 started, line>>

Step ==
  \/ Banner \/ Prompt \/ NewlineAfterLine \/ NewlineAfterRun
  \/ os_terminal_readline \/ os_system_run

\* keyboard_pop finds nothing and os_getkey_block asks again.
os_getkey_block == pc = "read" /\ queue = << >> /\ UNCHANGED vars

Next == Type \/ Step \/ os_getkey_block \/ ProgramPrints \/ ProgramExits

\* The scheduler runs the shell again and again (module Scheduler).
Spec == Init /\ [][Next]_vars /\ WF_vars(Step)

------------------------------------------------------------------------------
(* Properties. *)

\* While a line is read, the screen shows it: the cells from where it began
\* up to the cursor are the characters in the buffer, after any mixture of
\* characters and backspaces, over the right margin too.  It is not said of a
\* line with a backspace at its start or at the left margin, of one in which
\* another program has printed, or past the last row.
EchoMatchesLine ==
  pc = "read" /\ line.clean =>
    /\ Cursor(term) = line.start + Len(out)
    /\ \A i \in DOMAIN out : term.video[line.start + i - 1] = out[i]

\* What the keys mean: the lines they complete.  A line is complete with
\* RETURN or when the buffer is full.
LinesOf(keys) ==
  LET key(p, k) ==
        IF k = RETURN THEN p.cur
        ELSE IF k = BACKSPACE /\ p.cur # << >> THEN Front(p.cur)
        ELSE Append(p.cur, k)
      lines[i \in 0 .. Len(keys)] ==
        IF i = 0 THEN [cur |-> << >>, done |-> << >>]
        ELSE LET p == lines[i - 1]
                 cur == key(p, keys[i])
             IN  IF keys[i] = RETURN \/ Len(cur) = BUFF_SIZE - 1
                 THEN [cur |-> << >>, done |-> Append(p.done, cur)]
                 ELSE [cur |-> cur, done |-> p.done]
  IN  lines[Len(keys)].done

\* What a line means: its longest pieces without a SPACE, in their order, of
\* each the characters that leave room for a NUL in an argument.
WordsOf(l) ==
  LET starts == {i \in DOMAIN l : l[i] # SPACE /\ (i = 1 \/ l[i - 1] = SPACE)}
      ends == {i \in DOMAIN l : l[i] # SPACE /\ (i = Len(l) \/ l[i + 1] = SPACE)}
      first == SetToSortSeq(starts, <)
      last == SetToSortSeq(ends, <)
  IN  [k \in DOMAIN first |->
         SubSeq(l, first[k], Min({last[k], first[k] + ARGUMENT_SIZE - 2}))]

\* Every line that was completed is run once, in order, with the words that
\* are on it, each up to the ARGUMENT_SIZE - 1 characters that fit; words are
\* missing at the end only when the shell, which never frees a word, has used
\* up its allocations.  A program is started with exactly what the shell made
\* of its line or, when the copies find no memory, without arguments.
StartsWhatWasTyped ==
  LET lines == LinesOf(typed)
  IN  /\ Len(lines) = Len(ran) + (IF pc \in {"line", "run"} THEN 1 ELSE 0)
      /\ \A i \in DOMAIN ran :
           \/ ran[i] = WordsOf(lines[i])
           \/ /\ IsPrefix(ran[i], WordsOf(lines[i]))
              /\ allocations = OS_MAX_PROGRAM_ALLOCATIONS
      /\ \A i \in DOMAIN started :
           /\ started[i].argv \in {<< >>, ran[started[i].line]}
           /\ \A j \in 1 .. i - 1 : started[j].line < started[i].line

\* Keys that wait for the shell are read, also while a program that it
\* started goes on for ever: starting one does not hold up the shell.
KeysAreRead == queue # << >> ~> queue = << >>
==============================================================================
