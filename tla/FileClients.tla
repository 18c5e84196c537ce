------------------------------ MODULE FileClients ------------------------------
(***************************************************************************)
(* Who calls the file system: kmain once, right after vfs_init; the shell's*)
(* commands; and the system calls.  A command runs inside the keyboard     *)
(* interrupt, which nothing interrupts, and is one step.                   *)
(***************************************************************************)
EXTENDS Vfs

CONSTANTS
  SelfTest,    \* kmain's checks: the path it reads, the path it writes, and the text
  Lines        \* bound: the words of a write command, the line's end among them

ASSUME ClientAssumption ==
  /\ SelfTest \in [reads : Seq(Names), writes : Seq(Names), text : Seq(Byte)]
  /\ Lines \subseteq Seq(Seq(Byte))

VARIABLE tested    \* kmain has made its checks

clientVars == <<vars, tested>>

-----------------------------------------------------------------------------
\* What the callers do with the calls of the file system.

\* The file is closed, and what was read of it stays read.
CloseRead(s, d) == [Close(s, d) EXCEPT !.seen = s.seen]

CatOpen(s) == IF s.ret = Failed THEN s ELSE CloseRead(Read(s, s.ret, MaxSize), s.ret)

\* cmd_cat, and kmain's first check: the file is read to its end and closed.
Cat(s, path) == CatOpen(Open(s, path, {}))

CloseOpen(s) == IF s.ret = Failed THEN s ELSE Close(s, s.ret)

\* cmd_touch
Touch(s, path) == CloseOpen(Open(s, path, {"CREAT"}))

PutWords(s, d, words) ==
  LET put[k \in 0..Len(words)] == IF k = 0 THEN s ELSE Write(put[k - 1], d, words[k])
  IN put[Len(words)]

\* Mutant: a line without words leaves the file open.
SaveOpenLeaky(s, words) ==
  IF s.ret = Failed \/ Len(words) < 2 THEN s ELSE Close(PutWords(s, s.ret, words), s.ret)

SaveOpen(s, words) ==
  IF s.ret = Failed THEN s ELSE Close(PutWords(s, s.ret, words), s.ret)

\* cmd_write, and kmain's second check: the words one by one.
Save(s, path, flags, words) == SaveOpen(Open(s, path, flags), words)

\* SYS_WRITE of syscall_dispatch: descriptors 1 and 2 are the console, also when the file
\* system has handed them out.  SYS_OPEN, SYS_READ and SYS_CLOSE are the calls themselves.
SysWrite(s, d, text) == IF d \in {1, 2} THEN Returns(s, Len(text)) ELSE Write(s, d, text)

-----------------------------------------------------------------------------

ClientInit == Init /\ tested = FALSE

\* kmain, after vfs_init.
Check ==
  /\ setup = <<>> /\ ~tested
  /\ Becomes(Save(Cat(Now, SelfTest.reads), SelfTest.writes, {"CREAT"}, <<SelfTest.text>>))
  /\ tested' = TRUE
  /\ UNCHANGED setup

ShellCommand ==
  /\ setup = <<>> /\ tested
  /\ \E path \in Paths :
       \/ Becomes(Mkdir(Now, path))
       \/ Becomes(Cat(Now, path))
       \/ Becomes(Touch(Now, path))
       \/ \E words \in Lines : Becomes(Save(Now, path, {"CREAT", "TRUNC"}, words))
  /\ UNCHANGED <<setup, tested>>

SystemCall ==
  /\ tested
  /\ \/ VfsCall
     \/ /\ \E d \in Fds, text \in Texts : Becomes(SysWrite(Now, d, text))
        /\ UNCHANGED setup
  /\ UNCHANGED tested

ClientNext ==
  \/ VfsInit /\ UNCHANGED tested
  \/ Check
  \/ ShellCommand
  \/ SystemCall

ClientSpec == ClientInit /\ [][ClientNext]_clientVars

-----------------------------------------------------------------------------
\* Properties.

\* A command gives back the descriptor it took, on every way through it: with 64 of them
\* a way that does not would end all access to files after a while.
CommandsCloseTheirFiles ==
  \A path \in Paths, words \in Lines :
    /\ Cat(Now, path).fd = fd
    /\ Touch(Now, path).fd = fd
    /\ Save(Now, path, {"CREAT", "TRUNC"}, words).fd = fd
================================================================================
