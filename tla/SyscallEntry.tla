----------------------------- MODULE SyscallEntry -----------------------------
(***************************************************************************)
(* The entry of a system call: what the CPU, the stub and the call of the  *)
(* C dispatcher do to the registers.  FMASK clears the interrupt flag on   *)
(* entry and the stub leaves it so.                                        *)
(***************************************************************************)
EXTENDS Integers, Sequences, Functions

CONSTANTS
  Numbers,     \* system call numbers
  Arguments    \* bound: values of arguments, five of them at least

VARIABLES
  at,       \* "user", "entered", "shifted", "returned"
  reg,      \* register -> value
  stack,    \* what the stub has pushed
  asked     \* the number and the arguments of the user's call

vars == <<at, reg, stack, asked>>

\* Where the caller puts the number and five arguments, and where C looks for them.
UserPlaces == <<"rax", "rdi", "rsi", "rdx", "r10", "r8">>
CPlaces    == <<"rdi", "rsi", "rdx", "rcx", "r8", "r9">>

Preserved == <<"rcx", "r11", "rbp", "rbx", "r12", "r13", "r14", "r15">>
Registers == {"rax", "rdi", "rsi", "rdx", "r10", "r8", "r9"} \cup {Preserved[i] : i \in 1..8}

Init ==
  /\ at = "user"
  /\ reg \in [Registers -> {0}]
  /\ stack = <<>> /\ asked = <<>>

\* No two arguments are equal, so that each is known wherever it goes.
Calls == {<<n>> \o a : n \in Numbers, a \in {f \in [1..5 -> Arguments] : IsInjective(f)}}

\* The syscall instruction: RCX and R11 take the address to return to and the flags.
Syscall ==
  /\ at = "user"
  /\ \E call \in Calls :
       /\ asked' = call
       /\ reg' = [r \in Registers |->
                    IF \E i \in 1..6 : UserPlaces[i] = r
                    THEN call[CHOOSE i \in 1..6 : UserPlaces[i] = r]
                    ELSE IF r = "rcx" THEN "rip" ELSE IF r = "r11" THEN "rflags" ELSE reg[r]]
  /\ at' = "entered"
  /\ UNCHANGED stack

\* The registers are pushed, with R9 and R8 on top, and moved one after the other.
Shift ==
  /\ at = "entered"
  /\ stack' = [i \in 1..8 |-> reg[Preserved[i]]] \o <<reg["r9"], reg["r8"]>>
  /\ LET moved(r, to, from) == [r EXCEPT ![to] = r[from]]
         r1 == moved(reg, "r9", "r10")
         r2 == moved(r1, "r8", "rdx")
         r3 == moved(r2, "rcx", "rsi")
         r4 == moved(r3, "rdx", "rdi")
     IN reg' = moved(r4, "rdi", "rax")
  /\ at' = "shifted"
  /\ UNCHANGED asked

\* The C function returns in RAX and keeps RBX, RBP and R12 to R15.
Dispatch ==
  /\ at = "shifted"
  /\ \E v \in Arguments :
       reg' = [r \in Registers |->
                 CASE r = "rax" -> v
                   [] r \in {"rbp", "rbx", "r12", "r13", "r14", "r15"} -> reg[r]
                   [] OTHER -> "any"]
  /\ at' = "returned"
  /\ UNCHANGED <<stack, asked>>

\* The two arguments are dropped, the rest popped in reverse, and sysret goes to RCX.
Return ==
  /\ at = "returned"
  /\ reg' = [r \in Registers |->
               IF \E i \in 1..8 : Preserved[i] = r
               THEN stack[CHOOSE i \in 1..8 : Preserved[i] = r] ELSE reg[r]]
  /\ stack' = <<>>
  /\ at' = "user"
  /\ UNCHANGED asked

Next == Syscall \/ Shift \/ Dispatch \/ Return

Spec == Init /\ [][Next]_vars

-----------------------------------------------------------------------------
\* Properties.

\* The dispatcher's parameters are the number and the arguments of the call, in their
\* order, as the comment above the moves has it.
ArgumentsArrive ==
  at = "shifted" => \A i \in 1..6 : reg[CPlaces[i]] = asked[i]
================================================================================
