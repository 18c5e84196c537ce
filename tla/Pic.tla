-------------------------------- MODULE Pic --------------------------------
(***************************************************************************)
(* The cascaded pair of 8259 interrupt controllers, as kernel/pic.c sets   *)
(* it up: edge-triggered, fully nested priority, the slave wired to line 2 *)
(* of the master, and a NON-SPECIFIC end of interrupt, which names no line *)
(* and so clears whatever line of highest priority is in service.          *)
(*                                                                         *)
(* The registers are sets of lines.  The chip is hardware: how it acts on  *)
(* a request is modelled from what the commands of pic.c rely on.          *)
(***************************************************************************)
EXTENDS Integers

VARIABLES
  irr,    \* lines with a latched request
  isr,    \* lines in service: acknowledged, no end of interrupt yet
  imr     \* masked lines

picVars == <<irr, isr, imr>>

Lines   == 0..15
Master  == 0..7
Slave   == 8..15
Cascade == 2        \* the slave's line on the master
Timer   == 0
Keyboard == 1
Mouse   == 12

PicTypeOK ==
  /\ irr \subseteq Lines
  /\ isr \subseteq Lines
  /\ imr \subseteq Lines

-----------------------------------------------------------------------------
\* The masks pic_init writes: 0xF8 to the master, 0xFF to the slave.
InitialMask == (Master \ {Timer, Keyboard, Cascade}) \cup Slave

\* Mutant: the mask register of the slave is not written.
UnmaskMasterOnly(mask, irq) == IF irq \in Slave THEN mask ELSE mask \ {irq}

\* pic_unmask_irq clears one bit of one mask register.
Unmask(mask, irq) == mask \ {irq}

-----------------------------------------------------------------------------
\* The line of the master a request arrives on.
Level(irq) == IF irq \in Slave THEN Cascade ELSE irq

\* Fully nested mode: a line in service holds back its own and every lower priority.
HeldBack(irq) ==
  \/ \E k \in isr \cap Master : k <= Level(irq)
  \/ irq \in Slave /\ \E k \in isr \cap Slave : k <= irq

Requesting(irq) ==
  /\ irq \in irr \ imr
  /\ Level(irq) \notin imr
  /\ ~HeldBack(irq)

\* The requests the chip presents to the CPU, the one of highest priority.
Presented ==
  {irq \in Lines :
     /\ Requesting(irq)
     /\ \A k \in Lines :
          Requesting(k) => \/ Level(irq) < Level(k)
                           \/ Level(irq) = Level(k) /\ irq <= k}

\* A request on a line: a second edge before the first is taken is lost.
Raise(irq) ==
  /\ irr' = irr \cup {irq}
  /\ UNCHANGED <<isr, imr>>

\* The CPU takes the presented request.
Acknowledge(irq) ==
  /\ irr' = irr \ {irq}
  /\ isr' = isr \cup {irq, Level(irq)}
  /\ UNCHANGED imr

Highest(lines) == {k \in lines : \A j \in lines : k <= j}

\* Mutant: a line of the slave is ended on the slave only.
SendEoiOnce(irq) ==
  /\ isr' = isr \ (IF irq >= 8 THEN Highest(isr \cap Slave) ELSE Highest(isr \cap Master))
  /\ UNCHANGED <<irr, imr>>

\* pic_send_eoi: the slave first if the line is one of its own, then the master.
SendEoi(irq) ==
  /\ isr' = isr \ (Highest(isr \cap Master)
                     \cup (IF irq >= 8 THEN Highest(isr \cap Slave) ELSE {}))
  /\ UNCHANGED <<irr, imr>>

=============================================================================
