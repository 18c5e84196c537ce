-------------------------------- MODULE Devices --------------------------------
(***************************************************************************)
(* The devices kmain sets up, in its order: the PS/2 controller with its   *)
(* keyboard and mouse, then the disk, then the interrupts and the shell.   *)
(***************************************************************************)
EXTENDS Ps2, Ata

deviceVars == <<ps2Vars, shellVars, ataVars>>

DevicesInit == Init /\ AtaInit /\ (budget.calls = 0 => kind = "none")

Ps2Step ==
  /\ \/ Key \/ Reply \/ Report \/ KeyArrives \/ MouseArrives
     \/ Configure \/ EnablePort \/ Order \/ Poll
     \/ Idle /\ Sti
     \/ ShellStarts \/ Interrupt
  /\ UNCHANGED ataVars

\* ata_init
FindDisk ==
  /\ Boots("disk") /\ Identify
  /\ UNCHANGED <<shellVars, buffer, ports, irqs, raised, devices, drivers, replies>>

\* A sector is read or written: bound by the scenario.
UseDisk ==
  /\ InterruptsOn /\ budget.calls > 0 /\ AtaCalls
  /\ budget' = [budget EXCEPT !.calls = @ - 1]
  /\ UNCHANGED <<shellVars, boot, buffer, ports, irqs, raised, keyQ, mouseQ, asked, streams,
                 down, kbd, mouse, replies, moved>>

DiskStep == (Driver \/ Drive) /\ UNCHANGED <<ps2Vars, shellVars>>

DevicesNext == Ps2Step \/ FindDisk \/ UseDisk \/ DiskStep

\* The driver runs on while it polls; a drive that is busy is not busy for ever.
Fairness ==
  /\ WF_deviceVars(Driver /\ UNCHANGED <<ps2Vars, shellVars>>)
  /\ WF_deviceVars(Answers /\ UNCHANGED <<ps2Vars, shellVars>>)

DevicesSpec == DevicesInit /\ [][DevicesNext]_deviceVars /\ Fairness
================================================================================
