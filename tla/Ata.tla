---------------------------------- MODULE Ata ----------------------------------
(***************************************************************************)
(* The ATA driver: one sector at a time, a word at a time, polled.  kmain  *)
(* calls ata_init; nothing calls the other two functions yet.              *)
(*                                                                         *)
(* The drive is external: busy after a command, then ready to transfer,    *)
(* at once or later, or failed.  A command it gets while it is busy is     *)
(* lost.  Left out is the bus nobody drives, which reads as 0xFF: ata_init *)
(* would take it for a drive that is busy for ever.                        *)
(***************************************************************************)
EXTENDS Integers, SequencesExt

CONSTANTS
  Words,        \* in a sector: 256
  Polls,        \* of ata_wait_drq: 10000
  AddressSpace, \* sectors that 28 bits can name
  Sectors,      \* bound: the sectors that are asked for
  Contents      \* bound: what a sector may hold

ASSUME AtaAssumption ==
  /\ Words \in Nat \ {0} /\ Polls \in Nat \ {0} /\ AddressSpace \in Nat \ {0}
  /\ Sectors \subseteq Nat /\ Contents \subseteq [1..Words -> Nat]

VARIABLES
  at,       \* where the driver is
  call,     \* the call: what it does, to which sector, and what it is to write
  buf,      \* the words that were read or written
  polls,    \* how often the status was read
  ret,      \* what the last call returned
  present,  \* g_ata_master_present
  kind,     \* what is connected: an ATA drive, another, or none
  drive,    \* its status, the command it has and the words it has got
  media     \* what it holds

ataVars == <<at, call, buf, polls, ret, present, kind, drive, media>>

Addresses == 0..(AddressSpace - 1)
Idle      == at = "idle"

AtaInit ==
  /\ at = "idle" /\ call = [op |-> "none", lba |-> 0, text |-> <<>>]
  /\ buf = <<>> /\ polls = 0 /\ ret = FALSE /\ present = FALSE
  /\ kind \in {"ata", "other", "none"}
  /\ drive = [bsy |-> FALSE, drq |-> FALSE, err |-> FALSE, op |-> "none", lba |-> 0,
              got |-> <<>>, faulty |-> FALSE]
  /\ media = [a \in Addresses |-> [i \in 1..Words |-> 0]]

-----------------------------------------------------------------------------
\* The driver.

\* The address goes out in four bytes, the bits above them are lost.
Sent(op, lba) ==
  IF kind = "none" THEN drive
  ELSE [drive EXCEPT !.bsy = TRUE, !.drq = FALSE, !.err = FALSE, !.op = op,
                     !.lba = lba % AddressSpace, !.got = <<>>, !.faulty = FALSE]

\* What the three functions do first: the address, the size and the command go out.
Issue(op, lba, text) ==
  /\ Idle
  /\ call' = [op |-> op, lba |-> lba, text |-> text]
  /\ drive' = Sent(op, lba)
  /\ at' = IF op = "identify" THEN "status" ELSE "wait"
  /\ buf' = <<>> /\ polls' = 0
  /\ UNCHANGED <<ret, present, kind, media>>

Identify               == Issue("identify", 0, <<>>)
ReadSector(lba)        == Issue("read", lba, <<>>)
WriteSector(lba, text) == Issue("write", lba, text)

Returns(v) == at' = "idle" /\ ret' = v
Stays      == UNCHANGED <<call, kind, media>>

\* A call without a buffer is refused before anything goes out.
NoBuffer == Idle /\ Returns(FALSE) /\ Stays /\ UNCHANGED <<buf, polls, present, drive>>

\* ata_init: no drive, or one that is busy, or one of another kind.
Status ==
  /\ at = "status" /\ ~drive.bsy
  /\ IF kind = "ata" THEN at' = "wait" /\ UNCHANGED ret ELSE Returns(FALSE)
  /\ Stays /\ UNCHANGED <<buf, polls, present, drive>>

\* ata_wait_ready
WaitReady ==
  /\ at = "wait" /\ ~drive.bsy
  /\ at' = "poll"
  /\ Stays /\ UNCHANGED <<buf, polls, ret, present, drive>>

\* Mutant: the status is read for as long as it takes.
WaitDrqForever ==
  /\ at = "poll"
  /\ IF drive.err THEN Returns(FALSE) /\ UNCHANGED polls
     ELSE IF drive.drq THEN at' = "words" /\ UNCHANGED <<ret, polls>>
     ELSE UNCHANGED <<polls, at, ret>>
  /\ Stays /\ UNCHANGED <<buf, present, drive>>

\* The loop of ata_wait_drq.
WaitDrq ==
  /\ at = "poll"
  /\ IF drive.err THEN Returns(FALSE) /\ UNCHANGED polls
     ELSE IF drive.drq THEN at' = "words" /\ UNCHANGED <<ret, polls>>
     ELSE IF polls = Polls - 1 THEN Returns(FALSE) /\ UNCHANGED polls
     ELSE polls' = polls + 1 /\ UNCHANGED <<at, ret>>
  /\ Stays /\ UNCHANGED <<buf, present, drive>>

\* What identify reads is not looked at; it is one sector long as well.
ReadWord ==
  /\ at = "words" /\ call.op # "write"
  /\ buf' = Append(buf, media[drive.lba][Len(buf) + 1])
  /\ drive' = [drive EXCEPT !.drq = Len(buf') < Words]
  /\ IF Len(buf') < Words THEN UNCHANGED <<at, ret, present>>
     ELSE Returns(TRUE) /\ present' = (present \/ call.op = "identify")
  /\ Stays /\ UNCHANGED polls

\* The drive is busy once it has them all.
WriteWord ==
  /\ at = "words" /\ call.op = "write"
  /\ buf' = Append(buf, call.text[Len(buf) + 1])
  /\ drive' = [drive EXCEPT !.got = buf', !.drq = Len(buf') < Words, !.bsy = Len(buf') = Words]
  /\ at' = IF Len(buf') = Words THEN "flush" ELSE at
  /\ Stays /\ UNCHANGED <<polls, ret, present>>

\* The cache is flushed, without a look at whether the drive is ready for a command.
Flush ==
  /\ at = "flush"
  /\ drive' = IF drive.bsy THEN drive
              ELSE [drive EXCEPT !.op = "flush", !.bsy = TRUE, !.err = FALSE]
  /\ at' = "flushing"
  /\ Stays /\ UNCHANGED <<buf, polls, ret, present>>

\* Mutant: the drive is not waited for.
FlushedAtOnce ==
  /\ at = "flushing"
  /\ Returns(TRUE)
  /\ Stays /\ UNCHANGED <<buf, polls, present, drive>>

\* An error is not looked for either.
Flushed ==
  /\ at = "flushing" /\ ~drive.bsy
  /\ Returns(TRUE)
  /\ Stays /\ UNCHANGED <<buf, polls, present, drive>>

\* Where a call goes on, whichever it is.
Driver == Status \/ WaitReady \/ WaitDrq \/ ReadWord \/ WriteWord \/ Flush \/ Flushed

-----------------------------------------------------------------------------
\* The drive.

Stored == drive.op = "write" /\ Len(drive.got) = Words

Answers ==
  /\ drive.bsy
  /\ \/ /\ drive' = [drive EXCEPT !.bsy = FALSE, !.err = TRUE, !.faulty = TRUE]
        /\ UNCHANGED media
     \/ \E drq \in BOOLEAN :
          /\ drq => drive.op # "flush" /\ ~Stored
          /\ drive' = [drive EXCEPT !.bsy = FALSE, !.drq = drq]
          /\ media' = IF Stored THEN [media EXCEPT ![drive.lba] = drive.got] ELSE media
  /\ UNCHANGED <<at, call, buf, polls, ret, present, kind>>

\* The drive is ready to transfer, later than it said it was no longer busy.
Ready ==
  /\ ~drive.bsy /\ ~drive.drq /\ ~drive.err /\ drive.op \in {"identify", "read", "write"}
  /\ drive.got = <<>> /\ at \in {"status", "wait", "poll"}
  /\ drive' = [drive EXCEPT !.drq = TRUE]
  /\ UNCHANGED <<at, call, buf, polls, ret, present, kind, media>>

Drive == Answers \/ Ready

AtaCalls ==
  \/ \E lba \in Sectors : ReadSector(lba)
  \/ \E lba \in Sectors, text \in Contents : WriteSector(lba, text)
  \/ NoBuffer

-----------------------------------------------------------------------------
\* Properties.

\* A call that returned true has transferred the whole sector, in order: what was read is
\* what the drive holds, and what was written is on the drive, unless the drive reported
\* an error the driver did not look for.  Sectors above the 28 bits are other sectors.
SectorTransferred ==
  Idle /\ ret /\ call.lba \in Addresses =>
    /\ call.op = "read" => buf = media[call.lba]
    /\ call.op = "write" => drive.faulty \/ media[call.lba] = call.text
    /\ ~drive.drq

\* Every call returns as long as the drive, when there is one, does not stay busy: the
\* waits have no bound of their own, and at boot nothing else runs.
CallsReturn == ~Idle ~> Idle
================================================================================
