------------------------------ MODULE HdDevice ------------------------------
(***************************************************************************)
(* The simulated hard disk (src/src/io/external_hd.cpp): what a command or *)
(* a port access of the processor and a cycle of the device do to it.  A   *)
(* device is a record and every access is a function of it, because the    *)
(* kernel makes several of them inside one handler.                        *)
(*                                                                         *)
(*   state          external_hd_t::state                                   *)
(*   fileBytes      file_bytes: the length of a transfer before it, what   *)
(*                  it moved after it, and the answer of the file commands *)
(*   file           file_handler: the file the device works on             *)
(*   opened         the files the host has open                            *)
(*   mustInterrupt  must_interrupt                                         *)
(*                                                                         *)
(* A file is named by the client that opens it.  The contents of the       *)
(* buffer are left out, only how many bytes pass through it matters.       *)
(* The seek command is left out: no caller of the driver requests one.     *)
(***************************************************************************)
EXTENDS Naturals

CONSTANTS
    Files,    \* the files of the host
    NoFile    \* a NULL file handler

ASSUME NoFileAssumption == NoFile \notin Files

DeviceStates ==
    {"IDLE", "WAIT_FNAME", "READING", "WRITTING", "WAIT_READ", "WAIT_WBUFFER"}

Device == [state : DeviceStates, fileBytes : Nat, file : Files \cup {NoFile},
           opened : SUBSET Files, mustInterrupt : BOOLEAN]

DeviceAtStart == [state |-> "IDLE", fileBytes |-> 0, file |-> NoFile,
                  opened |-> {}, mustInterrupt |-> FALSE]

----------------------------------------------------------------------------
(* Port accesses.  A command that the state does not accept is ignored.    *)

SelectFile(d, f) == [d EXCEPT !.file = f]

SetBytes(d, n) == [d EXCEPT !.fileBytes = n]

CommandState ==
    [FNAME_START |-> "WAIT_FNAME", READ_SECTOR |-> "READING",
     WRITE_SECTOR |-> "WRITTING", WRITE_FILE_BUFFER |-> "WAIT_WBUFFER"]

Command(d, cmd) ==
    IF d.state = "IDLE" /\ cmd \in DOMAIN CommandState
    THEN [d EXCEPT !.state = CommandState[cmd]]
    ELSE IF d.state = "WAIT_FNAME" /\ cmd = "FNAME_END"
    THEN [d EXCEPT !.state = "IDLE"]
    ELSE d

\* Command OPEN: fopen may fail.
OpenFile(d, f, found) ==
    IF d.state # "IDLE" THEN d
    ELSE IF found THEN [d EXCEPT !.file = f, !.opened = @ \cup {f}]
    ELSE [d EXCEPT !.file = NoFile]

CloseFile(d) ==
    IF d.state = "IDLE" THEN [d EXCEPT !.opened = @ \ {d.file}] ELSE d

\* Commands GET_FILESIZE and GET_FILEPOS: the answer takes the place of the
\* length in fileBytes.
FileInfo(d, n) == IF d.state = "IDLE" THEN SetBytes(d, n) ELSE d

\* n bytes written to the data port: the byte that completes the buffer
\* brings the device back to IDLE.
SendBytes(d, n) ==
    IF d.state = "WAIT_WBUFFER" /\ n > 0 /\ n >= d.fileBytes
    THEN [d EXCEPT !.state = "IDLE"]
    ELSE d

\* n bytes read from the data port.
TakeBytes(d, n) ==
    IF d.state = "WAIT_READ" /\ n > 0 /\ n >= d.fileBytes
    THEN [d EXCEPT !.state = "IDLE"]
    ELSE d

----------------------------------------------------------------------------
(* A cycle of the device.                                                  *)

Transferring(d) == d.state \in {"READING", "WRITTING"} /\ ~d.mustInterrupt

\* The delay is over and fread or fwrite moved n bytes.
Transferred(d, n) ==
    [d EXCEPT !.fileBytes = n,
              !.mustInterrupt = TRUE,
              !.state = IF d.state = "READING" /\ n > 0 THEN "WAIT_READ"
                        ELSE "IDLE"]

\* The interrupt controller chose the request of the device.
InterruptWon(d) == [d EXCEPT !.mustInterrupt = FALSE]
=============================================================================
