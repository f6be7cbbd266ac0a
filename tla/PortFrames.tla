----------------------------- MODULE PortFrames -----------------------------
(***************************************************************************)
(* The two pipes between the port of aspike_srv and the external program,  *)
(* byte by byte.  The port is opened with {packet, 2}: each message is     *)
(* preceded by its length in two bytes.  The program reads and writes with *)
(* read_exact and write_exact, which repeat read and write until nothing   *)
(* is missing (rw_command.c); main() reads a command, runs it and reads    *)
(* the next until read_cmd fails (ei.c).  write_cmd writes the length      *)
(* modulo 2^16 and then everything, so an answer that is longer is cut     *)
(* where the length says, and what follows is taken for the next frames.   *)
(* The driver of the port, on the other side, is external.  Commands that  *)
(* are longer than the buffer of main() are left out.                      *)
(***************************************************************************)
EXTENDS Naturals, Sequences

CONSTANTS Base,        \* the values of a byte: 256
          Commands,    \* what the server may send, as bytes
          Answers,     \* what the functions of the program may write
          Room,        \* the capacity of the pipe from the program
          MaxCommands  \* bound: commands sent

Byte  == 0..Base - 1
Limit == Base * Base
Fits(a) == Len(a) < Limit

ASSUME BaseAssumption == Base \in Nat /\ Base > 1
\* The driver refuses a command that does not fit, and none is empty.
ASSUME CommandsAssumption == \A c \in Commands : c \in Seq(Byte) /\ Len(c) \in 1..Limit - 1
ASSUME AnswersAssumption == \A a \in Answers : a \in Seq(Byte) /\ Len(a) > 0
ASSUME RoomAssumption == Room \in Nat /\ Room > 0

VARIABLES
    toProgram,    \* the bytes on their way to the program
    phase,        \* what main() does: reads a "length" or a "body", "run"s, "write"s, has "ended"
    need,         \* how many bytes read_exact is to get
    buf,          \* those it has got
    out,          \* the buffers write_cmd has still to write
    fromProgram,  \* the bytes in the pipe from the program
    inbox,        \* the bytes the driver has read
    closed,       \* the server has closed the port
    sent, taken, answers, delivered  \* as in PortChannel

programVars == <<phase, need, buf>>
history     == <<sent, taken, answers, delivered>>
vars == <<toProgram, programVars, out, fromProgram, inbox, closed, history>>

TypeOK ==
    /\ toProgram \in Seq(Byte) /\ fromProgram \in Seq(Byte) /\ inbox \in Seq(Byte)
    /\ phase \in {"length", "body", "run", "write", "ended"}
    /\ need \in 1..Limit - 1 /\ buf \in Seq(Byte) /\ Len(buf) <= need
    /\ out \in Seq(Seq(Byte)) /\ (out # <<>>) = (phase = "write")
    /\ Len(fromProgram) <= Room
    /\ closed \in BOOLEAN
    /\ sent \in Seq(Commands) /\ taken \in Seq(Seq(Byte))
    /\ answers \in Seq(Answers) /\ delivered \in Seq(Seq(Byte))

Init == /\ toProgram = <<>> /\ fromProgram = <<>> /\ inbox = <<>>
        /\ phase = "length" /\ need = 2 /\ buf = <<>> /\ out = <<>>
        /\ closed = FALSE
        /\ sent = <<>> /\ taken = <<>> /\ answers = <<>> /\ delivered = <<>>

Take(s, n) == SubSeq(s, 1, n)
Drop(s, n) == SubSeq(s, n + 1, Len(s))

\* Mutant: the low byte is lost.
LengthHighOnly(two) == two[1] * Base

\* bytes_to_u16, and the length bytes of write_cmd
Length(two)   == two[1] * Base + two[2]
HighByte(len) == (len \div Base) % Base
LowByte(len)  == len % Base

-----------------------------------------------------------------------------
(* The server and the driver of its port *)

Send(c) ==
    /\ ~closed /\ Len(sent) < MaxCommands
    /\ sent' = Append(sent, c)
    /\ toProgram' = toProgram \o <<HighByte(Len(c)), LowByte(Len(c))>> \o c
    /\ UNCHANGED <<programVars, out, fromProgram, inbox, closed, taken, answers, delivered>>

DriverReads(n) ==
    /\ ~closed /\ n <= Len(fromProgram)
    /\ inbox' = inbox \o Take(fromProgram, n)
    /\ fromProgram' = Drop(fromProgram, n)
    /\ UNCHANGED <<toProgram, programVars, out, closed, history>>

Deliver ==
    /\ ~closed /\ Len(inbox) >= 2
    /\ LET len == Length(inbox) IN
       /\ Len(inbox) >= 2 + len
       /\ delivered' = Append(delivered, SubSeq(inbox, 3, 2 + len))
       /\ inbox' = Drop(inbox, 2 + len)
    /\ UNCHANGED <<toProgram, programVars, out, fromProgram, closed, sent, taken, answers>>

\* The server exits and its port is closed; what the driver has not yet
\* written to the pipe is lost.
Close ==
    /\ ~closed /\ closed' = TRUE
    /\ \E n \in 0..Len(toProgram) : toProgram' = Take(toProgram, n)
    /\ UNCHANGED <<programVars, out, fromProgram, inbox, history>>

-----------------------------------------------------------------------------
(* The program *)

\* Mutant: the buffer is not read anew.
ReadNextStale(state) == phase' = state /\ need' = 2 /\ UNCHANGED buf

\* main() calls read_cmd, which calls read_exact(buf, 2, fd).
ReadNext(state) == phase' = state /\ need' = 2 /\ buf' = <<>>

\* Mutant: a single read in place of read_exact's loop over the body.
ReadOnce(n) ==
    /\ phase \in {"length", "body"}
    /\ n \in 1..(need - Len(buf)) /\ n <= Len(toProgram)
    /\ buf' = buf \o Take(toProgram, n)
    /\ need' = IF phase = "body" THEN n ELSE need
    /\ toProgram' = Drop(toProgram, n)
    /\ UNCHANGED <<phase, out, fromProgram, inbox, closed, history>>

\* Mutant: read may take what belongs to the next frame.
ReadAhead(n) ==
    /\ phase \in {"length", "body"}
    /\ Len(buf) < need /\ n <= Len(toProgram) /\ n > 0
    /\ buf' = buf \o Take(toProgram, n)
    /\ toProgram' = Drop(toProgram, n)
    /\ UNCHANGED <<phase, need, out, fromProgram, inbox, closed, history>>

\* read(fd, buf + got, len - got) returns some of what is there.
Read(n) ==
    /\ phase \in {"length", "body"}
    /\ n \in 1..(need - Len(buf)) /\ n <= Len(toProgram)
    /\ buf' = buf \o Take(toProgram, n)
    /\ toProgram' = Drop(toProgram, n)
    /\ UNCHANGED <<phase, need, out, fromProgram, inbox, closed, history>>

\* The length is complete: read_exact(buf, len, fd).
HaveLength ==
    /\ phase = "length" /\ Len(buf) = need /\ Length(buf) # 0
    /\ phase' = "body" /\ need' = Length(buf) /\ buf' = <<>>
    /\ UNCHANGED <<toProgram, out, fromProgram, inbox, closed, history>>

HaveBody ==
    /\ phase = "body" /\ Len(buf) = need
    /\ phase' = "run"
    /\ taken' = Append(taken, buf)
    /\ UNCHANGED <<toProgram, need, buf, out, fromProgram, inbox, closed, sent, answers, delivered>>

\* read returns 0: at the end of the pipe, or for a frame of length 0, which
\* read_cmd cannot tell from it.  main() returns.
EndOfInput ==
    /\ \/ phase \in {"length", "body"} /\ Len(buf) < need /\ closed /\ toProgram = <<>>
       \/ phase = "length" /\ Len(buf) = need /\ Length(buf) = 0
    /\ phase' = "ended"
    /\ UNCHANGED <<toProgram, need, buf, out, fromProgram, inbox, closed, history>>

\* A function of the program ends in write_cmd ...
Answer(a) ==
    /\ phase = "run"
    /\ phase' = "write"
    /\ out' = <<<<HighByte(Len(a))>>, <<LowByte(Len(a))>>, a>>
    /\ answers' = Append(answers, a)
    /\ UNCHANGED <<toProgram, need, buf, fromProgram, inbox, closed, sent, taken, delivered>>

\* ... or without an answer (cdt_put).
NoAnswer ==
    /\ phase = "run" /\ ReadNext("length")
    /\ UNCHANGED <<toProgram, out, fromProgram, inbox, closed, history>>

\* Mutant: write_exact takes a short write for the whole one.
WriteOnce(n) ==
    /\ phase = "write" /\ ~closed
    /\ n \in 1..Len(Head(out)) /\ Len(fromProgram) + n <= Room
    /\ fromProgram' = fromProgram \o Take(Head(out), n)
    /\ out' = Tail(out)
    /\ IF out' = <<>> THEN ReadNext("length") ELSE UNCHANGED programVars
    /\ UNCHANGED <<toProgram, inbox, closed, history>>

\* write(fd, buf + wrote, len - wrote) takes as much as there is room for; the
\* last write of an answer ends write_cmd.
Write(n) ==
    /\ phase = "write" /\ ~closed
    /\ n \in 1..Len(Head(out)) /\ Len(fromProgram) + n <= Room
    /\ fromProgram' = fromProgram \o Take(Head(out), n)
    /\ out' = IF n = Len(Head(out)) THEN Tail(out) ELSE <<Drop(Head(out), n)>> \o Tail(out)
    /\ IF out' = <<>> THEN ReadNext("length") ELSE UNCHANGED programVars
    /\ UNCHANGED <<toProgram, inbox, closed, history>>

\* Mutant: the write is tried for ever.
WriteRetries == FALSE /\ UNCHANGED vars

\* Nobody reads the pipe any more: the write ends the program (SIGPIPE).
WriteFails ==
    /\ phase = "write" /\ closed
    /\ phase' = "ended" /\ out' = <<>>
    /\ UNCHANGED <<toProgram, need, buf, fromProgram, inbox, closed, history>>

-----------------------------------------------------------------------------
ReadSome   == \E n \in 1..Limit : Read(n)
WriteSome  == \E n \in 1..Room : Write(n)
DriverSome == \E n \in 1..Room : DriverReads(n)
Reply      == NoAnswer \/ \E a \in Answers : Answer(a)

Next == \/ \E c \in Commands : Send(c)
        \/ DriverSome \/ Deliver \/ Close
        \/ ReadSome \/ HaveLength \/ HaveBody \/ EndOfInput
        \/ Reply \/ WriteSome \/ WriteFails

Spec == Init /\ [][Next]_vars

\* The driver is served by its scheduler; the program runs, and its calls of
\* the library return (their policies have a total timeout).
FairSpec == /\ Spec
            /\ WF_vars(DriverSome) /\ WF_vars(Deliver)
            /\ WF_vars(ReadSome \/ HaveLength \/ HaveBody \/ EndOfInput)
            /\ WF_vars(Reply) /\ WF_vars(WriteSome \/ WriteFails)

-----------------------------------------------------------------------------
(* Properties *)

\* The frames implement the channel: whatever the sizes of single reads and
\* writes, commands and answers that fit arrive whole, once and in order, and
\* while the port is open each command and each answer does arrive.
Channel == INSTANCE PortChannel
ImplementsChannel == Channel!Spec

\* Commands arrive whole and in order however read_exact's reads cut them, also
\* while the answers are out of step: an answer that does not fit spoils no
\* command, and the program never loses the beginning of a frame.
TakenInOrder == taken = SubSeq(sent, 1, Len(taken))

\* Until the program writes an answer that does not fit, the data messages are
\* its answers, whole and in order: the two writes of the length and those of
\* write_exact never cut a frame short.
AnswersInStep ==
    (\A i \in 1..Len(answers) : Fits(answers[i])) =>
        delivered = SubSeq(answers, 1, Len(delivered))

\* The program ends only when its port was closed: read_cmd's 0 for "end" is
\* never the length of a frame.
EndsOnlyWhenClosed == phase = "ended" => closed

\* Once the port is closed the program ends, wherever it was, for it may hold
\* no connections of the cluster that nobody uses.
EndsAfterClose == closed ~> phase = "ended"
=============================================================================
