----------------------------- MODULE PipeStream -----------------------------
(***************************************************************************)
(* Streams over pipes to child processes (ntk/src/pipe_stream.c,           *)
(* ntk/src/os/posix/process.c, the buffered stream of ntk/src/file.c).     *)
(*                                                                         *)
(* The program opens a stream to write to a command, or to read from one,  *)
(* uses it and closes it.  Opening makes a pipe for the data and one over  *)
(* which the child tells whether it could execute the command, and forks.  *)
(* The program and its children run concurrently from there on and share   *)
(* nothing but the ends of pipes in their tables of descriptors: who holds *)
(* an end decides who sees the end of the data, who waits, and who is      *)
(* killed.  The kernel's pipes, numbers of descriptors and fork, and what  *)
(* the commands do with their input, are outside of the code.              *)
(***************************************************************************)
EXTENDS Naturals, Sequences, FiniteSets, SequencesExt

CONSTANTS
  NStreams,   (* bound: streams opened, one after the other                *)
  Fds,        (* bound: the numbers of descriptors                         *)
  Capacity,   (* bytes a pipe holds                                        *)
  BufSize,    (* NkPipeStreamInfo.opt_buf.size                             *)
  MaxBytes,   (* bound: bytes written to a stream                          *)
  NoFd,       (* NK_NULL_HANDLE                                            *)
  Closed      (* a number without a file                                   *)

Streams == 1..NStreams
Program == 0
Procs == {Program} \cup Streams   (* the child of a stream has its number   *)
Std == 0..2

(* What a descriptor refers to: an end of the data pipe or of the error pipe *)
(* of a stream, the null file opened for it, or what the program started     *)
(* with.                                                                     *)
File == [of : {"std", "data", "err", "null"}, stream : Procs, end : {"r", "w"}]
F(of, s, end) == [of |-> of, stream |-> s, end |-> end]

PipeAssumption ==
  /\ NStreams \in Nat
  /\ IsFiniteSet(Fds) /\ Fds = 0..Cardinality(Fds) - 1 /\ Std \subseteq Fds
  /\ Capacity \in Nat \ {0} /\ BufSize \in Nat \ {0} /\ MaxBytes \in Nat
  /\ NoFd \notin Fds /\ Closed \notin File
ASSUME PipeConstants == PipeAssumption

VARIABLES
  files,    (* the table of descriptors of each process                     *)
  streams,  (* the calls' locals and NkPipeStream of each stream            *)
  pipes,    (* the bytes in each data pipe                                  *)
  errors,   (* whether there is an errno in each error pipe                 *)
  child,    (* how far the child is                                         *)
  call      (* the call of the program that is in progress                  *)

pipeVars == <<files, streams, pipes, errors, child, call>>

Held(file) == \E p \in Procs, fd \in Fds : files[p][fd] = file
CloseIn(table, fds) == [fd \in Fds |-> IF fd \in fds THEN Closed ELSE table[fd]]
NoFiles == [fd \in Fds |-> Closed]

Idle == call.pc = "idle"
In(pc, s) == call = [pc |-> pc, stream |-> s]
Goto(pc, s) == call' = [pc |-> pc, stream |-> s]
Return == call' = [pc |-> "idle", stream |-> 0]
OpenStreams == {s \in Streams : streams[s].status = "open"}

Unused ==
  [status |-> "unused", kind |-> "write", num |-> [n \in {} |-> 0],
   buf |-> <<>>, sent |-> <<>>, got |-> <<>>, eof |-> FALSE, ret |-> 1]

PipeInit ==
  /\ files = [p \in Procs |->
                IF p = Program
                THEN [fd \in Fds |-> IF fd \in Std THEN F("std", Program, "w") ELSE Closed]
                ELSE NoFiles]
  /\ streams = [s \in Streams |-> Unused]
  /\ pipes   = [s \in Streams |-> <<>>]
  /\ errors  = [s \in Streams |-> FALSE]
  /\ child   = [s \in Streams |-> "none"]
  /\ call    = [pc |-> "idle", stream |-> 0]

-----------------------------------------------------------------------------
(* nk_pipe_streamOpenRead and nk_pipe_streamOpenWrite down to fork: the data *)
(* pipe, the null file (twice for reading) and the error pipe get the lowest *)
(* free numbers.                                                             *)
NullNames(kind, quiet) ==
  IF ~quiet THEN <<>> ELSE IF kind = "read" THEN <<"nullr", "nullw">> ELSE <<"nullw">>
Named(s, name) ==
  CASE name = "datar" -> F("data", s, "r")
    [] name = "dataw" -> F("data", s, "w")
    [] name = "errr"  -> F("err", s, "r")
    [] name = "errw"  -> F("err", s, "w")
    [] OTHER          -> F("null", s, "w")
AllNames == {"datar", "dataw", "nullr", "nullw", "errr", "errw"}

Names(kind, quiet) == <<"datar", "dataw">> \o NullNames(kind, quiet) \o <<"errr", "errw">>
FreeFds == {fd \in Fds : files[Program][fd] = Closed}
NextToOpen(s) ==
  Idle /\ streams[s].status = "unused" /\ \A t \in 1..s-1 : streams[t].status # "unused"

Open(s, kind, quiet) ==
  LET names == Names(kind, quiet)
      Lower(fd) == {n \in FreeFds : n < fd}
      NumOf(name) == CHOOSE fd \in FreeFds : names[Cardinality(Lower(fd)) + 1] = name
      num == [name \in AllNames |-> IF name \in Range(names) THEN NumOf(name) ELSE NoFd]
  IN /\ NextToOpen(s)
     /\ Len(names) <= Cardinality(FreeFds)
     /\ files' = [files EXCEPT ![Program] =
                    [fd \in Fds |->
                       IF \E n \in Range(names) : num[n] = fd
                       THEN Named(s, CHOOSE n \in Range(names) : num[n] = fd) ELSE @[fd]]]
     /\ streams' = [streams EXCEPT ![s] = [@ EXCEPT !.status = "opening", !.kind = kind,
                                                    !.num = num]]
     /\ Goto("fork", s)
     /\ UNCHANGED <<pipes, errors, child>>

(* There are not enough numbers.  What failed to open is NK_NULL_HANDLE, and *)
(* as the error pipe comes last and takes two, it fails whenever something   *)
(* before it did: what was opened is closed again.                           *)
OpenExhausted(s, kind, quiet) ==
  /\ NextToOpen(s)
  /\ Len(Names(kind, quiet)) > Cardinality(FreeFds)
  /\ streams' = [streams EXCEPT ![s].status = "exhausted", ![s].kind = kind]
  /\ UNCHANGED <<files, pipes, errors, child, call>>

Num(s, names) == {streams[s].num[n] : n \in names}
Data == {"datar", "dataw"}
Null == {"nullr", "nullw"}

(* fork fails: nothing was started, and the pipes of the stream are closed.  *)
(* The error pipe is not.                                                    *)
ForkFails(s) ==
  /\ In("fork", s)
  /\ files' = [files EXCEPT ![Program] = CloseIn(@, Num(s, Data \cup Null))]
  /\ streams' = [streams EXCEPT ![s].status = "unforked"]
  /\ Return
  /\ UNCHANGED <<pipes, errors, child>>

Fork(s) ==
  /\ In("fork", s)
  /\ files' = [files EXCEPT ![s] = files[Program]]
  /\ child' = [child EXCEPT ![s] = "forked"]
  /\ Goto("forked", s)
  /\ UNCHANGED <<streams, pipes, errors>>

(* Mutant: the program keeps the end of the data pipe it gave to the child.  *)
GivenAwayKept(s) == {"nullw", "errw"}

(* The program closes what it gave to the child.  For writing, the null file *)
(* is closed once as the child's output and once as its error output.        *)
GivenAway(s) ==
  {IF streams[s].kind = "write" THEN "datar" ELSE "dataw", "nullw", "errw"}

CloseGivenAway(s) ==
  /\ In("forked", s)
  /\ files' = [files EXCEPT ![Program] = CloseIn(@, Num(s, GivenAway(s)))]
  /\ Goto("handshake", s)
  /\ UNCHANGED <<streams, pipes, errors, child>>

(* It waits for an errno or for the end of the error pipe ...                *)
HandshakeDone(s) ==
  /\ In("handshake", s)
  /\ errors[s] \/ ~Held(F("err", s, "w"))
  /\ files' = [files EXCEPT ![Program] = CloseIn(@, Num(s, {"errr"}))]
  /\ \/ /\ errors[s]
        /\ Goto("refused", s)
        /\ UNCHANGED streams
     \/ /\ ~errors[s]
        /\ streams' = [streams EXCEPT ![s].status = "open"]
        /\ Return
  /\ UNCHANGED <<pipes, errors, child>>

(* ... and when the command was not executed, waits for the child and closes *)
(* all the numbers of the stream again.                                      *)
Exited(s) == child[s] \in {"done", "quit", "failed"}
OpenRefused(s) ==
  /\ In("refused", s) /\ Exited(s)
  /\ child' = [child EXCEPT ![s] = "reaped"]
  /\ files' = [files EXCEPT ![Program] = CloseIn(@, Num(s, Data \cup Null))]
  /\ streams' = [streams EXCEPT ![s].status = "refused"]
  /\ Return
  /\ UNCHANGED <<pipes, errors>>

-----------------------------------------------------------------------------
(* bufferedWriteStreamProc, a byte at a time: there is room for it ...       *)
NextByte(s) == Len(streams[s].sent) + 1
Buffer(s) == streams' = [streams EXCEPT ![s].buf = Append(@, NextByte(s)),
                                        ![s].sent = Append(@, NextByte(s))]
CanWrite(s) ==
  /\ Idle /\ s \in OpenStreams
  /\ streams[s].kind = "write" /\ Len(streams[s].sent) < MaxBytes

WriteBuffered(s) ==
  /\ CanWrite(s) /\ Len(streams[s].buf) < BufSize
  /\ Buffer(s)
  /\ UNCHANGED <<files, pipes, errors, child, call>>

(* ... or the buffer goes to the pipe first.                                 *)
WriteFull(s) ==
  /\ CanWrite(s) /\ Len(streams[s].buf) = BufSize
  /\ Goto("write", s)
  /\ UNCHANGED <<files, streams, pipes, errors, child>>

WriteFlushed(s) ==
  /\ In("write", s) /\ streams[s].buf = <<>>
  /\ Buffer(s)
  /\ Return
  /\ UNCHANGED <<files, pipes, errors, child>>

(* write(2) hands the buffer over byte by byte and waits while the pipe is   *)
(* full.  When nobody can read the pipe, it kills the program.               *)
Flushing(s) == (In("write", s) \/ In("flush", s)) /\ streams[s].buf # <<>>
Transfer(s) ==
  /\ Flushing(s)
  /\ Held(F("data", s, "r")) /\ Len(pipes[s]) < Capacity
  /\ pipes' = [pipes EXCEPT ![s] = Append(@, Head(streams[s].buf))]
  /\ streams' = [streams EXCEPT ![s].buf = Tail(@)]
  /\ UNCHANGED <<files, errors, child, call>>

BrokenPipe(s) ==
  /\ Flushing(s)
  /\ ~Held(F("data", s, "r"))
  /\ files' = [files EXCEPT ![Program] = NoFiles]
  /\ Goto("killed", s)
  /\ UNCHANGED <<streams, pipes, errors, child>>

(* nk_read on the stream, a byte or the end.                                 *)
Read(s) ==
  /\ Idle /\ s \in OpenStreams /\ streams[s].kind = "read" /\ ~streams[s].eof
  /\ Goto("read", s)
  /\ UNCHANGED <<files, streams, pipes, errors, child>>

ReadByte(s) ==
  /\ In("read", s) /\ pipes[s] # <<>>
  /\ streams' = [streams EXCEPT ![s].got = Append(@, Head(pipes[s]))]
  /\ pipes' = [pipes EXCEPT ![s] = Tail(@)]
  /\ Return
  /\ UNCHANGED <<files, errors, child>>

ReadEnd(s) ==
  /\ In("read", s) /\ pipes[s] = <<>> /\ ~Held(F("data", s, "w"))
  /\ streams' = [streams EXCEPT ![s].eof = TRUE]
  /\ Return
  /\ UNCHANGED <<files, pipes, errors, child>>

(* nk_pipe_streamClose: flush, close the file, wait for the child.           *)
Close(s) ==
  /\ Idle /\ s \in OpenStreams
  /\ Goto("flush", s)
  /\ UNCHANGED <<files, streams, pipes, errors, child>>

(* Mutants: both numbers of the pipe are closed; the file is closed first.   *)
CloseFileBoth(s) ==
  /\ In("flush", s) /\ streams[s].buf = <<>>
  /\ files' = [files EXCEPT ![Program] = CloseIn(@, Num(s, Data))]
  /\ Goto("wait", s)
  /\ UNCHANGED <<streams, pipes, errors, child>>
CloseFileUnflushed(s) ==
  /\ In("flush", s)
  /\ files' = [files EXCEPT ![Program] =
                 CloseIn(@, Num(s, {IF streams[s].kind = "write" THEN "dataw" ELSE "datar"}))]
  /\ Goto("wait", s)
  /\ UNCHANGED <<streams, pipes, errors, child>>

CloseFile(s) ==
  /\ In("flush", s) /\ streams[s].buf = <<>>
  /\ files' = [files EXCEPT ![Program] =
                 CloseIn(@, Num(s, {IF streams[s].kind = "write" THEN "dataw" ELSE "datar"}))]
  /\ Goto("wait", s)
  /\ UNCHANGED <<streams, pipes, errors, child>>

WaitProc(s) ==
  /\ In("wait", s) /\ Exited(s)
  /\ streams' = [streams EXCEPT ![s].status = "closed",
                                ![s].ret = IF child[s] = "done" THEN 0 ELSE 1]
  /\ child' = [child EXCEPT ![s] = "reaped"]
  /\ Return
  /\ UNCHANGED <<files, pipes, errors>>

-----------------------------------------------------------------------------
(* The child of a stream: execAsyncImpl between fork and execvp.             *)
(* Mutant: a child that reads keeps its own end to write.                    *)
ChildTableKept(s) ==
  LET num == streams[s].num
      old == files[s]
  IN [CloseIn(old, {num.errr}) EXCEPT ![IF streams[s].kind = "write" THEN 0 ELSE 1] =
        old[IF streams[s].kind = "write" THEN num.datar ELSE num.dataw]]

ChildTable(s) ==
  LET num == streams[s].num
      old == files[s]
      writing == streams[s].kind = "write"
      null == num.nullw # NoFd
      kept == CloseIn(old, {num.errr} \cup (IF writing THEN {num.dataw} ELSE {num.datar, num.nullr}))
  IN [fd \in Fds |->
        CASE fd = 0 /\ writing           -> old[num.datar]
          [] fd = 1 /\ ~writing          -> old[num.dataw]
          [] fd = 1 /\ writing /\ null   -> old[num.nullw]
          [] fd = 2 /\ null              -> old[num.nullw]
          [] OTHER                       -> kept[fd]]

ChildSetup(s) ==
  /\ child[s] = "forked"
  /\ child' = [child EXCEPT ![s] = "ready"]
  /\ files' = [files EXCEPT ![s] = ChildTable(s)]
  /\ UNCHANGED <<streams, pipes, errors, call>>

(* execvp closes the error pipe, ...                                         *)
ChildExec(s) ==
  /\ child[s] = "ready"
  /\ child' = [child EXCEPT ![s] = "running"]
  /\ files' = [files EXCEPT ![s] = CloseIn(@, Num(s, {"errw"}))]
  /\ UNCHANGED <<streams, pipes, errors, call>>

(* Mutant: the child does not tell.                                          *)
ChildFailsSilently(s) ==
  /\ child[s] = "ready"
  /\ child' = [child EXCEPT ![s] = "failed"]
  /\ files' = [files EXCEPT ![s] = NoFiles]
  /\ UNCHANGED <<streams, pipes, errors, call>>

(* ... or fails, and the child tells so and exits.                           *)
ChildFails(s) ==
  /\ child[s] = "ready"
  /\ child' = [child EXCEPT ![s] = "failed"]
  /\ errors' = [errors EXCEPT ![s] = TRUE]
  /\ files' = [files EXCEPT ![s] = NoFiles]
  /\ UNCHANGED <<streams, pipes, call>>

(* The command, which is not our code: one that is written to reads its      *)
(* input to the end; one that is read from writes some bytes.  Each may quit *)
(* before.                                                                   *)
Exit(s, how) ==
  /\ child' = [child EXCEPT ![s] = how]
  /\ files' = [files EXCEPT ![s] = NoFiles]

CommandReads(s) ==
  /\ child[s] = "running" /\ streams[s].kind = "write" /\ files[s][0] = F("data", s, "r")
  /\ \/ /\ pipes[s] # <<>>
        /\ streams' = [streams EXCEPT ![s].got = Append(@, Head(pipes[s]))]
        /\ pipes' = [pipes EXCEPT ![s] = Tail(@)]
        /\ UNCHANGED <<files, child>>
     \/ /\ pipes[s] = <<>> /\ ~Held(F("data", s, "w"))
        /\ Exit(s, "done")
        /\ UNCHANGED <<streams, pipes>>
  /\ UNCHANGED <<errors, call>>

CommandWrites(s) ==
  /\ child[s] = "running" /\ streams[s].kind = "read" /\ files[s][1] = F("data", s, "w")
  /\ \/ /\ Len(streams[s].sent) < MaxBytes
        /\ Held(F("data", s, "r")) /\ Len(pipes[s]) < Capacity
        /\ streams' = [streams EXCEPT ![s].sent = Append(@, NextByte(s))]
        /\ pipes' = [pipes EXCEPT ![s] = Append(@, NextByte(s))]
        /\ UNCHANGED <<files, child>>
     \/ /\ Len(streams[s].sent) < MaxBytes /\ ~Held(F("data", s, "r"))
        /\ Exit(s, "quit")
        /\ UNCHANGED <<streams, pipes>>
     \/ /\ Len(streams[s].sent) = MaxBytes
        /\ Exit(s, "done")
        /\ UNCHANGED <<streams, pipes>>
  /\ UNCHANGED <<errors, call>>

CommandQuits(s) ==
  /\ child[s] = "running"
  /\ Exit(s, "quit")
  /\ UNCHANGED <<streams, pipes, errors, call>>

-----------------------------------------------------------------------------
ClientStep ==
  \E s \in Streams :
    \/ \E kind \in {"read", "write"}, quiet \in BOOLEAN :
         Open(s, kind, quiet) \/ OpenExhausted(s, kind, quiet)
    \/ WriteBuffered(s) \/ WriteFull(s) \/ Read(s) \/ Close(s)

CallStep ==
  \E s \in Streams :
    \/ Fork(s) \/ ForkFails(s) \/ CloseGivenAway(s) \/ HandshakeDone(s) \/ OpenRefused(s)
    \/ WriteFlushed(s) \/ Transfer(s) \/ BrokenPipe(s) \/ ReadByte(s) \/ ReadEnd(s)
    \/ CloseFile(s) \/ WaitProc(s)

ChildStep(s) ==
  \/ ChildSetup(s) \/ ChildExec(s) \/ ChildFails(s)
  \/ CommandReads(s) \/ CommandWrites(s)

PipeNext == ClientStep \/ CallStep \/ \E s \in Streams : ChildStep(s) \/ CommandQuits(s)

(* A call that can go on does, and so does a child: nobody has to call, and  *)
(* no command has to quit early.                                             *)
PipeSpec == PipeInit /\ [][PipeNext]_pipeVars
FairPipeSpec == PipeSpec /\ WF_pipeVars(CallStep) /\ \A s \in Streams : WF_pipeVars(ChildStep(s))

-----------------------------------------------------------------------------
(* Between calls the program holds the descriptors it started with and one   *)
(* for each open stream, under the number the stream has for it.  Only two   *)
(* ways through the code leave more behind: a fork that fails leaves its     *)
(* error pipe, and a quiet stream for reading its unused null file.          *)
Kept(s) ==
  LET x == streams[s] IN
  (CASE x.status = "open"     -> {<<x.num[n], Named(s, n)>> :
                                    n \in {IF x.kind = "write" THEN "dataw" ELSE "datar"}}
     [] x.status = "unforked" -> {<<x.num[n], Named(s, n)>> : n \in {"errr", "errw"}}
     [] OTHER                 -> {})
  \cup (IF x.status \in {"open", "closed"} /\ x.num["nullr"] # NoFd
        THEN {<<x.num["nullr"], Named(s, "nullr")>>} ELSE {})

DescriptorsAccounted ==
  Idle =>
    {<<fd, files[Program][fd]>> : fd \in {n \in Fds : files[Program][n] # Closed}}
      = {<<fd, F("std", Program, "w")>> : fd \in Std} \cup UNION {Kept(s) : s \in Streams}

(* A call closes numbers more than once and after their file is gone.  Yet   *)
(* no number it closes ever belongs to another stream by then.               *)
ClosesItsOwn ==
  [][call'.pc # "killed" =>
       \A fd \in Fds :
         files[Program][fd] # Closed /\ files'[Program][fd] = Closed
           => files[Program][fd].stream = call.stream]_pipeVars

(* The answer of the handshake is right though the child may be anywhere: an *)
(* open stream has a child that executed the command, and of a refused one   *)
(* no child is left.                                                         *)
OpenMeansExecuted ==
  \A s \in Streams :
    /\ streams[s].status = "open" => child[s] \in {"running", "done", "quit"} /\ ~errors[s]
    /\ streams[s].status = "refused" => child[s] = "reaped" /\ errors[s]
    /\ streams[s].status \in {"unforked", "exhausted"} => child[s] = "none"
    /\ streams[s].status = "closed" => child[s] = "reaped" /\ ~errors[s]

(* Bytes arrive in order, and an end is the end of all of them: a close that *)
(* returns 0 means that the command got everything, and a reader that met    *)
(* the end of a stream has everything that was written.                      *)
Delivered ==
  \A s \in Streams :
    LET x == streams[s] IN
      /\ IsPrefix(x.got, x.sent)
      /\ x.kind = "write" /\ x.status = "closed" /\ x.ret = 0 => x.got = x.sent
      /\ x.eof => x.got = x.sent

(* Every call comes to an end, or the program is killed by a broken pipe:    *)
(* nobody holds an end that another one waits to see closed.  One exception: *)
(* the child of a newer stream inherits the program's end of an older one,   *)
(* so closing the older stream first may wait for the newer child, which the *)
(* program keeps waiting for its input.                                      *)
OutOfOrder == call.pc = "wait" /\ \E t \in OpenStreams : t > call.stream
CallsReturn == ~Idle ~> (Idle \/ call.pc = "killed" \/ OutOfOrder)
=============================================================================
