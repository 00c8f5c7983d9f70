--------------------------- MODULE PipeStreamProofs --------------------------
(***************************************************************************)
(* Proofs about PipeStream, for every number of streams and descriptors,   *)
(* every capacity of a pipe and every size of a buffer.                    *)
(***************************************************************************)
EXTENDS PipeStream, ProofFacts

-----------------------------------------------------------------------------
(* Numbers: a set of them has a least one, and a finite set has one of each  *)
(* rank.                                                                     *)
LEMMA LeastOf ==
  ASSUME NEW S \in SUBSET Nat, S # {}
  PROVE  \E i \in S : \A j \in S : i <= j
  <1>1. PICK i \in S : \A j \in S : ~(<<j, i>> \in OpToRel(<, Nat))
    BY NatLessThanWellFounded, WFMin
  <1>2. \A x, y \in Nat : x < y => <<x, y>> \in OpToRel(<, Nat)
    BY Zenon DEF OpToRel
  <1>3. \A j \in S : ~(j < i)
    BY <1>1, <1>2, Zenon
  <1>4. QED
    BY <1>3

Below(S, x) == {n \in S : n < x}

LEMMA NextRank ==
  ASSUME NEW S \in SUBSET Nat, NEW x \in S, NEW R, R = S \ (Below(S, x) \cup {x}), R # {}
  PROVE  \E y \in S : Below(S, y) = Below(S, x) \cup {x}
  <1>1. PICK y \in R : \A z \in R : y <= z
    BY LeastOf
  <1>2. y \in Nat /\ x \in Nat /\ y \in S /\ x < y
    BY <1>1 DEF Below
  <1>3. ASSUME NEW n \in S PROVE n < y <=> n \in Below(S, x) \cup {x}
    BY <1>1, <1>2 DEF Below
  <1>4. QED
    BY <1>2, <1>3 DEF Below

LEMMA RankTaken ==
  ASSUME NEW S \in SUBSET Nat, IsFiniteSet(S), NEW i \in Nat, i < Cardinality(S)
  PROVE  \E x \in S : Cardinality(Below(S, x)) = i
  <1>1. Cardinality(S) \in Nat
    BY FS_CardinalityType
  <1>2. PICK Bad \in SUBSET Nat :
          Bad = {j \in Nat : j < Cardinality(S) /\ ~\E x \in S : Cardinality(Below(S, x)) = j}
    <2>1. {j \in Nat : j < Cardinality(S) /\ ~\E x \in S : Cardinality(Below(S, x)) = j} \in SUBSET Nat
      OBVIOUS
    <2>2. QED
      BY <2>1
  <1>3. ASSUME Bad # {} PROVE FALSE
    <2>1. PICK j \in Bad : \A k \in Bad : j <= k
      BY <1>3, LeastOf
    <2>2. j \in Nat /\ j < Cardinality(S) /\ ~\E x \in S : Cardinality(Below(S, x)) = j
      BY <1>2, <2>1
    <2>3. S # {}
      BY <1>1, <2>2, FS_EmptySet
    <2>4. PICK x \in S : \A z \in S : x <= z
      BY <2>3, LeastOf
    <2>5. Below(S, x) = {}
      <3>1. \A z \in S : z \in Nat /\ ~(z < x)
        BY <2>4
      <3>2. QED
        BY <3>1 DEF Below
    <2>6. j # 0
      BY <2>2, <2>5, FS_EmptySet
    <2>7. PICK k \in Nat : k + 1 = j /\ k < j /\ k < Cardinality(S)
      <3>1. j - 1 \in Nat /\ (j - 1) + 1 = j /\ j - 1 < j /\ j - 1 < Cardinality(S)
        BY <1>1, <2>2, <2>6
      <3>2. QED
        BY <3>1
    <2>8. k \notin Bad
      BY <2>1, <2>7, <2>2
    <2>9. PICK w \in S : Cardinality(Below(S, w)) = k
      BY <1>2, <2>7, <2>8
    <2>10. IsFiniteSet(Below(S, w)) /\ w \notin Below(S, w)
      BY FS_Subset DEF Below
    <2>11. Cardinality(Below(S, w) \cup {w}) = j
      BY <2>7, <2>9, <2>10, FS_AddElement
    <2>12. S # Below(S, w) \cup {w}
      BY <1>1, <2>2, <2>11
    <2>13. PICK R : R = S \ (Below(S, w) \cup {w})
      OBVIOUS
    <2>14. R # {}
      BY <2>12, <2>13 DEF Below
    <2>15. PICK y \in S : Below(S, y) = Below(S, w) \cup {w}
      BY <2>13, <2>14, NextRank
    <2>16. QED
      BY <2>2, <2>11, <2>15
  <1>4. QED
    BY <1>2, <1>3

-----------------------------------------------------------------------------
(* The names of the descriptors that opening a stream takes.                 *)
LEMMA RangeOfBoth ==
  ASSUME NEW A \in Seq(AllNames), NEW B \in Seq(AllNames)
  PROVE  A \o B \in Seq(AllNames) /\ Range(A \o B) = Range(A) \cup Range(B)
  <1>1. /\ Len(A) \in Nat /\ Len(B) \in Nat
        /\ DOMAIN A = 1..Len(A) /\ DOMAIN B = 1..Len(B)
        /\ A \o B \in Seq(AllNames) /\ DOMAIN (A \o B) = 1..Len(A) + Len(B)
        /\ \A i \in 1..Len(A) + Len(B) :
             (A \o B)[i] = IF i <= Len(A) THEN A[i] ELSE B[i - Len(A)]
    OBVIOUS
  <1>2. Range(A \o B) \subseteq Range(A) \cup Range(B)
    BY <1>1 DEF Range
  <1>3. Range(A) \subseteq Range(A \o B)
    BY <1>1 DEF Range
  <1>4. ASSUME NEW j \in DOMAIN B PROVE B[j] \in Range(A \o B)
    <2>1. PICK i \in DOMAIN (A \o B) : i = Len(A) + j
      BY <1>1
    <2>2. (A \o B)[i] = B[j]
      BY <1>1, <2>1
    <2>3. QED
      BY <2>1, <2>2 DEF Range
  <1>5. QED
    BY <1>1, <1>2, <1>3, <1>4 DEF Range

Opened(kind, quiet) ==
  {"datar", "dataw", "errr", "errw"}
  \cup (IF quiet THEN {"nullw"} \cup (IF kind = "read" THEN {"nullr"} ELSE {}) ELSE {})

LEMMA NamesAre ==
  ASSUME NEW kind \in {"read", "write"}, NEW quiet \in BOOLEAN
  PROVE  /\ Names(kind, quiet) \in Seq(AllNames)
         /\ Range(Names(kind, quiet)) = Opened(kind, quiet)
  <1>1. PICK A \in Seq(AllNames), B \in Seq(AllNames), C \in Seq(AllNames) :
          A = <<"datar", "dataw">> /\ B = NullNames(kind, quiet) /\ C = <<"errr", "errw">>
    <2>1. \A x, y \in AllNames : <<x, y>> \in Seq(AllNames) /\ <<x>> \in Seq(AllNames)
      OBVIOUS
    <2>2. <<"datar", "dataw">> \in Seq(AllNames) /\ <<"errr", "errw">> \in Seq(AllNames)
      BY <2>1 DEF AllNames
    <2>3. NullNames(kind, quiet) \in Seq(AllNames)
      <3>1. <<>> \in Seq(AllNames)
        OBVIOUS
      <3>2. <<"nullr", "nullw">> \in Seq(AllNames) /\ <<"nullw">> \in Seq(AllNames)
        BY <2>1 DEF AllNames
      <3>3. QED
        BY <3>1, <3>2 DEF NullNames
    <2>4. QED
      BY <2>2, <2>3
  <1>2. Range(A) = {"datar", "dataw"} /\ Range(C) = {"errr", "errw"}
    BY <1>1 DEF Range
  <1>3. Range(B) = Opened(kind, quiet) \ {"datar", "dataw", "errr", "errw"}
    <2>1. CASE ~quiet
      BY <1>1, <2>1 DEF NullNames, Range, Opened
    <2>2. CASE quiet /\ kind = "write"
      BY <1>1, <2>2 DEF NullNames, Range, Opened
    <2>3. CASE quiet /\ kind = "read"
      BY <1>1, <2>3 DEF NullNames, Range, Opened
    <2>4. QED
      BY <2>1, <2>2, <2>3
  <1>4. Names(kind, quiet) = (A \o B) \o C
    BY <1>1 DEF Names
  <1>5. A \o B \in Seq(AllNames) /\ Range(A \o B) = Range(A) \cup Range(B)
    BY RangeOfBoth
  <1>6. (A \o B) \o C \in Seq(AllNames) /\ Range((A \o B) \o C) = Range(A \o B) \cup Range(C)
    BY <1>5, RangeOfBoth
  <1>7. QED
    BY <1>2, <1>3, <1>4, <1>5, <1>6 DEF Opened

-----------------------------------------------------------------------------
(* Every variable keeps to its type; a stream that is being opened is the one*)
(* of the call in progress, and other calls are about open streams; a stream *)
(* that was opened has numbers of its own for what it has opened.            *)
Statuses == {"unused", "opening", "exhausted", "unforked", "refused", "open", "closed"}
ChildStates == {"none", "forked", "ready", "running", "done", "quit", "failed", "reaped"}
OpeningPcs == {"fork", "forked", "handshake", "refused"}
UsingPcs == {"write", "read", "flush", "wait"}
Pcs == OpeningPcs \cup UsingPcs \cup {"idle", "killed"}
NoNum == [n \in {} |-> 0]
StreamState ==
  [status : Statuses, kind : {"read", "write"}, num : [AllNames -> Fds \cup {NoFd}] \cup {NoNum},
   buf : Seq(Nat), sent : Seq(Nat), got : Seq(Nat), eof : BOOLEAN, ret : {0, 1}]

PipeTypeOK ==
  /\ files \in [Procs -> [Fds -> File \cup {Closed}]]
  /\ streams \in [Streams -> StreamState]
  /\ pipes \in [Streams -> Seq(Nat)]
  /\ errors \in [Streams -> BOOLEAN]
  /\ child \in [Streams -> ChildStates]
  /\ call \in [pc : Pcs, stream : Procs]

Fitting(s) ==
  /\ streams[s].status = "opening" <=> call.pc \in OpeningPcs /\ call.stream = s
  /\ call.pc \in UsingPcs /\ call.stream = s => streams[s].status = "open"
  /\ child[s] # "none" => streams[s].status \notin {"unused", "exhausted"}
CallFits == (call.pc \in OpeningPcs \cup UsingPcs => call.stream \in Streams)
            /\ \A s \in Streams : Fitting(s)

Taken(s) == {n \in AllNames : streams[s].num[n] # NoFd}
NumberedRight(num, kind) ==
  /\ num \in [AllNames -> (Fds \ Std) \cup {NoFd}]
  /\ \A n \in {"datar", "dataw", "errr", "errw"} : num[n] # NoFd
  /\ \A n, m \in AllNames : num[n] = num[m] /\ num[n] # NoFd => n = m
  /\ kind = "write" => num["nullr"] = NoFd
Numbered ==
  \A s \in Streams : streams[s].status \notin {"unused", "exhausted"} =>
    NumberedRight(streams[s].num, streams[s].kind)

(* The program's first descriptors stay what they are until it is killed.    *)
StdKept == call.pc # "killed" => \A fd \in Std : files[Program][fd] = F("std", Program, "w")

LEMMA FdsNumbers ==
  ASSUME PipeAssumption
  PROVE  /\ Fds \subseteq Nat /\ Std \subseteq Fds /\ NoFd \notin Fds /\ IsFiniteSet(Fds)
         /\ Program \in Procs /\ Streams \subseteq Procs /\ Program \notin Streams
         /\ Streams \subseteq Nat
  <1>1. Cardinality(Fds) \in Nat /\ Fds = 0..Cardinality(Fds) - 1
    BY FS_CardinalityType DEF PipeAssumption
  <1>2. Fds \subseteq Nat
    BY <1>1
  <1>3. QED
    BY <1>2 DEF PipeAssumption, Procs, Streams, Program

(* What opening a stream does to the numbers.                                *)
TakesNumbers(s, kind, num) ==
  /\ NumberedRight(num, kind)
  /\ \A n \in AllNames : num[n] # NoFd => files[Program][num[n]] = Closed
  /\ streams' = [streams EXCEPT ![s] = [@ EXCEPT !.status = "opening", !.kind = kind, !.num = num]]
  /\ \A fd \in Fds :
       files'[Program][fd] = IF \E n \in AllNames : num[n] = fd /\ num[n] # NoFd
                             THEN Named(s, CHOOSE n \in AllNames : num[n] = fd)
                             ELSE files[Program][fd]
  /\ files' = [files EXCEPT ![Program] = [fd \in Fds |-> files'[Program][fd]]]

LEMMA OpenNumbers ==
  ASSUME PipeAssumption, PipeTypeOK, StdKept, NEW s \in Streams, NEW kind \in {"read", "write"},
         NEW quiet \in BOOLEAN, Open(s, kind, quiet)
  PROVE  \E num \in [AllNames -> (Fds \ Std) \cup {NoFd}] : TakesNumbers(s, kind, num)
  <1>. DEFINE names == Names(kind, quiet)
              num == [name \in AllNames |->
                        IF name \in Range(names)
                        THEN CHOOSE fd \in FreeFds : names[Cardinality(Below(FreeFds, fd)) + 1] = name
                        ELSE NoFd]
  <1>1. /\ names \in Seq(AllNames) /\ Range(names) = Opened(kind, quiet)
        /\ Range(names) \subseteq AllNames
    BY NamesAre DEF Opened, AllNames
  <1>2. /\ Len(names) <= Cardinality(FreeFds)
        /\ streams' = [streams EXCEPT ![s] = [@ EXCEPT !.status = "opening", !.kind = kind,
                                                       !.num = num]]
        /\ files' = [files EXCEPT ![Program] =
                       [fd \in Fds |->
                          IF \E n \in Range(names) : num[n] = fd
                          THEN Named(s, CHOOSE n \in Range(names) : num[n] = fd) ELSE @[fd]]]
    BY DEF Open, Below
  <1>3. FreeFds \in SUBSET Nat /\ IsFiniteSet(FreeFds) /\ FreeFds \subseteq Fds
    BY FdsNumbers, FS_Subset DEF FreeFds
  <1>4. ASSUME NEW name \in Range(names)
        PROVE  /\ num[name] \in FreeFds
               /\ names[Cardinality(Below(FreeFds, num[name])) + 1] = name
    <2>1. PICK i \in Nat : i + 1 \in DOMAIN names /\ names[i + 1] = name /\ i < Len(names)
      <3>1. PICK j \in DOMAIN names : names[j] = name
        BY DEF Range
      <3>2. j - 1 \in Nat /\ (j - 1) + 1 = j /\ j - 1 < Len(names)
        BY <1>1
      <3>3. QED
        BY <3>1, <3>2
    <2>2. i < Cardinality(FreeFds)
      BY <1>1, <1>2, <1>3, <2>1, FS_CardinalityType
    <2>3. PICK fd \in FreeFds : Cardinality(Below(FreeFds, fd)) = i
      BY <1>3, <2>2, RankTaken
    <2>4. \E f \in FreeFds : names[Cardinality(Below(FreeFds, f)) + 1] = name
      BY <2>1, <2>3
    <2>5. num[name] = CHOOSE f \in FreeFds : names[Cardinality(Below(FreeFds, f)) + 1] = name
      BY <1>1
    <2>6. QED
      BY <2>4, <2>5
  <1>5. \A name \in AllNames : name \notin Range(names) => num[name] = NoFd
    OBVIOUS
  <1>6. FreeFds \cap Std = {}
    <2>1. call.pc = "idle"
      BY DEF Open, NextToOpen, Idle
    <2>2. \A fd \in Std : files[Program][fd] \in File
      BY <2>1 DEF StdKept, F, File, Std, Procs, Program
    <2>3. QED
      BY <2>2 DEF FreeFds, PipeAssumption
  <1>7. num \in [AllNames -> (Fds \ Std) \cup {NoFd}]
    BY <1>3, <1>4, <1>5, <1>6
  <1>8. NumberedRight(num, kind)
    <2>1. \A n \in {"datar", "dataw", "errr", "errw"} : n \in Range(names)
      BY <1>1 DEF Opened
    <2>2. \A n \in {"datar", "dataw", "errr", "errw"} : num[n] # NoFd
      <3>1. NoFd \notin Fds
        BY FdsNumbers
      <3>2. \A n \in {"datar", "dataw", "errr", "errw"} : num[n] \in Fds
        BY <1>3, <1>4, <2>1
      <3>3. QED
        BY <3>1, <3>2
    <2>3. ASSUME NEW n \in AllNames, NEW m \in AllNames, num[n] = num[m], num[n] # NoFd
          PROVE  n = m
      BY <1>4, <1>5, <2>3
    <2>4. kind = "write" => num["nullr"] = NoFd
      BY <1>1, <1>5 DEF Opened, AllNames
    <2>5. QED
      BY <1>7, <2>2, <2>3, <2>4 DEF NumberedRight
  <1>9. \A n \in AllNames : num[n] # NoFd => n \in Range(names) /\ files[Program][num[n]] = Closed
    BY <1>4, <1>5 DEF FreeFds
  <1>10. ASSUME NEW fd \in Fds
         PROVE  files'[Program][fd] = IF \E n \in AllNames : num[n] = fd /\ num[n] # NoFd
                                      THEN Named(s, CHOOSE n \in AllNames : num[n] = fd)
                                      ELSE files[Program][fd]
    <2>1. fd # NoFd
      BY FdsNumbers
    <2>2. \A n \in AllNames : num[n] = fd <=> n \in Range(names) /\ num[n] = fd
      BY <1>9, <2>1
    <2>3. (CHOOSE n \in AllNames : num[n] = fd) = CHOOSE n \in Range(names) : num[n] = fd
      BY <1>1, <2>2
    <2>4. files'[Program][fd] = IF \E n \in Range(names) : num[n] = fd
                                THEN Named(s, CHOOSE n \in Range(names) : num[n] = fd)
                                ELSE files[Program][fd]
      BY <1>2, FdsNumbers DEF PipeTypeOK
    <2>5. (\E n \in Range(names) : num[n] = fd) <=> \E n \in AllNames : num[n] = fd /\ num[n] # NoFd
      BY <1>1, <2>1, <2>2
    <2>6. QED
      BY <2>3, <2>4, <2>5
  <1>11. files' = [files EXCEPT ![Program] = [fd \in Fds |-> files'[Program][fd]]]
    BY <1>2, FdsNumbers DEF PipeTypeOK
  <1>12. TakesNumbers(s, kind, num)
    BY <1>2, <1>8, <1>9, <1>10, <1>11 DEF TakesNumbers
  <1>13. QED
    BY <1>7, <1>12

Sound == PipeTypeOK /\ CallFits /\ Numbered /\ StdKept

(* A call that closes numbers of its stream.                                 *)
LEMMA ClosingTyped ==
  ASSUME PipeAssumption, Sound, call.pc # "killed",
         NEW s \in Streams, streams[s].status \notin {"unused", "exhausted"},
         NEW names \in SUBSET AllNames,
         files' = [files EXCEPT ![Program] = CloseIn(@, Num(s, names))]
  PROVE  /\ files' \in [Procs -> [Fds -> File \cup {Closed}]]
         /\ \A fd \in Std : files'[Program][fd] = F("std", Program, "w")
         /\ \A fd \in Fds : files'[Program][fd] = IF fd \in Num(s, names) THEN Closed
                                                  ELSE files[Program][fd]
         /\ \A p \in Procs \ {Program} : files'[p] = files[p]
  <1>1. Num(s, names) \cap Std = {}
    BY FdsNumbers DEF Sound, Numbered, NumberedRight, Num
  <1>2. \A fd \in Fds : files'[Program][fd] = IF fd \in Num(s, names) THEN Closed
                                              ELSE files[Program][fd]
    BY FdsNumbers DEF CloseIn, Sound, PipeTypeOK
  <1>3. files' \in [Procs -> [Fds -> File \cup {Closed}]]
    BY FdsNumbers DEF CloseIn, Sound, PipeTypeOK
  <1>4. QED
    BY <1>1, <1>2, <1>3, FdsNumbers DEF Sound, StdKept, PipeTypeOK

LEMMA ChildTyped ==
  ASSUME PipeAssumption, Sound, NEW s \in Streams, child[s] # "none"
  PROVE  /\ ChildTable(s) \in [Fds -> File \cup {Closed}]
         /\ \A fds : CloseIn(files[s], fds) \in [Fds -> File \cup {Closed}]
         /\ NoFiles \in [Fds -> File \cup {Closed}]
         /\ s # Program /\ s \in Procs
  <1>1. streams[s].status \notin {"unused", "exhausted"}
    BY DEF Sound, CallFits, Fitting
  <1>2. /\ files[s] \in [Fds -> File \cup {Closed}]
        /\ s # Program /\ s \in Procs
    BY FdsNumbers DEF Sound, PipeTypeOK
  <1>3. PICK num : /\ num = streams[s].num
                   /\ num \in [AllNames -> (Fds \ Std) \cup {NoFd}]
                   /\ num["datar"] \in Fds /\ num["dataw"] \in Fds
                   /\ num["nullw"] # NoFd => num["nullw"] \in Fds
    BY <1>1 DEF Sound, Numbered, NumberedRight, AllNames
  <1>4. \A fds : CloseIn(files[s], fds) \in [Fds -> File \cup {Closed}]
    BY <1>2 DEF CloseIn
  <1>5. ASSUME NEW fd \in Fds PROVE ChildTable(s)[fd] \in File \cup {Closed}
    BY <1>2, <1>3, <1>4 DEF ChildTable
  <1>6. ChildTable(s) \in [Fds -> File \cup {Closed}]
    BY <1>5 DEF ChildTable
  <1>7. QED
    BY <1>2, <1>4, <1>6 DEF NoFiles

(* A step that leaves alone the status, the numbers and the call.            *)
SameStatus(s) == /\ streams'[s].status = streams[s].status
                 /\ streams'[s].kind = streams[s].kind
                 /\ streams'[s].num = streams[s].num

LEMMA SoundStays ==
  ASSUME Sound, PipeTypeOK', files'[Program] = files[Program],
         \A s \in Streams : /\ SameStatus(s)
                            /\ child'[s] # "none" => child[s] # "none",
         call' = call \/ ( /\ call.pc \in {"idle", "write", "read", "flush"}
                           /\ call'.pc \in {"idle", "write", "read", "flush"}
                           /\ call'.pc # "idle" => /\ call'.stream \in Streams
                                                   /\ streams[call'.stream].status = "open")
  PROVE  Sound'
  <1>1. CallFits'
    BY DEF Sound, CallFits, Fitting, SameStatus, OpeningPcs, UsingPcs
  <1>2. Numbered'
    BY DEF Sound, Numbered, SameStatus
  <1>3. StdKept'
    BY DEF Sound, StdKept
  <1>4. QED
    BY <1>1, <1>2, <1>3 DEF Sound

LEMMA StreamFields ==
  ASSUME PipeTypeOK, NEW s \in Streams
  PROVE  /\ streams[s] \in StreamState
         /\ streams[s].buf \in Seq(Nat) /\ streams[s].sent \in Seq(Nat)
         /\ streams[s].got \in Seq(Nat) /\ streams[s].eof \in BOOLEAN
         /\ pipes[s] \in Seq(Nat) /\ NextByte(s) \in Nat
  BY DEF PipeTypeOK, StreamState, NextByte

LEMMA BytesTyped ==
  ASSUME NEW q \in Seq(Nat)
  PROVE  /\ \A n \in Nat : Append(q, n) \in Seq(Nat)
         /\ q # <<>> => Head(q) \in Nat /\ Tail(q) \in Seq(Nat)
  OBVIOUS

LEMMA StreamBecomes ==
  ASSUME PipeTypeOK, NEW s \in Streams, NEW x, x = streams[s], NEW b \in Seq(Nat),
         NEW q \in Seq(Nat), NEW y,
         y \in {[x EXCEPT !.got = q], [x EXCEPT !.buf = b], [x EXCEPT !.sent = q],
               [x EXCEPT !.buf = b, !.sent = q], [x EXCEPT !.eof = TRUE]},
         streams' = [streams EXCEPT ![s] = y]
  PROVE  streams' \in [Streams -> StreamState] /\ \A t \in Streams : SameStatus(t)
  <1>1. x \in StreamState /\ streams \in [Streams -> StreamState]
    BY DEF PipeTypeOK
  <1>2. y \in StreamState /\ y.status = x.status /\ y.kind = x.kind /\ y.num = x.num
    BY <1>1 DEF StreamState
  <1>3. QED
    BY <1>1, <1>2 DEF SameStatus

LEMMA ChildSound ==
  ASSUME PipeAssumption, Sound, NEW s \in Streams, ChildStep(s) \/ CommandQuits(s)
  PROVE  /\ Sound'
         /\ files'[Program] = files[Program] /\ call' = call
         /\ \A t \in Streams : SameStatus(t)
  <1>0. PipeTypeOK
    BY DEF Sound
  <1>1. child[s] # "none"
    BY DEF ChildStep, ChildSetup, ChildExec, ChildFails, CommandReads, CommandWrites, CommandQuits
  <1>2. /\ ChildTable(s) \in [Fds -> File \cup {Closed}]
        /\ \A fds : CloseIn(files[s], fds) \in [Fds -> File \cup {Closed}]
        /\ NoFiles \in [Fds -> File \cup {Closed}]
        /\ s # Program /\ s \in Procs /\ Program \in Procs
    BY <1>1, ChildTyped, FdsNumbers
  <1>3. PICK t \in [Fds -> File \cup {Closed}] : files' = [files EXCEPT ![s] = t]
    <2>1. CASE ChildSetup(s)
      BY <1>2, <2>1 DEF ChildSetup
    <2>2. CASE ChildExec(s)
      BY <1>2, <2>2 DEF ChildExec
    <2>3. CASE ChildFails(s)
      BY <1>2, <2>3 DEF ChildFails
    <2>4. CASE CommandReads(s) \/ CommandWrites(s) \/ CommandQuits(s)
      <3>1. files[s] \in [Fds -> File \cup {Closed}] /\ files = [files EXCEPT ![s] = files[s]]
        BY <1>2 DEF Sound, PipeTypeOK
      <3>2. QED
        BY <1>2, <2>4, <3>1 DEF CommandReads, CommandWrites, CommandQuits, Exit
    <2>5. QED
      BY <2>1, <2>2, <2>3, <2>4 DEF ChildStep
  <1>4. files' \in [Procs -> [Fds -> File \cup {Closed}]] /\ files'[Program] = files[Program]
    BY <1>2, <1>3 DEF Sound, PipeTypeOK
  <1>5. /\ child' \in [Streams -> ChildStates] /\ errors' \in [Streams -> BOOLEAN]
        /\ call' = call
        /\ \A u \in Streams : child'[u] # "none" => child[u] # "none"
    BY <1>1 DEF Sound, PipeTypeOK, ChildStates, ChildStep, ChildSetup, ChildExec, ChildFails,
                CommandReads, CommandWrites, CommandQuits, Exit
  <1>6. /\ streams' \in [Streams -> StreamState]
        /\ pipes' \in [Streams -> Seq(Nat)]
        /\ \A u \in Streams : SameStatus(u)
    <2>1. CASE UNCHANGED <<streams, pipes>>
      BY <2>1 DEF Sound, PipeTypeOK, SameStatus
    <2>2. CASE /\ pipes[s] # <<>>
               /\ streams' = [streams EXCEPT ![s].got = Append(@, Head(pipes[s]))]
               /\ pipes' = [pipes EXCEPT ![s] = Tail(@)]
      <3>1. Head(pipes[s]) \in Nat /\ Tail(pipes[s]) \in Seq(Nat)
        BY <2>2, <1>0, StreamFields, BytesTyped
      <3>2. PICK q \in Seq(Nat) : q = Append(streams[s].got, Head(pipes[s]))
        BY <3>1, <1>0, StreamFields, BytesTyped
      <3>3. PICK x : x = streams[s]
        OBVIOUS
      <3>4. PICK y : y = [x EXCEPT !.got = q]
        OBVIOUS
      <3>5. streams' = [streams EXCEPT ![s] = y]
        BY <2>2, <3>2, <3>3, <3>4
      <3>6. pipes' \in [Streams -> Seq(Nat)]
        BY <2>2, <3>1, <1>0 DEF PipeTypeOK
      <3>7. QED
        BY <1>0, <3>3, <3>4, <3>5, <3>6, StreamBecomes
    <2>3. CASE /\ streams' = [streams EXCEPT ![s].sent = Append(@, NextByte(s))]
               /\ pipes' = [pipes EXCEPT ![s] = Append(@, NextByte(s))]
      <3>1. PICK q \in Seq(Nat) : q = Append(streams[s].sent, NextByte(s))
        BY <1>0, StreamFields, BytesTyped
      <3>2. PICK d \in Seq(Nat) : d = Append(pipes[s], NextByte(s))
        BY <1>0, StreamFields, BytesTyped
      <3>3. PICK x : x = streams[s]
        OBVIOUS
      <3>4. PICK y : y = [x EXCEPT !.sent = q]
        OBVIOUS
      <3>5. streams' = [streams EXCEPT ![s] = y]
        BY <2>3, <3>1, <3>3, <3>4
      <3>6. pipes' \in [Streams -> Seq(Nat)]
        BY <2>3, <3>2, <1>0 DEF PipeTypeOK
      <3>7. QED
        BY <1>0, <3>3, <3>4, <3>5, <3>6, StreamBecomes
    <2>4. QED
      BY <2>1, <2>2, <2>3 DEF ChildStep, ChildSetup, ChildExec, ChildFails,
                CommandReads, CommandWrites, CommandQuits
  <1>7. PipeTypeOK'
    BY <1>4, <1>5, <1>6 DEF Sound, PipeTypeOK
  <1>8. Sound'
    BY <1>4, <1>5, <1>6, <1>7, SoundStays
  <1>9. QED
    BY <1>4, <1>5, <1>6, <1>8

(* The calls that use an open stream.                                        *)
LEMMA UseSound ==
  ASSUME PipeAssumption, Sound, NEW s \in Streams,
         \/ WriteBuffered(s) \/ WriteFull(s) \/ Read(s) \/ Close(s)
         \/ WriteFlushed(s) \/ Transfer(s) \/ ReadByte(s) \/ ReadEnd(s)
  PROVE  /\ Sound'
         /\ UNCHANGED <<files, errors, child>>
         /\ call.pc \in {"idle", "write", "read", "flush"}
         /\ call'.pc \in {"idle", "write", "read", "flush"}
         /\ \A t \in Streams : SameStatus(t)
  <1>0. PipeTypeOK
    BY DEF Sound
  <1>1. UNCHANGED <<files, errors, child>>
    BY DEF WriteBuffered, WriteFull, Read, Close, WriteFlushed, Transfer, ReadByte, ReadEnd
  <1>2. s \in Procs /\ Program \in Procs /\ 0 \in Procs
    BY FdsNumbers DEF Program
  <1>3. call' \in [pc : Pcs, stream : Procs]
    BY <1>2 DEF Sound, PipeTypeOK, Goto, Return, Pcs, OpeningPcs, UsingPcs,
         WriteBuffered, WriteFull, Read, Close, WriteFlushed, Transfer, ReadByte, ReadEnd
  <1>4. /\ call.pc \in {"idle", "write", "read", "flush"}
        /\ call'.pc \in {"idle", "write", "read", "flush"}
        /\ call'.pc # "idle" => /\ call'.stream \in Streams
                                /\ streams[call'.stream].status = "open"
    BY DEF Goto, Return, In, Idle, OpenStreams, CanWrite, Sound, CallFits, Fitting, UsingPcs,
         WriteBuffered, WriteFull, Read, Close, WriteFlushed, Transfer, Flushing, ReadByte, ReadEnd
  <1>5. /\ streams' \in [Streams -> StreamState]
        /\ pipes' \in [Streams -> Seq(Nat)]
        /\ \A t \in Streams : SameStatus(t)
    <2>1. CASE UNCHANGED <<streams, pipes>>
      BY <2>1 DEF Sound, PipeTypeOK, SameStatus
    <2>2. CASE Buffer(s) /\ UNCHANGED pipes
      <3>1. PICK q \in Seq(Nat) : q = Append(streams[s].sent, NextByte(s))
        BY <1>0, StreamFields, BytesTyped
      <3>2. PICK d \in Seq(Nat) : d = Append(streams[s].buf, NextByte(s))
        BY <1>0, StreamFields, BytesTyped
      <3>3. PICK x : x = streams[s]
        OBVIOUS
      <3>4. PICK y : y = [x EXCEPT !.buf = d, !.sent = q]
        OBVIOUS
      <3>5. streams' = [streams EXCEPT ![s] = y]
        BY <2>2, <3>1, <3>2, <3>3, <3>4 DEF Buffer
      <3>6. pipes' \in [Streams -> Seq(Nat)]
        BY <2>2, <1>0 DEF PipeTypeOK
      <3>7. QED
        BY <1>0, <3>3, <3>4, <3>5, <3>6, StreamBecomes
    <2>3. CASE Transfer(s)
      <3>1. Head(streams[s].buf) \in Nat /\ Tail(streams[s].buf) \in Seq(Nat)
        BY <2>3, <1>0, StreamFields, BytesTyped DEF Transfer, Flushing
      <3>2. PICK d \in Seq(Nat) : d = Tail(streams[s].buf)
        BY <3>1
      <3>3. PICK x : x = streams[s]
        OBVIOUS
      <3>4. PICK y : y = [x EXCEPT !.buf = d]
        OBVIOUS
      <3>5. streams' = [streams EXCEPT ![s] = y]
        BY <2>3, <3>2, <3>3, <3>4 DEF Transfer
      <3>6. pipes' \in [Streams -> Seq(Nat)]
        <4>1. Append(pipes[s], Head(streams[s].buf)) \in Seq(Nat)
          BY <3>1, <1>0, StreamFields, BytesTyped
        <4>2. QED
          BY <2>3, <4>1, <1>0 DEF PipeTypeOK, Transfer
      <3>7. QED
        BY <1>0, <3>3, <3>4, <3>5, <3>6, StreamBecomes
    <2>4. CASE ReadByte(s)
      <3>1. Head(pipes[s]) \in Nat /\ Tail(pipes[s]) \in Seq(Nat)
        BY <2>4, <1>0, StreamFields, BytesTyped DEF ReadByte
      <3>2. PICK q \in Seq(Nat) : q = Append(streams[s].got, Head(pipes[s]))
        BY <3>1, <1>0, StreamFields, BytesTyped
      <3>3. PICK x : x = streams[s]
        OBVIOUS
      <3>4. PICK y : y = [x EXCEPT !.got = q]
        OBVIOUS
      <3>5. streams' = [streams EXCEPT ![s] = y]
        BY <2>4, <3>2, <3>3, <3>4 DEF ReadByte
      <3>6. pipes' \in [Streams -> Seq(Nat)]
        BY <2>4, <3>1, <1>0 DEF PipeTypeOK, ReadByte
      <3>7. QED
        BY <1>0, <3>3, <3>4, <3>5, <3>6, StreamBecomes
    <2>5. CASE ReadEnd(s)
      <3>1. PICK q \in Seq(Nat) : q = pipes[s]
        BY <1>0, StreamFields
      <3>3. PICK x : x = streams[s]
        OBVIOUS
      <3>4. PICK y : y = [x EXCEPT !.eof = TRUE]
        OBVIOUS
      <3>5. streams' = [streams EXCEPT ![s] = y]
        BY <2>5, <3>3, <3>4 DEF ReadEnd
      <3>6. pipes' \in [Streams -> Seq(Nat)]
        BY <2>5, <1>0 DEF PipeTypeOK, ReadEnd
      <3>7. QED
        BY <1>0, <3>1, <3>3, <3>4, <3>5, <3>6, StreamBecomes
    <2>6. QED
      BY <2>1, <2>2, <2>3, <2>4, <2>5
         DEF WriteBuffered, WriteFull, Read, Close, WriteFlushed
  <1>6. PipeTypeOK'
    BY <1>1, <1>3, <1>5 DEF Sound, PipeTypeOK
  <1>7. Sound'
    BY <1>1, <1>4, <1>5, <1>6, SoundStays
  <1>8. QED
    BY <1>1, <1>4, <1>5, <1>7

(* A call goes on, or ends.                                                  *)
LEMMA SoundAfter ==
  ASSUME Sound, PipeTypeOK', NEW s \in Streams,
         call.pc \in OpeningPcs \cup UsingPcs, call.stream = s,
         \A t \in Streams \ {s} : SameStatus(t) /\ child'[t] = child[t],
         streams'[s].kind = streams[s].kind, streams'[s].num = streams[s].num,
         streams'[s].status \notin {"unused", "exhausted"},
         call'.pc \in {"idle", "killed"} \/ call'.stream = s,
         call'.pc \in OpeningPcs <=> streams'[s].status = "opening",
         call'.pc \in UsingPcs => streams'[s].status = "open",
         StdKept'
  PROVE  Sound'
  <1>1. streams[s].status \notin {"unused", "exhausted"}
    BY DEF Sound, CallFits, Fitting
  <1>2. Numbered'
    <2>1. \A t \in Streams : streams'[t].kind = streams[t].kind /\ streams'[t].num = streams[t].num
      BY DEF SameStatus
    <2>2. \A t \in Streams : streams'[t].status \notin {"unused", "exhausted"}
                               => streams[t].status \notin {"unused", "exhausted"}
      BY <1>1 DEF SameStatus
    <2>3. QED
      BY <2>1, <2>2 DEF Sound, Numbered
  <1>3. Fitting(s)'
    BY DEF Fitting, OpeningPcs, UsingPcs
  <1>4. ASSUME NEW t \in Streams, t # s PROVE Fitting(t)'
    <2>1. call.stream # t /\ streams[t].status # "opening"
      BY <1>4 DEF Sound, CallFits, Fitting
    <2>2. streams'[t].status = streams[t].status /\ child'[t] = child[t]
      BY <1>4 DEF SameStatus
    <2>3. call'.stream # t \/ call'.pc \notin OpeningPcs \cup UsingPcs
      BY <1>4 DEF OpeningPcs, UsingPcs
    <2>4. QED
      BY <1>4, <2>1, <2>2, <2>3 DEF Sound, CallFits, Fitting
  <1>5. CallFits'
    BY <1>3, <1>4 DEF CallFits, OpeningPcs, UsingPcs
  <1>6. QED
    BY <1>2, <1>5 DEF Sound

LEMMA CallSound ==
  ASSUME PipeAssumption, Sound, NEW s \in Streams,
         \/ Fork(s) \/ ForkFails(s) \/ CloseGivenAway(s) \/ HandshakeDone(s) \/ OpenRefused(s)
         \/ BrokenPipe(s) \/ CloseFile(s) \/ WaitProc(s)
  PROVE  /\ Sound'
         /\ call.pc \in OpeningPcs \cup UsingPcs /\ call.pc # "killed" /\ call.stream = s
         /\ streams[s].status = IF call.pc \in OpeningPcs THEN "opening" ELSE "open"
         /\ call'.pc \in {"idle", "killed"} \/ call'.stream = s
         /\ \A t \in Streams : streams'[t].kind = streams[t].kind /\ streams'[t].num = streams[t].num
         /\ \A t \in Streams \ {s} : SameStatus(t)
         /\ streams'[s].status \notin {"unused", "exhausted"}
  <1>. DEFINE Updated ==
         /\ streams' \in [Streams -> StreamState]
         /\ \A t \in Streams \ {s} : SameStatus(t)
         /\ streams'[s].kind = streams[s].kind /\ streams'[s].num = streams[s].num
         /\ streams'[s].status \notin {"unused", "exhausted"}
         /\ call'.pc \in OpeningPcs <=> streams'[s].status = "opening"
         /\ call'.pc \in UsingPcs => streams'[s].status = "open"
  <1>0. PipeTypeOK
    BY DEF Sound
  <1>1. /\ call.pc \in OpeningPcs \cup UsingPcs /\ call.pc # "killed" /\ call.stream = s
        /\ streams[s].status = IF call.pc \in OpeningPcs THEN "opening" ELSE "open"
    BY DEF Fork, ForkFails, CloseGivenAway, HandshakeDone, OpenRefused, BrokenPipe, CloseFile,
           WaitProc, In, Flushing, Sound, CallFits, Fitting, OpeningPcs, UsingPcs
  <1>2. /\ call' \in [pc : Pcs, stream : Procs]
        /\ call'.pc \in {"idle", "killed"} \/ call'.stream = s
    BY <1>0, <1>1, FdsNumbers
       DEF Fork, ForkFails, CloseGivenAway, HandshakeDone, OpenRefused, BrokenPipe, CloseFile,
           WaitProc, Goto, Return, Pcs, OpeningPcs, UsingPcs, Program
  <1>3. /\ child' \in [Streams -> ChildStates]
        /\ \A t \in Streams \ {s} : child'[t] = child[t]
    BY <1>0 DEF PipeTypeOK, ChildStates, Fork, ForkFails, CloseGivenAway, HandshakeDone,
           OpenRefused, BrokenPipe, CloseFile, WaitProc
  <1>4. pipes' = pipes /\ errors' = errors
    BY DEF Fork, ForkFails, CloseGivenAway, HandshakeDone, OpenRefused, BrokenPipe, CloseFile,
           WaitProc
  <1>5. files' \in [Procs -> [Fds -> File \cup {Closed}]] /\ StdKept'
    <2>1. CASE Fork(s)
      <3>1. files[Program] \in [Fds -> File \cup {Closed}] /\ s # Program /\ s \in Procs
        BY <1>0, FdsNumbers DEF PipeTypeOK
      <3>2. QED
        BY <2>1, <3>1, <1>0, <1>1, FdsNumbers DEF Fork, Sound, StdKept, PipeTypeOK
    <2>2. CASE BrokenPipe(s)
      BY <2>2, <1>0, FdsNumbers DEF BrokenPipe, PipeTypeOK, NoFiles, StdKept, Goto
    <2>3. CASE WaitProc(s)
      BY <2>3, <1>0, <1>1 DEF WaitProc, PipeTypeOK, Sound, StdKept
    <2>4. CASE ForkFails(s) \/ CloseGivenAway(s) \/ HandshakeDone(s) \/ OpenRefused(s) \/ CloseFile(s)
      <3>1. PICK names \in SUBSET AllNames :
              files' = [files EXCEPT ![Program] = CloseIn(@, Num(s, names))]
        <4>1. /\ Data \cup Null \in SUBSET AllNames /\ GivenAway(s) \in SUBSET AllNames
              /\ {"errr"} \in SUBSET AllNames
              /\ {IF streams[s].kind = "write" THEN "dataw" ELSE "datar"} \in SUBSET AllNames
          BY DEF Data, Null, AllNames, GivenAway
        <4>2. QED
          BY <2>4, <4>1 DEF ForkFails, CloseGivenAway, HandshakeDone, OpenRefused, CloseFile
      <3>2. QED
        BY <3>1, <1>1, ClosingTyped DEF StdKept
    <2>5. QED
      BY <2>1, <2>2, <2>3, <2>4
  <1>6. Updated
    <2>1. CASE UNCHANGED streams /\ (call'.pc \in OpeningPcs <=> call.pc \in OpeningPcs)
      BY <2>1, <1>0, <1>1 DEF PipeTypeOK, SameStatus, OpeningPcs, UsingPcs
    <2>2. ASSUME NEW status \in {"unforked", "open", "refused", "closed"}, NEW ret \in {0, 1}, NEW y,
                 \/ y = [streams[s] EXCEPT !.status = status]
                 \/ y = [streams[s] EXCEPT !.status = status, !.ret = ret],
                 streams' = [streams EXCEPT ![s] = y], call'.pc = "idle"
          PROVE  Updated
      <3>1. PICK x : x = streams[s]
        OBVIOUS
      <3>2. PICK kind \in {"read", "write"} : kind = x.kind
        BY <3>1, <1>0 DEF PipeTypeOK, StreamState
      <3>3. status \in Statuses
        BY DEF Statuses
      <3>4. y \in {[x EXCEPT !.status = status], [x EXCEPT !.status = status, !.kind = kind],
                  [x EXCEPT !.status = status, !.ret = ret]}
        BY <2>2, <3>1
      <3>7. streams' = [streams EXCEPT ![s] = y]
        BY <2>2
      <3>5. /\ streams' \in [Streams -> StreamState]
            /\ streams'[s].status = status
            /\ streams'[s].kind \in {streams[s].kind, kind} /\ streams'[s].num = streams[s].num
            /\ \A t \in Streams \ {s} : SameStatus(t)
        <4>1. x \in StreamState /\ streams \in [Streams -> StreamState]
          BY <1>0, <3>1 DEF PipeTypeOK
        <4>2. y \in StreamState /\ y.status = status /\ y.kind = x.kind /\ y.num = x.num
          BY <4>1, <3>2, <3>3, <3>4 DEF StreamState
        <4>3. QED
          BY <4>1, <4>2, <3>1, <3>2, <3>7 DEF SameStatus
      <3>6. QED
        BY <2>2, <3>1, <3>2, <3>5 DEF OpeningPcs, UsingPcs
    <2>3. CASE ForkFails(s) \/ OpenRefused(s) \/ (HandshakeDone(s) /\ ~errors[s]) \/ WaitProc(s)
      <3>1. PICK status \in {"unforked", "open", "refused", "closed"}, ret \in {0, 1} : \E y :
              /\ \/ y = [streams[s] EXCEPT !.status = status]
                 \/ y = [streams[s] EXCEPT !.status = status, !.ret = ret]
              /\ streams' = [streams EXCEPT ![s] = y]
              /\ call'.pc = "idle"
        <4>1. CASE ForkFails(s)
          <5>1. streams' = [streams EXCEPT ![s] = [streams[s] EXCEPT !.status = "unforked"]]
            BY <4>1 DEF ForkFails
          <5>2. QED
            BY <4>1, <5>1 DEF ForkFails, Return
        <4>2. CASE OpenRefused(s)
          <5>1. streams' = [streams EXCEPT ![s] = [streams[s] EXCEPT !.status = "refused"]]
            BY <4>2 DEF OpenRefused
          <5>2. QED
            BY <4>2, <5>1 DEF OpenRefused, Return
        <4>3. CASE HandshakeDone(s) /\ ~errors[s]
          <5>1. streams' = [streams EXCEPT ![s] = [streams[s] EXCEPT !.status = "open"]]
            BY <4>3 DEF HandshakeDone
          <5>2. Return
            BY <4>3, Zenon DEF HandshakeDone
          <5>3. QED
            BY <5>1, <5>2 DEF Return
        <4>4. CASE WaitProc(s)
          <5>1. PICK ret \in {0, 1} : ret = IF child[s] = "done" THEN 0 ELSE 1
            OBVIOUS
          <5>2. streams' = [streams EXCEPT ![s] = [streams[s] EXCEPT !.status = "closed", !.ret = ret]]
            BY <4>4, <5>1 DEF WaitProc
          <5>3. QED
            BY <4>4, <5>2 DEF WaitProc, Return
        <4>5. QED
          BY <2>3, <4>1, <4>2, <4>3, <4>4
      <3>2. QED
        BY <3>1, <2>2
    <2>4. CASE \/ Fork(s) \/ CloseGivenAway(s) \/ (HandshakeDone(s) /\ errors[s])
               \/ BrokenPipe(s) \/ CloseFile(s)
      <3>1. streams' = streams
        BY <2>4 DEF Fork, CloseGivenAway, HandshakeDone, BrokenPipe, CloseFile
      <3>2. call.pc \in UsingPcs /\ call.pc \notin OpeningPcs
              => call'.pc \notin OpeningPcs
        BY <2>4 DEF OpeningPcs, UsingPcs, Fork, CloseGivenAway, HandshakeDone, BrokenPipe, CloseFile,
                    Goto, In, Flushing
      <3>4. call.pc \in OpeningPcs => call'.pc \in OpeningPcs
        BY <2>4 DEF OpeningPcs, UsingPcs, Fork, CloseGivenAway, HandshakeDone, BrokenPipe, CloseFile,
                    Goto, In, Flushing
      <3>3. QED
        BY <2>1, <1>1, <3>1, <3>2, <3>4
    <2>5. errors[s] \in BOOLEAN
      BY <1>0 DEF PipeTypeOK
    <2>6. QED
      BY <2>3, <2>4, <2>5
  <1>7. PipeTypeOK'
    BY <1>2, <1>3, <1>4, <1>5, <1>6, <1>0 DEF PipeTypeOK
  <1>8. Sound'
    BY <1>1, <1>2, <1>3, <1>5, <1>6, <1>7, SoundAfter
  <1>9. \A t \in Streams : streams'[t].kind = streams[t].kind /\ streams'[t].num = streams[t].num
    BY <1>6 DEF SameStatus
  <1>10. QED
    BY <1>1, <1>2, <1>6, <1>8, <1>9

(* A call that opens a stream.                                               *)
LEMMA OpenSound ==
  ASSUME PipeAssumption, Sound, NEW s \in Streams, NEW kind \in {"read", "write"},
         NEW quiet \in BOOLEAN, Open(s, kind, quiet) \/ OpenExhausted(s, kind, quiet)
  PROVE  Sound'
  <1>0. PipeTypeOK /\ StdKept
    BY DEF Sound
  <1>1. call.pc = "idle" /\ streams[s].status = "unused"
    BY DEF Open, OpenExhausted, NextToOpen, Idle
  <1>2. s \in Procs /\ Program \in Procs /\ s # Program /\ Std \subseteq Fds
    BY FdsNumbers
  <1>3. CASE Open(s, kind, quiet)
    <2>0. PICK num \in [AllNames -> (Fds \ Std) \cup {NoFd}] : TakesNumbers(s, kind, num)
      BY <1>0, <1>3, OpenNumbers
    <2>1. /\ NumberedRight(num, kind)
          /\ streams' = [streams EXCEPT ![s] = [@ EXCEPT !.status = "opening", !.kind = kind,
                                                         !.num = num]]
          /\ \A fd \in Fds :
               files'[Program][fd] = IF \E n \in AllNames : num[n] = fd /\ num[n] # NoFd
                                     THEN Named(s, CHOOSE n \in AllNames : num[n] = fd)
                                     ELSE files[Program][fd]
          /\ files' = [files EXCEPT ![Program] = [fd \in Fds |-> files'[Program][fd]]]
      BY <2>0 DEF TakesNumbers
    <2>2. PICK x \in StreamState : x = streams[s]
      BY <1>0 DEF PipeTypeOK
    <2>3. PICK y : y = [x EXCEPT !.status = "opening", !.kind = kind, !.num = num]
      OBVIOUS
    <2>4. num \in [AllNames -> Fds \cup {NoFd}]
      OBVIOUS
    <2>5. y \in StreamState /\ y.status = "opening" /\ y.kind = kind /\ y.num = num
      BY <2>2, <2>3, <2>4 DEF StreamState, Statuses
    <2>6. streams' = [streams EXCEPT ![s] = y]
      BY <2>1, <2>2, <2>3
    <2>7. /\ streams' \in [Streams -> StreamState]
          /\ streams'[s] = y
          /\ \A t \in Streams \ {s} : streams'[t] = streams[t]
      BY <1>0, <2>5, <2>6 DEF PipeTypeOK
    <2>8. /\ call' = [pc |-> "fork", stream |-> s]
          /\ pipes' = pipes /\ errors' = errors /\ child' = child
      BY <1>3 DEF Open, Goto
    <2>9. PipeTypeOK'
      <3>1. files' \in [Procs -> [Fds -> File \cup {Closed}]]
        <4>1. ASSUME NEW fd \in Fds PROVE files'[Program][fd] \in File \cup {Closed}
          <5>1. ASSUME NEW n \in AllNames PROVE Named(s, n) \in File
            BY <1>2 DEF Named, F, File, AllNames
          <5>2. files[Program][fd] \in File \cup {Closed}
            BY <1>0, <1>2 DEF PipeTypeOK
          <5>3. CASE \E n \in AllNames : num[n] = fd /\ num[n] # NoFd
            <6>1. PICK m \in AllNames : m = CHOOSE n \in AllNames : num[n] = fd
              BY <5>3
            <6>2. files'[Program][fd] = Named(s, m)
              BY <5>3, <6>1, <2>1
            <6>3. QED
              BY <5>1, <6>2
          <5>4. QED
            BY <5>2, <5>3, <2>1
        <4>2. [fd \in Fds |-> files'[Program][fd]] \in [Fds -> File \cup {Closed}]
          BY <4>1
        <4>3. QED
          BY <2>1, <4>2, <1>0 DEF PipeTypeOK
      <3>2. call' \in [pc : Pcs, stream : Procs]
        BY <2>8, <1>2 DEF Pcs, OpeningPcs
      <3>3. QED
        BY <1>0, <2>7, <2>8, <3>1, <3>2 DEF PipeTypeOK
    <2>10. CallFits'
      <3>1. Fitting(s)'
        BY <1>1, <2>5, <2>7, <2>8 DEF Fitting, OpeningPcs, UsingPcs
      <3>2. ASSUME NEW t \in Streams, t # s PROVE Fitting(t)'
        BY <1>1, <2>7, <2>8, <3>2 DEF Fitting, Sound, CallFits, OpeningPcs, UsingPcs
      <3>3. QED
        BY <2>8, <3>1, <3>2 DEF CallFits
    <2>11. Numbered'
      BY <2>1, <2>5, <2>7 DEF Sound, Numbered
    <2>12. StdKept'
      <3>1. \A fd \in Std : fd # NoFd /\ ~\E n \in AllNames : num[n] = fd
        BY <1>2, FdsNumbers
      <3>2. QED
        BY <1>0, <1>1, <1>2, <2>1, <3>1 DEF StdKept
    <2>13. QED
      BY <2>9, <2>10, <2>11, <2>12 DEF Sound
  <1>4. CASE OpenExhausted(s, kind, quiet)
    <2>2. PICK x \in StreamState : x = streams[s]
      BY <1>0 DEF PipeTypeOK
    <2>3. PICK y : y = [x EXCEPT !.status = "exhausted", !.kind = kind]
      OBVIOUS
    <2>5. y \in StreamState /\ y.status = "exhausted"
      BY <2>2, <2>3 DEF StreamState, Statuses
    <2>6. streams' = [streams EXCEPT ![s] = y]
      BY <1>4, <2>2, <2>3 DEF OpenExhausted
    <2>7. /\ streams' \in [Streams -> StreamState]
          /\ streams'[s] = y
          /\ \A t \in Streams \ {s} : streams'[t] = streams[t]
      BY <1>0, <2>5, <2>6 DEF PipeTypeOK
    <2>8. UNCHANGED <<files, pipes, errors, child, call>>
      BY <1>4 DEF OpenExhausted
    <2>9. PipeTypeOK' /\ StdKept'
      BY <1>0, <2>7, <2>8 DEF PipeTypeOK, StdKept
    <2>10. CallFits'
      <3>1. Fitting(s)'
        BY <1>1, <2>5, <2>7, <2>8 DEF Fitting, Sound, CallFits, OpeningPcs, UsingPcs
      <3>2. ASSUME NEW t \in Streams, t # s PROVE Fitting(t)'
        BY <2>7, <2>8, <3>2 DEF Fitting, Sound, CallFits
      <3>3. QED
        BY <2>8, <3>1, <3>2 DEF CallFits, Sound
    <2>11. Numbered'
      BY <2>5, <2>7 DEF Sound, Numbered
    <2>13. QED
      BY <2>9, <2>10, <2>11 DEF Sound
  <1>5. QED
    BY <1>3, <1>4

LEMMA SoundInit ==
  ASSUME PipeAssumption, PipeInit
  PROVE  Sound
  <1>1. /\ Program \in Procs /\ Streams \subseteq Procs /\ Std \subseteq Fds /\ NoFd \notin Fds
    BY FdsNumbers
  <1>2. Unused \in StreamState /\ Unused.status = "unused"
    <2>1. <<>> \in Seq(Nat) /\ NoNum \in {NoNum}
      OBVIOUS
    <2>2. QED
      BY <2>1 DEF Unused, StreamState, Statuses, NoNum
  <1>3. files \in [Procs -> [Fds -> File \cup {Closed}]]
        /\ \A fd \in Std : files[Program][fd] = F("std", Program, "w")
    BY <1>1 DEF PipeInit, F, File, NoFiles
  <1>4. pipes \in [Streams -> Seq(Nat)]
    <2>1. <<>> \in Seq(Nat)
      OBVIOUS
    <2>2. QED
      BY <2>1 DEF PipeInit
  <1>5. PipeTypeOK
    BY <1>1, <1>2, <1>3, <1>4 DEF PipeInit, PipeTypeOK, ChildStates, Pcs, Program
  <1>6. CallFits /\ Numbered
    BY <1>2 DEF PipeInit, CallFits, Fitting, Numbered, OpeningPcs, UsingPcs
  <1>7. QED
    BY <1>3, <1>5, <1>6 DEF Sound, StdKept

LEMMA SoundNext ==
  ASSUME PipeAssumption, Sound, [PipeNext]_pipeVars
  PROVE  Sound'
  <1>1. CASE UNCHANGED pipeVars
    BY <1>1 DEF pipeVars, Sound, PipeTypeOK, CallFits, Fitting, Numbered, StdKept
  <1>2. CASE ClientStep
    BY <1>2, OpenSound, UseSound DEF ClientStep
  <1>3. CASE CallStep
    BY <1>3, CallSound, UseSound DEF CallStep
  <1>4. CASE \E s \in Streams : ChildStep(s) \/ CommandQuits(s)
    BY <1>4, ChildSound
  <1>5. QED
    BY <1>1, <1>2, <1>3, <1>4 DEF PipeNext

(* The variables keep to their types, the call in progress is about a stream *)
(* that is opening or open, a stream's numbers are all different and none of *)
(* them is one that the program started with, and those stay what they were. *)
THEOREM SoundInvariant == PipeSpec => []Sound
  <1>. USE PipeConstants
  <1>1. PipeInit => Sound
    BY SoundInit
  <1>2. Sound /\ [PipeNext]_pipeVars => Sound'
    BY SoundNext
  <1>3. QED
    BY <1>1, <1>2, PTL DEF PipeSpec

-----------------------------------------------------------------------------
(* The descriptors that the program holds, of those that a stream took: what *)
(* a call has not yet closed of them, and what the code leaves open.         *)
Ours(s) == IF streams[s].kind = "write" THEN "dataw" ELSE "datar"
Holds(s, n) ==
  \/ /\ streams[s].status = "opening"
     /\ \/ call.pc \in {"fork", "forked"}
        \/ call.pc = "handshake" /\ n \notin GivenAway(s)
        \/ call.pc = "refused" /\ n \notin GivenAway(s) \cup {"errr"}
  \/ streams[s].status = "open" /\ (n = "nullr" \/ (n = Ours(s) /\ ~In("wait", s)))
  \/ streams[s].status = "closed" /\ n = "nullr"
  \/ streams[s].status = "unforked" /\ n \in {"errr", "errw"}
Holding(s) == {n \in Taken(s) : Holds(s, n)}

(* The program's table has what the streams hold, and nothing else; what the *)
(* call that opens a stream has closed already stays closed until it returns.*)
HeldRight ==
  \A s \in Streams : \A n \in Holding(s) : files[Program][streams[s].num[n]] = Named(s, n)
HeldOnly ==
  \A fd \in Fds \ Std : files[Program][fd] # Closed =>
    \E s \in Streams : \E n \in Holding(s) : streams[s].num[n] = fd
GivenBack ==
  call.pc \in {"handshake", "refused"} =>
    \A n \in Taken(call.stream) \ Holding(call.stream) :
      files[Program][streams[call.stream].num[n]] = Closed
ProgramTable == call.pc # "killed" => HeldRight /\ HeldOnly /\ GivenBack

LEMMA NamedFiles ==
  ASSUME PipeAssumption
  PROVE  /\ \A s \in Streams, n \in AllNames : Named(s, n) \in File /\ Named(s, n).stream = s
         /\ Closed \notin File
  BY FdsNumbers DEF PipeAssumption, Named, F, File, AllNames

LEMMA TakenNumbers ==
  ASSUME Sound, NEW s \in Streams, streams[s].status \notin {"unused", "exhausted"}
  PROVE  /\ Taken(s) \subseteq AllNames
         /\ {"datar", "dataw", "errr", "errw"} \subseteq Taken(s)
         /\ \A n \in Taken(s) : streams[s].num[n] \in Fds \ Std
         /\ \A n, m \in Taken(s) : streams[s].num[n] = streams[s].num[m] => n = m
         /\ streams[s].kind = "write" => "nullr" \notin Taken(s)
  BY DEF Sound, Numbered, NumberedRight, Taken, AllNames

LEMMA HoldingNumbers ==
  ASSUME Sound, NEW s \in Streams, NEW n \in Holding(s)
  PROVE  /\ n \in AllNames /\ n \in Taken(s) /\ streams[s].num[n] \in Fds \ Std
         /\ streams[s].status \notin {"unused", "exhausted"}
  <1>1. streams[s].status \notin {"unused", "exhausted"} /\ n \in Taken(s)
    BY DEF Holding, Holds
  <1>2. QED
    BY <1>1, TakenNumbers

(* A step that closes nothing of the program's.                              *)
LEMMA TableStays ==
  ASSUME Sound, ProgramTable, call.pc # "killed", files'[Program] = files[Program],
         \A s \in Streams : /\ streams'[s].num = streams[s].num
                            /\ \A n \in AllNames : Holds(s, n)' <=> Holds(s, n),
         GivenBack'
  PROVE  ProgramTable'
  <1>1. ASSUME NEW s \in Streams PROVE Holding(s)' = Holding(s) /\ Taken(s)' = Taken(s)
    BY DEF Holding, Taken
  <1>2. HeldRight' /\ HeldOnly'
    BY <1>1 DEF ProgramTable, HeldRight, HeldOnly
  <1>3. QED
    BY <1>2 DEF ProgramTable

(* A call that closes numbers of its stream: those it holds, or that it has  *)
(* closed before.                                                            *)
Closes(s, names) ==
  /\ files' = [files EXCEPT ![Program] = CloseIn(@, Num(s, names))]
  /\ \A n \in names \cap Taken(s) :
       n \in Holding(s) \/ files[Program][streams[s].num[n]] = Closed

LEMMA ClosedNumbers ==
  ASSUME PipeAssumption, Sound, ProgramTable, call.pc # "killed",
         NEW s \in Streams, streams[s].status \notin {"unused", "exhausted"},
         NEW names \in SUBSET AllNames, Closes(s, names)
  PROVE  /\ \A fd \in Fds : files'[Program][fd] = IF fd \in Num(s, names) THEN Closed
                                                  ELSE files[Program][fd]
         /\ \A fd \in Num(s, names) \cap Fds :
              \/ files[Program][fd] = Closed
              \/ \E n \in names \cap Holding(s) : /\ streams[s].num[n] = fd
                                                  /\ files[Program][fd] = Named(s, n)
  <1>1. \A fd \in Fds : files'[Program][fd] = IF fd \in Num(s, names) THEN Closed
                                              ELSE files[Program][fd]
    BY ClosingTyped DEF Closes
  <1>2. ASSUME NEW fd \in Num(s, names) \cap Fds, files[Program][fd] # Closed
        PROVE  \E n \in names \cap Holding(s) : /\ streams[s].num[n] = fd
                                                /\ files[Program][fd] = Named(s, n)
    <2>1. PICK n \in names : streams[s].num[n] = fd
      BY DEF Num
    <2>2. n \in Taken(s)
      BY <2>1, FdsNumbers DEF Taken
    <2>3. n \in Holding(s)
      BY <1>2, <2>1, <2>2 DEF Closes
    <2>4. QED
      BY <2>1, <2>3 DEF ProgramTable, HeldRight
  <1>3. QED
    BY <1>1, <1>2

LEMMA TableCloses ==
  ASSUME PipeAssumption, Sound, ProgramTable, call.pc # "killed",
         NEW s \in Streams, streams[s].status \notin {"unused", "exhausted"},
         NEW names \in SUBSET AllNames, Closes(s, names),
         \A t \in Streams : streams'[t].num = streams[t].num,
         \A t \in Streams \ {s} : \A n \in AllNames : Holds(t, n)' <=> Holds(t, n),
         \A n \in Taken(s) : Holds(s, n)' <=> Holds(s, n) /\ n \notin names
  PROVE  HeldRight' /\ HeldOnly'
  <1>1. \A t \in Streams \ {s} : Holding(t)' = Holding(t)
    BY DEF Holding, Taken
  <1>2. Holding(s)' = Holding(s) \ names
    BY DEF Holding, Taken
  <1>3. ASSUME NEW t \in Streams, NEW n \in Holding(t)'
        PROVE  files'[Program][streams'[t].num[n]] = Named(t, n)
    <2>1. n \in Holding(t) /\ (t = s => n \notin names)
      BY <1>1, <1>2
    <2>2. n \in AllNames /\ n \in Taken(t) /\ streams[t].num[n] \in Fds
      BY <2>1, HoldingNumbers
    <2>3. files[Program][streams[t].num[n]] = Named(t, n)
      BY <2>1 DEF ProgramTable, HeldRight
    <2>4. Named(t, n) # Closed /\ Named(t, n).stream = t
      BY <2>2, NamedFiles
    <2>5. streams[t].num[n] \notin Num(s, names)
      <3>1. SUFFICES ASSUME streams[t].num[n] \in Num(s, names) PROVE FALSE
        OBVIOUS
      <3>2. PICK m \in names \cap Holding(s) : /\ streams[s].num[m] = streams[t].num[n]
                                               /\ Named(t, n) = Named(s, m)
        BY <2>2, <2>3, <2>4, <3>1, ClosedNumbers
      <3>3. m \in AllNames /\ m \in Taken(s)
        BY <3>2, HoldingNumbers
      <3>4. t = s
        BY <2>4, <3>2, <3>3, NamedFiles
      <3>5. n = m
        BY <2>2, <3>2, <3>3, <3>4, TakenNumbers
      <3>6. QED
        BY <2>1, <3>2, <3>4, <3>5
    <2>6. QED
      BY <2>2, <2>3, <2>5, ClosedNumbers
  <1>4. ASSUME NEW fd \in Fds \ Std, files'[Program][fd] # Closed
        PROVE  \E t \in Streams : \E n \in Holding(t)' : streams'[t].num[n] = fd
    <2>1. fd \notin Num(s, names) /\ files[Program][fd] # Closed
      BY <1>4, ClosedNumbers
    <2>2. PICK t \in Streams : \E n \in Holding(t) : streams[t].num[n] = fd
      BY <2>1 DEF ProgramTable, HeldOnly
    <2>3. PICK n \in Holding(t) : streams[t].num[n] = fd
      BY <2>2
    <2>4. t = s => n \notin names
      BY <2>1, <2>3 DEF Num
    <2>5. n \in Holding(t)'
      BY <1>1, <1>2, <2>4
    <2>6. QED
      BY <2>3, <2>5
  <1>5. QED
    BY <1>3, <1>4 DEF HeldRight, HeldOnly

LEMMA TableWhenUsed ==
  ASSUME PipeAssumption, Sound, ProgramTable, NEW s \in Streams,
         \/ ChildStep(s) \/ CommandQuits(s)
         \/ WriteBuffered(s) \/ WriteFull(s) \/ Read(s) \/ Close(s)
         \/ WriteFlushed(s) \/ Transfer(s) \/ ReadByte(s) \/ ReadEnd(s)
  PROVE  ProgramTable'
  <1>1. /\ files'[Program] = files[Program]
        /\ \A t \in Streams : SameStatus(t)
        /\ \/ call' = call
           \/ /\ call.pc \in {"idle", "write", "read", "flush"}
              /\ call'.pc \in {"idle", "write", "read", "flush"}
    BY ChildSound, UseSound
  <1>2. CASE call'.pc = "killed"
    BY <1>2 DEF ProgramTable
  <1>3. CASE call'.pc # "killed"
    <2>1. call.pc # "killed"
      BY <1>1, <1>3
    <2>2. ASSUME NEW t \in Streams, NEW n \in AllNames
          PROVE  Holds(t, n)' <=> Holds(t, n)
      <3>1. GivenAway(t)' = GivenAway(t) /\ Ours(t)' = Ours(t)
        BY <1>1 DEF GivenAway, Ours, SameStatus
      <3>2. streams'[t].status = streams[t].status
        BY <1>1 DEF SameStatus
      <3>3. In("wait", t)' <=> In("wait", t)
        BY <1>1 DEF In
      <3>4. streams[t].status = "opening" => call' = call
        BY <1>1 DEF Sound, CallFits, Fitting, OpeningPcs
      <3>5. QED
        BY <3>1, <3>2, <3>3, <3>4 DEF Holds
    <2>3. \A t \in Streams : streams'[t].num = streams[t].num
      BY <1>1 DEF SameStatus
    <2>4. GivenBack'
      <3>1. CASE call'.pc \notin {"handshake", "refused"}
        BY <3>1 DEF GivenBack
      <3>2. CASE call'.pc \in {"handshake", "refused"}
        <4>1. call' = call /\ call.stream \in Streams
          BY <1>1, <3>2 DEF Sound, CallFits, OpeningPcs
        <4>2. /\ Holding(call.stream)' = Holding(call.stream)
              /\ Taken(call.stream)' = Taken(call.stream)
          BY <2>2, <2>3, <4>1 DEF Holding, Taken
        <4>3. QED
          BY <1>1, <2>1, <2>3, <4>1, <4>2 DEF ProgramTable, GivenBack
      <3>3. QED
        BY <3>1, <3>2
    <2>5. QED
      BY <1>1, <2>1, <2>2, <2>3, <2>4, TableStays
  <1>4. QED
    BY <1>2, <1>3

LEMMA TableWhenOpened ==
  ASSUME PipeAssumption, Sound, ProgramTable, NEW s \in Streams, NEW kind \in {"read", "write"},
         NEW quiet \in BOOLEAN, Open(s, kind, quiet) \/ OpenExhausted(s, kind, quiet)
  PROVE  ProgramTable'
  <1>0. PipeTypeOK /\ StdKept
    BY DEF Sound
  <1>1. call.pc = "idle" /\ streams[s].status = "unused"
    BY DEF Open, OpenExhausted, NextToOpen, Idle
  <1>2. s \in Procs /\ Program \in Procs /\ Std \subseteq Fds /\ NoFd \notin Fds
    BY FdsNumbers
  <1>3. CASE Open(s, kind, quiet)
    <2>1. PICK num \in [AllNames -> (Fds \ Std) \cup {NoFd}] : TakesNumbers(s, kind, num)
      BY <1>0, <1>3, OpenNumbers
    <2>2. PICK x \in StreamState : x = streams[s]
      BY <1>0 DEF PipeTypeOK
    <2>3. PICK y : y = [x EXCEPT !.status = "opening", !.kind = kind, !.num = num]
      OBVIOUS
    <2>4. y.status = "opening" /\ y.kind = kind /\ y.num = num
      BY <2>2, <2>3 DEF StreamState
    <2>5. streams' = [streams EXCEPT ![s] = y]
      BY <2>1, <2>2, <2>3 DEF TakesNumbers
    <2>6. /\ streams'[s] = y
          /\ \A t \in Streams \ {s} : streams'[t] = streams[t]
      BY <1>0, <2>5 DEF PipeTypeOK
    <2>7. call' = [pc |-> "fork", stream |-> s]
      BY <1>3 DEF Open, Goto
    <2>8. \A t \in Streams \ {s} : Holding(t)' = Holding(t)
      <3>1. ASSUME NEW t \in Streams \ {s}, NEW n PROVE Holds(t, n)' <=> Holds(t, n)
        <4>1. streams[t].status # "opening"
          BY <1>1 DEF Sound, CallFits, Fitting, OpeningPcs
        <4>2. ~In("wait", t)' /\ ~In("wait", t)
          BY <1>1, <2>7 DEF In
        <4>3. Ours(t)' = Ours(t)
          BY <2>6 DEF Ours
        <4>4. QED
          BY <2>6, <4>1, <4>2, <4>3 DEF Holds
      <3>2. QED
        BY <2>6, <3>1 DEF Holding, Taken
    <2>9. Holding(s)' = {n \in AllNames : num[n] # NoFd} /\ Holding(s) = {}
      BY <1>1, <2>4, <2>6, <2>7 DEF Holding, Holds, Taken
    <2>10. /\ \A n \in AllNames : num[n] # NoFd => files[Program][num[n]] = Closed
           /\ \A n, m \in AllNames : num[n] = num[m] /\ num[n] # NoFd => n = m
           /\ \A fd \in Fds :
                files'[Program][fd] = IF \E n \in AllNames : num[n] = fd /\ num[n] # NoFd
                                      THEN Named(s, CHOOSE n \in AllNames : num[n] = fd)
                                      ELSE files[Program][fd]
      BY <2>1 DEF TakesNumbers, NumberedRight
    <2>11. HeldRight'
      <3>1. ASSUME NEW n \in AllNames, num[n] # NoFd
            PROVE  files'[Program][num[n]] = Named(s, n)
        <4>1. num[n] \in Fds
          BY <3>1
        <4>2. n = CHOOSE m \in AllNames : num[m] = num[n]
          BY <2>10, <3>1
        <4>3. QED
          BY <2>10, <3>1, <4>1, <4>2
      <3>2. ASSUME NEW t \in Streams, t # s, NEW n \in Holding(t)
            PROVE  files'[Program][streams[t].num[n]] = Named(t, n)
        <4>1. n \in AllNames /\ streams[t].num[n] \in Fds
          BY HoldingNumbers
        <4>2. files[Program][streams[t].num[n]] = Named(t, n)
          BY <1>1 DEF ProgramTable, HeldRight
        <4>3. Named(t, n) # Closed
          BY <4>1, NamedFiles
        <4>4. ~\E m \in AllNames : num[m] = streams[t].num[n] /\ num[m] # NoFd
          BY <2>10, <4>2, <4>3
        <4>5. QED
          BY <2>10, <4>1, <4>2, <4>4
      <3>3. QED
        BY <2>4, <2>6, <2>8, <2>9, <3>1, <3>2 DEF HeldRight
    <2>12. HeldOnly'
      <3>1. ASSUME NEW fd \in Fds \ Std, files'[Program][fd] # Closed
            PROVE  \E t \in Streams : \E n \in Holding(t)' : streams'[t].num[n] = fd
        <4>1. CASE \E n \in AllNames : num[n] = fd /\ num[n] # NoFd
          BY <2>4, <2>6, <2>9, <4>1
        <4>2. CASE ~\E n \in AllNames : num[n] = fd /\ num[n] # NoFd
          <5>1. files[Program][fd] # Closed
            BY <2>10, <3>1, <4>2
          <5>2. PICK t \in Streams : \E n \in Holding(t) : streams[t].num[n] = fd
            BY <1>1, <5>1 DEF ProgramTable, HeldOnly
          <5>3. t # s
            BY <2>9, <5>2
          <5>4. QED
            BY <2>6, <2>8, <5>2, <5>3
        <4>3. QED
          BY <4>1, <4>2
      <3>2. QED
        BY <3>1 DEF HeldOnly
    <2>13. GivenBack'
      BY <2>7 DEF GivenBack
    <2>14. QED
      BY <2>11, <2>12, <2>13 DEF ProgramTable
  <1>4. CASE OpenExhausted(s, kind, quiet)
    <2>1. PICK x \in StreamState : x = streams[s]
      BY <1>0 DEF PipeTypeOK
    <2>2. PICK y : y = [x EXCEPT !.status = "exhausted", !.kind = kind]
      OBVIOUS
    <2>3. y.status = "exhausted" /\ y.num = x.num
      BY <2>1, <2>2 DEF StreamState
    <2>4. streams' = [streams EXCEPT ![s] = y]
      BY <1>4, <2>1, <2>2 DEF OpenExhausted
    <2>5. /\ streams'[s] = y
          /\ \A t \in Streams \ {s} : streams'[t] = streams[t]
      BY <1>0, <2>4 DEF PipeTypeOK
    <2>6. UNCHANGED <<files, call>>
      BY <1>4 DEF OpenExhausted
    <2>7. ASSUME NEW t \in Streams, NEW n \in AllNames PROVE Holds(t, n)' <=> Holds(t, n)
      <3>1. CASE t = s
        BY <1>1, <2>3, <2>5, <3>1 DEF Holds
      <3>2. CASE t # s
        BY <2>5, <2>6, <3>2 DEF Holds, GivenAway, Ours, In
      <3>3. QED
        BY <3>1, <3>2
    <2>8. \A t \in Streams : streams'[t].num = streams[t].num
      BY <2>1, <2>3, <2>5
    <2>9. GivenBack'
      BY <1>1, <2>6 DEF GivenBack
    <2>10. QED
      BY <1>1, <2>6, <2>7, <2>8, <2>9, TableStays
  <1>5. QED
    BY <1>3, <1>4

(* What each call closes of its stream.                                      *)
LEMMA CallCloses ==
  ASSUME PipeAssumption, Sound, ProgramTable, NEW s \in Streams,
         \/ ForkFails(s) \/ CloseGivenAway(s) \/ HandshakeDone(s) \/ OpenRefused(s) \/ CloseFile(s)
  PROVE  \E names \in SUBSET AllNames :
           /\ Closes(s, names)
           /\ \A n \in Taken(s) : Holds(s, n)' <=> Holds(s, n) /\ n \notin names
  <1>0. PipeTypeOK /\ Sound'
    BY CallSound DEF Sound
  <1>1. /\ call.pc # "killed" /\ call.stream = s
        /\ streams[s].status = IF call.pc \in OpeningPcs THEN "opening" ELSE "open"
        /\ streams'[s].kind = streams[s].kind
    BY CallSound
  <1>2. /\ GivenAway(s)' = GivenAway(s) /\ Ours(s)' = Ours(s)
        /\ GivenAway(s) \in SUBSET AllNames /\ Ours(s) \in Data
    BY <1>1 DEF GivenAway, Ours, AllNames, Data
  <1>3. streams[s].kind \in {"read", "write"}
    BY <1>0 DEF PipeTypeOK, StreamState
  <1>4. PICK x \in StreamState : x = streams[s] /\ streams \in [Streams -> StreamState]
    BY <1>0 DEF PipeTypeOK
  <1>5. streams[s].status \notin {"unused", "exhausted"}
    BY <1>1
  <1>6. /\ Taken(s) \subseteq AllNames /\ {"datar", "dataw", "errr", "errw"} \subseteq Taken(s)
        /\ streams[s].kind = "write" => "nullr" \notin Taken(s)
    BY <1>5, TakenNumbers
  <1>7. CASE ForkFails(s)
    <2>1. call.pc = "fork" /\ call'.pc = "idle"
      BY <1>7 DEF ForkFails, In, Return
    <2>2. streams'[s].status = "unforked"
      <3>1. PICK y : y = [x EXCEPT !.status = "unforked"]
        OBVIOUS
      <3>2. streams' = [streams EXCEPT ![s] = y] /\ y.status = "unforked"
        BY <1>4, <1>7, <3>1 DEF ForkFails, StreamState
      <3>3. QED
        BY <1>4, <3>2
    <2>3. \A n \in Taken(s) : Holds(s, n)
      BY <1>1, <2>1 DEF Holds, OpeningPcs
    <2>4. Data \cup Null \in SUBSET AllNames
      BY DEF Data, Null, AllNames
    <2>5. Closes(s, Data \cup Null)
      BY <1>7, <2>3 DEF ForkFails, Closes, Holding
    <2>6. \A n \in Taken(s) : Holds(s, n)' <=> Holds(s, n) /\ n \notin Data \cup Null
      BY <1>6, <2>1, <2>2, <2>3 DEF Holds, Data, Null, AllNames
    <2>7. QED
      BY <2>4, <2>5, <2>6
  <1>8. CASE CloseGivenAway(s)
    <2>1. call.pc = "forked" /\ call'.pc = "handshake" /\ streams' = streams
      BY <1>8 DEF CloseGivenAway, In, Goto
    <2>3. \A n \in Taken(s) : Holds(s, n)
      BY <1>1, <2>1 DEF Holds, OpeningPcs
    <2>5. Closes(s, GivenAway(s))
      BY <1>8, <2>3 DEF CloseGivenAway, Closes, Holding
    <2>6. \A n \in Taken(s) : Holds(s, n)' <=> Holds(s, n) /\ n \notin GivenAway(s)
      BY <1>1, <1>2, <2>1, <2>3 DEF Holds, OpeningPcs
    <2>7. QED
      BY <1>2, <2>5, <2>6
  <1>9. CASE HandshakeDone(s)
    <2>1. call.pc = "handshake" /\ streams[s].status = "opening"
      BY <1>1, <1>9 DEF HandshakeDone, In, OpeningPcs
    <2>2. {"errr"} \in SUBSET AllNames
      BY DEF AllNames
    <2>3. "errr" \notin GivenAway(s)
      BY DEF GivenAway
    <2>4. Closes(s, {"errr"})
      BY <1>9, <2>1, <2>3 DEF HandshakeDone, Closes, Holding, Holds
    <2>5. \A n \in Taken(s) : Holds(s, n) <=> n \notin GivenAway(s)
      BY <2>1 DEF Holds
    <2>6. CASE errors[s] /\ Goto("refused", s) /\ UNCHANGED streams
      <3>1. \A n \in Taken(s) : Holds(s, n)' <=> Holds(s, n) /\ n \notin {"errr"}
        BY <1>2, <2>1, <2>5, <2>6 DEF Holds, Goto
      <3>2. QED
        BY <2>2, <2>4, <3>1
    <2>7. CASE Return /\ streams' = [streams EXCEPT ![s].status = "open"]
      <3>1. PICK y : y = [x EXCEPT !.status = "open"]
        OBVIOUS
      <3>2. streams' = [streams EXCEPT ![s] = y] /\ y.status = "open"
        BY <1>4, <2>7, <3>1 DEF StreamState
      <3>3. streams'[s].status = "open" /\ ~In("wait", s)'
        BY <1>4, <2>7, <3>2 DEF Return, In
      <3>4. ASSUME NEW n \in Taken(s)
            PROVE  n = "nullr" \/ n = Ours(s) <=> n \notin GivenAway(s) /\ n # "errr"
        BY <1>3, <1>6 DEF Ours, GivenAway, AllNames
      <3>5. \A n \in Taken(s) : Holds(s, n)' <=> Holds(s, n) /\ n \notin {"errr"}
        BY <1>2, <2>5, <3>3, <3>4 DEF Holds
      <3>6. QED
        BY <2>2, <2>4, <3>5
    <2>8. QED
      BY <1>9, <2>6, <2>7, Zenon DEF HandshakeDone
  <1>10. CASE OpenRefused(s)
    <2>1. call.pc = "refused" /\ call'.pc = "idle" /\ streams[s].status = "opening"
      BY <1>1, <1>10 DEF OpenRefused, In, Return, OpeningPcs
    <2>2. streams'[s].status = "refused"
      <3>1. PICK y : y = [x EXCEPT !.status = "refused"]
        OBVIOUS
      <3>2. streams' = [streams EXCEPT ![s] = y] /\ y.status = "refused"
        BY <1>4, <1>10, <3>1 DEF OpenRefused, StreamState
      <3>3. QED
        BY <1>4, <3>2
    <2>3. \A n \in Taken(s) : Holds(s, n) <=> n \notin GivenAway(s) \cup {"errr"}
      BY <2>1 DEF Holds
    <2>4. Data \cup Null \in SUBSET AllNames
      BY DEF Data, Null, AllNames
    <2>5. \A n \in Taken(s) : n \in Holding(s) \/ files[Program][streams[s].num[n]] = Closed
      BY <1>1, <2>1 DEF ProgramTable, GivenBack
    <2>6. Closes(s, Data \cup Null)
      BY <1>10, <2>5 DEF OpenRefused, Closes
    <2>7. \A n \in Taken(s) : Holds(s, n)' <=> Holds(s, n) /\ n \notin Data \cup Null
      BY <1>6, <2>1, <2>2, <2>3 DEF Holds, Data, Null, AllNames, GivenAway
    <2>8. QED
      BY <2>4, <2>6, <2>7
  <1>11. CASE CloseFile(s)
    <2>1. call.pc = "flush" /\ call' = [pc |-> "wait", stream |-> s] /\ streams' = streams
      BY <1>11 DEF CloseFile, In, Goto
    <2>2. streams[s].status = "open" /\ ~In("wait", s) /\ In("wait", s)'
      BY <1>1, <2>1 DEF In, OpeningPcs
    <2>3. {Ours(s)} \in SUBSET AllNames /\ "nullr" # Ours(s)
      BY DEF Ours, AllNames
    <2>4. \A n \in Taken(s) : Holds(s, n) <=> n = "nullr" \/ n = Ours(s)
      BY <2>2 DEF Holds
    <2>5. Closes(s, {Ours(s)})
      BY <1>11, <2>4 DEF CloseFile, Closes, Holding, Ours
    <2>6. \A n \in Taken(s) : Holds(s, n)' <=> Holds(s, n) /\ n \notin {Ours(s)}
      BY <2>1, <2>2, <2>3, <2>4 DEF Holds
    <2>7. QED
      BY <2>3, <2>5, <2>6
  <1>12. QED
    BY <1>7, <1>8, <1>9, <1>10, <1>11

LEMMA OthersHold ==
  ASSUME PipeAssumption, Sound, NEW s \in Streams,
         \/ Fork(s) \/ ForkFails(s) \/ CloseGivenAway(s) \/ HandshakeDone(s) \/ OpenRefused(s)
         \/ BrokenPipe(s) \/ CloseFile(s) \/ WaitProc(s),
         NEW t \in Streams, t # s, NEW n
  PROVE  Holds(t, n)' <=> Holds(t, n)
  <1>1. /\ call.pc \in OpeningPcs \cup UsingPcs /\ call.stream = s
        /\ call'.pc \in {"idle", "killed"} \/ call'.stream = s
        /\ streams'[t].kind = streams[t].kind /\ streams'[t].status = streams[t].status
    BY CallSound DEF SameStatus
  <1>2. streams[t].status # "opening"
    BY <1>1 DEF Sound, CallFits, Fitting
  <1>3. ~In("wait", t)' /\ ~In("wait", t)
    BY <1>1 DEF In
  <1>4. Ours(t)' = Ours(t)
    BY <1>1 DEF Ours
  <1>5. QED
    BY <1>1, <1>2, <1>3, <1>4 DEF Holds

LEMMA TableWhenCalled ==
  ASSUME PipeAssumption, Sound, ProgramTable, NEW s \in Streams,
         \/ Fork(s) \/ ForkFails(s) \/ CloseGivenAway(s) \/ HandshakeDone(s) \/ OpenRefused(s)
         \/ BrokenPipe(s) \/ CloseFile(s) \/ WaitProc(s)
  PROVE  ProgramTable'
  <1>1. /\ Sound'
        /\ call.pc # "killed" /\ call.stream = s
        /\ streams[s].status \notin {"unused", "exhausted"}
        /\ streams[s].status = IF call.pc \in OpeningPcs THEN "opening" ELSE "open"
        /\ \A t \in Streams : streams'[t].num = streams[t].num
    BY CallSound
  <1>2. \A t \in Streams \ {s} : \A n \in AllNames : Holds(t, n)' <=> Holds(t, n)
    BY OthersHold
  <1>3. CASE BrokenPipe(s)
    BY <1>3 DEF BrokenPipe, Goto, ProgramTable
  <1>4. CASE Fork(s)
    <2>1. call.pc = "fork" /\ call'.pc = "forked" /\ streams' = streams
      BY <1>4 DEF Fork, In, Goto
    <2>2. files'[Program] = files[Program]
      BY <1>4, FdsNumbers DEF Fork, Sound, PipeTypeOK
    <2>3. \A n \in AllNames : Holds(s, n)' <=> Holds(s, n)
      BY <1>1, <2>1 DEF Holds, OpeningPcs
    <2>4. GivenBack'
      BY <2>1 DEF GivenBack
    <2>5. QED
      BY <1>1, <1>2, <2>2, <2>3, <2>4, TableStays
  <1>5. CASE WaitProc(s)
    <2>1. call.pc = "wait" /\ In("wait", s) /\ call'.pc = "idle" /\ files' = files
      BY <1>5 DEF WaitProc, In, Return
    <2>2. streams'[s].status = "closed" /\ streams[s].status = "open"
      <3>1. PICK x \in StreamState : x = streams[s] /\ streams \in [Streams -> StreamState]
        BY DEF Sound, PipeTypeOK
      <3>2. PICK y : y = [x EXCEPT !.status = "closed", !.ret = IF child[s] = "done" THEN 0 ELSE 1]
        OBVIOUS
      <3>3. streams' = [streams EXCEPT ![s] = y] /\ y.status = "closed"
        BY <1>5, <3>1, <3>2 DEF WaitProc, StreamState
      <3>4. QED
        BY <1>1, <2>1, <3>1, <3>3 DEF OpeningPcs
    <2>3. \A n \in AllNames : Holds(s, n)' <=> Holds(s, n)
      BY <2>1, <2>2 DEF Holds
    <2>4. GivenBack'
      BY <2>1 DEF GivenBack
    <2>5. QED
      BY <1>1, <1>2, <2>1, <2>3, <2>4, TableStays
  <1>6. CASE ForkFails(s) \/ CloseGivenAway(s) \/ HandshakeDone(s) \/ OpenRefused(s) \/ CloseFile(s)
    <2>1. PICK names \in SUBSET AllNames :
            /\ Closes(s, names)
            /\ \A n \in Taken(s) : Holds(s, n)' <=> Holds(s, n) /\ n \notin names
      BY <1>6, CallCloses
    <2>2. HeldRight' /\ HeldOnly'
      BY <1>1, <1>2, <2>1, TableCloses
    <2>3. GivenBack'
      <3>1. CASE call'.pc \notin {"handshake", "refused"}
        BY <3>1 DEF GivenBack
      <3>2. CASE call'.pc \in {"handshake", "refused"}
        <4>1. call'.stream = s
          BY <1>6, <3>2 DEF ForkFails, CloseGivenAway, HandshakeDone, OpenRefused, CloseFile,
                            Goto, Return
        <4>2. ASSUME NEW n \in Taken(s), ~Holds(s, n)'
              PROVE  files'[Program][streams[s].num[n]] = Closed
          <5>1. streams[s].num[n] \in Fds /\ n \in AllNames
            BY <1>1, TakenNumbers
          <5>2. \A fd \in Fds : files'[Program][fd] = IF fd \in Num(s, names) THEN Closed
                                                      ELSE files[Program][fd]
            BY <1>1, <2>1, ClosedNumbers
          <5>3. CASE n \in names
            BY <5>1, <5>2, <5>3 DEF Num
          <5>4. CASE n \notin names
            <6>1. ~Holds(s, n)
              BY <2>1, <4>2, <5>4
            <6>2. call.pc \in {"handshake", "refused"}
              <7>1. call.pc \in {"fork", "forked"} => Holds(s, n)
                BY <1>1 DEF Holds, OpeningPcs
              <7>2. call.pc \in OpeningPcs
                BY <1>6, <3>2 DEF ForkFails, CloseGivenAway, HandshakeDone, OpenRefused, CloseFile,
                                  Goto, Return, In, OpeningPcs
              <7>3. QED
                BY <6>1, <7>1, <7>2 DEF OpeningPcs
            <6>3. files[Program][streams[s].num[n]] = Closed
              BY <1>1, <6>1, <6>2 DEF ProgramTable, GivenBack, Holding
            <6>4. QED
              BY <5>1, <5>2, <6>3
          <5>5. QED
            BY <5>3, <5>4
        <4>3. QED
          BY <1>1, <4>1, <4>2 DEF GivenBack, Holding, Taken
      <3>3. QED
        BY <3>1, <3>2
    <2>4. QED
      BY <2>2, <2>3 DEF ProgramTable
  <1>7. QED
    BY <1>3, <1>4, <1>5, <1>6

LEMMA TableInit ==
  ASSUME PipeAssumption, PipeInit
  PROVE  ProgramTable
  <1>1. /\ call.pc = "idle"
        /\ \A s \in Streams : streams[s].status = "unused"
        /\ \A fd \in Fds \ Std : files[Program][fd] = Closed
    BY FdsNumbers DEF PipeInit, Unused
  <1>2. \A s \in Streams : Holding(s) = {}
    BY <1>1 DEF Holding, Holds
  <1>3. QED
    BY <1>1, <1>2 DEF ProgramTable, HeldRight, HeldOnly, GivenBack

LEMMA TableNext ==
  ASSUME PipeAssumption, Sound, ProgramTable, [PipeNext]_pipeVars
  PROVE  ProgramTable'
  <1>1. CASE UNCHANGED pipeVars
    BY <1>1 DEF pipeVars, ProgramTable, HeldRight, HeldOnly, GivenBack, Holding, Holds, Taken, Ours,
                GivenAway, In
  <1>2. CASE ClientStep
    BY <1>2, TableWhenOpened, TableWhenUsed DEF ClientStep
  <1>3. CASE CallStep
    BY <1>3, TableWhenCalled, TableWhenUsed DEF CallStep
  <1>4. CASE \E s \in Streams : ChildStep(s) \/ CommandQuits(s)
    BY <1>4, TableWhenUsed
  <1>5. QED
    BY <1>1, <1>2, <1>3, <1>4 DEF PipeNext

(* At every moment, also within a call, the program's table of descriptors   *)
(* has exactly what it started with and what the streams hold.               *)
THEOREM TableInvariant == PipeSpec => [](Sound /\ ProgramTable)
  <1>. USE PipeConstants
  <1>1. PipeInit => Sound /\ ProgramTable
    BY SoundInit, TableInit
  <1>2. (Sound /\ ProgramTable) /\ [PipeNext]_pipeVars => (Sound /\ ProgramTable)'
    BY SoundNext, TableNext
  <1>3. QED
    BY <1>1, <1>2, PTL DEF PipeSpec

LEMMA KeptIsHeld ==
  ASSUME Sound, Idle, NEW s \in Streams
  PROVE  Kept(s) = {<<streams[s].num[n], Named(s, n)>> : n \in Holding(s)}
  <1>1. call.pc = "idle"
    BY DEF Idle
  <1>2. streams[s].status # "opening" /\ ~In("wait", s)
    BY <1>1 DEF Sound, CallFits, Fitting, OpeningPcs, In
  <1>3. CASE streams[s].status \in {"unused", "exhausted"}
    <2>1. Holding(s) = {} /\ Kept(s) = {}
      BY <1>3 DEF Holding, Holds, Kept
    <2>2. QED
      BY <2>1
  <1>4. CASE streams[s].status \notin {"unused", "exhausted"}
    <2>1. /\ Taken(s) \subseteq AllNames
          /\ {"datar", "dataw", "errr", "errw"} \subseteq Taken(s)
          /\ "nullr" \in Taken(s) <=> streams[s].num["nullr"] # NoFd
      BY <1>4, TakenNumbers DEF Taken, AllNames
    <2>2. streams[s].status \in {"open", "closed", "refused", "unforked"}
      BY <1>2, <1>4 DEF Sound, PipeTypeOK, StreamState, Statuses
    <2>3. CASE streams[s].status = "open"
      <3>1. Holding(s) = {Ours(s)} \cup (IF streams[s].num["nullr"] # NoFd THEN {"nullr"} ELSE {})
        BY <1>2, <2>1, <2>3 DEF Holding, Holds, Ours
      <3>2. Kept(s) = {<<streams[s].num[Ours(s)], Named(s, Ours(s))>>}
                      \cup (IF streams[s].num["nullr"] # NoFd
                            THEN {<<streams[s].num["nullr"], Named(s, "nullr")>>} ELSE {})
        BY <2>3 DEF Kept, Ours
      <3>3. QED
        BY <3>1, <3>2
    <2>4. CASE streams[s].status = "closed"
      <3>1. Holding(s) = IF streams[s].num["nullr"] # NoFd THEN {"nullr"} ELSE {}
        BY <2>1, <2>4 DEF Holding, Holds
      <3>2. Kept(s) = IF streams[s].num["nullr"] # NoFd
                      THEN {<<streams[s].num["nullr"], Named(s, "nullr")>>} ELSE {}
        BY <2>4 DEF Kept
      <3>3. QED
        BY <3>1, <3>2
    <2>5. CASE streams[s].status = "refused"
      <3>1. Holding(s) = {} /\ Kept(s) = {}
        BY <2>5 DEF Holding, Holds, Kept
      <3>2. QED
        BY <3>1
    <2>6. CASE streams[s].status = "unforked"
      <3>1. Holding(s) = {"errr", "errw"}
        BY <2>1, <2>6 DEF Holding, Holds
      <3>2. Kept(s) = {<<streams[s].num[n], Named(s, n)>> : n \in {"errr", "errw"}}
        BY <2>6 DEF Kept
      <3>3. QED
        BY <3>1, <3>2
    <2>7. QED
      BY <2>2, <2>3, <2>4, <2>5, <2>6
  <1>5. QED
    BY <1>3, <1>4

(* Between calls the program holds the descriptors it started with and what  *)
(* its open streams need, plus what the two known ways through the code      *)
(* leave behind: nothing else is leaked, nothing in use is closed.           *)
THEOREM DescriptorsAreAccounted == PipeSpec => []DescriptorsAccounted
  <1>. USE PipeConstants
  <1>1. Sound /\ ProgramTable => DescriptorsAccounted
    <2>1. SUFFICES ASSUME Sound, ProgramTable, Idle PROVE DescriptorsAccounted
      BY DEF DescriptorsAccounted
    <2>2. DEFINE Here == {<<fd, files[Program][fd]>> : fd \in {n \in Fds : files[Program][n] # Closed}}
                 Started == {<<fd, F("std", Program, "w")>> : fd \in Std}
    <2>3. call.pc # "killed"
      BY <2>1 DEF Idle
    <2>4. Std \subseteq Fds /\ F("std", Program, "w") # Closed
      BY FdsNumbers, NamedFiles DEF F, File
    <2>5. \A fd \in Std : files[Program][fd] = F("std", Program, "w")
      BY <2>1, <2>3 DEF Sound, StdKept
    <2>6. Started \subseteq Here
      BY <2>4, <2>5
    <2>7. ASSUME NEW s \in Streams, NEW e \in Kept(s) PROVE e \in Here
      <3>1. PICK n \in Holding(s) : e = <<streams[s].num[n], Named(s, n)>>
        BY <2>1, KeptIsHeld
      <3>2. n \in AllNames /\ streams[s].num[n] \in Fds
        BY <2>1, HoldingNumbers
      <3>3. files[Program][streams[s].num[n]] = Named(s, n)
        BY <2>1, <2>3 DEF ProgramTable, HeldRight
      <3>4. Named(s, n) # Closed
        BY <3>2, NamedFiles
      <3>5. QED
        BY <3>1, <3>2, <3>3, <3>4
    <2>8. ASSUME NEW e \in Here PROVE e \in Started \cup UNION {Kept(s) : s \in Streams}
      <3>1. PICK fd \in Fds : files[Program][fd] # Closed /\ e = <<fd, files[Program][fd]>>
        OBVIOUS
      <3>2. CASE fd \in Std
        BY <2>5, <3>1, <3>2
      <3>3. CASE fd \notin Std
        <4>1. PICK s \in Streams : \E n \in Holding(s) : streams[s].num[n] = fd
          BY <2>1, <2>3, <3>1, <3>3 DEF ProgramTable, HeldOnly
        <4>2. PICK n \in Holding(s) : streams[s].num[n] = fd
          BY <4>1
        <4>3. files[Program][fd] = Named(s, n)
          BY <2>1, <2>3, <4>2 DEF ProgramTable, HeldRight
        <4>4. e \in Kept(s)
          BY <2>1, <3>1, <4>2, <4>3, KeptIsHeld
        <4>5. QED
          BY <4>4
      <3>4. QED
        BY <3>2, <3>3
    <2>9. Here = Started \cup UNION {Kept(s) : s \in Streams}
      BY <2>6, <2>7, <2>8
    <2>10. QED
      BY <2>9 DEF DescriptorsAccounted
  <1>2. QED
    BY <1>1, TableInvariant, PTL

(* Though a call closes numbers twice and after their file is gone, what it  *)
(* really closes is always of its own stream.                                *)
THEOREM CallsCloseTheirOwn == PipeSpec => ClosesItsOwn
  <1>. USE PipeConstants
  <1>. DEFINE Own == call'.pc # "killed" =>
                       \A fd \in Fds :
                         files[Program][fd] # Closed /\ files'[Program][fd] = Closed
                           => files[Program][fd].stream = call.stream
  <1>1. Sound /\ ProgramTable /\ [PipeNext]_pipeVars => [Own]_pipeVars
    <2>1. SUFFICES ASSUME Sound, ProgramTable, PipeNext, call'.pc # "killed", NEW fd \in Fds,
                          files[Program][fd] # Closed, files'[Program][fd] = Closed
                   PROVE  files[Program][fd].stream = call.stream
      OBVIOUS
    <2>2. ASSUME NEW s \in Streams, NEW kind \in {"read", "write"}, NEW quiet \in BOOLEAN,
                 Open(s, kind, quiet) \/ OpenExhausted(s, kind, quiet)
          PROVE  FALSE
      <3>1. CASE OpenExhausted(s, kind, quiet)
        BY <2>1, <3>1 DEF OpenExhausted
      <3>2. CASE Open(s, kind, quiet)
        <4>1. PICK num \in [AllNames -> (Fds \ Std) \cup {NoFd}] : TakesNumbers(s, kind, num)
          BY <2>1, <3>2, OpenNumbers DEF Sound
        <4>2. files'[Program][fd] = IF \E n \in AllNames : num[n] = fd /\ num[n] # NoFd
                                    THEN Named(s, CHOOSE n \in AllNames : num[n] = fd)
                                    ELSE files[Program][fd]
          BY <4>1 DEF TakesNumbers
        <4>3. PICK m \in AllNames : files'[Program][fd] = Named(s, m)
          <5>1. PICK m : m = CHOOSE n \in AllNames : num[n] = fd
            OBVIOUS
          <5>2. \E n \in AllNames : num[n] = fd
            BY <2>1, <4>2
          <5>3. m \in AllNames
            BY <5>1, <5>2
          <5>4. QED
            BY <2>1, <4>2, <5>1, <5>3
        <4>4. QED
          BY <2>1, <4>3, NamedFiles
      <3>3. QED
        BY <2>2, <3>1, <3>2
    <2>3. ASSUME NEW s \in Streams,
                 \/ ChildStep(s) \/ CommandQuits(s)
                 \/ WriteBuffered(s) \/ WriteFull(s) \/ Read(s) \/ Close(s)
                 \/ WriteFlushed(s) \/ Transfer(s) \/ ReadByte(s) \/ ReadEnd(s)
          PROVE  FALSE
      BY <2>1, <2>3, ChildSound, UseSound
    <2>4. ASSUME NEW s \in Streams, Fork(s) \/ WaitProc(s) \/ BrokenPipe(s)
          PROVE  FALSE
      <3>1. CASE BrokenPipe(s)
        BY <2>1, <3>1 DEF BrokenPipe, Goto
      <3>2. CASE Fork(s) \/ WaitProc(s)
        <4>1. files'[Program] = files[Program]
          BY <2>1, <3>2, FdsNumbers DEF Fork, WaitProc, Sound, PipeTypeOK
        <4>2. QED
          BY <2>1, <4>1
      <3>3. QED
        BY <2>4, <3>1, <3>2
    <2>5. ASSUME NEW s \in Streams,
                 \/ ForkFails(s) \/ CloseGivenAway(s) \/ HandshakeDone(s) \/ OpenRefused(s)
                 \/ CloseFile(s)
          PROVE  files[Program][fd].stream = call.stream
      <3>1. /\ call.pc # "killed" /\ call.stream = s
            /\ streams[s].status \notin {"unused", "exhausted"}
        BY <2>1, <2>5, CallSound
      <3>2. PICK names \in SUBSET AllNames : Closes(s, names)
        BY <2>1, <2>5, CallCloses
      <3>3. /\ files'[Program][fd] = IF fd \in Num(s, names) THEN Closed ELSE files[Program][fd]
            /\ fd \in Num(s, names) =>
                 \/ files[Program][fd] = Closed
                 \/ \E n \in names \cap Holding(s) : /\ streams[s].num[n] = fd
                                                     /\ files[Program][fd] = Named(s, n)
        BY <2>1, <3>1, <3>2, ClosedNumbers
      <3>4. PICK n \in names : files[Program][fd] = Named(s, n)
        BY <2>1, <3>3
      <3>5. QED
        BY <3>1, <3>4, NamedFiles
    <2>6. QED
      BY <2>1, <2>2, <2>3, <2>4, <2>5 DEF PipeNext, ClientStep, CallStep
  <1>2. QED
    BY <1>1, TableInvariant, PTL DEF PipeSpec, ClosesItsOwn

-----------------------------------------------------------------------------
(* How far the child of a stream is, by how far the stream is.  The errno    *)
(* tells of the child that failed, and a child that has not yet executed the *)
(* command holds the end of the error pipe that keeps the program waiting.   *)
Started == {"forked", "ready", "running", "done", "quit", "failed"}
ChildBy(status, pc, how) ==
  /\ status \in {"unused", "exhausted", "unforked"} => how = "none"
  /\ status = "opening" => /\ pc = "fork" => how = "none"
                           /\ pc = "refused" => how = "failed"
                           /\ pc \in {"forked", "handshake"} => how \in Started
  /\ status = "open" => how \in {"running", "done", "quit"}
  /\ status \in {"refused", "closed"} => how = "reaped"
ChildOf(s) ==
  /\ ChildBy(streams[s].status, call.pc, child[s])
  /\ child[s] # "reaped" => (errors[s] <=> child[s] = "failed")
  /\ streams[s].status = "closed" => ~errors[s]
  /\ streams[s].status = "refused" => errors[s]
  /\ child[s] \in {"forked", "ready"} => files[s][streams[s].num["errw"]] = F("err", s, "w")
Children == \A s \in Streams : ChildOf(s)

LEMMA ChildStays ==
  ASSUME NEW s \in Streams, ChildOf(s), SameStatus(s), child'[s] = child[s],
         errors'[s] = errors[s], files'[s] = files[s],
         streams[s].status = "opening" => call' = call
  PROVE  ChildOf(s)'
  BY DEF ChildOf, ChildBy, SameStatus

(* A step of a child, which moves only while its stream is being opened or   *)
(* is open, keeps the invariant of that stream.                              *)
LEMMA ChildMoves ==
  ASSUME PipeAssumption, Sound, Children, NEW s \in Streams, ChildStep(s) \/ CommandQuits(s)
  PROVE  ChildOf(s)'
  <1>0. PipeTypeOK /\ s # Program /\ s \in Procs
    BY FdsNumbers DEF Sound
  <1>1. /\ call' = call /\ SameStatus(s)
        /\ ChildOf(s)
    BY ChildSound DEF Children
  <1>2. /\ streams[s].status \in Statuses /\ child[s] \in ChildStates
        /\ streams[s].kind \in {"read", "write"}
    BY <1>0 DEF PipeTypeOK, StreamState
  <1>3. child[s] \in {"forked", "ready"} => streams[s].status = "opening" /\ call.pc \notin {"fork", "refused"}
    BY <1>1, <1>2 DEF ChildOf, ChildBy, Statuses
  <1>4. child[s] = "running" =>
          streams[s].status \in {"opening", "open"}
          /\ (streams[s].status = "opening" => call.pc \notin {"fork", "refused"})
    BY <1>1, <1>2 DEF ChildOf, ChildBy, Statuses
  <1>5. CASE ChildSetup(s)
    <2>1. child[s] = "forked" /\ child'[s] = "ready" /\ errors' = errors
      BY <1>0, <1>5 DEF ChildSetup, PipeTypeOK
    <2>2. files'[s] = ChildTable(s)
      BY <1>0, <1>5 DEF ChildSetup, PipeTypeOK
    <2>3. PICK num : /\ num = streams[s].num
                     /\ num \in [AllNames -> (Fds \ Std) \cup {NoFd}]
                     /\ num["errw"] \in Fds \ Std
                     /\ num["errw"] \notin {num["errr"], num["dataw"], num["datar"], num["nullr"]}
      BY <1>3, <2>1, FdsNumbers DEF Sound, Numbered, NumberedRight, AllNames
    <2>4. ChildTable(s)[num["errw"]] = files[s][num["errw"]]
      <3>1. PICK fd \in Fds : fd = num["errw"] /\ fd # 0 /\ fd # 1 /\ fd # 2
        BY <2>3 DEF Std
      <3>2. fd \notin {num["errr"], num["dataw"], num["datar"], num["nullr"]}
        BY <2>3, <3>1
      <3>3. PICK closed : /\ closed \subseteq {num["errr"], num["dataw"], num["datar"], num["nullr"]}
                          /\ ChildTable(s)[fd] = CloseIn(files[s], closed)[fd]
        BY <2>3, <3>1 DEF ChildTable
      <3>4. CloseIn(files[s], closed)[fd] = files[s][fd]
        BY <3>2, <3>3 DEF CloseIn
      <3>5. QED
        BY <3>1, <3>3, <3>4
    <2>5. files'[s][streams'[s].num["errw"]] = F("err", s, "w")
      BY <1>1, <2>1, <2>2, <2>3, <2>4 DEF ChildOf, SameStatus
    <2>6. QED
      BY <1>1, <1>3, <2>1, <2>5 DEF ChildOf, ChildBy, SameStatus, Started
  <1>6. CASE ChildExec(s)
    <2>1. child[s] = "ready" /\ child'[s] = "running" /\ errors' = errors
      BY <1>0, <1>6 DEF ChildExec, PipeTypeOK
    <2>2. QED
      BY <1>1, <1>3, <2>1 DEF ChildOf, ChildBy, SameStatus, Started
  <1>7. CASE ChildFails(s)
    <2>1. child[s] = "ready" /\ child'[s] = "failed" /\ errors'[s] = TRUE
      BY <1>0, <1>7 DEF ChildFails, PipeTypeOK
    <2>2. QED
      BY <1>1, <1>3, <2>1 DEF ChildOf, ChildBy, SameStatus, Started
  <1>8. CASE CommandReads(s) \/ CommandWrites(s) \/ CommandQuits(s)
    <2>1. child[s] = "running" /\ child'[s] \in {"running", "done", "quit"} /\ errors' = errors
      BY <1>0, <1>8 DEF CommandReads, CommandWrites, CommandQuits, Exit, PipeTypeOK
    <2>2. QED
      BY <1>1, <1>4, <2>1 DEF ChildOf, ChildBy, SameStatus, Started
  <1>9. QED
    BY <1>5, <1>6, <1>7, <1>8 DEF ChildStep

LEMMA ChildTouches ==
  ASSUME PipeAssumption, Sound, NEW s \in Streams, ChildStep(s) \/ CommandQuits(s),
         NEW t \in Streams, t # s
  PROVE  child'[t] = child[t] /\ errors'[t] = errors[t] /\ files'[t] = files[t]
  BY FdsNumbers DEF Sound, PipeTypeOK, ChildStep, ChildSetup, ChildExec, ChildFails, CommandReads,
         CommandWrites, CommandQuits, Exit

LEMMA ChildWhenCalled ==
  ASSUME PipeAssumption, Sound, ProgramTable, Children, NEW s \in Streams,
         \/ Fork(s) \/ ForkFails(s) \/ CloseGivenAway(s) \/ HandshakeDone(s) \/ OpenRefused(s)
         \/ BrokenPipe(s) \/ CloseFile(s) \/ WaitProc(s)
  PROVE  ChildOf(s)'
  <1>0. /\ PipeTypeOK /\ s # Program /\ s \in Procs /\ Program \in Procs
        /\ ChildOf(s)
    BY FdsNumbers DEF Sound, Children
  <1>1. /\ Sound'
        /\ call.pc \in OpeningPcs \cup UsingPcs /\ call.pc # "killed" /\ call.stream = s
        /\ streams[s].status = IF call.pc \in OpeningPcs THEN "opening" ELSE "open"
        /\ streams'[s].num = streams[s].num
    BY CallSound
  <1>2. PICK x \in StreamState : x = streams[s] /\ streams \in [Streams -> StreamState]
    BY <1>0 DEF PipeTypeOK
  <1>3. ASSUME NEW status \in Statuses, streams' = [streams EXCEPT ![s].status = status]
        PROVE  streams'[s].status = status
    <2>1. PICK y : y = [x EXCEPT !.status = status]
      OBVIOUS
    <2>2. streams' = [streams EXCEPT ![s] = y] /\ y.status = status
      BY <1>2, <1>3, <2>1 DEF StreamState
    <2>3. QED
      BY <1>2, <2>2
  <1>4. CASE Fork(s)
    <2>1. /\ call.pc = "fork" /\ call'.pc = "forked" /\ streams' = streams /\ errors' = errors
          /\ child[s] = "none" /\ child'[s] = "forked"
      BY <1>0, <1>1, <1>4 DEF Fork, In, Goto, PipeTypeOK, ChildOf, ChildBy, OpeningPcs
    <2>2. files'[s] = files[Program]
      BY <1>0, <1>4 DEF Fork, PipeTypeOK
    <2>3. "errw" \in Holding(s)
      <3>1. "errw" \in Taken(s)
        BY <1>1, TakenNumbers
      <3>2. QED
        BY <1>1, <2>1, <3>1 DEF Holding, Holds, OpeningPcs
    <2>4. files[Program][streams[s].num["errw"]] = F("err", s, "w")
      <3>1. files[Program][streams[s].num["errw"]] = Named(s, "errw")
        BY <1>1, <2>3 DEF ProgramTable, HeldRight
      <3>2. QED
        BY <3>1 DEF Named
    <2>5. QED
      BY <1>0, <1>1, <2>1, <2>2, <2>4 DEF ChildOf, ChildBy, Started, OpeningPcs
  <1>5. CASE ForkFails(s)
    <2>1. /\ call.pc = "fork" /\ child' = child /\ errors' = errors
          /\ streams'[s].status = "unforked"
      BY <1>3, <1>5 DEF ForkFails, In, Statuses
    <2>2. QED
      BY <1>0, <1>1, <2>1 DEF ChildOf, ChildBy, OpeningPcs
  <1>6. CASE CloseGivenAway(s)
    <2>1. /\ call.pc = "forked" /\ call'.pc = "handshake"
          /\ child' = child /\ errors' = errors /\ streams' = streams /\ files'[s] = files[s]
      BY <1>0, <1>6 DEF CloseGivenAway, In, Goto, PipeTypeOK
    <2>2. QED
      BY <1>0, <1>1, <2>1 DEF ChildOf, ChildBy, OpeningPcs
  <1>7. CASE HandshakeDone(s)
    <2>1. /\ call.pc = "handshake" /\ streams[s].status = "opening"
          /\ child' = child /\ errors' = errors /\ files'[s] = files[s]
          /\ errors[s] \/ ~Held(F("err", s, "w"))
      BY <1>0, <1>1, <1>7 DEF HandshakeDone, In, PipeTypeOK, OpeningPcs
    <2>2. child[s] \in Started
      BY <1>0, <2>1 DEF ChildOf, ChildBy
    <2>3. CASE errors[s] /\ Goto("refused", s) /\ UNCHANGED streams
      <3>1. child[s] = "failed" /\ call'.pc = "refused"
        BY <1>0, <2>2, <2>3 DEF ChildOf, Started, Goto
      <3>2. QED
        BY <1>0, <2>1, <2>3, <3>1 DEF ChildOf, ChildBy
    <2>4. CASE ~errors[s] /\ streams' = [streams EXCEPT ![s].status = "open"]
      <3>1. child[s] # "failed"
        BY <1>0, <2>2, <2>4 DEF ChildOf, Started
      <3>2. child[s] \notin {"forked", "ready"}
        <4>1. streams[s].num["errw"] \in Fds
          <5>1. "errw" \in Taken(s) /\ \A n \in Taken(s) : streams[s].num[n] \in Fds \ Std
            BY <2>1, TakenNumbers
          <5>2. QED
            BY <5>1
        <4>2. \A fd \in Fds : files[s][fd] # F("err", s, "w")
          BY <1>0, <2>1, <2>4 DEF Held
        <4>3. QED
          BY <1>0, <4>1, <4>2 DEF ChildOf
      <3>3. streams'[s].status = "open"
        BY <1>3, <2>4 DEF Statuses
      <3>4. QED
        BY <1>0, <2>1, <2>2, <2>4, <3>1, <3>2, <3>3 DEF ChildOf, ChildBy, Started
    <2>5. QED
      BY <1>7, <2>3, <2>4, Zenon DEF HandshakeDone
  <1>8. CASE OpenRefused(s)
    <2>1. /\ call.pc = "refused" /\ child'[s] = "reaped" /\ errors' = errors
          /\ streams'[s].status = "refused" /\ streams[s].status = "opening"
      BY <1>0, <1>1, <1>3, <1>8 DEF OpenRefused, In, Statuses, PipeTypeOK, OpeningPcs
    <2>2. child[s] = "failed"
      BY <1>0, <2>1 DEF ChildOf, ChildBy
    <2>3. QED
      BY <1>0, <2>1, <2>2 DEF ChildOf, ChildBy
  <1>9. CASE BrokenPipe(s) \/ CloseFile(s)
    <2>1. /\ child' = child /\ errors' = errors /\ streams' = streams /\ files'[s] = files[s]
          /\ streams[s].status = "open"
      BY <1>0, <1>1, <1>9 DEF BrokenPipe, CloseFile, Flushing, In, PipeTypeOK, OpeningPcs
    <2>2. QED
      BY <1>0, <2>1 DEF ChildOf, ChildBy
  <1>10. CASE WaitProc(s)
    <2>1. /\ streams[s].status = "open" /\ child'[s] = "reaped" /\ errors' = errors
      BY <1>0, <1>1, <1>10 DEF WaitProc, In, PipeTypeOK, OpeningPcs
    <2>2. streams'[s].status = "closed"
      <3>1. PICK y : y = [x EXCEPT !.status = "closed", !.ret = IF child[s] = "done" THEN 0 ELSE 1]
        OBVIOUS
      <3>2. streams' = [streams EXCEPT ![s] = y] /\ y.status = "closed"
        BY <1>2, <1>10, <3>1 DEF WaitProc, StreamState
      <3>3. QED
        BY <1>2, <3>2
    <2>3. QED
      BY <1>0, <2>1, <2>2 DEF ChildOf, ChildBy
  <1>11. QED
    BY <1>4, <1>5, <1>6, <1>7, <1>8, <1>9, <1>10

LEMMA CallTouches ==
  ASSUME PipeAssumption, Sound, NEW s \in Streams,
         \/ Fork(s) \/ ForkFails(s) \/ CloseGivenAway(s) \/ HandshakeDone(s) \/ OpenRefused(s)
         \/ BrokenPipe(s) \/ CloseFile(s) \/ WaitProc(s),
         NEW t \in Streams, t # s
  PROVE  child'[t] = child[t] /\ errors'[t] = errors[t] /\ files'[t] = files[t]
  BY FdsNumbers DEF Sound, PipeTypeOK, Fork, ForkFails, CloseGivenAway, HandshakeDone, OpenRefused,
         BrokenPipe, CloseFile, WaitProc

LEMMA ChildrenNext ==
  ASSUME PipeAssumption, Sound, ProgramTable, Children, [PipeNext]_pipeVars
  PROVE  Children'
  <1>0. \A t \in Streams : ChildOf(t)
    BY DEF Children
  <1>1. CASE UNCHANGED pipeVars
    BY <1>1 DEF pipeVars, Children, ChildOf
  <1>2. ASSUME NEW s \in Streams, NEW kind \in {"read", "write"}, NEW quiet \in BOOLEAN,
               Open(s, kind, quiet) \/ OpenExhausted(s, kind, quiet)
        PROVE  Children'
    <2>1. /\ call.pc = "idle" /\ streams[s].status = "unused"
          /\ child' = child /\ errors' = errors
      BY <1>2 DEF Open, OpenExhausted, NextToOpen, Idle
    <2>2. PipeTypeOK /\ Sound'
      BY <1>2, OpenSound DEF Sound
    <2>3. PICK x \in StreamState : x = streams[s] /\ streams \in [Streams -> StreamState]
      BY <2>2 DEF PipeTypeOK
    <2>4. /\ \/ streams'[s].status = "opening" /\ call'.pc = "fork"
             \/ streams'[s].status = "exhausted"
          /\ \A t \in Streams \ {s} : streams'[t] = streams[t]
      <3>1. CASE Open(s, kind, quiet)
        <4>1. PICK num \in [AllNames -> (Fds \ Std) \cup {NoFd}] : TakesNumbers(s, kind, num)
          BY <2>2, <3>1, OpenNumbers DEF Sound
        <4>2. PICK y : y = [x EXCEPT !.status = "opening", !.kind = kind, !.num = num]
          OBVIOUS
        <4>3. streams' = [streams EXCEPT ![s] = y] /\ y.status = "opening"
          BY <2>3, <4>1, <4>2 DEF StreamState, TakesNumbers
        <4>4. QED
          BY <2>3, <3>1, <4>3 DEF Open, Goto
      <3>2. CASE OpenExhausted(s, kind, quiet)
        <4>1. PICK y : y = [x EXCEPT !.status = "exhausted", !.kind = kind]
          OBVIOUS
        <4>2. streams' = [streams EXCEPT ![s] = y] /\ y.status = "exhausted"
          BY <2>3, <3>2, <4>1 DEF StreamState, OpenExhausted
        <4>3. QED
          BY <2>3, <4>2
      <3>3. QED
        BY <1>2, <3>1, <3>2
    <2>5. \A t \in Streams : files'[t] = files[t]
      BY <1>2, <2>2, FdsNumbers DEF Open, OpenExhausted, PipeTypeOK
    <2>6. ChildOf(s)'
      BY <1>0, <2>1, <2>4 DEF ChildOf, ChildBy
    <2>7. ASSUME NEW t \in Streams, t # s PROVE ChildOf(t)'
      <3>1. streams[t].status # "opening"
        BY <2>1 DEF Sound, CallFits, Fitting, OpeningPcs
      <3>2. QED
        BY <1>0, <2>1, <2>4, <2>5, <2>7, <3>1, ChildStays DEF SameStatus
    <2>8. QED
      BY <2>6, <2>7 DEF Children
  <1>3. ASSUME NEW s \in Streams, ChildStep(s) \/ CommandQuits(s)
        PROVE  Children'
    <2>1. call' = call /\ \A t \in Streams : SameStatus(t)
      BY <1>3, ChildSound
    <2>2. ASSUME NEW t \in Streams, t # s PROVE ChildOf(t)'
      BY <1>0, <1>3, <2>1, <2>2, ChildTouches, ChildStays
    <2>3. QED
      BY <1>3, <2>2, ChildMoves DEF Children
  <1>4. ASSUME NEW s \in Streams,
               \/ WriteBuffered(s) \/ WriteFull(s) \/ Read(s) \/ Close(s)
               \/ WriteFlushed(s) \/ Transfer(s) \/ ReadByte(s) \/ ReadEnd(s)
        PROVE  Children'
    <2>1. /\ UNCHANGED <<files, errors, child>>
          /\ call.pc \in {"idle", "write", "read", "flush"}
          /\ \A t \in Streams : SameStatus(t)
      BY <1>4, UseSound
    <2>2. ASSUME NEW t \in Streams PROVE ChildOf(t)'
      <3>1. streams[t].status # "opening"
        BY <2>1 DEF Sound, CallFits, Fitting, OpeningPcs
      <3>2. QED
        BY <1>0, <2>1, <3>1, ChildStays
    <2>3. QED
      BY <2>2 DEF Children
  <1>5. ASSUME NEW s \in Streams,
               \/ Fork(s) \/ ForkFails(s) \/ CloseGivenAway(s) \/ HandshakeDone(s) \/ OpenRefused(s)
               \/ BrokenPipe(s) \/ CloseFile(s) \/ WaitProc(s)
        PROVE  Children'
    <2>1. ChildOf(s)'
      BY <1>5, ChildWhenCalled
    <2>2. ASSUME NEW t \in Streams, t # s PROVE ChildOf(t)'
      <3>1. SameStatus(t) /\ call.pc \in OpeningPcs \cup UsingPcs /\ call.stream = s
        BY <1>5, <2>2, CallSound
      <3>2. streams[t].status # "opening"
        BY <2>2, <3>1 DEF Sound, CallFits, Fitting
      <3>3. child'[t] = child[t] /\ errors'[t] = errors[t] /\ files'[t] = files[t]
        BY <1>5, <2>2, CallTouches
      <3>4. QED
        BY <1>0, <3>1, <3>2, <3>3, ChildStays
    <2>3. QED
      BY <2>1, <2>2 DEF Children
  <1>6. QED
    BY <1>1, <1>2, <1>3, <1>4, <1>5 DEF PipeNext, ClientStep, CallStep

(* Wherever a stream is, its child is as far as it can be: it executes its   *)
(* command before the stream opens and is waited for before the stream is    *)
(* refused or closed; an error report means that it failed; until it         *)
(* executes the command it holds the error pipe open.                        *)
THEOREM ChildrenInvariant == PipeSpec => []Children
  <1>. USE PipeConstants
  <1>1. PipeInit => Sound /\ ProgramTable /\ Children
    <2>1. ASSUME PipeInit PROVE Children
      BY <2>1 DEF PipeInit, Children, ChildOf, ChildBy, Unused
    <2>2. QED
      BY <2>1, SoundInit, TableInit
  <1>2. (Sound /\ ProgramTable /\ Children) /\ [PipeNext]_pipeVars => (Sound /\ ProgramTable /\ Children)'
    BY SoundNext, TableNext, ChildrenNext
  <1>3. QED
    BY <1>1, <1>2, PTL DEF PipeSpec

(* The answer of the handshake is right wherever the child is: an open       *)
(* stream's child has executed the command, a refused one's has failed and   *)
(* was waited for.                                                           *)
THEOREM HandshakeIsRight == PipeSpec => []OpenMeansExecuted
  <1>. USE PipeConstants
  <1>1. Children => OpenMeansExecuted
    BY DEF Children, ChildOf, ChildBy, OpenMeansExecuted
  <1>2. QED
    BY <1>1, ChildrenInvariant, PTL

-----------------------------------------------------------------------------
(* Where the bytes are.  Concatenations keep their value when a byte moves.  *)
LEMMA OneByte ==
  ASSUME NEW x \in Seq(Nat), NEW m \in Nat
  PROVE  /\ <<m>> \in Seq(Nat) /\ Append(x, m) = x \o <<m>>
         /\ x \o <<>> = x /\ <<>> \o x = x
         /\ x # <<>> => /\ Head(x) \in Nat /\ Tail(x) \in Seq(Nat)
                        /\ <<Head(x)>> \o Tail(x) = x
  <1>1. <<m>> \in Seq(Nat)
    OBVIOUS
  <1>2. Append(x, m) = x \o <<m>>
    BY AppendIsConcat
  <1>3. x \o <<>> = x /\ <<>> \o x = x
    BY ConcatEmptySeq
  <1>4. ASSUME x # <<>> PROVE <<Head(x)>> \o Tail(x) = x
    <2>1. Len(x) \in 1..Len(x)
      BY <1>4
    <2>2. SubSeq(x, 1, Len(x)) = <<x[1]>> \o SubSeq(x, 2, Len(x))
      <3>1. 1 \in 1..Len(x) /\ Len(x) \in 1..Len(x)
        BY <2>1
      <3>2. SubSeq(x, 1, Len(x)) = <<x[1]>> \o SubSeq(x, 1 + 1, Len(x))
        BY <3>1, SubSeqRecursiveFirst
      <3>3. QED
        BY <3>2
    <2>3. SubSeq(x, 1, Len(x)) = x
      BY SubSeqFull
    <2>4. Tail(x) = SubSeq(x, 2, Len(x)) /\ Head(x) = x[1]
      BY <1>4, TailIsSubSeq
    <2>5. QED
      BY <2>2, <2>3, <2>4
  <1>5. x # <<>> => Head(x) \in Nat /\ Tail(x) \in Seq(Nat)
    OBVIOUS
  <1>6. QED
    BY <1>1, <1>2, <1>3, <1>4, <1>5

LEMMA Concatenated == \A x, y \in Seq(Nat) : x \o y \in Seq(Nat)
  OBVIOUS

LEMMA Regrouped ==
  \A x, y, z \in Seq(Nat) : Joined(Joined(x, y), z) = Joined(x, Joined(y, z))
  <1>1. ASSUME NEW x \in Seq(Nat), NEW y \in Seq(Nat), NEW z \in Seq(Nat)
        PROVE  (x \o y) \o z = x \o (y \o z)
    <2>1. PICK xy \in Seq(Nat), yz \in Seq(Nat) : xy = x \o y /\ yz = y \o z
      BY Concatenated, Zenon
    <2>2. PICK v \in Seq(Nat), w \in Seq(Nat) : v = xy \o z /\ w = x \o yz
      BY Concatenated, Zenon
    <2>3. /\ Len(v) = Len(x) + Len(y) + Len(z) /\ Len(w) = Len(v)
          /\ Len(xy) = Len(x) + Len(y) /\ Len(yz) = Len(y) + Len(z)
          /\ Len(x) \in Nat /\ Len(y) \in Nat /\ Len(z) \in Nat
      BY <2>1, <2>2
    <2>4. ASSUME NEW i \in 1..Len(v) PROVE v[i] = w[i]
      <3>1. CASE i <= Len(x)
        BY <2>1, <2>2, <2>3, <3>1
      <3>2. CASE Len(x) < i /\ i <= Len(x) + Len(y)
        BY <2>1, <2>2, <2>3, <3>2
      <3>3. CASE Len(x) + Len(y) < i
        BY <2>1, <2>2, <2>3, <3>3
      <3>4. i \in Nat
        BY <2>3
      <3>5. \/ i <= Len(x)
            \/ Len(x) < i /\ i <= Len(x) + Len(y)
            \/ Len(x) + Len(y) < i
        <4>1. \A l, k, j \in Nat : j <= l \/ (l < j /\ j <= l + k) \/ l + k < j
          OBVIOUS
        <4>2. Len(x) \in Nat /\ Len(y) \in Nat
          BY <2>3
        <4>3. QED
          BY <3>4, <4>1, <4>2, Zenon
      <3>6. QED
        BY <3>1, <3>2, <3>3, <3>5, Zenon
    <2>5. QED
      BY <2>1, <2>2, <2>3, <2>4, SeqEqual
  <1>2. QED
    BY <1>1, Zenon DEF Joined

(* A byte put into the buffer comes last, whatever was read and is in flight. *)
ByteKept(g, p, b, n) == Append(g \o (p \o b), n) = g \o (p \o Append(b, n))

LEMMA ByteBuffered ==
  ASSUME NEW g \in Seq(Nat), NEW p \in Seq(Nat), NEW b \in Seq(Nat), NEW n \in Nat
  PROVE  ByteKept(g, p, b, n)
  <1>1. PICK one \in Seq(Nat) : one = <<n>>
    BY OneByte
  <1>2. PICK pb \in Seq(Nat) : pb = p \o b
    BY Concatenated, Zenon
  <1>3. PICK all \in Seq(Nat) : all = g \o pb
    BY Concatenated, Zenon
  <1>4. Append(all, n) = all \o one /\ Append(b, n) = b \o one
    BY <1>1, OneByte
  <1>5. (g \o pb) \o one = g \o (pb \o one)
    <2>1. Joined(Joined(g, pb), one) = Joined(g, Joined(pb, one))
      BY Regrouped
    <2>2. QED
      BY <2>1, Zenon DEF Joined
  <1>6. (p \o b) \o one = p \o (b \o one)
    <2>1. Joined(Joined(p, b), one) = Joined(p, Joined(b, one))
      BY Regrouped
    <2>2. QED
      BY <2>1, Zenon DEF Joined
  <1>7. QED
    BY <1>2, <1>3, <1>4, <1>5, <1>6, Zenon DEF ByteKept

LEMMA ByteTransferred ==
  ASSUME NEW p \in Seq(Nat), NEW b \in Seq(Nat), b # <<>>
  PROVE  Append(p, Head(b)) \o Tail(b) = p \o b
  <1>1. PICK h \in Nat, rest \in Seq(Nat) : h = Head(b) /\ rest = Tail(b)
    BY OneByte
  <1>2. PICK one \in Seq(Nat) : one = <<h>>
    BY OneByte
  <1>3. Append(p, h) = p \o one /\ one \o rest = b
    BY <1>1, <1>2, OneByte
  <1>4. (p \o one) \o rest = p \o (one \o rest)
    <2>1. Joined(Joined(p, one), rest) = Joined(p, Joined(one, rest))
      BY Regrouped
    <2>2. QED
      BY <2>1, Zenon DEF Joined
  <1>5. QED
    BY <1>1, <1>3, <1>4, Zenon

LEMMA ByteReceived ==
  ASSUME NEW g \in Seq(Nat), NEW p \in Seq(Nat), NEW b \in Seq(Nat), p # <<>>
  PROVE  Append(g, Head(p)) \o (Tail(p) \o b) = g \o (p \o b)
  <1>1. PICK h \in Nat, rest \in Seq(Nat) : h = Head(p) /\ rest = Tail(p)
    BY OneByte
  <1>2. PICK one \in Seq(Nat) : one = <<h>>
    BY OneByte
  <1>3. PICK after \in Seq(Nat) : after = rest \o b
    BY Concatenated, Zenon
  <1>4. Append(g, h) = g \o one /\ one \o rest = p
    BY <1>1, <1>2, OneByte
  <1>5. (g \o one) \o after = g \o (one \o after)
    <2>1. Joined(Joined(g, one), after) = Joined(g, Joined(one, after))
      BY Regrouped
    <2>2. QED
      BY <2>1, Zenon DEF Joined
  <1>6. (one \o rest) \o b = one \o (rest \o b)
    <2>1. Joined(Joined(one, rest), b) = Joined(one, Joined(rest, b))
      BY Regrouped
    <2>2. QED
      BY <2>1, Zenon DEF Joined
  <1>7. QED
    BY <1>1, <1>3, <1>4, <1>5, <1>6, Zenon

LEMMA ByteWritten ==
  ASSUME NEW g \in Seq(Nat), NEW p \in Seq(Nat), NEW b \in Seq(Nat), NEW n \in Nat, b = <<>>
  PROVE  Append(g \o (p \o b), n) = g \o (Append(p, n) \o b)
  <1>1. PICK one \in Seq(Nat) : one = <<n>>
    BY OneByte
  <1>2. PICK gp \in Seq(Nat), more \in Seq(Nat) : gp = g \o p /\ more = p \o one
    BY Concatenated, Zenon
  <1>3. p \o <<>> = p /\ more \o <<>> = more
    BY OneByte
  <1>4. Append(gp, n) = gp \o one /\ Append(p, n) = p \o one
    BY <1>1, OneByte
  <1>5. (g \o p) \o one = g \o (p \o one)
    <2>1. Joined(Joined(g, p), one) = Joined(g, Joined(p, one))
      BY Regrouped
    <2>2. QED
      BY <2>1, Zenon DEF Joined
  <1>6. QED
    BY <1>2, <1>3, <1>4, <1>5, Zenon

LEMMA AllReceived ==
  ASSUME NEW g \in Seq(Nat), NEW p \in Seq(Nat), NEW b \in Seq(Nat), p = <<>>, b = <<>>
  PROVE  g \o (p \o b) = g
  <1>1. <<>> \in Seq(Nat) /\ 0 \in Nat
    OBVIOUS
  <1>2. <<>> \o <<>> = <<>> /\ g \o <<>> = g
    BY <1>1, OneByte, Zenon
  <1>3. QED
    BY <1>2, Zenon

LEMMA PrefixOf ==
  ASSUME NEW g \in Seq(Nat), NEW r \in Seq(Nat), NEW x, x = g \o r
  PROVE  IsPrefix(g, x)
  BY DEF IsPrefix

(* A descriptor is made by opening a stream; other steps close one or        *)
(* inherit it.                                                               *)
Inherits ==
  \A p \in Procs, fd \in Fds :
    files'[p][fd] = Closed \/ \E q \in Procs, e \in Fds : files'[p][fd] = files[q][e]

LEMMA StepsInherit ==
  ASSUME PipeAssumption, Sound, NEW s \in Streams,
         \/ ChildStep(s) \/ CommandQuits(s)
         \/ WriteBuffered(s) \/ WriteFull(s) \/ Read(s) \/ Close(s)
         \/ WriteFlushed(s) \/ Transfer(s) \/ ReadByte(s) \/ ReadEnd(s)
         \/ Fork(s) \/ ForkFails(s) \/ CloseGivenAway(s) \/ HandshakeDone(s) \/ OpenRefused(s)
         \/ BrokenPipe(s) \/ CloseFile(s) \/ WaitProc(s)
  PROVE  Inherits
  <1>0. PipeTypeOK /\ s \in Procs /\ Program \in Procs
    BY FdsNumbers DEF Sound
  <1>1. CASE UNCHANGED files
    BY <1>1 DEF Inherits
  <1>2. CASE \E p \in Procs : files' = [files EXCEPT ![p] = NoFiles]
    BY <1>0, <1>2 DEF Inherits, NoFiles, PipeTypeOK
  <1>3. CASE \E p \in Procs : \E fds : files' = [files EXCEPT ![p] = CloseIn(@, fds)]
    BY <1>0, <1>3 DEF Inherits, CloseIn, PipeTypeOK
  <1>4. CASE Fork(s)
    BY <1>0, <1>4 DEF Inherits, Fork, PipeTypeOK
  <1>5. CASE ChildSetup(s)
    <2>1. child[s] = "forked" /\ files' = [files EXCEPT ![s] = ChildTable(s)]
      BY <1>5 DEF ChildSetup
    <2>2. streams[s].status \notin {"unused", "exhausted"}
      BY <2>1 DEF Sound, CallFits, Fitting
    <2>3. PICK num : /\ num = streams[s].num
                     /\ num["datar"] \in Fds /\ num["dataw"] \in Fds
                     /\ num["nullw"] # NoFd => num["nullw"] \in Fds
      BY <2>2 DEF Sound, Numbered, NumberedRight, AllNames
    <2>4. ASSUME NEW fd \in Fds
          PROVE  ChildTable(s)[fd] = Closed \/ \E e \in Fds : ChildTable(s)[fd] = files[s][e]
      BY <2>3 DEF ChildTable, CloseIn
    <2>5. \A p \in Procs \ {s} : files'[p] = files[p]
      BY <1>0, <2>1 DEF PipeTypeOK
    <2>6. files'[s] = ChildTable(s)
      BY <1>0, <2>1 DEF PipeTypeOK
    <2>7. QED
      BY <1>0, <2>4, <2>5, <2>6 DEF Inherits
  <1>6. CASE ChildStep(s) /\ ~ChildSetup(s)
    <2>1. CASE ChildExec(s)
      BY <1>0, <1>3, <2>1 DEF ChildExec
    <2>2. CASE ChildFails(s) \/ CommandReads(s) \/ CommandWrites(s)
      BY <1>0, <1>1, <1>2, <2>2 DEF ChildFails, CommandReads, CommandWrites, Exit
    <2>3. QED
      BY <1>6, <2>1, <2>2 DEF ChildStep
  <1>7. CASE CommandQuits(s) \/ BrokenPipe(s)
    BY <1>0, <1>2, <1>7 DEF CommandQuits, Exit, BrokenPipe
  <1>8. CASE WaitProc(s)
    BY <1>1, <1>8 DEF WaitProc
  <1>9. CASE ForkFails(s) \/ CloseGivenAway(s) \/ HandshakeDone(s) \/ OpenRefused(s) \/ CloseFile(s)
    <2>1. PICK fds : files' = [files EXCEPT ![Program] = CloseIn(@, fds)]
      BY <1>9 DEF ForkFails, CloseGivenAway, HandshakeDone, OpenRefused, CloseFile
    <2>2. QED
      BY <1>0, <1>3, <2>1
  <1>10. CASE \/ WriteBuffered(s) \/ WriteFull(s) \/ Read(s) \/ Close(s)
              \/ WriteFlushed(s) \/ Transfer(s) \/ ReadByte(s) \/ ReadEnd(s)
    BY <1>1, <1>10, UseSound
  <1>11. QED
    BY <1>4, <1>5, <1>6, <1>7, <1>8, <1>9, <1>10

LEMMA NotHeldAgain ==
  ASSUME PipeAssumption, Inherits, NEW file \in File, ~Held(file)
  PROVE  ~Held(file)'
  <1>1. file # Closed
    BY DEF PipeAssumption
  <1>2. QED
    BY <1>1 DEF Held, Inherits

-----------------------------------------------------------------------------
(* The bytes that were sent are those that arrived, those in the pipe and    *)
(* those in the buffer, in this order.                                       *)
Flow(s) ==
  /\ streams[s].sent = streams[s].got \o (pipes[s] \o streams[s].buf)
  /\ \/ streams[s].kind = "read" \/ streams[s].status \in {"unused", "closed"} \/ In("wait", s)
     => streams[s].buf = <<>>
  /\ streams[s].status = "unused" => ~streams[s].eof
  /\ In("write", s) => streams[s].kind = "write"
  /\ In("read", s) => streams[s].kind = "read"

(* An end that was met stays one: the pipe is empty, and no process holds an *)
(* end to write to it.                                                       *)
NoMore(s) == pipes[s] = <<>> /\ ~Held(F("data", s, "w"))
Ends(s) ==
  /\ streams[s].eof => streams[s].kind = "read" /\ NoMore(s)
  /\ streams[s].kind = "write" /\ child[s] = "done" => NoMore(s)
  /\ streams[s].kind = "write" /\ streams[s].status = "closed" /\ streams[s].ret = 0
       => pipes[s] = <<>>
Arrival == \A s \in Streams : Flow(s) /\ Ends(s)

Reusing(s) == \/ WriteBuffered(s) \/ WriteFull(s) \/ Read(s) \/ Close(s)
              \/ WriteFlushed(s) \/ Transfer(s) \/ ReadByte(s) \/ ReadEnd(s)
Calling(s) ==
  \/ Fork(s) \/ ForkFails(s) \/ CloseGivenAway(s) \/ HandshakeDone(s) \/ OpenRefused(s)
  \/ BrokenPipe(s) \/ CloseFile(s) \/ WaitProc(s)
StepOf(s) == Reusing(s) \/ Calling(s) \/ ChildStep(s) \/ CommandQuits(s)

LEMMA StepsTouch ==
  ASSUME PipeAssumption, Sound, NEW s \in Streams, StepOf(s)
  PROVE  /\ \A t \in Streams \ {s} : /\ streams'[t] = streams[t] /\ pipes'[t] = pipes[t]
                                     /\ child'[t] = child[t]
         /\ call' = call \/ call'.pc \in {"idle", "killed"} \/ call'.stream = s
  <1>0. PipeTypeOK
    BY DEF Sound
  <1>1. CASE Reusing(s)
    BY <1>0, <1>1 DEF Reusing, PipeTypeOK, WriteBuffered, WriteFull, Read, Close, WriteFlushed,
       Transfer, ReadByte, ReadEnd, Buffer, Goto, Return
  <1>2. CASE Calling(s)
    BY <1>0, <1>2 DEF Calling, PipeTypeOK, Fork, ForkFails, CloseGivenAway, HandshakeDone,
       OpenRefused, BrokenPipe, CloseFile, WaitProc, Goto, Return
  <1>3. CASE ChildStep(s) \/ CommandQuits(s)
    BY <1>0, <1>3 DEF PipeTypeOK, ChildStep, ChildSetup, ChildExec, ChildFails, CommandReads,
       CommandWrites, CommandQuits, Exit
  <1>4. QED
    BY <1>1, <1>2, <1>3 DEF StepOf

LEMMA FlowStays ==
  ASSUME NEW t \in Streams, Flow(t), streams'[t] = streams[t], pipes'[t] = pipes[t],
         \A pc \in {"wait", "write", "read"} : In(pc, t)' => In(pc, t)
  PROVE  Flow(t)'
  BY DEF Flow

LEMMA EndsStay ==
  ASSUME NEW t \in Streams, Ends(t), streams'[t] = streams[t], pipes'[t] = pipes[t],
         child'[t] = child[t], ~Held(F("data", t, "w")) => ~Held(F("data", t, "w"))'
  PROVE  Ends(t)'
  BY DEF Ends, NoMore

LEMMA ArrivalElsewhere ==
  ASSUME PipeAssumption, Sound, Arrival, NEW s \in Streams, StepOf(s), NEW t \in Streams, t # s
  PROVE  Flow(t)' /\ Ends(t)'
  <1>1. /\ streams'[t] = streams[t] /\ pipes'[t] = pipes[t] /\ child'[t] = child[t]
        /\ call' = call \/ call'.pc \in {"idle", "killed"} \/ call'.stream = s
    BY StepsTouch
  <1>2. \A pc \in {"wait", "write", "read"} : In(pc, t)' => In(pc, t)
    BY <1>1 DEF In
  <1>3. ~Held(F("data", t, "w")) => ~Held(F("data", t, "w"))'
    <2>1. Inherits
      BY StepsInherit DEF StepOf, Reusing, Calling
    <2>2. F("data", t, "w") \in File
      BY FdsNumbers DEF F, File
    <2>3. QED
      BY <2>1, <2>2, NotHeldAgain
  <1>4. QED
    BY <1>1, <1>2, <1>3, FlowStays, EndsStay DEF Arrival

(* The steps that move no byte of their stream.                              *)
KeepsBytes(s) ==
  /\ streams'[s].sent = streams[s].sent /\ streams'[s].got = streams[s].got
  /\ streams'[s].buf = streams[s].buf /\ streams'[s].eof = streams[s].eof
  /\ streams'[s].kind = streams[s].kind
  /\ pipes'[s] = pipes[s]

LEMMA ArrivalKept ==
  ASSUME PipeAssumption, Sound, Arrival, NEW s \in Streams, StepOf(s), KeepsBytes(s),
         streams[s].status # "unused", streams'[s].status # "unused",
         In("wait", s)' \/ streams'[s].status = "closed" => streams[s].buf = <<>>,
         In("write", s)' => streams[s].kind = "write",
         In("read", s)' => streams[s].kind = "read",
         \/ child'[s] # "done" \/ child[s] = "done" \/ streams[s].kind = "read" \/ NoMore(s),
         streams'[s].status = "closed" /\ streams'[s].ret = 0 =>
           streams[s].kind = "read" \/ pipes[s] = <<>>
  PROVE  Flow(s)' /\ Ends(s)'
  <1>1. Inherits /\ F("data", s, "w") \in File
    BY StepsInherit, FdsNumbers DEF StepOf, Reusing, Calling, F, File
  <1>2. NoMore(s) => NoMore(s)'
    BY <1>1, NotHeldAgain DEF NoMore, KeepsBytes
  <1>3. Flow(s) /\ Ends(s)
    BY DEF Arrival
  <1>4. Flow(s)'
    BY <1>3 DEF Flow, KeepsBytes
  <1>5. Ends(s)'
    BY <1>2, <1>3 DEF Ends, KeepsBytes
  <1>6. QED
    BY <1>4, <1>5

LEMMA CallKeepsBytes ==
  ASSUME PipeAssumption, Sound, NEW s \in Streams, Calling(s)
  PROVE  /\ KeepsBytes(s)
         /\ streams'[s].status = "closed" => WaitProc(s)
         /\ WaitProc(s) => streams'[s].ret = IF child[s] = "done" THEN 0 ELSE 1
  <1>1. PICK x \in StreamState : x = streams[s] /\ streams \in [Streams -> StreamState]
    BY DEF Sound, PipeTypeOK
  <1>2. pipes' = pipes
    BY DEF Calling, Fork, ForkFails, CloseGivenAway, HandshakeDone, OpenRefused, BrokenPipe,
           CloseFile, WaitProc
  <1>3. streams[s].status # "closed"
    BY CallSound DEF Calling
  <1>4. CASE \E status \in {"unforked", "open", "refused"} :
               streams' = [streams EXCEPT ![s].status = status]
    <2>1. PICK status \in {"unforked", "open", "refused"} :
            streams' = [streams EXCEPT ![s].status = status]
      BY <1>4
    <2>2. PICK y : y = [x EXCEPT !.status = status]
      OBVIOUS
    <2>3. /\ y.sent = x.sent /\ y.got = x.got /\ y.buf = x.buf /\ y.eof = x.eof /\ y.kind = x.kind
          /\ y.status = status
      BY <2>2 DEF StreamState
    <2>4. streams'[s] = y
      BY <1>1, <2>1, <2>2
    <2>5. ~WaitProc(s)
      <3>1. ASSUME WaitProc(s) PROVE FALSE
        <4>1. PICK z : z = [x EXCEPT !.status = "closed",
                                     !.ret = IF child[s] = "done" THEN 0 ELSE 1]
          OBVIOUS
        <4>2. z.status = "closed"
          BY <4>1 DEF StreamState
        <4>3. streams'[s] = z
          BY <1>1, <3>1, <4>1 DEF WaitProc
        <4>4. QED
          BY <2>3, <2>4, <4>2, <4>3
      <3>2. QED
        BY <3>1
    <2>6. QED
      BY <1>1, <1>2, <2>3, <2>4, <2>5 DEF KeepsBytes
  <1>5. CASE UNCHANGED streams
    <2>1. ~WaitProc(s)
      <3>1. ASSUME WaitProc(s) PROVE FALSE
        <4>1. PICK z : z = [x EXCEPT !.status = "closed",
                                     !.ret = IF child[s] = "done" THEN 0 ELSE 1]
          OBVIOUS
        <4>2. z.status = "closed"
          BY <4>1 DEF StreamState
        <4>3. streams'[s] = z
          BY <1>1, <3>1, <4>1 DEF WaitProc
        <4>4. QED
          BY <1>3, <1>5, <4>2, <4>3
      <3>2. QED
        BY <3>1
    <2>2. QED
      BY <1>2, <1>3, <1>5, <2>1 DEF KeepsBytes
  <1>6. CASE WaitProc(s)
    <2>1. PICK ret \in {0, 1} : ret = IF child[s] = "done" THEN 0 ELSE 1
      OBVIOUS
    <2>2. PICK y : y = [x EXCEPT !.status = "closed", !.ret = ret]
      OBVIOUS
    <2>3. /\ y.sent = x.sent /\ y.got = x.got /\ y.buf = x.buf /\ y.eof = x.eof /\ y.kind = x.kind
          /\ y.ret = ret
      BY <2>2 DEF StreamState
    <2>4. streams'[s] = y
      BY <1>1, <1>6, <2>1, <2>2 DEF WaitProc
    <2>5. QED
      BY <1>1, <1>2, <1>6, <2>1, <2>3, <2>4 DEF KeepsBytes
  <1>7. CASE HandshakeDone(s)
    <2>1. UNCHANGED streams \/ streams' = [streams EXCEPT ![s].status = "open"]
      BY <1>7, Zenon DEF HandshakeDone
    <2>2. QED
      BY <1>4, <1>5, <2>1
  <1>8. CASE ForkFails(s) \/ OpenRefused(s)
    BY <1>4, <1>8 DEF ForkFails, OpenRefused
  <1>9. CASE Fork(s) \/ CloseGivenAway(s) \/ BrokenPipe(s) \/ CloseFile(s)
    BY <1>5, <1>9 DEF Fork, CloseGivenAway, BrokenPipe, CloseFile
  <1>10. QED
    BY <1>6, <1>7, <1>8, <1>9 DEF Calling

LEMMA ArrivalWhenCalled ==
  ASSUME PipeAssumption, Sound, Arrival, NEW s \in Streams, Calling(s)
  PROVE  Flow(s)' /\ Ends(s)'
  <1>1. /\ KeepsBytes(s)
        /\ streams'[s].status = "closed" => WaitProc(s)
        /\ WaitProc(s) => streams'[s].ret = IF child[s] = "done" THEN 0 ELSE 1
    BY CallKeepsBytes
  <1>2. Flow(s) /\ Ends(s)
    BY DEF Arrival
  <1>3. /\ Sound' /\ streams[s].status \in {"opening", "open"}
        /\ \A t \in Streams : streams'[t].num = streams[t].num
    BY CallSound DEF Calling
  <1>4. PipeTypeOK /\ streams'[s].status # "unused"
    BY CallSound DEF Calling, Sound
  <1>5. In("wait", s)' \/ streams'[s].status = "closed" => streams[s].buf = <<>>
    <2>1. CASE CloseFile(s)
      BY <2>1 DEF CloseFile
    <2>2. CASE WaitProc(s)
      BY <1>2, <2>2 DEF WaitProc, Flow
    <2>3. CASE ~CloseFile(s) /\ ~WaitProc(s)
      BY <1>1, <2>3 DEF Calling, Fork, ForkFails, CloseGivenAway, HandshakeDone, OpenRefused,
         BrokenPipe, Goto, Return, In
    <2>4. QED
      BY <2>1, <2>2, <2>3
  <1>6. ~In("write", s)' /\ ~In("read", s)'
    BY DEF Calling, Fork, ForkFails, CloseGivenAway, HandshakeDone, OpenRefused, BrokenPipe,
           CloseFile, WaitProc, Goto, Return, In
  <1>7. child'[s] # "done" \/ child[s] = "done"
    BY <1>4 DEF Calling, Fork, ForkFails, CloseGivenAway, HandshakeDone, OpenRefused, BrokenPipe,
           CloseFile, WaitProc, PipeTypeOK
  <1>8. streams'[s].status = "closed" /\ streams'[s].ret = 0 =>
          streams[s].kind = "read" \/ pipes[s] = <<>>
    <2>1. streams[s].kind \in {"read", "write"}
      BY <1>4 DEF PipeTypeOK, StreamState
    <2>2. QED
      BY <1>1, <1>2, <2>1 DEF Ends, NoMore
  <1>9. streams[s].status # "unused" /\ StepOf(s)
    BY <1>3 DEF StepOf
  <1>10. QED
    BY <1>1, <1>4, <1>5, <1>6, <1>7, <1>8, <1>9, ArrivalKept

(* A byte that arrives.                                                      *)
LEMMA ArrivalOfByte ==
  ASSUME PipeAssumption, Sound, Arrival, NEW s \in Streams, pipes[s] # <<>>,
         streams' = [streams EXCEPT ![s].got = Append(@, Head(pipes[s]))],
         pipes' = [pipes EXCEPT ![s] = Tail(@)],
         streams[s].kind = "write" => child'[s] # "done",
         streams[s].status # "unused",
         \A pc \in {"wait", "write", "read"} : In(pc, s)' => In(pc, s)
  PROVE  Flow(s)' /\ Ends(s)'
  <1>0. PipeTypeOK /\ Flow(s) /\ Ends(s)
    BY DEF Sound, Arrival
  <1>1. PICK x \in StreamState : x = streams[s] /\ streams \in [Streams -> StreamState]
    BY <1>0 DEF PipeTypeOK
  <1>2. PICK g \in Seq(Nat), p \in Seq(Nat), b \in Seq(Nat) :
          g = x.got /\ p = pipes[s] /\ b = x.buf
    BY <1>0, <1>1, StreamFields
  <1>3. PICK y : y = [x EXCEPT !.got = Append(g, Head(p))]
    OBVIOUS
  <1>4. /\ y.sent = x.sent /\ y.got = Append(g, Head(p)) /\ y.buf = x.buf /\ y.eof = x.eof
        /\ y.kind = x.kind /\ y.status = x.status /\ y.ret = x.ret
    BY <1>3 DEF StreamState
  <1>5. streams' = [streams EXCEPT ![s] = y]
    BY <1>1, <1>2, <1>3
  <1>6. streams'[s] = y /\ pipes'[s] = Tail(p)
    BY <1>0, <1>1, <1>2, <1>5 DEF PipeTypeOK
  <1>7. Append(g, Head(p)) \o (Tail(p) \o b) = g \o (p \o b)
    <2>1. g \in Seq(Nat) /\ p \in Seq(Nat) /\ b \in Seq(Nat) /\ p # <<>>
      BY <1>2
    <2>2. QED
      BY <2>1, ByteReceived, Zenon
  <1>8. x.sent = g \o (p \o b)
    BY <1>0, <1>1, <1>2 DEF Flow
  <1>9. y.sent = y.got \o (pipes'[s] \o y.buf)
    BY <1>2, <1>4, <1>6, <1>7, <1>8
  <1>10. Flow(s)'
    BY <1>0, <1>1, <1>4, <1>6, <1>9 DEF Flow
  <1>11. Ends(s)'
    BY <1>0, <1>1, <1>4, <1>6 DEF Ends, NoMore
  <1>12. QED
    BY <1>10, <1>11

LEMMA ArrivalWhenChildMoves ==
  ASSUME PipeAssumption, Sound, Arrival, NEW s \in Streams, ChildStep(s) \/ CommandQuits(s)
  PROVE  Flow(s)' /\ Ends(s)'
  <1>0. PipeTypeOK /\ Flow(s) /\ Ends(s) /\ s \in Procs
    BY FdsNumbers DEF Sound, Arrival
  <1>1. /\ call' = call /\ SameStatus(s) /\ StepOf(s)
        /\ streams[s].status # "unused" /\ streams'[s].status # "unused"
    <2>1. call' = call /\ SameStatus(s)
      BY ChildSound
    <2>2. child[s] # "none"
      BY DEF ChildStep, ChildSetup, ChildExec, ChildFails, CommandReads, CommandWrites, CommandQuits
    <2>3. streams[s].status # "unused"
      BY <2>2 DEF Sound, CallFits, Fitting
    <2>4. QED
      BY <2>1, <2>3 DEF StepOf, SameStatus
  <1>2. \A pc \in {"wait", "write", "read"} : In(pc, s)' => In(pc, s)
    BY <1>1 DEF In
  <1>3. ASSUME UNCHANGED <<streams, pipes>>,
               child'[s] # "done" \/ streams[s].kind = "read" \/ NoMore(s)
        PROVE  Flow(s)' /\ Ends(s)'
    <2>1. KeepsBytes(s)
      BY <1>3 DEF KeepsBytes
    <2>2. In("wait", s)' \/ streams'[s].status = "closed" => streams[s].buf = <<>>
      BY <1>0, <1>2, <1>3 DEF Flow
    <2>3. streams'[s].status = "closed" /\ streams'[s].ret = 0 =>
            streams[s].kind = "read" \/ pipes[s] = <<>>
      <3>1. streams[s].kind \in {"read", "write"}
        BY <1>0 DEF PipeTypeOK, StreamState
      <3>2. QED
        BY <1>0, <1>3, <3>1 DEF Ends
    <2>4. /\ In("write", s)' => streams[s].kind = "write"
          /\ In("read", s)' => streams[s].kind = "read"
      BY <1>0, <1>2 DEF Flow
    <2>5. QED
      BY <1>1, <1>3, <2>1, <2>2, <2>3, <2>4, ArrivalKept
  <1>4. CASE ChildSetup(s) \/ ChildExec(s) \/ ChildFails(s) \/ CommandQuits(s)
    <2>1. UNCHANGED <<streams, pipes>> /\ child'[s] # "done"
      BY <1>0, <1>4 DEF ChildSetup, ChildExec, ChildFails, CommandQuits, Exit, PipeTypeOK
    <2>2. QED
      BY <1>3, <2>1
  <1>5. CASE CommandReads(s)
    <2>1. CASE /\ pipes[s] # <<>>
               /\ streams' = [streams EXCEPT ![s].got = Append(@, Head(pipes[s]))]
               /\ pipes' = [pipes EXCEPT ![s] = Tail(@)]
               /\ UNCHANGED child
      <3>1. child'[s] # "done"
        BY <1>5, <2>1 DEF CommandReads
      <3>2. QED
        BY <1>1, <1>2, <2>1, <3>1, ArrivalOfByte
    <2>2. CASE pipes[s] = <<>> /\ ~Held(F("data", s, "w")) /\ UNCHANGED <<streams, pipes>>
      BY <1>3, <2>2 DEF NoMore
    <2>3. QED
      BY <1>5, <2>1, <2>2 DEF CommandReads
  <1>6. CASE CommandWrites(s)
    <2>1. CASE UNCHANGED <<streams, pipes>>
      BY <1>3, <1>6, <2>1 DEF CommandWrites
    <2>2. CASE /\ streams' = [streams EXCEPT ![s].sent = Append(@, NextByte(s))]
               /\ pipes' = [pipes EXCEPT ![s] = Append(@, NextByte(s))]
      <3>1. PICK x \in StreamState : x = streams[s] /\ streams \in [Streams -> StreamState]
        BY <1>0 DEF PipeTypeOK
      <3>2. PICK g \in Seq(Nat), p \in Seq(Nat), b \in Seq(Nat), n \in Nat :
              g = x.got /\ p = pipes[s] /\ b = x.buf /\ n = NextByte(s)
        BY <1>0, <3>1, StreamFields
      <3>3. PICK y : y = [x EXCEPT !.sent = Append(x.sent, n)]
        OBVIOUS
      <3>4. /\ y.sent = Append(x.sent, n) /\ y.got = x.got /\ y.buf = x.buf /\ y.eof = x.eof
            /\ y.kind = x.kind /\ y.status = x.status /\ y.ret = x.ret
        BY <3>3 DEF StreamState
      <3>5. streams' = [streams EXCEPT ![s] = y]
        BY <2>2, <3>1, <3>2, <3>3
      <3>6. streams'[s] = y /\ pipes'[s] = Append(p, n)
        BY <1>0, <2>2, <3>1, <3>2, <3>5 DEF PipeTypeOK
      <3>7. x.kind = "read" /\ b = <<>>
        BY <1>0, <1>6, <3>1, <3>2 DEF CommandWrites, Flow
      <3>8. Append(g \o (p \o b), n) = g \o (Append(p, n) \o b)
        BY <3>7, ByteWritten, Zenon
      <3>9. x.sent = g \o (p \o b)
        BY <1>0, <3>1, <3>2 DEF Flow
      <3>10. y.sent = y.got \o (pipes'[s] \o y.buf)
        BY <3>2, <3>4, <3>6, <3>8, <3>9
      <3>11. Held(F("data", s, "w"))
        <4>1. 1 \in Fds
          BY FdsNumbers DEF Std
        <4>2. files[s][1] = F("data", s, "w")
          BY <1>6 DEF CommandWrites
        <4>3. QED
          BY <1>0, <4>1, <4>2 DEF Held
      <3>12. ~x.eof
        BY <1>0, <3>1, <3>11 DEF Ends, NoMore
      <3>13. Flow(s)'
        BY <1>0, <1>1, <1>2, <3>1, <3>2, <3>4, <3>6, <3>7, <3>10 DEF Flow
      <3>14. Ends(s)'
        BY <3>4, <3>6, <3>7, <3>12 DEF Ends
      <3>15. QED
        BY <3>13, <3>14
    <2>3. QED
      BY <1>6, <2>1, <2>2 DEF CommandWrites
  <1>7. QED
    BY <1>4, <1>5, <1>6 DEF ChildStep

(* The program's own end is there until the call that closes it.             *)
LEMMA OwnEndHeld ==
  ASSUME PipeAssumption, Sound, ProgramTable, NEW s \in Streams, call.pc # "killed",
         streams[s].status = "open", streams[s].kind = "write", ~In("wait", s)
  PROVE  Held(F("data", s, "w"))
  <1>1. Ours(s) = "dataw" /\ "dataw" \in Taken(s)
    BY TakenNumbers DEF Ours
  <1>2. "dataw" \in Holding(s)
    BY <1>1 DEF Holding, Holds
  <1>3. files[Program][streams[s].num["dataw"]] = F("data", s, "w")
    <2>1. files[Program][streams[s].num["dataw"]] = Named(s, "dataw")
      BY <1>2 DEF ProgramTable, HeldRight
    <2>2. QED
      BY <2>1 DEF Named
  <1>4. streams[s].num["dataw"] \in Fds
    BY <1>2, HoldingNumbers
  <1>5. QED
    BY <1>3, <1>4, FdsNumbers DEF Held

LEMMA ArrivalWhenUsed ==
  ASSUME PipeAssumption, Sound, ProgramTable, Arrival, NEW s \in Streams, Reusing(s)
  PROVE  Flow(s)' /\ Ends(s)'
  <1>0. PipeTypeOK /\ Flow(s) /\ Ends(s) /\ StepOf(s)
    BY DEF Sound, Arrival, StepOf
  <1>1. /\ UNCHANGED <<files, errors, child>> /\ SameStatus(s)
        /\ call.pc \in {"idle", "write", "read", "flush"}
        /\ call'.pc \in {"idle", "write", "read", "flush"}
    BY UseSound DEF Reusing
  <1>2. streams[s].status = "open"
    BY DEF Reusing, WriteBuffered, WriteFull, Read, Close, WriteFlushed, Transfer, ReadByte, ReadEnd,
           CanWrite, OpenStreams, Flushing, In, Sound, CallFits, Fitting, UsingPcs
  <1>3. ~In("wait", s) /\ ~In("wait", s)'
    BY <1>1 DEF In
  <1>4. PICK x \in StreamState : x = streams[s] /\ streams \in [Streams -> StreamState]
    BY <1>0 DEF PipeTypeOK
  <1>5. PICK g \in Seq(Nat), p \in Seq(Nat), b \in Seq(Nat), n \in Nat :
          g = x.got /\ p = pipes[s] /\ b = x.buf /\ n = NextByte(s)
    BY <1>0, <1>4, StreamFields
  <1>6. x.sent = g \o (p \o b)
    BY <1>0, <1>4, <1>5 DEF Flow
  <1>7. CASE WriteFull(s) \/ Read(s) \/ Close(s)
    <2>1. KeepsBytes(s) /\ streams' = streams
      BY <1>7 DEF KeepsBytes, WriteFull, Read, Close
    <2>2. /\ In("write", s)' => streams[s].kind = "write"
          /\ In("read", s)' => streams[s].kind = "read"
      BY <1>7 DEF WriteFull, Read, Close, CanWrite, Goto, In
    <2>3. child'[s] # "done" \/ child[s] = "done"
      BY <1>1
    <2>4. /\ streams[s].status # "unused" /\ streams'[s].status # "unused"
          /\ streams'[s].status # "closed"
      BY <1>2, <2>1
    <2>5. QED
      BY <1>0, <1>3, <2>1, <2>2, <2>3, <2>4, ArrivalKept
  <1>8. CASE WriteBuffered(s) \/ WriteFlushed(s)
    <2>1. Buffer(s) /\ pipes' = pipes
      BY <1>8 DEF WriteBuffered, WriteFlushed
    <2>2. x.kind = "write"
      BY <1>0, <1>4, <1>8 DEF WriteBuffered, WriteFlushed, CanWrite, Flow
    <2>3. PICK y : y = [x EXCEPT !.buf = Append(b, n), !.sent = Append(x.sent, n)]
      OBVIOUS
    <2>4. /\ y.sent = Append(x.sent, n) /\ y.got = x.got /\ y.buf = Append(b, n) /\ y.eof = x.eof
          /\ y.kind = x.kind /\ y.status = x.status /\ y.ret = x.ret
      BY <2>3 DEF StreamState
    <2>5. streams' = [streams EXCEPT ![s] = y]
      BY <1>4, <1>5, <2>1, <2>3 DEF Buffer
    <2>6. streams'[s] = y
      BY <1>4, <2>5
    <2>7. y.sent = y.got \o (pipes'[s] \o y.buf)
      <3>1. Append(g \o (p \o b), n) = g \o (p \o Append(b, n))
        <4>1. g \in Seq(Nat) /\ p \in Seq(Nat) /\ b \in Seq(Nat) /\ n \in Nat
          OBVIOUS
        <4>2. ByteKept(g, p, b, n)
          BY <4>1, ByteBuffered, Zenon
        <4>3. QED
          BY <4>2, Zenon DEF ByteKept
      <3>2. QED
        BY <1>5, <1>6, <2>1, <2>4, <3>1
    <2>8. ~In("read", s)'
      BY <1>8 DEF WriteBuffered, WriteFlushed, CanWrite, Idle, Return, In
    <2>9. Flow(s)'
      BY <1>2, <1>3, <1>4, <2>2, <2>4, <2>6, <2>7, <2>8 DEF Flow
    <2>10. Ends(s)'
      BY <1>0, <1>1, <1>2, <1>4, <2>1, <2>2, <2>4, <2>6 DEF Ends, NoMore, Held
    <2>11. QED
      BY <2>9, <2>10
  <1>9. CASE Transfer(s)
    <2>1. b # <<>> /\ x.kind = "write"
      <3>1. b # <<>>
        BY <1>4, <1>5, <1>9 DEF Transfer, Flushing
      <3>2. x.kind # "read" /\ x.kind \in {"read", "write"}
        BY <1>0, <1>4, <1>5, <3>1 DEF Flow, StreamState
      <3>3. QED
        BY <3>1, <3>2
    <2>2. PICK y : y = [x EXCEPT !.buf = Tail(b)]
      OBVIOUS
    <2>3. /\ y.sent = x.sent /\ y.got = x.got /\ y.buf = Tail(b) /\ y.eof = x.eof
          /\ y.kind = x.kind /\ y.status = x.status /\ y.ret = x.ret
      BY <2>2 DEF StreamState
    <2>4. streams' = [streams EXCEPT ![s] = y]
      BY <1>4, <1>5, <1>9, <2>2 DEF Transfer
    <2>5. streams'[s] = y /\ pipes'[s] = Append(p, Head(b))
      BY <1>0, <1>4, <1>5, <1>9, <2>4 DEF Transfer, PipeTypeOK
    <2>6. Append(p, Head(b)) \o Tail(b) = p \o b
      BY <2>1, ByteTransferred, Zenon
    <2>7. y.sent = y.got \o (pipes'[s] \o y.buf)
      BY <1>5, <1>6, <2>3, <2>5, <2>6
    <2>8. child[s] # "done"
      <3>1. Held(F("data", s, "w"))
        BY <1>1, <1>2, <1>3, <1>4, <2>1, OwnEndHeld
      <3>2. QED
        BY <1>0, <1>4, <2>1, <3>1 DEF Ends, NoMore
    <2>9. call' = call
      BY <1>9 DEF Transfer
    <2>10. Flow(s)'
      BY <1>0, <1>2, <1>3, <1>4, <2>1, <2>3, <2>5, <2>7, <2>9 DEF Flow, In
    <2>11. Ends(s)'
      BY <1>0, <1>1, <1>2, <1>4, <2>1, <2>3, <2>5, <2>8 DEF Ends
    <2>12. QED
      BY <2>10, <2>11
  <1>10. CASE ReadByte(s)
    <2>1. /\ streams' = [streams EXCEPT ![s].got = Append(@, Head(pipes[s]))]
          /\ pipes' = [pipes EXCEPT ![s] = Tail(@)]
          /\ pipes[s] # <<>> /\ streams[s].kind = "read"
          /\ \A pc \in {"wait", "write", "read"} : In(pc, s)' => In(pc, s)
      BY <1>0, <1>10 DEF ReadByte, Flow, Return, In
    <2>2. streams[s].status # "unused"
      BY <1>2
    <2>3. QED
      BY <2>1, <2>2, ArrivalOfByte
  <1>11. CASE ReadEnd(s)
    <2>1. x.kind = "read" /\ NoMore(s) /\ pipes' = pipes
      BY <1>0, <1>4, <1>11 DEF ReadEnd, Flow, NoMore
    <2>2. PICK y : y = [x EXCEPT !.eof = TRUE]
      OBVIOUS
    <2>3. /\ y.sent = x.sent /\ y.got = x.got /\ y.buf = x.buf
          /\ y.kind = x.kind /\ y.status = x.status /\ y.ret = x.ret
      BY <2>2 DEF StreamState
    <2>4. streams' = [streams EXCEPT ![s] = y]
      BY <1>4, <1>11, <2>2 DEF ReadEnd
    <2>5. streams'[s] = y
      BY <1>4, <2>4
    <2>6. NoMore(s)'
      BY <1>1, <2>1 DEF NoMore, Held
    <2>7. ~In("write", s)' /\ ~In("read", s)'
      BY <1>11 DEF ReadEnd, Return, In
    <2>8. Flow(s)'
      BY <1>0, <1>2, <1>3, <1>4, <2>1, <2>3, <2>5, <2>7 DEF Flow
    <2>9. Ends(s)'
      BY <2>1, <2>3, <2>5, <2>6 DEF Ends
    <2>10. QED
      BY <2>8, <2>9
  <1>12. QED
    BY <1>7, <1>8, <1>9, <1>10, <1>11 DEF Reusing

LEMMA ArrivalWhenOpened ==
  ASSUME PipeAssumption, Sound, Children, Arrival, NEW s \in Streams, NEW kind \in {"read", "write"},
         NEW quiet \in BOOLEAN, Open(s, kind, quiet) \/ OpenExhausted(s, kind, quiet)
  PROVE  Arrival'
  <1>0. PipeTypeOK /\ StdKept
    BY DEF Sound
  <1>1. /\ call.pc = "idle" /\ streams[s].status = "unused"
        /\ child' = child /\ pipes' = pipes
    BY DEF Open, OpenExhausted, NextToOpen, Idle
  <1>2. PICK x \in StreamState : x = streams[s] /\ streams \in [Streams -> StreamState]
    BY <1>0 DEF PipeTypeOK
  <1>3. PICK y : /\ streams' = [streams EXCEPT ![s] = y]
                 /\ y.sent = x.sent /\ y.got = x.got /\ y.buf = x.buf /\ y.eof = x.eof
                 /\ y.status \in {"opening", "exhausted"}
    <2>1. CASE Open(s, kind, quiet)
      <3>1. PICK num \in [AllNames -> (Fds \ Std) \cup {NoFd}] : TakesNumbers(s, kind, num)
        BY <1>0, <2>1, OpenNumbers
      <3>2. PICK y : y = [x EXCEPT !.status = "opening", !.kind = kind, !.num = num]
        OBVIOUS
      <3>3. streams' = [streams EXCEPT ![s] = y]
        BY <1>2, <3>1, <3>2 DEF TakesNumbers
      <3>4. /\ y.sent = x.sent /\ y.got = x.got /\ y.buf = x.buf /\ y.eof = x.eof
            /\ y.status = "opening"
        BY <3>2 DEF StreamState
      <3>5. QED
        BY <3>3, <3>4
    <2>2. CASE OpenExhausted(s, kind, quiet)
      <3>1. PICK y : y = [x EXCEPT !.status = "exhausted", !.kind = kind]
        OBVIOUS
      <3>2. streams' = [streams EXCEPT ![s] = y]
        BY <1>2, <2>2, <3>1 DEF OpenExhausted
      <3>3. /\ y.sent = x.sent /\ y.got = x.got /\ y.buf = x.buf /\ y.eof = x.eof
            /\ y.status = "exhausted"
        BY <3>1 DEF StreamState
      <3>4. QED
        BY <3>2, <3>3
    <2>3. QED
      BY <2>1, <2>2
  <1>4. streams'[s] = y /\ \A t \in Streams \ {s} : streams'[t] = streams[t]
    BY <1>2, <1>3
  <1>5. call'.pc \in {"idle", "fork"}
    BY <1>1 DEF Open, OpenExhausted, Goto
  <1>6. ASSUME NEW t \in Streams PROVE \A pc \in {"wait", "write", "read"} : ~In(pc, t)'
    BY <1>5 DEF In
  <1>7. Flow(s)'
    BY <1>1, <1>2, <1>3, <1>4, <1>6 DEF Arrival, Flow
  <1>8. Ends(s)'
    <2>1. ~x.eof /\ child[s] = "none"
      BY <1>1, <1>2 DEF Arrival, Flow, Children, ChildOf, ChildBy
    <2>2. QED
      BY <1>1, <1>3, <1>4, <2>1 DEF Ends
  <1>9. ASSUME NEW t \in Streams, t # s PROVE Flow(t)' /\ Ends(t)'
    <2>1. ~Held(F("data", t, "w")) => ~Held(F("data", t, "w"))'
      <3>1. CASE OpenExhausted(s, kind, quiet)
        BY <3>1 DEF OpenExhausted, Held
      <3>2. CASE Open(s, kind, quiet)
        <4>1. PICK num \in [AllNames -> (Fds \ Std) \cup {NoFd}] : TakesNumbers(s, kind, num)
          BY <1>0, <3>2, OpenNumbers
        <4>2. \A p \in Procs \ {Program} : files'[p] = files[p]
          BY <1>0, <4>1 DEF TakesNumbers, PipeTypeOK
        <4>3. ASSUME NEW fd \in Fds, files'[Program][fd] = F("data", t, "w")
              PROVE  files[Program][fd] = F("data", t, "w")
          <5>1. files'[Program][fd] = IF \E n \in AllNames : num[n] = fd /\ num[n] # NoFd
                                      THEN Named(s, CHOOSE n \in AllNames : num[n] = fd)
                                      ELSE files[Program][fd]
            BY <4>1 DEF TakesNumbers
          <5>2. CASE \E n \in AllNames : num[n] = fd /\ num[n] # NoFd
            <6>1. PICK m \in AllNames : m = CHOOSE n \in AllNames : num[n] = fd
              BY <5>2
            <6>2. Named(s, m).stream = s
              BY NamedFiles
            <6>3. files'[Program][fd].stream = t
              BY <4>3 DEF F
            <6>4. QED
              BY <1>9, <5>1, <5>2, <6>1, <6>2, <6>3
          <5>3. QED
            BY <4>3, <5>1, <5>2
        <4>4. QED
          BY <4>2, <4>3, FdsNumbers DEF Held
      <3>3. QED
        BY <3>1, <3>2
    <2>2. streams'[t] = streams[t]
      BY <1>4, <1>9
    <2>3. QED
      BY <1>1, <1>6, <2>1, <2>2, FlowStays, EndsStay DEF Arrival
  <1>10. QED
    BY <1>7, <1>8, <1>9 DEF Arrival

LEMMA ArrivalNext ==
  ASSUME PipeAssumption, Sound, ProgramTable, Children, Arrival, [PipeNext]_pipeVars
  PROVE  Arrival'
  <1>1. CASE UNCHANGED pipeVars
    BY <1>1 DEF pipeVars, Arrival, Flow, Ends, NoMore, In, Held
  <1>2. ASSUME NEW s \in Streams, StepOf(s) PROVE Arrival'
    <2>1. Flow(s)' /\ Ends(s)'
      BY <1>2, ArrivalWhenUsed, ArrivalWhenCalled, ArrivalWhenChildMoves DEF StepOf
    <2>2. \A t \in Streams : t # s => Flow(t)' /\ Ends(t)'
      BY <1>2, ArrivalElsewhere
    <2>3. QED
      BY <2>1, <2>2 DEF Arrival
  <1>3. ASSUME NEW s \in Streams, NEW kind \in {"read", "write"}, NEW quiet \in BOOLEAN,
               Open(s, kind, quiet) \/ OpenExhausted(s, kind, quiet)
        PROVE  Arrival'
    BY <1>3, ArrivalWhenOpened
  <1>4. QED
    BY <1>1, <1>2, <1>3 DEF PipeNext, ClientStep, CallStep, StepOf, Reusing, Calling

(* Bytes arrive in order, and an end that is met is the end of all of them:  *)
(* a close that returns 0 means that the command has got everything, and a   *)
(* reader that met the end of a stream has got everything that was written.  *)
THEOREM BytesAreDelivered == PipeSpec => []Delivered
  <1>. USE PipeConstants
  <1>1. PipeInit => Sound /\ ProgramTable /\ Children /\ Arrival
    <2>1. ASSUME PipeInit PROVE Children
      BY <2>1 DEF PipeInit, Children, ChildOf, ChildBy, Unused
    <2>2. ASSUME PipeInit PROVE Arrival
      <3>1. \A s \in Streams : /\ streams[s] = Unused /\ pipes[s] = <<>> /\ child[s] = "none"
                               /\ call.pc = "idle"
        BY <2>2 DEF PipeInit
      <3>2. <<>> \in Seq(Nat)
        OBVIOUS
      <3>3. <<>> \o (<<>> \o <<>>) = <<>>
        BY <3>2, AllReceived
      <3>4. ASSUME NEW s \in Streams PROVE Flow(s) /\ Ends(s)
        <4>1. /\ streams[s].sent = <<>> /\ streams[s].got = <<>> /\ streams[s].buf = <<>>
              /\ streams[s].status = "unused" /\ ~streams[s].eof /\ pipes[s] = <<>>
              /\ child[s] = "none" /\ call.pc = "idle"
          BY <3>1 DEF Unused
        <4>2. streams[s].sent = streams[s].got \o (pipes[s] \o streams[s].buf)
          BY <3>3, <4>1
        <4>3. \A pc \in {"write", "read"} : ~In(pc, s)
          BY <4>1 DEF In
        <4>4. QED
          BY <4>1, <4>2, <4>3 DEF Flow, Ends
      <3>5. QED
        BY <3>4 DEF Arrival
    <2>3. QED
      BY <2>1, <2>2, SoundInit, TableInit
  <1>2. (Sound /\ ProgramTable /\ Children /\ Arrival) /\ [PipeNext]_pipeVars
          => (Sound /\ ProgramTable /\ Children /\ Arrival)'
    BY SoundNext, TableNext, ChildrenNext, ArrivalNext
  <1>3. Sound /\ Arrival => Delivered
    <2>1. SUFFICES ASSUME Sound, Arrival, NEW s \in Streams
                   PROVE  /\ IsPrefix(streams[s].got, streams[s].sent)
                          /\ streams[s].kind = "write" /\ streams[s].status = "closed"
                               /\ streams[s].ret = 0 => streams[s].got = streams[s].sent
                          /\ streams[s].eof => streams[s].got = streams[s].sent
      BY DEF Delivered
    <2>2. PICK g \in Seq(Nat), p \in Seq(Nat), b \in Seq(Nat) :
            g = streams[s].got /\ p = pipes[s] /\ b = streams[s].buf
      BY <2>1, StreamFields DEF Sound
    <2>3. streams[s].sent = g \o (p \o b)
      BY <2>1, <2>2 DEF Arrival, Flow
    <2>4. IsPrefix(g, streams[s].sent)
      <3>1. p \o b \in Seq(Nat)
        OBVIOUS
      <3>2. QED
        BY <2>3, <3>1, PrefixOf
    <2>5. p = <<>> /\ b = <<>> => g = streams[s].sent
      BY <2>3, AllReceived
    <2>6. /\ streams[s].kind = "write" /\ streams[s].status = "closed" /\ streams[s].ret = 0
               => p = <<>> /\ b = <<>>
          /\ streams[s].eof => p = <<>> /\ b = <<>>
      BY <2>1, <2>2 DEF Arrival, Flow, Ends, NoMore
    <2>7. QED
      BY <2>2, <2>4, <2>5, <2>6
  <1>4. QED
    BY <1>1, <1>2, <1>3, PTL DEF PipeSpec
=============================================================================
