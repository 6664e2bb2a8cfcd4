----------------------------- MODULE LogTeeProofs -----------------------------
(***************************************************************************)
(* Theorems about LogTee, for every size of the pipe, every number of lines *)
(* and a disk that fills up or does not.  They need no fairness.            *)
(***************************************************************************)
EXTENDS LogTee, SequenceTheorems, TLAPS

-----------------------------------------------------------------------------
(* The inductive invariant.                                                 *)

\* Every line that is somewhere was written by now.
Written(s) == \A i \in DOMAIN s : s[i].number <= Len(wrote)

\* A line of the library is in one place, and moves from one to the next
\* behind the lines written before it: the writer, the pipe, the goroutine's
\* buffer, the file.
Stream ==
    /\ Before(file, buf) /\ Before(file, pipe) /\ Before(file, pending)
    /\ Before(buf, pipe) /\ Before(buf, pending) /\ Before(pipe, pending)
    /\ InOrder(file) /\ InOrder(buf) /\ InOrder(pipe) /\ InOrder(pending)

\* A line of the publisher is in the file, or was refused, once it is written.
OwnLinesLogged ==
    \A line \in Members(wrote) :
        line.kind = "own" => line \in Members(file) \cup refused

TeeInvariant ==
    /\ TypeOK /\ Stream /\ OwnLinesLogged
    /\ Written(file) /\ Written(buf) /\ Written(pipe) /\ Written(pending)

-----------------------------------------------------------------------------
(* Cutting and joining.                                                     *)

\* What follows both parts follows their concatenation, and so on.
LEMMA JoinBefore ==
    ASSUME NEW s \in Seq(Line), NEW t \in Seq(Line), NEW u \in Seq(Line),
           Before(s, u), Before(t, u)
    PROVE  Before(s \o t, u)
BY ConcatProperties DEF Before

LEMMA BeforeJoin ==
    ASSUME NEW s \in Seq(Line), NEW t \in Seq(Line), NEW u \in Seq(Line),
           Before(u, s), Before(u, t)
    PROVE  Before(u, s \o t)
BY ConcatProperties DEF Before

LEMMA JoinInOrder ==
    ASSUME NEW s \in Seq(Line), NEW t \in Seq(Line),
           InOrder(s), InOrder(t), Before(s, t)
    PROVE  InOrder(s \o t)
<1> DEFINE u == s \o t
<1>1. /\ u \in Seq(Line) /\ Len(u) = Len(s) + Len(t)
      /\ \A i \in 1..Len(s) + Len(t) :
            u[i] = IF i <= Len(s) THEN s[i] ELSE t[i - Len(s)]
  BY ConcatProperties
<1> HIDE DEF u
<1> SUFFICES ASSUME NEW i \in DOMAIN u, NEW j \in DOMAIN u, i < j,
                    IsLibrary(u[i]), IsLibrary(u[j])
             PROVE  u[i].number < u[j].number
  BY DEF InOrder, u
<1>2. i \in 1..Len(s) + Len(t) /\ j \in 1..Len(s) + Len(t)
  BY <1>1
<1>3. CASE j <= Len(s)
  <2>1. i \in DOMAIN s /\ j \in DOMAIN s /\ u[i] = s[i] /\ u[j] = s[j]
    BY <1>1, <1>2, <1>3
  <2> QED BY <2>1 DEF InOrder
<1>4. CASE i > Len(s)
  <2>1. /\ i - Len(s) \in DOMAIN t /\ j - Len(s) \in DOMAIN t
        /\ u[i] = t[i - Len(s)] /\ u[j] = t[j - Len(s)]
        /\ i - Len(s) < j - Len(s)
    BY <1>1, <1>2, <1>4
  <2> QED BY <2>1 DEF InOrder
<1>5. CASE i <= Len(s) /\ j > Len(s)
  <2>1. i \in DOMAIN s /\ j - Len(s) \in DOMAIN t
        /\ u[i] = s[i] /\ u[j] = t[j - Len(s)]
    BY <1>1, <1>2, <1>5
  <2> QED BY <2>1 DEF Before
<1> QED BY <1>2, <1>3, <1>4, <1>5

LEMMA JoinWritten ==
    ASSUME NEW s \in Seq(Line), NEW t \in Seq(Line), Written(s), Written(t)
    PROVE  Written(s \o t)
BY ConcatProperties DEF Written

\* The lines of a concatenation are those of its parts.
LEMMA JoinMembers ==
    ASSUME NEW s \in Seq(Line), NEW t \in Seq(Line)
    PROVE  Members(s \o t) = Members(s) \cup Members(t)
<1> DEFINE u == s \o t
<1>1. /\ u \in Seq(Line) /\ Len(u) = Len(s) + Len(t)
      /\ \A i \in 1..Len(s) + Len(t) :
            u[i] = IF i <= Len(s) THEN s[i] ELSE t[i - Len(s)]
  BY ConcatProperties
<1> HIDE DEF u
<1>2. /\ DOMAIN s = 1..Len(s) /\ Len(s) \in Nat
      /\ DOMAIN t = 1..Len(t) /\ Len(t) \in Nat
      /\ DOMAIN u = 1..Len(s) + Len(t)
  BY <1>1
<1>3. ASSUME NEW i \in 1..Len(s) + Len(t)
      PROVE  u[i] \in Members(s) \cup Members(t)
  <2>1. CASE i <= Len(s)
    <3>1. i \in 1..Len(s) /\ u[i] = s[i]
      BY <1>1, <1>2, <2>1
    <3> QED BY <1>2, <3>1 DEF Members
  <2>2. CASE i > Len(s)
    <3>1. i - Len(s) \in 1..Len(t) /\ u[i] = t[i - Len(s)]
      BY <1>1, <1>2, <2>2
    <3> QED BY <1>2, <3>1 DEF Members
  <2> QED BY <1>2, <2>1, <2>2
<1>4. ASSUME NEW i \in 1..Len(s)
      PROVE  s[i] \in Members(u)
  <2>1. i \in 1..Len(s) + Len(t) /\ u[i] = s[i]
    BY <1>1, <1>2
  <2> QED BY <1>2, <2>1 DEF Members
<1>5. ASSUME NEW i \in 1..Len(t)
      PROVE  t[i] \in Members(u)
  <2>1. i + Len(s) \in 1..Len(s) + Len(t) /\ u[i + Len(s)] = t[i]
    <3>1. i + Len(s) \in 1..Len(s) + Len(t) /\ ~ i + Len(s) <= Len(s)
      BY <1>2
    <3>2. i + Len(s) - Len(s) = i
      BY <1>2
    <3> QED BY <1>1, <3>1, <3>2
  <2> QED BY <1>2, <2>1 DEF Members
<1>6. Members(u) = Members(s) \cup Members(t)
  BY <1>2, <1>3, <1>4, <1>5, Zenon DEF Members
<1> QED BY <1>6 DEF u

\* A chunk that is read off the front of the pipe, and what it leaves.
LEMMA Cut ==
    ASSUME NEW s \in Seq(Line), NEW n \in 1..Len(s)
    PROVE  /\ SubSeq(s, 1, n) \in Seq(Line) /\ Len(SubSeq(s, 1, n)) = n
           /\ \A i \in 1..n : SubSeq(s, 1, n)[i] = s[i]
           /\ SubSeq(s, n + 1, Len(s)) \in Seq(Line)
           /\ Len(SubSeq(s, n + 1, Len(s))) = Len(s) - n
           /\ \A i \in 1..Len(s) - n : SubSeq(s, n + 1, Len(s))[i] = s[n + i]
<1>1. \A i \in 1..Len(s) : s[i] \in Line
  OBVIOUS
<1>2. 1 \in Int /\ n \in Int /\ n + 1 \in Int /\ Len(s) \in Int /\ n <= Len(s)
  OBVIOUS
<1>3. /\ SubSeq(s, 1, n) \in Seq(Line)
      /\ Len(SubSeq(s, 1, n)) = IF 1 <= n THEN n - 1 + 1 ELSE 0
      /\ \A i \in 1..n - 1 + 1 : SubSeq(s, 1, n)[i] = s[1 + i - 1]
  <2>1. \A i \in 1..n : s[i] \in Line
    BY <1>1
  <2> QED BY <1>2, <2>1, SubSeqProperties
<1>4. /\ SubSeq(s, n + 1, Len(s)) \in Seq(Line)
      /\ Len(SubSeq(s, n + 1, Len(s))) =
            IF n + 1 <= Len(s) THEN Len(s) - (n + 1) + 1 ELSE 0
      /\ \A i \in 1..Len(s) - (n + 1) + 1 :
            SubSeq(s, n + 1, Len(s))[i] = s[n + 1 + i - 1]
  <2>1. \A i \in n + 1..Len(s) : s[i] \in Line
    BY <1>1
  <2> QED BY <1>2, <2>1, SubSeqProperties
<1> QED BY <1>2, <1>3, <1>4

\* front is the first n lines of s, and back is the rest.
Parts(s, n, front, back) ==
    /\ \A i \in DOMAIN front : i \in DOMAIN s /\ front[i] = s[i] /\ i <= n
    /\ \A i \in DOMAIN back : n + i \in DOMAIN s /\ back[i] = s[n + i]

\* Both parts of a sequence in order are in order, one after the other, and
\* before what the whole is before.
LEMMA PartsInOrder ==
    ASSUME NEW s \in Seq(Line), NEW n \in Nat, InOrder(s),
           NEW front \in Seq(Line), NEW back \in Seq(Line),
           Parts(s, n, front, back)
    PROVE  /\ InOrder(front) /\ InOrder(back) /\ Before(front, back)
           /\ Written(s) => Written(front) /\ Written(back)
           /\ \A u \in Seq(Line) :
                 /\ Before(s, u) => Before(front, u) /\ Before(back, u)
                 /\ Before(u, s) => Before(u, front) /\ Before(u, back)
<1>1. /\ \A i \in DOMAIN front : i \in Nat
      /\ \A i \in DOMAIN back : i \in Nat /\ i >= 1
  OBVIOUS
<1>2. InOrder(front)
  BY DEF InOrder, Parts
<1>3. InOrder(back)
  <2>1. \A i, j \in DOMAIN back : i < j => n + i < n + j
    BY <1>1 DEF Parts
  <2> QED BY <2>1 DEF InOrder, Parts
<1>4. Before(front, back)
  <2>1. \A i \in DOMAIN front, j \in DOMAIN back : i < n + j
    BY <1>1 DEF Parts
  <2> QED BY <2>1 DEF InOrder, Before, Parts
<1>5. Written(s) => Written(front) /\ Written(back)
  BY DEF Written, Parts
<1>6. \A u \in Seq(Line) :
        /\ Before(s, u) => Before(front, u) /\ Before(back, u)
        /\ Before(u, s) => Before(u, front) /\ Before(u, back)
  BY DEF Before, Parts
<1> QED BY <1>2, <1>3, <1>4, <1>5, <1>6

-----------------------------------------------------------------------------
(* The invariant is inductive.                                              *)

\* What a write to the log file does to it, whether it takes the lines or not.
LEMMA AppendKeeps ==
    ASSUME NEW lines \in Seq(Line), AppendToFile(lines),
           file \in Seq(Line), refused \subseteq Line,
           Written(file), Written(lines),
           InOrder(file), InOrder(lines), Before(file, lines)
    PROVE  /\ file' \in Seq(Line) /\ refused' \subseteq Line
           /\ Written(file') /\ InOrder(file')
           /\ Members(file) \cup Members(lines) \cup refused
                 \subseteq Members(file') \cup refused'
           /\ Members(file') \cup refused' \subseteq
                 Members(file) \cup Members(lines) \cup refused
           /\ \A u \in Seq(Line) :
                 Before(file, u) /\ Before(lines, u) => Before(file', u)
<1>1. Members(lines) \subseteq Line
  BY DEF Members
<1>2. CASE file' = file \o lines /\ refused' = refused
  BY <1>2, JoinMembers, JoinWritten, JoinInOrder, JoinBefore
<1>3. CASE file' = file /\ refused' = refused \cup Members(lines)
  BY <1>1, <1>3
<1> QED BY <1>2, <1>3 DEF AppendToFile

LEMMA InitTee == Init => TeeInvariant
<1> SUFFICES ASSUME Init PROVE TeeInvariant
  OBVIOUS
<1>1. <<>> \in Seq(Line) /\ DOMAIN <<>> = {} /\ Len(<<>>) = 0
  OBVIOUS
<1>2. TypeOK
  BY <1>1, LogAssumption DEF Init, TypeOK, AfterClosing
<1> QED BY <1>1, <1>2 DEF Init, TeeInvariant, Stream, Before, InOrder,
                          OwnLinesLogged, Members, Written

LEMMA TeeStep == TeeInvariant /\ [Next]_vars => TeeInvariant'
<1> SUFFICES ASSUME TeeInvariant, [Next]_vars
             PROVE  TeeInvariant'
  OBVIOUS
<1> USE LogAssumption
<1>1. /\ TypeOK /\ Stream /\ OwnLinesLogged
      /\ wrote \in Seq(Line) /\ pending \in Seq(Line) /\ pipe \in Seq(Line)
      /\ buf \in Seq(Line) /\ file \in Seq(Line) /\ terminal \in Seq(Line)
      /\ refused \subseteq Line /\ Len(wrote) \in Nat
  BY DEF TeeInvariant, TypeOK
<1>2. ASSUME WriteLine PROVE TeeInvariant'
  <2>1. /\ Len(wrote) < MaxLines /\ Len(wrote) + 1 \in 1..MaxLines
        /\ UNCHANGED <<mirror, pc, pipe, drain, buf, disk, terminal>>
    BY <1>1, <1>2 DEF WriteLine, OwnLine, LibraryLine, outputs
  <2>2. PICK kind \in Kinds :
           LET line == [number |-> Len(wrote) + 1, kind |-> kind]
           IN  /\ wrote' = Append(wrote, line)
               /\ \/ kind = "own" /\ OwnLine(line)
                  \/ kind = "library" /\ LibraryLine(line)
    BY <1>2 DEF WriteLine
  <2> DEFINE line == [number |-> Len(wrote) + 1, kind |-> kind]
  <2>3. line \in Line /\ line.number = Len(wrote) + 1 /\ line.kind = kind
    BY <2>1 DEF Line
  <2>4. /\ wrote' = Append(wrote, line)
        /\ \/ kind = "own" /\ OwnLine(line)
           \/ kind = "library" /\ LibraryLine(line)
    BY <2>2
  <2> HIDE DEF line
  <2>5. /\ wrote' \in Seq(Line) /\ Len(wrote') = Len(wrote) + 1
        /\ Members(wrote') \subseteq Members(wrote) \cup {line}
    <3>1. /\ wrote' \in Seq(Line) /\ Len(wrote') = Len(wrote) + 1
          /\ DOMAIN wrote' = 1..Len(wrote) + 1 /\ DOMAIN wrote = 1..Len(wrote)
          /\ \A i \in 1..Len(wrote) : wrote'[i] = wrote[i]
          /\ wrote'[Len(wrote) + 1] = line
      BY <1>1, <2>3, <2>4
    <3>2. \A i \in 1..Len(wrote) + 1 :
            i \in 1..Len(wrote) \/ i = Len(wrote) + 1
      BY <1>1
    <3> QED BY <3>1, <3>2 DEF Members
  <2>6. ASSUME NEW s, Written(s), s \in Seq(Line)
        PROVE  /\ \A i \in DOMAIN s : s[i].number <= Len(wrote')
               /\ \A i \in DOMAIN s : s[i].number < Len(wrote')
    <3>1. \A i \in DOMAIN s : s[i] \in Line
      BY <2>6
    <3>2. \A i \in DOMAIN s : s[i].number \in Nat
      BY <3>1 DEF Line
    <3> QED BY <1>1, <2>5, <2>6, <3>2 DEF Written
  <2>7. /\ <<line>> \in Seq(Line) /\ Len(<<line>>) = 1
        /\ DOMAIN <<line>> = {1} /\ <<line>>[1] = line
        /\ Members(<<line>>) = {line}
    BY <2>3 DEF Members
  <2>8. /\ Before(<<>>, <<>>) /\ InOrder(<<>>) /\ InOrder(<<line>>)
        /\ <<>> \in Seq(Line) /\ Len(<<>>) = 0 /\ DOMAIN <<>> = {}
    BY <2>7 DEF Before, InOrder
  <2>9. CASE kind = "own" /\ OwnLine(line)
    <3>1. /\ AppendToFile(<<line>>) /\ ~IsLibrary(line)
          /\ ~IsLibrary([line EXCEPT !.kind = "notice"])
      BY <2>3, <2>9 DEF OwnLine, IsLibrary, Line
    <3>2. /\ \A s \in Seq(Line) : Before(s, <<line>>) /\ Before(<<line>>, s)
          /\ \A i \in DOMAIN <<line>> : <<line>>[i].number <= Len(wrote')
      BY <1>1, <2>3, <2>5, <2>7, <3>1 DEF Before
    <3>3. /\ file' \in Seq(Line) /\ refused' \subseteq Line /\ InOrder(file')
          /\ Members(file) \cup {line} \cup refused
                \subseteq Members(file') \cup refused'
          /\ \A u \in Seq(Line) : Before(file, u) => Before(file', u)
          /\ \A i \in DOMAIN file' : file'[i].number <= Len(wrote')
      <4>1. CASE file' = file \o <<line>> /\ refused' = refused
        <5>1. file' \in Seq(Line) /\ InOrder(file')
          <6>1. InOrder(file) /\ Before(file, <<line>>)
            BY <1>1, <3>2 DEF Stream
          <6>2. file \o <<line>> \in Seq(Line)
            BY <1>1, <2>7, ConcatProperties, Zenon
          <6> QED BY <1>1, <2>7, <2>8, <4>1, <6>1, <6>2, JoinInOrder, Zenon
        <5>2. Members(file') = Members(file) \cup {line}
          <6>1. Members(file \o <<line>>) = Members(file) \cup Members(<<line>>)
            BY <1>1, <2>7, JoinMembers, Zenon
          <6> QED BY <2>7, <4>1, <6>1, Zenon
        <5>3. \A u \in Seq(Line) : Before(file, u) => Before(file', u)
          BY <1>1, <2>7, <3>2, <4>1, JoinBefore
        <5>4. \A l \in Members(file) \cup {line} : l.number <= Len(wrote')
          BY <1>1, <2>3, <2>5, <2>6 DEF Members, TeeInvariant
        <5>5. \A i \in DOMAIN file' : file'[i] \in Members(file')
          BY DEF Members
        <5>6. \A i \in DOMAIN file' : file'[i].number <= Len(wrote')
          BY <5>2, <5>4, <5>5, Zenon
        <5>7. refused' \subseteq Line
          BY <1>1, <4>1
        <5> QED BY <4>1, <5>1, <5>2, <5>3, <5>6, <5>7
      <4>2. CASE file' = file /\ refused' = refused \cup {line}
        BY <1>1, <2>3, <2>6, <4>2 DEF Stream, TeeInvariant
      <4> QED BY <2>7, <3>1, <4>1, <4>2 DEF AppendToFile
    <3>4. /\ pending' \in Seq(Line) /\ Len(pending') <= 1 /\ InOrder(pending')
          /\ \A u \in Seq(Line) : Before(u, pending')
          /\ \A i \in DOMAIN pending' : pending'[i].number <= Len(wrote')
      <4>1. CASE pending' = <<line>>
        BY <2>7, <2>8, <3>2, <4>1
      <4>2. CASE pending' = <<>>
        BY <2>8, <4>2 DEF Before
      <4>3. CASE pending' = <<[line EXCEPT !.kind = "notice"]>>
        <5> DEFINE notice == [line EXCEPT !.kind = "notice"]
        <5>1. /\ notice \in Line /\ notice.number = line.number
              /\ ~IsLibrary(notice)
          BY <2>3, <3>1 DEF Line
        <5> HIDE DEF notice
        <5>2. /\ <<notice>> \in Seq(Line) /\ Len(<<notice>>) = 1
              /\ DOMAIN <<notice>> = {1} /\ <<notice>>[1] = notice
          BY <5>1
        <5>3. pending' = <<notice>>
          BY <4>3 DEF notice
        <5> QED BY <1>1, <2>3, <2>5, <5>1, <5>2, <5>3 DEF Before, InOrder
      <4> QED BY <2>9, <4>1, <4>2, <4>3 DEF OwnLine
    <3>5. TypeOK'
      BY <1>1, <2>1, <2>5, <3>3, <3>4 DEF TypeOK
    <3>6. Stream'
      BY <1>1, <2>1, <3>3, <3>4 DEF Stream
    <3>7. OwnLinesLogged'
      BY <1>1, <2>5, <3>3 DEF OwnLinesLogged
    <3>8. Written(buf)' /\ Written(pipe)'
      BY <1>1, <2>1, <2>6 DEF TeeInvariant, Written
    <3>9. Written(file)' /\ Written(pending)'
      BY <3>3, <3>4 DEF Written
    <3> QED BY <3>5, <3>6, <3>7, <3>8, <3>9 DEF TeeInvariant
  <2>10. CASE kind = "library" /\ LibraryLine(line)
    <3>1. pending' = <<line>> /\ UNCHANGED <<file, refused>>
      BY <2>10 DEF LibraryLine, outputs
    <3>2. ASSUME NEW s \in Seq(Line), Written(s) PROVE Before(s, <<line>>)
      BY <2>3, <2>5, <2>6, <2>7, <3>2 DEF Before
    <3>3. TypeOK'
      BY <1>1, <2>1, <2>5, <2>7, <3>1 DEF TypeOK
    <3>4. Stream'
      <4>1. /\ Before(file, <<line>>) /\ Before(buf, <<line>>)
            /\ Before(pipe, <<line>>)
        BY <1>1, <3>2 DEF TeeInvariant
      <4> QED BY <1>1, <2>1, <2>8, <3>1, <4>1 DEF Stream
    <3>5. OwnLinesLogged'
      BY <1>1, <2>3, <2>5, <2>10, <3>1 DEF OwnLinesLogged
    <3>6. Written(buf)' /\ Written(pipe)' /\ Written(file)'
      BY <1>1, <2>1, <2>6, <3>1 DEF TeeInvariant, Written
    <3>7. Written(pending)'
      BY <1>1, <2>3, <2>5, <2>7, <3>1 DEF Written
    <3> QED BY <3>3, <3>4, <3>5, <3>6, <3>7 DEF TeeInvariant
  <2> QED BY <2>4, <2>9, <2>10
<1>3. ASSUME WritePipe PROVE TeeInvariant'
  <2>1. /\ pipe' = pipe \o pending /\ pending' = <<>> /\ Len(pipe) < PipeSize
        /\ UNCHANGED <<mirror, pc, wrote, drain, buf, file, terminal, refused,
                       disk>>
    BY <1>3 DEF WritePipe, outputs
  <2>2. /\ pipe' \in Seq(Line) /\ Len(pipe') <= PipeSize
        /\ pending' \in Seq(Line) /\ Len(pending') = 0
        /\ DOMAIN pending' = {}
    BY <1>1, <2>1 DEF TypeOK
  <2>3. TypeOK'
    BY <1>1, <2>1, <2>2 DEF TypeOK
  <2>4. Stream'
    <3>1. /\ InOrder(pipe') /\ Before(file, pipe') /\ Before(buf, pipe')
      BY <1>1, <2>1, JoinInOrder, BeforeJoin DEF Stream
    <3> QED BY <1>1, <2>1, <2>2, <3>1 DEF Stream, Before, InOrder
  <2>5. OwnLinesLogged'
    BY <1>1, <2>1 DEF OwnLinesLogged
  <2>6. Written(pipe)' /\ Written(pending)' /\ Written(file)' /\ Written(buf)'
    <3>1. Written(pipe \o pending)
      BY <1>1, JoinWritten DEF TeeInvariant
    <3> QED BY <2>1, <2>2, <3>1 DEF TeeInvariant, Written
  <2> QED BY <2>3, <2>4, <2>5, <2>6 DEF TeeInvariant
<1>4. ASSUME Close PROVE TeeInvariant'
  <2>1. /\ pipe' \in {pipe, <<>>}
        /\ pc \in DOMAIN AfterClosing /\ pc' = AfterClosing[pc]
        /\ UNCHANGED <<mirror, wrote, pending, drain, buf, file, terminal,
                       refused, disk>>
    BY <1>4 DEF Close, outputs
  <2>2. pc' \in DOMAIN AfterClosing \cup {"exited"}
    BY <2>1 DEF AfterClosing
  <2>3. /\ <<>> \in Seq(Line) /\ Len(<<>>) = 0 /\ DOMAIN <<>> = {}
    OBVIOUS
  <2>4. TypeOK'
    <3>1. /\ pipe' \in Seq(Line) /\ Len(pipe') <= PipeSize
      <4>1. CASE pipe' = pipe
        BY <1>1, <4>1 DEF TypeOK
      <4>2. CASE pipe' = <<>>
        BY <2>3, <4>2
      <4> QED BY <2>1, <4>1, <4>2
    <3> QED BY <1>1, <2>1, <2>2, <3>1 DEF TypeOK
  <2>5. Stream'
    BY <1>1, <2>1, <2>3 DEF Stream, Before, InOrder
  <2> QED BY <1>1, <2>1, <2>3, <2>4, <2>5
          DEF TeeInvariant, OwnLinesLogged, Written
<1>5. ASSUME Read PROVE TeeInvariant'
  <2>1. drain = "read" /\ UNCHANGED <<mirror, pc, wrote, pending, file,
                                      terminal, refused, disk>>
    BY <1>5 DEF Read, outputs
  <2>2. CASE drain' = "ended" /\ UNCHANGED <<buf, pipe>>
    BY <1>1, <2>1, <2>2 DEF TeeInvariant, TypeOK, Stream, OwnLinesLogged,
                            Written
  <2>3. ASSUME NEW n \in 1..Len(pipe), buf' = SubSeq(pipe, 1, n),
               pipe' = SubSeq(pipe, n + 1, Len(pipe)), drain' = "write"
        PROVE  TeeInvariant'
    <3>1. /\ buf' \in Seq(Line) /\ Len(buf') = n
          /\ pipe' \in Seq(Line) /\ Len(pipe') = Len(pipe) - n
          /\ \A i \in 1..n : buf'[i] = pipe[i]
          /\ \A i \in 1..Len(pipe) - n : pipe'[i] = pipe[n + i]
      BY <1>1, <2>3, Cut
    <3>a. /\ DOMAIN pipe = 1..Len(pipe) /\ Len(pipe) \in Nat
          /\ DOMAIN buf' = 1..n /\ DOMAIN pipe' = 1..Len(pipe) - n
      BY <1>1, <3>1
    <3>2. /\ n \in Nat /\ InOrder(pipe)
          /\ \A i \in DOMAIN buf' :
                i \in DOMAIN pipe /\ buf'[i] = pipe[i] /\ i <= n
      BY <1>1, <3>1, <3>a DEF Stream
    <3>3. \A i \in DOMAIN pipe' :
            n + i \in DOMAIN pipe /\ pipe'[i] = pipe[n + i]
      <4>1. \A i \in 1..Len(pipe) - n : n + i \in 1..Len(pipe)
        BY <3>a
      <4> QED BY <3>1, <3>a, <4>1
    <3>4. /\ InOrder(buf') /\ InOrder(pipe') /\ Before(buf', pipe')
          /\ Written(pipe) => Written(buf') /\ Written(pipe')
          /\ \A u \in Seq(Line) :
                /\ Before(pipe, u) => Before(buf', u) /\ Before(pipe', u)
                /\ Before(u, pipe) => Before(u, buf') /\ Before(u, pipe')
      <4>1. Parts(pipe, n, buf', pipe')
        BY <3>2, <3>3 DEF Parts
      <4> QED BY <1>1, <3>1, <3>2, <4>1, PartsInOrder
    <3>5. buf' # <<>>
      BY <3>1
    <3>6. TypeOK'
      <4>1. Len(pipe') <= PipeSize
        BY <1>1, <3>1, <3>a DEF TypeOK
      <4> QED BY <1>1, <2>1, <2>3, <3>1, <3>5, <4>1 DEF TypeOK
    <3>7. Stream'
      BY <1>1, <2>1, <3>4 DEF Stream
    <3> QED BY <1>1, <2>1, <3>4, <3>6, <3>7
            DEF TeeInvariant, OwnLinesLogged, Written
  <2> QED BY <1>5, <2>2, <2>3 DEF Read
<1>6. ASSUME Write PROVE TeeInvariant'
  <2>1. /\ drain = "write" /\ drain' = "read" /\ buf' = <<>>
        /\ AppendToFile(buf)
        /\ terminal' = IF mirror THEN terminal \o buf ELSE terminal
        /\ UNCHANGED <<mirror, pc, wrote, pending, pipe, disk>>
    BY <1>6 DEF Write
  <2>2. /\ file' \in Seq(Line) /\ refused' \subseteq Line
        /\ Written(file') /\ InOrder(file')
        /\ Members(file) \cup Members(buf) \cup refused
              \subseteq Members(file') \cup refused'
        /\ \A u \in Seq(Line) :
              Before(file, u) /\ Before(buf, u) => Before(file', u)
    BY <1>1, <2>1, AppendKeeps DEF TeeInvariant, Stream
  <2>3. /\ <<>> \in Seq(Line) /\ Len(<<>>) = 0 /\ DOMAIN <<>> = {}
        /\ terminal' \in Seq(Line)
    BY <1>1, <2>1, ConcatProperties
  <2>4. TypeOK'
    BY <1>1, <2>1, <2>2, <2>3 DEF TypeOK
  <2>5. Stream'
    BY <1>1, <2>1, <2>2, <2>3 DEF Stream, Before, InOrder
  <2>6. OwnLinesLogged'
    BY <1>1, <2>1, <2>2 DEF OwnLinesLogged
  <2>7. Written(file)' /\ Written(buf)' /\ Written(pipe)' /\ Written(pending)'
    BY <1>1, <2>1, <2>2, <2>3 DEF TeeInvariant, Written
  <2> QED BY <2>4, <2>5, <2>6, <2>7 DEF TeeInvariant
<1>7. ASSUME FillDisk PROVE TeeInvariant'
  BY <1>1, <1>7 DEF FillDisk, outputs, TeeInvariant, TypeOK, Stream,
                    OwnLinesLogged, Written
<1>8. CASE UNCHANGED vars
  BY <1>1, <1>8 DEF vars, TeeInvariant, TypeOK, Stream, OwnLinesLogged,
                    Written
<1> QED BY <1>2, <1>3, <1>4, <1>5, <1>6, <1>7, <1>8 DEF Next

-----------------------------------------------------------------------------
(* The theorems.                                                            *)

\* TeeInvariant holds in every reachable state.
THEOREM TeeCorrect == Spec => []TeeInvariant
BY InitTee, TeeStep, PTL DEF Spec

\* Every variable keeps its type, and the pipe never holds more than it can.
THEOREM TypeCorrect == Spec => []TypeOK
<1>1. TeeInvariant => TypeOK
  BY DEF TeeInvariant
<1> QED BY <1>1, TeeCorrect, PTL

\* A line of the library is logged at most once, and after the lines written
\* before it, wherever the goroutine cuts the stream and however often the
\* disk fills up (teeStderr).
THEOREM LibraryInOrder == Spec => []LibraryOnceInOrder
<1>1. TeeInvariant => LibraryOnceInOrder
  BY DEF TeeInvariant, Stream, LibraryOnceInOrder
<1> QED BY <1>1, TeeCorrect, PTL

\* No line of the publisher is lost to what Close leaves in the pipe, or to
\* where the goroutine is when the process exits: it is in the file, or the
\* disk refused it.
THEOREM OwnLinesSurvive == Spec => []OwnLinesOutliveClose
<1>1. TeeInvariant => OwnLinesOutliveClose
  BY DEF TeeInvariant, OwnLinesLogged, OwnLinesOutliveClose
<1> QED BY <1>1, TeeCorrect, PTL

==============================================================================
