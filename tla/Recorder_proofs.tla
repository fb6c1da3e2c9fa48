--------------------------- MODULE Recorder_proofs ---------------------------
(***************************************************************************)
(* Theorems about the recorder, for every queue capacity, packet size,     *)
(* history capacity, number of sessions, packets, segments and kills.      *)
(*                                                                         *)
(* The invariant is built in layers, each of which uses the ones before:   *)
(* Types (what the variables hold between two steps of the thread), Tables *)
(* (the two tables of a file agree), Control (which command is under way   *)
(* and who waits for it), Pipeline (the packets in the queue and in hand   *)
(* are the next ones of the session), Links (the files of a session hold   *)
(* consecutive stretches of what was handed on).  Window stands beside     *)
(* them: the recent history is an end of what was handed on.               *)
(***************************************************************************)
EXTENDS Recorder, WellFoundedInduction, SequenceTheorems, FiniteSetTheorems, TLAPS

----------------------------------------------------------------------------
(* Induction over numbers and sequences, with a set for the property; what *)
(* FlattenSeq and the record tables built with it compute.                 *)

LEMMA NatLeast == 
  ASSUME NEW T \in SUBSET Nat, T # {}
  PROVE \E x \in T : \A y \in T : x <= y
<1>1. \E R : R = OpToRel(<,Nat) /\ \A x, y \in Nat : <<y,x>> \in R <=> y < x
  <2>1. \A x, y \in Nat : <<y,x>> \in OpToRel(<,Nat) <=> y < x
    BY DEF OpToRel
  <2> QED BY <2>1, Zenon
<1>2. PICK R : R = OpToRel(<,Nat) /\ \A x, y \in Nat : <<y,x>> \in R <=> y < x
  BY <1>1, Zenon
<1>3. IsWellFoundedOn(R, Nat)
  BY <1>2, NatLessThanWellFounded, Zenon
<1>4. \E x \in T : \A y \in T : ~ (<<y, x>> \in R)
  BY <1>3, WFMin
<1>5. \A x, y \in Nat : <<y,x>> \in R <=> y < x
  BY <1>2, Zenon
<1>6. PICK x \in T : \A y \in T : ~ (<<y, x>> \in R)
  BY <1>4
<1>7. \A y \in T : ~ (y < x)
  BY <1>5, <1>6
<1>8. \A y \in T : x <= y
  BY <1>7
<1> QED BY <1>8

LEMMA NatInd ==
  ASSUME NEW T, 0 \in T, \A n \in Nat : n \in T => n + 1 \in T
  PROVE  \A n \in Nat : n \in T
<1> SUFFICES ASSUME Nat \ T # {} PROVE FALSE
  OBVIOUS
<1>1. PICK x \in Nat \ T : \A y \in Nat \ T : x <= y
  BY NatLeast
<1>2. x # 0 /\ x - 1 \in Nat
  BY <1>1
<1>3. x - 1 \in T
  BY <1>1, <1>2
<1> QED BY <1>1, <1>2, <1>3

LEMMA SeqInd ==
  ASSUME NEW S, NEW T, <<>> \in T, \A s \in Seq(S), e \in S : s \in T => Append(s, e) \in T
  PROVE  \A s \in Seq(S) : s \in T
<1> DEFINE N == {n \in Nat : \A s \in Seq(S) : Len(s) = n => s \in T}
<1>1. 0 \in N
  OBVIOUS
<1>2. ASSUME NEW n \in Nat, n \in N PROVE n + 1 \in N
  <2> SUFFICES ASSUME NEW s \in Seq(S), Len(s) = n + 1 PROVE s \in T
    OBVIOUS
  <2>1. PICK r \in Seq(S), e \in S : s = Append(r, e)
    BY SequenceEmptyOrAppend
  <2>2. Len(r) = n
    BY <2>1
  <2> QED BY <2>1, <2>2, <1>2
<1> HIDE DEF N
<1>3. \A n \in Nat : n \in N
  BY <1>1, <1>2, NatInd
<1> QED BY <1>3 DEF N

(* The function by which FlattenSeq is defined. *)
Flat(ss, n, f) == f = [i \in 1..n |-> IF i = 1 THEN ss[i] ELSE f[i - 1] \o ss[i]]

LEMMA FlatAt ==
  ASSUME NEW ss, NEW n \in Nat, NEW f, Flat(ss, n, f), NEW i \in 1..n
  PROVE  f[i] = IF i = 1 THEN ss[i] ELSE f[i - 1] \o ss[i]
<1>1. \A h : f = [j \in 1..n |-> IF j = 1 THEN ss[j] ELSE h[j - 1] \o ss[j]]
             => f[i] = IF i = 1 THEN ss[i] ELSE h[i - 1] \o ss[i]
  OBVIOUS
<1>2. f = [j \in 1..n |-> IF j = 1 THEN ss[j] ELSE f[j - 1] \o ss[j]]
  BY Zenon DEF Flat
<1> QED BY <1>1, <1>2, Zenon

LEMMA FlatExists ==
  ASSUME NEW ss, NEW n \in Nat
  PROVE  \E f : Flat(ss, n, f)
<1> DEFINE N == {m \in Nat : \E f : Flat(ss, m, f)}
<1>1. 0 \in N
  <2> DEFINE f == [i \in 1..0 |-> IF i = 1 THEN ss[i] ELSE ss[i]]
  <2>1. f = [i \in 1..0 |-> IF i = 1 THEN ss[i] ELSE f[i - 1] \o ss[i]]
    OBVIOUS
  <2> HIDE DEF f
  <2> QED BY <2>1 DEF Flat
<1>2. ASSUME NEW m \in Nat, m \in N PROVE m + 1 \in N
  <2>1. PICK f : Flat(ss, m, f)
    BY <1>2
  <2> DEFINE g == [i \in 1..(m + 1) |-> IF i = 1 THEN ss[i] ELSE f[i - 1] \o ss[i]]
  <2>2. \A i \in 1..m : g[i] = f[i]
    <3>1. \A i \in 1..m : f[i] = IF i = 1 THEN ss[i] ELSE f[i - 1] \o ss[i]
      BY <2>1, FlatAt
    <3> QED BY <3>1
  <2>3. g = [i \in 1..(m + 1) |-> IF i = 1 THEN ss[i] ELSE g[i - 1] \o ss[i]]
    <3>1. \A i \in 1..(m + 1) : i # 1 => g[i - 1] = f[i - 1]
      <4>1. \A i \in 1..(m + 1) : i # 1 => i - 1 \in 1..m
        OBVIOUS
      <4> HIDE DEF g
      <4> QED BY <2>2, <4>1
    <3>2. \A h : (\A i \in 1..(m + 1) : i # 1 => h[i - 1] = f[i - 1])
                 => g = [i \in 1..(m + 1) |-> IF i = 1 THEN ss[i] ELSE h[i - 1] \o ss[i]]
      OBVIOUS
    <3> HIDE DEF g
    <3> QED BY <3>1, <3>2, Zenon
  <2> HIDE DEF g
  <2>4. Flat(ss, m + 1, g)
    BY <2>3, Zenon DEF Flat
  <2> QED BY <2>4
<1> HIDE DEF N
<1>3. \A m \in Nat : m \in N
  BY <1>1, <1>2, NatInd
<1> QED BY <1>3 DEF N

LEMMA FlattenIs ==
  ASSUME NEW S, NEW ss \in Seq(S), ss # <<>>
  PROVE  \E f : Flat(ss, Len(ss), f) /\ FlattenSeq(ss) = f[Len(ss)]
<1> DEFINE f == CHOOSE f : Flat(ss, Len(ss), f)
<1>1. Len(ss) \in Nat \ {0}
  OBVIOUS
<1>2. Flat(ss, Len(ss), f)
  BY <1>1, FlatExists
<1>3. FlattenSeq(ss) = f[Len(ss)]
  BY <1>1 DEF FlattenSeq, Flat
<1> QED BY <1>2, <1>3

LEMMA FlattenEmpty == FlattenSeq(<<>>) = <<>>
  BY DEF FlattenSeq

LEMMA FlattenAppend ==
  ASSUME NEW S, NEW ss \in Seq(Seq(S)), NEW s \in Seq(S)
  PROVE  FlattenSeq(Append(ss, s)) = FlattenSeq(ss) \o s
<1>0. PICK tt : tt = Append(ss, s)
  OBVIOUS
<1>1. /\ tt \in Seq(Seq(S)) /\ tt # <<>> /\ Len(tt) = Len(ss) + 1 /\ tt[Len(ss) + 1] = s
      /\ \A i \in 1..Len(ss) : ss[i] = tt[i]
  BY <1>0, AppendProperties
<1>2. PICK g : Flat(tt, Len(tt), g) /\ FlattenSeq(tt) = g[Len(tt)]
  BY <1>1, FlattenIs
<1>3. CASE ss = <<>>
  <2>1. Len(tt) = 1
    BY <1>1, <1>3
  <2>2. FlattenSeq(tt) = s
    <3>1. g[1] = tt[1]
      BY <1>2, <2>1, FlatAt
    <3> QED BY <1>1, <1>2, <1>3, <2>1, <3>1
  <2>3. <<>> \o s = s
    OBVIOUS
  <2> QED BY <1>0, <1>3, <2>2, <2>3, FlattenEmpty
<1>4. CASE ss # <<>>
  <2>1. PICK f : Flat(ss, Len(ss), f) /\ FlattenSeq(ss) = f[Len(ss)]
    BY <1>4, FlattenIs
  <2>2. PICK m \in Nat, n \in Nat : m = Len(ss) /\ n = Len(tt) /\ m # 0 /\ n = m + 1
    BY <1>4, <1>1
  <2>5. Flat(ss, m, f) /\ Flat(tt, n, g) /\ \A i \in 1..m : ss[i] = tt[i]
    BY <1>1, <1>2, <2>1, <2>2
  <2>3. g[m] = f[m]
    <3>1. m <= n /\ m \in 1..m
      BY <2>2
    <3>2. \A i \in 1..m : f[i] = g[i]
      <4> DEFINE N == {k \in Nat : k \in 1..m => f[k] = g[k]}
      <4>1. 0 \in N
        OBVIOUS
      <4>4. \A i \in 1..m : f[i] = IF i = 1 THEN ss[i] ELSE f[i - 1] \o ss[i]
        BY <2>5, FlatAt
      <4>5. \A i \in 1..n : g[i] = IF i = 1 THEN tt[i] ELSE g[i - 1] \o tt[i]
        BY <2>5, FlatAt
      <4>2. ASSUME NEW k \in Nat, k \in N PROVE k + 1 \in N
        <5> SUFFICES ASSUME k + 1 \in 1..m PROVE f[k + 1] = g[k + 1]
          OBVIOUS
        <5>1. PICK j \in 1..m : j = k + 1 /\ j \in 1..n /\ j - 1 = k
          BY <2>2
        <5>2. ss[j] = tt[j]
          BY <2>5
        <5>3. f[j] = IF j = 1 THEN ss[j] ELSE f[k] \o ss[j]
          BY <4>4, <5>1
        <5>4. g[j] = IF j = 1 THEN tt[j] ELSE g[k] \o tt[j]
          BY <4>5, <5>1
        <5>5. j # 1 => f[k] = g[k]
          BY <5>1, <4>2
        <5>6. f[j] = g[j]
          BY <5>2, <5>3, <5>4, <5>5
        <5> QED BY <5>1, <5>6
      <4> HIDE DEF N
      <4>3. \A k \in Nat : k \in N
        BY <4>1, <4>2, NatInd
      <4> QED BY <4>3 DEF N
    <3> QED BY <3>1, <3>2
  <2>4. g[n] = g[m] \o s
    <3>1. g[n] = IF n = 1 THEN tt[n] ELSE g[n - 1] \o tt[n]
      BY <2>2, <2>5, FlatAt
    <3> QED BY <1>1, <2>2, <3>1
  <2> QED BY <1>0, <1>2, <2>1, <2>2, <2>3, <2>4
<1> QED BY <1>3, <1>4

LEMMA FlattenType ==
  ASSUME NEW S, NEW ss \in Seq(Seq(S))
  PROVE  FlattenSeq(ss) \in Seq(S)
<1> DEFINE T == {tt \in Seq(Seq(S)) : FlattenSeq(tt) \in Seq(S)}
<1>1. <<>> \in T
  BY FlattenEmpty, EmptySeq
<1>2. ASSUME NEW tt \in Seq(Seq(S)), NEW s \in Seq(S), tt \in T PROVE Append(tt, s) \in T
  <2>1. FlattenSeq(Append(tt, s)) = FlattenSeq(tt) \o s
    BY FlattenAppend
  <2>2. Append(tt, s) \in Seq(Seq(S))
    BY AppendProperties
  <2>3. FlattenSeq(tt) \o s \in Seq(S)
    BY <1>2, ConcatProperties
  <2> QED BY <2>1, <2>2, <2>3
<1> HIDE DEF T
<1>3. \A tt \in Seq(Seq(S)) : tt \in T
  BY <1>1, <1>2, SeqInd
<1> QED BY <1>3 DEF T

Packets == [first : Nat, n : Nat \ {0}]

LEMMA SampleIndexType ==
  ASSUME NEW a \in Nat, NEW k \in Nat
  PROVE  SampleIndex(a, k) \in Nat
<1>1. Decimation \in Nat /\ IndexModulus \in Nat \ {0}
  BY RecorderAssumption
<1>2. PICK d \in Nat : d = k * Decimation
  BY <1>1
<1>3. (a + d) % IndexModulus \in Nat
  BY <1>1
<1> QED BY <1>2, <1>3 DEF SampleIndex

LEMMA RowsType ==
  ASSUME NEW p \in Packets
  PROVE  /\ Rows(p) \in Seq(Nat) /\ Len(Rows(p)) = p.n /\ p.n \in Nat \ {0} /\ p.first \in Nat
         /\ \A k \in 1..p.n : Rows(p)[k] = SampleIndex(p.first, k - 1)
<1>1. p.n \in Nat \ {0} /\ p.first \in Nat
  BY DEF Packets
<1>2. \A k \in 1..p.n : SampleIndex(p.first, k - 1) \in Nat
  <2>1. \A k \in 1..p.n : k - 1 \in Nat
    BY <1>1
  <2> QED BY <1>1, <2>1, SampleIndexType
<1> QED BY <1>1, <1>2 DEF Rows

LEMMA Cat ==
  /\ \A u, v \in Seq(Nat) : u \o v \in Seq(Nat) /\ Len(u \o v) = Len(u) + Len(v)
  /\ \A u, v, w \in Seq(Nat) : (u \o v) \o w = u \o (v \o w)
  BY ConcatAssociative, ConcatProperties

LEMMA AllRowsEmpty == AllRows(<<>>) = <<>>
<1>1. [i \in 1..Len(<<>>) |-> Rows(<<>>[i])] = <<>>
  OBVIOUS
<1> QED BY <1>1, FlattenEmpty DEF AllRows

LEMMA RowsOf ==
  ASSUME NEW ps \in Seq(Packets)
  PROVE  [i \in 1..Len(ps) |-> Rows(ps[i])] \in Seq(Seq(Nat))
<1>1. \A i \in 1..Len(ps) : Rows(ps[i]) \in Seq(Nat)
  BY RowsType
<1>2. PICK S : S = Seq(Nat)
  OBVIOUS
<1>3. [i \in 1..Len(ps) |-> Rows(ps[i])] \in Seq(S)
  BY <1>1, <1>2
<1> QED BY <1>2, <1>3

LEMMA AllRowsType ==
  ASSUME NEW ps \in Seq(Packets)
  PROVE  AllRows(ps) \in Seq(Nat) /\ RecordCount(ps) \in Nat /\ RecordCount(ps) = Len(AllRows(ps))
<1>1. AllRows(ps) \in Seq(Nat)
  BY RowsOf, FlattenType DEF AllRows
<1> QED BY <1>1 DEF RecordCount

LEMMA AllRowsAppend ==
  ASSUME NEW ps \in Seq(Packets), NEW p \in Packets
  PROVE  /\ AllRows(Append(ps, p)) = AllRows(ps) \o Rows(p)
         /\ RecordCount(Append(ps, p)) = RecordCount(ps) + p.n
<1> DEFINE rs == [i \in 1..Len(ps) |-> Rows(ps[i])]
           qs == [i \in 1..Len(Append(ps, p)) |-> Rows(Append(ps, p)[i])]
<1>1. rs \in Seq(Seq(Nat)) /\ Rows(p) \in Seq(Nat) /\ Len(Rows(p)) = p.n /\ p.n \in Nat
  BY RowsOf, RowsType
<1>2. qs = Append(rs, Rows(p))
  <2>1. Append(ps, p) \in Seq(Packets)
    BY AppendProperties
  <2>2. qs \in Seq(Seq(Nat))
    BY <2>1, RowsOf
  <2>3. PICK S : S = Seq(Nat)
    OBVIOUS
  <2>4. Append(rs, Rows(p)) \in Seq(S) /\ Len(Append(rs, Rows(p))) = Len(ps) + 1
    BY <1>1, <2>3, AppendProperties
  <2>5. Len(qs) = Len(ps) + 1
    OBVIOUS
  <2>6. \A i \in 1..(Len(ps) + 1) : qs[i] = Append(rs, Rows(p))[i]
    BY <1>1
  <2> HIDE DEF qs, rs
  <2> QED BY <2>2, <2>3, <2>4, <2>5, <2>6, SeqEqual
<1>3. AllRows(Append(ps, p)) = FlattenSeq(qs) /\ AllRows(ps) = FlattenSeq(rs)
  BY DEF AllRows
<1> HIDE DEF qs, rs
<1>4. AllRows(Append(ps, p)) = AllRows(ps) \o Rows(p)
  BY <1>1, <1>2, <1>3, FlattenAppend
<1>5. Len(AllRows(ps) \o Rows(p)) = Len(AllRows(ps)) + p.n
  <2>1. AllRows(ps) \in Seq(Nat)
    BY AllRowsType
  <2> QED BY <1>1, <2>1, Cat
<1> QED BY <1>4, <1>5 DEF RecordCount

LEMMA AllRowsConcat ==
  ASSUME NEW ps \in Seq(Packets), NEW qs \in Seq(Packets)
  PROVE  /\ AllRows(ps \o qs) = AllRows(ps) \o AllRows(qs)
         /\ RecordCount(ps \o qs) = RecordCount(ps) + RecordCount(qs)
<1> DEFINE T == {r \in Seq(Packets) : AllRows(ps \o r) = AllRows(ps) \o AllRows(r)}
<1>1. <<>> \in T
  BY AllRowsEmpty, AllRowsType, ConcatEmptySeq
<1>2. ASSUME NEW r \in Seq(Packets), NEW p \in Packets, r \in T PROVE Append(r, p) \in T
  <2>1. ps \o Append(r, p) = Append(ps \o r, p)
    OBVIOUS
  <2>2. AllRows(Append(ps \o r, p)) = AllRows(ps \o r) \o Rows(p)
    BY AllRowsAppend, ConcatProperties
  <2>3. (AllRows(ps) \o AllRows(r)) \o Rows(p) = AllRows(ps) \o (AllRows(r) \o Rows(p))
    <3>1. AllRows(ps) \in Seq(Nat) /\ AllRows(r) \in Seq(Nat) /\ Rows(p) \in Seq(Nat)
      BY AllRowsType, RowsType
    <3> QED BY <3>1, Cat
  <2>4. AllRows(r) \o Rows(p) = AllRows(Append(r, p))
    BY AllRowsAppend
  <2>5. Append(r, p) \in Seq(Packets)
    BY AppendProperties
  <2> QED BY <1>2, <2>1, <2>2, <2>3, <2>4, <2>5
<1> HIDE DEF T
<1>3. \A r \in Seq(Packets) : r \in T
  BY <1>1, <1>2, SeqInd
<1>4. AllRows(ps \o qs) = AllRows(ps) \o AllRows(qs)
  BY <1>3 DEF T
<1> QED BY <1>4, AllRowsType, ConcatProperties DEF RecordCount

(* The rows of the first k packets are the first rows of all of them.      *)
LEMMA RowsOfPrefix ==
  ASSUME NEW ps \in Seq(Packets), NEW k \in 0..Len(ps)
  PROVE  /\ SubSeq(ps, 1, k) \in Seq(Packets) /\ SubSeq(ps, k + 1, Len(ps)) \in Seq(Packets)
         /\ ps = SubSeq(ps, 1, k) \o SubSeq(ps, k + 1, Len(ps))
         /\ RecordCount(SubSeq(ps, 1, k)) <= RecordCount(ps)
         /\ AllRows(SubSeq(ps, 1, k)) = SubSeq(AllRows(ps), 1, RecordCount(SubSeq(ps, 1, k)))
<1>1. PICK a, b : a = SubSeq(ps, 1, k) /\ b = SubSeq(ps, k + 1, Len(ps))
  OBVIOUS
<1>2. a \in Seq(Packets) /\ b \in Seq(Packets)
  BY <1>1
<1>3. ps = a \o b
  <2>1. SubSeq(ps, 1, k) \o SubSeq(ps, k + 1, Len(ps)) = SubSeq(ps, 1, Len(ps))
    <3>1. 1 \in 1..(Len(ps) + 1) /\ k \in (1 - 1)..Len(ps) /\ Len(ps) \in k..Len(ps)
      OBVIOUS
    <3> QED BY <3>1, ConcatAdjacentSubSeq, Zenon
  <2> QED BY <1>1, <2>1, SubSeqFull
<1>4. AllRows(ps) = AllRows(a) \o AllRows(b) /\ RecordCount(ps) = RecordCount(a) + RecordCount(b)
  BY <1>2, <1>3, AllRowsConcat
<1>5. /\ AllRows(a) \in Seq(Nat) /\ AllRows(b) \in Seq(Nat)
      /\ RecordCount(a) \in Nat /\ RecordCount(b) \in Nat /\ RecordCount(a) = Len(AllRows(a))
  BY <1>2, AllRowsType
<1>6. \A u, v \in Seq(Nat) : u = SubSeq(u \o v, 1, Len(u))
  OBVIOUS
<1>7. RecordCount(a) <= RecordCount(ps)
  BY <1>4, <1>5
<1>8. AllRows(a) = SubSeq(AllRows(ps), 1, RecordCount(a))
  BY <1>4, <1>5, <1>6
<1> QED BY <1>1, <1>2, <1>3, <1>7, <1>8

----------------------------------------------------------------------------
(* What the variables hold. *)

Reasons == StopReasons \cup {"BrokerShutdown"}
OpsCommands ==
    [type : {"start"}, session : Sessions, stamp : Stamps, by : {"ops"}]
        \cup [type : {"stop"}, reason : Reasons, by : {"ops"}]
MainCommands == [type : {"stop"}, reason : Reasons, by : {"main"}] \cup [type : {"shutdown"}]
PacketCommands == [type : {"packet"}, packet : Packets]
Commands == OpsCommands \cup MainCommands \cup PacketCommands
Entry == [packet : Packets, offset : Nat]
File ==
    [session : Sessions, index : 0..MaxSegment, base : Nat, rows : Seq(Nat), packets : Seq(Entry),
     reason : Reasons \cup {"none", "SegmentLimit"}, clean : BOOLEAN, complete : BOOLEAN,
     final : BOOLEAN]
CallOf(commands) == {Idle} \cup [st : {"sending", "waiting", "ok", "failed"}, command : commands]

CallTypes ==
    /\ call = [c \in Callers |-> call[c]]
    /\ call["ops"] \in CallOf(OpsCommands) /\ call["main"] \in CallOf(MainCommands)

BrokerTypes ==
    /\ running \in BOOLEAN /\ receiving \in BOOLEAN /\ fatal \in BOOLEAN
    /\ main \in {"serving", "stream_stop", "stopping", "closing", "exited"}
    /\ CallTypes
    /\ started \in 0..MaxSessions /\ (running \/ call["ops"] # Idle => started # 0)
    /\ delivered \in [Sessions -> Seq(Packets)] /\ due \in [Sessions -> Nat]

StorageTypes ==
    /\ queue \in Seq(Commands) /\ Len(queue) <= QueueCap
    /\ alive \in BOOLEAN /\ error \in BOOLEAN /\ alive = (wpc # "dead")
    /\ wpc \in {"recv", "open", "rows", "packet", "finalise", "rename", "dead"}
    /\ session \in 0..MaxSessions /\ stamp \in Stamps /\ segment_index \in 0..MaxSegment
    /\ session_record_offset \in Nat
    /\ DOMAIN files \subseteq Names /\ files \in [DOMAIN files -> File]

(* The storage thread between two of its steps. *)
WorkerOK ==
    /\ wpc \in {"recv", "dead"} => cmd = Idle
    /\ wpc = "open" =>
          /\ segment = NoSegment /\ session # 0
          /\ \/ /\ cmd \in OpsCommands /\ cmd.type = "start" /\ session = cmd.session
                /\ segment_index = 0 /\ session_record_offset = 0
             \/ cmd \in PacketCommands /\ segment_index # 0
    /\ wpc \in {"rows", "packet"} => cmd \in PacketCommands /\ segment # NoSegment
    /\ wpc \in {"finalise", "rename"} =>
          /\ segment # NoSegment
          /\ \/ cmd \in Commands /\ cmd.type \in {"stop", "shutdown"}
             \/ cmd \in PacketCommands /\ segment_index < MaxSegment
    /\ wpc # "open" => (session = 0 <=> segment = NoSegment)
    /\ wpc = "dead" => queue = <<>> /\ segment = NoSegment
    /\ segment # NoSegment =>
          /\ segment = <<stamp, segment_index>> /\ segment \in DOMAIN files
          /\ files[segment].session = session /\ ~files[segment].final

Types == BrokerTypes /\ StorageTypes /\ WorkerOK

(* The record and packet tables of a file g. *)
Packed(g) == [i \in 1..Len(g.packets) |-> g.packets[i].packet]
OffsetsOK(g) ==
    \A i \in 1..Len(g.packets) :
        g.packets[i].offset = g.base + RecordCount(SubSeq(Packed(g), 1, i - 1))
SoundFile(g) == g.clean /\ g.reason # "none" /\ g.rows = AllRows(Packed(g))
Tables ==
    /\ \A f \in DOMAIN files : OffsetsOK(files[f]) /\ (files[f].final => SoundFile(files[f]))
    /\ segment # NoSegment =>
          /\ session_record_offset = files[segment].base + RecordCount(Packed(files[segment]))
          /\ files[segment].rows = IF wpc = "packet"
                                   THEN AllRows(Packed(files[segment])) \o Rows(cmd.packet)
                                   ELSE AllRows(Packed(files[segment]))
    /\ wpc = "rename" => files[segment].clean /\ files[segment].reason # "none"

(* Which commands are under way, and for whom. *)
ByOps(x) == x.type \in {"start", "stop"} /\ x.by = "ops"
ByMain(x) == x.type = "shutdown" \/ (x.type = "stop" /\ x.by = "main")
InHand == wpc \in {"open", "rows", "packet", "finalise", "rename"}
OpsWait(x) == main = "exited" \/ (call["ops"].st = "waiting" /\ call["ops"].command = x)
Asks(type) == call["ops"].st # "idle" /\ call["ops"].command.type = type
StartDue ==
    \/ Asks("start") /\ call["ops"].st \in {"sending", "waiting"}
    \/ InHand /\ cmd.type = "start"
    \/ \E i \in 1..Len(queue) : queue[i].type = "start"
Ending == main \in {"stopping", "closing", "exited"}

QueueOps ==
    \A i \in 1..Len(queue) : ByOps(queue[i]) =>
        /\ OpsWait(queue[i])
        /\ \A j \in (i + 1)..Len(queue) : ~ByOps(queue[j]) /\ queue[j].type # "packet"
HandOps ==
    InHand /\ ByOps(cmd) =>
        OpsWait(cmd) /\ \A j \in 1..Len(queue) : ~ByOps(queue[j]) /\ queue[j].type # "packet"
MainCalls ==
    /\ call["main"].st # "idle" => main \in {"stopping", "closing"}
    /\ \A i \in 1..Len(queue) : ByMain(queue[i]) => Ending
    /\ InHand /\ ByMain(cmd) => Ending
OpsCalls ==
    /\ call["ops"].st # "idle" => ~running /\ main # "exited"
    /\ call["ops"].st = "failed" => ~alive
Starts ==
    /\ Asks("start") => call["ops"].command.session = started
    /\ InHand /\ cmd.type = "start" => cmd.session = started
    /\ \A i \in 1..Len(queue) : queue[i].type = "start" => queue[i].session = started
    /\ Asks("start") \/ StartDue => delivered[started] = <<>>
    /\ \A s \in Sessions : s > started => delivered[s] = <<>>
Owned ==
    session # 0 =>
        /\ session = started
        /\ \/ running \/ main = "exited"
           \/ Asks("start") /\ call["ops"].st = "ok"
           \/ Asks("stop") /\ call["ops"].st \in {"sending", "waiting"}
           \/ wpc = "open" /\ ByOps(cmd)
Control == QueueOps /\ HandOps /\ MainCalls /\ OpsCalls /\ Starts /\ Owned

(* The files of a session, by their names. *)
EndOf(f) == files[f].base + Len(files[f].rows)
Handed(s) == AllRows(delivered[s])
Prev(f) == <<f[1], f[2] - 1>>
FileLinked(f) ==
    /\ files[f].index = f[2] /\ files[f].session <= started
    /\ \A j \in 0..f[2] : <<f[1], j>> \in DOMAIN files
    /\ \A g \in DOMAIN files : g[1] = f[1] <=> files[g].session = files[f].session
    /\ f[2] = 0 => files[f].base = 0
    /\ f[2] # 0 => files[Prev(f)].final /\ ~files[Prev(f)].complete /\ files[f].base = EndOf(Prev(f))
    /\ EndOf(f) <= Len(Handed(files[f].session))
    /\ files[f].rows = SubSeq(Handed(files[f].session), files[f].base + 1, EndOf(f))
    /\ files[f].complete =>
          RecordCount(SubSeq(delivered[files[f].session], 1, due[files[f].session])) <= EndOf(f)
Linked == \A f \in DOMAIN files : FileLinked(f)
Unwritten == StartDue => \A f \in DOMAIN files : files[f].session # started
Unfinished ==
    main = "serving" /\ (running \/ Asks("start")) =>
        \A f \in DOMAIN files : files[f].session = started => ~files[f].complete
Rotating ==
    /\ wpc = "open" /\ cmd.type = "packet" =>
          LET last == <<stamp, segment_index - 1>>
          IN  /\ last \in DOMAIN files /\ files[last].session = session
              /\ files[last].final /\ ~files[last].complete /\ EndOf(last) = session_record_offset
    /\ wpc = "rename" /\ cmd.type = "packet" => ~files[segment].complete
Links == Linked /\ Unwritten /\ Unfinished /\ Rotating

(* What is under way from the broker to the file of the session: the       *)
(* packets at the front of queue q are packets n + 1, n + 2, ... of sent,  *)
(* and what ends the session comes no earlier than packet owed.            *)
Lead(q, i) == \A j \in 1..i : q[j].type = "packet"
Fits(q, sent, n, owed) ==
    /\ n <= Len(sent)
    /\ \A i \in 1..Len(q) : Lead(q, i) => n + i <= Len(sent) /\ q[i].packet = sent[n + i]
    /\ Lead(q, Len(q)) => n + Len(q) = Len(sent)
    /\ \A i \in 1..Len(q) : Lead(q, i - 1) /\ q[i].type \in {"stop", "shutdown"} => owed <= n + (i - 1)

Held == IF wpc \in {"rows", "packet"} THEN 1 ELSE 0
Closing == wpc \in {"finalise", "rename"} /\ cmd.type # "packet"
Reached(k) ==
    /\ k + Held <= Len(delivered[session])
    /\ session_record_offset = RecordCount(SubSeq(delivered[session], 1, k))
    /\ Held = 1 => cmd.packet = delivered[session][k + 1]
    /\ Closing => due[session] <= k
    /\ ~Closing => Fits(queue, delivered[session], k + Held, due[session])
Pipeline ==
    /\ \A s \in Sessions : due[s] <= Len(delivered[s])
    /\ session # 0 => \E k \in 0..Len(delivered[session]) : Reached(k)

(* The recent history: the newest packets of the session that runs. *)
Window ==
    history # <<>> =>
        /\ running /\ history \in Seq(Packets)
        /\ \E h \in Seq(Packets) : delivered[started] = h \o history
        /\ RecordCount(history) <= Capacity[started] \/ Len(history) = 1

LEMMA CommandFacts ==
  ASSUME NEW x
  PROVE  /\ x \in OpsCommands =>
              /\ x \in Commands /\ x.type \in {"start", "stop"} /\ x.by = "ops"
              /\ x.type = "start" => x.session \in Sessions /\ x.stamp \in Stamps
              /\ x.type = "stop" => x.reason \in Reasons
         /\ x \in MainCommands =>
              /\ x \in Commands /\ x.type \in {"stop", "shutdown"}
              /\ x.type = "stop" => x.reason \in Reasons /\ x.by = "main"
         /\ x \in PacketCommands => x \in Commands /\ x.type = "packet" /\ x.packet \in Packets
         /\ x \in Commands /\ x.type = "start" => x \in OpsCommands
         /\ x \in Commands /\ x.type = "packet" => x \in PacketCommands
         /\ x \in Commands => x.type \in {"start", "stop", "shutdown", "packet"}
         /\ x \in Commands /\ x.type = "stop" => x.reason \in Reasons /\ x.by \in Callers
  BY DEF OpsCommands, MainCommands, PacketCommands, Commands, Callers

LEMMA CallFacts ==
  ASSUME NEW commands, NEW x
  PROVE  /\ x \in CallOf(commands) =>
              /\ x.st \in {"idle", "sending", "waiting", "ok", "failed"}
              /\ x.st = "idle" <=> x = Idle
              /\ x.st # "idle" => x.command \in commands /\ x = [st |-> x.st, command |-> x.command]
         /\ \A st \in {"sending", "waiting", "ok", "failed"} :
              x \in commands => [st |-> st, command |-> x] \in CallOf(commands)
         /\ Idle \in CallOf(commands)
  BY DEF CallOf, Idle

(* The three ways in which a caller's state changes. *)
LEMMA CallAsked ==
  ASSUME CallTypes, NEW c \in Callers, NEW x,
         c = "ops" => x \in OpsCommands, c = "main" => x \in MainCommands, Ask(c, x)
  PROVE  /\ CallTypes' /\ call'[c] = [st |-> "sending", command |-> x]
         /\ \A d \in Callers : d # c => call'[d] = call[d]
<1>1. \A d \in Callers : call'[d] = IF d = c THEN [st |-> "sending", command |-> x] ELSE call[d]
  BY DEF Ask, CallTypes
<1>2. call' = [d \in Callers |-> call'[d]]
  BY DEF Ask, CallTypes
<1>3. /\ c = "ops" => [st |-> "sending", command |-> x] \in CallOf(OpsCommands)
      /\ c = "main" => [st |-> "sending", command |-> x] \in CallOf(MainCommands)
  BY CallFacts
<1> QED BY <1>1, <1>2, <1>3 DEF CallTypes, Callers

LEMMA CallMoved ==
  ASSUME CallTypes, NEW c \in Callers, call[c] # Idle,
         NEW st \in {"sending", "waiting", "ok", "failed"},
         call' = [call EXCEPT ![c].st = st]
  PROVE  /\ CallTypes' /\ call'[c] = [st |-> st, command |-> call[c].command]
         /\ \A d \in Callers : d # c => call'[d] = call[d]
<1>1. call[c].st # "idle" /\ call[c] = [st |-> call[c].st, command |-> call[c].command]
  BY CallFacts DEF CallTypes, Callers
<1>2. /\ call'[c] = [st |-> st, command |-> call[c].command]
      /\ \A d \in Callers : d # c => call'[d] = call[d]
  BY <1>1 DEF CallTypes
<1>3. call' = [d \in Callers |-> call'[d]]
  BY DEF CallTypes
<1>4. /\ c = "ops" => call[c].command \in OpsCommands
      /\ c = "main" => call[c].command \in MainCommands
  BY <1>1, CallFacts DEF CallTypes
<1>5. /\ c = "ops" => [st |-> st, command |-> call[c].command] \in CallOf(OpsCommands)
      /\ c = "main" => [st |-> st, command |-> call[c].command] \in CallOf(MainCommands)
  BY <1>4, CallFacts
<1> QED BY <1>2, <1>3, <1>5 DEF CallTypes, Callers

LEMMA CallForgotten ==
  ASSUME CallTypes, NEW c \in Callers, call' = [call EXCEPT ![c] = Idle]
  PROVE  /\ CallTypes' /\ call'[c] = Idle
         /\ \A d \in Callers : d # c => call'[d] = call[d]
<1>1. \A d \in Callers : call'[d] = IF d = c THEN Idle ELSE call[d]
  BY DEF CallTypes
<1>2. call' = [d \in Callers |-> call'[d]]
  BY DEF CallTypes
<1> QED BY <1>1, <1>2, CallFacts DEF CallTypes, Callers

LEMMA CallsDropped ==
  ASSUME CallTypes, Die
  PROVE  /\ CallTypes'
         /\ \A c \in Callers : call'[c] = IF call[c].st = "waiting"
                                          THEN [st |-> "failed", command |-> call[c].command]
                                          ELSE call[c]
<1>1. \A c \in Callers : call[c].st # "idle" => call[c] = [st |-> call[c].st, command |-> call[c].command]
  <2>1. call["ops"].st # "idle" => call["ops"] = [st |-> call["ops"].st, command |-> call["ops"].command]
    BY CallFacts DEF CallTypes
  <2>2. call["main"].st # "idle" => call["main"] = [st |-> call["main"].st, command |-> call["main"].command]
    BY CallFacts DEF CallTypes
  <2> QED BY <2>1, <2>2 DEF Callers
<1>2. \A c \in Callers : call'[c] = IF call[c].st = "waiting"
                                    THEN [st |-> "failed", command |-> call[c].command] ELSE call[c]
  <2>2. ASSUME NEW c \in Callers, call[c].st = "waiting"
        PROVE  [call[c] EXCEPT !.st = "failed"] = [st |-> "failed", command |-> call[c].command]
    <3>1. PICK r : r = call[c]
      OBVIOUS
    <3>2. r = [st |-> r.st, command |-> r.command]
      BY <1>1, <2>2, <3>1
    <3>3. [r EXCEPT !.st = "failed"] = [st |-> "failed", command |-> r.command]
      BY <3>2
    <3> QED BY <3>1, <3>3
  <2> QED BY <2>2 DEF Die
<1>3. call' = [c \in Callers |-> call'[c]]
  BY DEF Die
<1>4. /\ call["ops"].st = "waiting" =>
           [st |-> "failed", command |-> call["ops"].command] \in CallOf(OpsCommands)
      /\ call["main"].st = "waiting" =>
           [st |-> "failed", command |-> call["main"].command] \in CallOf(MainCommands)
  BY CallFacts DEF CallTypes
<1> QED BY <1>2, <1>3, <1>4 DEF CallTypes, Callers

LEMMA CallAnswered ==
  ASSUME CallTypes, NEW c \in Callers, call' = Answered(c, "ok")
  PROVE  /\ CallTypes'
         /\ call'[c] = IF call[c].st = "waiting"
                       THEN [st |-> "ok", command |-> call[c].command] ELSE call[c]
         /\ \A d \in Callers : d # c => call'[d] = call[d]
<1>1. CASE call[c].st = "waiting"
  <2>1. call[c] # Idle /\ call' = [call EXCEPT ![c].st = "ok"]
    BY <1>1 DEF Answered, Idle
  <2> QED BY <1>1, <2>1, CallMoved
<1>2. CASE call[c].st # "waiting"
  BY <1>2 DEF Answered, CallTypes
<1> QED BY <1>1, <1>2

LEMMA CallAfterSuccess ==
  ASSUME CallTypes, NEW x \in Commands, NEW rest, Succeed(x, rest)
  PROVE  /\ CallTypes'
         /\ x.type = "shutdown" => Die
         /\ x.type = "packet" => call' = call
         /\ x.type \in {"start", "stop"} => x.by \in Callers /\ call' = Answered(x.by, "ok")
<1>1. x.type \in {"start", "stop"} => x.by \in Callers
  BY CommandFacts DEF Callers
<1>2. CASE x.type = "shutdown"
  BY <1>2, CallsDropped DEF Succeed
<1>3. CASE x.type = "packet"
  BY <1>3 DEF Succeed, CallTypes
<1>4. CASE x.type \in {"start", "stop"}
  <2>1. call' = Answered(x.by, "ok")
    BY <1>4 DEF Succeed
  <2> QED BY <1>1, <1>4, <2>1, CallAnswered
<1> QED BY <1>2, <1>3, <1>4, CommandFacts

(* One file is written. *)
Wrote(g) == files' = [files EXCEPT ![segment] = g]

LEMMA FilesAfterWrite ==
  ASSUME StorageTypes, segment \in DOMAIN files, NEW g \in File, Wrote(g)
  PROVE  /\ DOMAIN files' = DOMAIN files /\ files' \in [DOMAIN files' -> File]
         /\ files'[segment] = g /\ \A f \in DOMAIN files : f # segment => files'[f] = files[f]
  BY DEF StorageTypes, Wrote

LEMMA FileFields ==
  ASSUME NEW g \in File
  PROVE  /\ g.session \in Sessions /\ g.index \in 0..MaxSegment /\ g.base \in Nat
         /\ g.rows \in Seq(Nat) /\ g.packets \in Seq(Entry)
         /\ g.reason \in Reasons \cup {"none", "SegmentLimit"}
         /\ g.clean \in BOOLEAN /\ g.complete \in BOOLEAN /\ g.final \in BOOLEAN
  BY DEF File

(* What AppendRows, AppendPacket, Finalise and Rename write. *)
WithRows(rows) == [files[segment] EXCEPT !.rows = @ \o rows]
WithEntry ==
    [files[segment] EXCEPT !.packets =
        Append(@, [packet |-> cmd.packet, offset |-> session_record_offset])]
Closed == [files[segment] EXCEPT !.reason = Reason]
Clean == [Closed EXCEPT !.clean = TRUE]
Complete == [Clean EXCEPT !.complete = CompletesSession(Reason)]
Final == [files[segment] EXCEPT !.final = TRUE]

LEMMA ReasonType ==
  ASSUME WorkerOK, wpc \in {"finalise", "rename"}
  PROVE  /\ Reason \in (Reasons \cup {"SegmentLimit"}) \ {"none"}
         /\ cmd.type = "packet" => Reason = "SegmentLimit"
<1>1. "none" \notin Reasons
  BY RecorderAssumption DEF Reasons
<1>2. cmd.type \in {"packet", "stop", "shutdown"} /\ (cmd.type = "stop" => cmd.reason \in Reasons)
  BY CommandFacts DEF WorkerOK
<1>3. cmd.type = "packet" => Reason = "SegmentLimit"
  BY DEF Reason
<1>4. cmd.type = "stop" => Reason = cmd.reason
  BY DEF Reason
<1>5. cmd.type = "shutdown" => Reason = "BrokerShutdown"
  BY DEF Reason
<1> QED BY <1>1, <1>2, <1>3, <1>4, <1>5 DEF Reasons

LEMMA WritesTyped ==
  ASSUME StorageTypes, WorkerOK, segment # NoSegment
  PROVE  /\ files[segment] \in File
         /\ wpc = "rows" => \A k \in 0..Len(Rows(cmd.packet)) :
                               WithRows(SubSeq(Rows(cmd.packet), 1, k)) \in File
         /\ wpc = "packet" => WithEntry \in File
         /\ wpc = "finalise" => {Closed, Clean, Complete} \subseteq File
         /\ wpc = "rename" => Final \in File
<1>1. files[segment] \in File
  BY DEF StorageTypes, WorkerOK
<1>2. ASSUME wpc = "rows", NEW k \in 0..Len(Rows(cmd.packet))
      PROVE  WithRows(SubSeq(Rows(cmd.packet), 1, k)) \in File
  <2>1. Rows(cmd.packet) \in Seq(Nat)
    BY <1>2, CommandFacts, RowsType DEF WorkerOK
  <2>2. SubSeq(Rows(cmd.packet), 1, k) \in Seq(Nat)
    BY <2>1
  <2>3. files[segment].rows \o SubSeq(Rows(cmd.packet), 1, k) \in Seq(Nat)
    BY <1>1, <2>2, FileFields, Cat
  <2> QED BY <1>1, <2>3 DEF WithRows, File
<1>3. ASSUME wpc = "packet" PROVE WithEntry \in File
  <2>1. [packet |-> cmd.packet, offset |-> session_record_offset] \in Entry
    BY <1>3, CommandFacts DEF WorkerOK, StorageTypes, Entry
  <2>2. Append(files[segment].packets, [packet |-> cmd.packet, offset |-> session_record_offset]) \in Seq(Entry)
    BY <1>1, <2>1, FileFields, AppendProperties
  <2> QED BY <1>1, <2>2 DEF WithEntry, File
<1>4. ASSUME wpc = "finalise" PROVE {Closed, Clean, Complete} \subseteq File
  <2>1. Reason \in Reasons \cup {"none", "SegmentLimit"}
    BY <1>4, ReasonType
  <2>2. CompletesSession(Reason) \in BOOLEAN
    BY DEF CompletesSession
  <2>3. Closed \in File
    BY <1>1, <2>1 DEF Closed, File
  <2>4. Clean \in File
    BY <2>3 DEF Clean, File
  <2>5. Complete \in File
    BY <2>2, <2>4 DEF Complete, File
  <2> QED BY <2>3, <2>4, <2>5
<1>5. Final \in File
  BY <1>1 DEF Final, File
<1> QED BY <1>1, <1>2, <1>3, <1>4, <1>5

LEMMA FlattenLength ==
  ASSUME NEW S, NEW ss \in Seq(Seq(S)), NEW i \in 1..Len(ss)
  PROVE  Len(ss[i]) <= Len(FlattenSeq(ss))
<1> DEFINE T == {tt \in Seq(Seq(S)) : \A j \in 1..Len(tt) : Len(tt[j]) <= Len(FlattenSeq(tt))}
<1>1. <<>> \in T
  BY EmptySeq
<1>2. ASSUME NEW tt \in Seq(Seq(S)), NEW s \in Seq(S), tt \in T PROVE Append(tt, s) \in T
  <2>1. FlattenSeq(Append(tt, s)) = FlattenSeq(tt) \o s
    BY FlattenAppend
  <2>2. FlattenSeq(tt) \in Seq(S)
    BY FlattenType
  <2>3. Len(FlattenSeq(tt) \o s) = Len(FlattenSeq(tt)) + Len(s)
    BY <2>2, ConcatProperties
  <2>4. PICK tu : tu = Append(tt, s)
    OBVIOUS
  <2>5. /\ tu \in Seq(Seq(S)) /\ Len(tu) = Len(tt) + 1 /\ tu[Len(tt) + 1] = s
        /\ \A j \in 1..Len(tt) : tu[j] = tt[j]
    BY <2>4, AppendProperties
  <2>6. ASSUME NEW j \in 1..Len(tu) PROVE Len(tu[j]) <= Len(FlattenSeq(tt)) + Len(s)
    <3>1. Len(FlattenSeq(tt)) \in Nat /\ Len(s) \in Nat /\ Len(tt) \in Nat
      BY <2>2
    <3>2. CASE j = Len(tt) + 1
      BY <2>5, <3>1, <3>2
    <3>3. CASE j \in 1..Len(tt)
      <4>1. Len(tt[j]) <= Len(FlattenSeq(tt)) /\ Len(tt[j]) \in Nat
        BY <1>2, <3>3
      <4>2. tu[j] = tt[j]
        BY <2>5, <3>3
      <4>3. \A a, b, c \in Nat : a <= b => a <= b + c
        OBVIOUS
      <4> QED BY <3>1, <4>1, <4>2, <4>3
    <3>4. j = Len(tt) + 1 \/ j \in 1..Len(tt)
      BY <2>5, <3>1
    <3> QED BY <3>2, <3>3, <3>4
  <2>7. \A j \in 1..Len(tu) : Len(tu[j]) <= Len(FlattenSeq(tu))
    BY <2>1, <2>3, <2>4, <2>6
  <2> QED BY <2>4, <2>5, <2>7
<1> HIDE DEF T
<1>3. \A tt \in Seq(Seq(S)) : tt \in T
  BY <1>1, <1>2, SeqInd
<1> QED BY <1>3 DEF T

(* The packet that process_packet takes from the network. *)
Sent == delivered[started]
NextPacket == [first |-> SampleIndex(0, RecordCount(Sent)), n |-> PacketSize[Len(Sent) + 1]]

LEMMA PacketTyped ==
  ASSUME BrokerTypes, running, Len(FlattenSeq(delivered)) < MaxPackets
  PROVE  started \in Sessions /\ Sent \in Seq(Packets) /\ NextPacket \in Packets
<1>1. started \in Sessions /\ Sent \in Seq(Packets)
  BY DEF BrokerTypes, Sessions, Sent
<1>2. delivered \in Seq(Seq(Packets)) /\ Len(delivered) = MaxSessions
  <2>1. PICK S : S = Seq(Packets)
    OBVIOUS
  <2>2. delivered \in [1..MaxSessions -> S] /\ MaxSessions \in Nat
    BY <2>1, RecorderAssumption DEF BrokerTypes, Sessions
  <2>3. delivered \in Seq(S) /\ Len(delivered) = MaxSessions
    BY <2>2
  <2> QED BY <2>1, <2>3
<1>3. Len(Sent) <= Len(FlattenSeq(delivered))
  BY <1>1, <1>2, FlattenLength DEF Sent, Sessions
<1>4. FlattenSeq(delivered) \in Seq(Packets)
  BY <1>2, FlattenType
<1>5. Len(Sent) + 1 \in 1..MaxPackets
  <2>1. Len(Sent) \in Nat /\ Len(FlattenSeq(delivered)) \in Nat /\ MaxPackets \in Nat
    BY <1>1, <1>4, RecorderAssumption
  <2> QED BY <1>3, <2>1
<1>6. PacketSize[Len(Sent) + 1] \in Nat \ {0}
  BY <1>5, RecorderAssumption
<1>7. RecordCount(Sent) \in Nat
  BY <1>1, AllRowsType
<1>8. SampleIndex(0, RecordCount(Sent)) \in Nat
  BY <1>7, SampleIndexType
<1> QED BY <1>1, <1>6, <1>8 DEF NextPacket, Packets

----------------------------------------------------------------------------
(* The steps of the storage thread, by what they write. *)

LEMMA RowsStep ==
  ASSUME AppendRows
  PROVE  LET rows == Rows(cmd.packet)
         IN  /\ wpc = "rows" /\ Quiet
             /\ \/ /\ Wrote(WithRows(SubSeq(rows, 1, Len(rows)))) /\ wpc' = "packet"
                   /\ UNCHANGED <<worker, cmd>> /\ Working
                \/ \E k \in 0..Len(rows) : Wrote(WithRows(SubSeq(rows, 1, k))) /\ Fail(cmd)
  BY DEF AppendRows, Wrote, WithRows

LEMMA PacketStep ==
  ASSUME AppendPacket
  PROVE  /\ wpc = "packet" /\ Quiet
         /\ \/ /\ Wrote(WithEntry)
               /\ session_record_offset' = session_record_offset + cmd.packet.n
               /\ \/ Succeed(cmd, queue)
                  \/ segment_index < MaxSegment /\ wpc' = "finalise" /\ UNCHANGED cmd /\ Working
               /\ UNCHANGED <<session, stamp, segment_index, segment>>
            \/ (files' = files \/ Wrote(WithEntry)) /\ Fail(cmd)
  BY DEF AppendPacket, Wrote, WithEntry

LEMMA FinaliseStep ==
  ASSUME Finalise
  PROVE  /\ wpc = "finalise" /\ Quiet
         /\ \/ Wrote(Complete) /\ wpc' = "rename" /\ UNCHANGED <<worker, cmd>> /\ Working
            \/ \E g \in {files[segment], Closed, Clean, Complete} : Wrote(g) /\ Fail(cmd)
  BY DEF Finalise, Wrote, Closed, Clean, Complete

LEMMA RenameStep ==
  ASSUME Rename
  PROVE  /\ wpc = "rename" /\ Quiet
         /\ \/ /\ Wrote(Final) /\ segment' = NoSegment
               /\ \/ /\ cmd.type = "packet"
                     /\ segment_index' = segment_index + 1 /\ wpc' = "open"
                     /\ UNCHANGED <<session, cmd>> /\ Working
                  \/ /\ cmd.type # "packet"
                     /\ session' = 0 /\ Succeed(cmd, queue) /\ UNCHANGED segment_index
               /\ UNCHANGED <<stamp, session_record_offset>>
            \/ Fail(cmd) /\ UNCHANGED files
  BY DEF Rename, Wrote, Final

Name == <<stamp, segment_index>>
Created == [f \in DOMAIN files \cup {Name} |-> IF f = Name THEN NewFile ELSE files[f]]

LEMMA OpenStep ==
  ASSUME OpenSegment
  PROVE  /\ wpc = "open" /\ Quiet
         /\ \/ /\ Name \notin DOMAIN files /\ files' = Created /\ segment' = Name
               /\ Succeed(cmd, queue)
               /\ UNCHANGED <<session, stamp, segment_index, session_record_offset>>
            \/ Fail(cmd) /\ (files' = files \/ (Name \notin DOMAIN files /\ files' = Created))
  BY DEF OpenSegment, Taken, Name, Created

LEMMA FilesAfterCreate ==
  ASSUME StorageTypes, session # 0, Name \notin DOMAIN files, files' = Created
  PROVE  /\ DOMAIN files' = DOMAIN files \cup {Name} /\ DOMAIN files' \subseteq Names
         /\ files' \in [DOMAIN files' -> File]
         /\ files'[Name] = NewFile /\ NewFile \in File
         /\ \A f \in DOMAIN files : files'[f] = files[f]
<1>1. Name \in Names
  BY DEF Name, Names, StorageTypes
<1>2. NewFile \in File
  <2>1. <<>> \in Seq(Nat) /\ <<>> \in Seq(Entry)
    BY EmptySeq
  <2> QED BY <2>1 DEF NewFile, File, StorageTypes, Sessions
<1> QED BY <1>1, <1>2 DEF Created, StorageTypes

LEMMA FailStep ==
  ASSUME Types, NEW x, Fail(x)
  PROVE  /\ CallTypes' /\ WorkerOK'
         /\ queue' = <<>> /\ wpc' = "dead" /\ alive' = FALSE /\ cmd' = Idle /\ session' = 0
         /\ segment' = NoSegment /\ UNCHANGED <<stamp, segment_index, session_record_offset>>
         /\ error' \in BOOLEAN
  <1>1. CallTypes'
    BY CallsDropped DEF Fail, Types, BrokerTypes
  <1>2. /\ queue' = <<>> /\ wpc' = "dead" /\ alive' = FALSE /\ cmd' = Idle /\ session' = 0
        /\ segment' = NoSegment /\ UNCHANGED <<stamp, segment_index, session_record_offset>>
    BY DEF Fail, Die
  <1>3. WorkerOK'
    BY <1>2 DEF WorkerOK
  <1>4. error' \in BOOLEAN
    BY DEF Fail
  <1> QED BY <1>1, <1>2, <1>3, <1>4

LEMMA FailTypes ==
  ASSUME Types, NEW x, Fail(x), Quiet,
         DOMAIN files' \subseteq Names, files' \in [DOMAIN files' -> File]
  PROVE  Types'
<1>1. BrokerTypes'
  <2>1. call'["ops"] # Idle => call["ops"] # Idle
    BY CallsDropped DEF Fail, Callers, Types, BrokerTypes, Idle
  <2> QED BY <2>1, FailStep DEF Quiet, brokerState, ghosts, Types, BrokerTypes
<1>2. StorageTypes'
  <2>1. <<>> \in Seq(Commands) /\ Len(<<>>) = 0 /\ 0 <= QueueCap
    BY EmptySeq, RecorderAssumption
  <2>2. alive' = FALSE /\ wpc' = "dead" /\ error' \in BOOLEAN
    BY FailStep
  <2>3. alive' \in BOOLEAN /\ alive' = (wpc' # "dead")
    BY <2>2
  <2>4. queue' = <<>> /\ session' = 0 /\ UNCHANGED <<stamp, segment_index, session_record_offset>>
    BY FailStep
  <2>5. 0 \in 0..MaxSessions
    BY RecorderAssumption
  <2> QED BY <2>1, <2>2, <2>3, <2>4, <2>5 DEF Types, StorageTypes
<1> QED BY <1>1, <1>2, FailStep DEF Types

LEMMA SucceedStep ==
  ASSUME Types, wpc # "dead", NEW x \in Commands, NEW rest, Succeed(x, rest)
  PROVE  /\ CallTypes' /\ cmd' = Idle /\ error' = error
         /\ x.type = "shutdown" => wpc' = "dead" /\ alive' = FALSE /\ queue' = <<>>
         /\ x.type # "shutdown" => wpc' = "recv" /\ alive' = alive /\ queue' = rest
         /\ alive' \in BOOLEAN /\ alive' = (wpc' # "dead")
<1>1. CallTypes'
  BY CallAfterSuccess DEF Types, BrokerTypes
<1>2. cmd' = Idle /\ error' = error
  BY DEF Succeed, Die
<1>3. x.type = "shutdown" => wpc' = "dead" /\ alive' = FALSE /\ queue' = <<>>
  BY DEF Succeed, Die
<1>4. x.type # "shutdown" => wpc' = "recv" /\ alive' = alive /\ queue' = rest
  BY DEF Succeed
<1>5. alive = TRUE
  BY DEF Types, StorageTypes
<1>6. CASE x.type = "shutdown"
  BY <1>1, <1>2, <1>3, <1>6
<1>7. CASE x.type # "shutdown"
  BY <1>1, <1>2, <1>4, <1>5, <1>7
<1> QED BY <1>6, <1>7

(* What a step of the storage thread owes to Types when it has succeeded.  *)
LEMMA SucceedTypes ==
  ASSUME Types, wpc # "dead", NEW x \in Commands, NEW rest \in Seq(Commands),
         Len(rest) <= QueueCap, Succeed(x, rest), Quiet,
         DOMAIN files' \subseteq Names, files' \in [DOMAIN files' -> File],
         session' \in 0..MaxSessions, stamp' \in Stamps, segment_index' \in 0..MaxSegment,
         session_record_offset' \in Nat,
         session' = 0 <=> segment' = NoSegment,
         x.type = "shutdown" => segment' = NoSegment,
         segment' # NoSegment =>
            /\ segment' = <<stamp', segment_index'>> /\ segment' \in DOMAIN files'
            /\ files'[segment'].session = session' /\ ~files'[segment'].final
  PROVE  Types'
<1>1. BrokerTypes'
  <2>1. call'["ops"] # Idle => call["ops"] # Idle
    <3>1. CASE x.type = "shutdown"
      BY <3>1, CallsDropped, CallAfterSuccess DEF Callers, Types, BrokerTypes, Idle
    <3>2. CASE x.type = "packet"
      BY <3>2, CallAfterSuccess DEF Types, BrokerTypes
    <3>3. CASE x.type \in {"start", "stop"}
      <4>1. x.by \in Callers /\ call' = Answered(x.by, "ok")
        BY <3>3, CallAfterSuccess DEF Types, BrokerTypes
      <4> QED BY <4>1, CallAnswered DEF Callers, Types, BrokerTypes, Idle
    <3> QED BY <3>1, <3>2, <3>3, CommandFacts
  <2> QED BY <2>1, SucceedStep DEF Quiet, brokerState, ghosts, Types, BrokerTypes
<1>2. /\ cmd' = Idle /\ error' = error /\ alive' \in BOOLEAN /\ alive' = (wpc' # "dead")
      /\ x.type = "shutdown" => wpc' = "dead" /\ queue' = <<>>
      /\ x.type # "shutdown" => wpc' = "recv" /\ queue' = rest
  BY SucceedStep
<1>3. StorageTypes'
  <2>1. <<>> \in Seq(Commands) /\ Len(<<>>) = 0 /\ 0 <= QueueCap
    BY EmptySeq, RecorderAssumption
  <2>2. queue' \in Seq(Commands) /\ Len(queue') <= QueueCap
    BY <1>2, <2>1
  <2>3. wpc' \in {"recv", "dead"} /\ error' \in BOOLEAN
    BY <1>2 DEF Types, StorageTypes
  <2> QED BY <1>2, <2>2, <2>3 DEF StorageTypes
<1>4. WorkerOK'
  <2>1. wpc' \in {"recv", "dead"} /\ (wpc' = "dead" => x.type = "shutdown")
    BY <1>2
  <2> QED BY <1>2, <2>1 DEF WorkerOK
<1> QED BY <1>1, <1>3, <1>4 DEF Types

LEMMA QueueTail ==
  ASSUME Types, queue # <<>>
  PROVE  /\ Head(queue) \in Commands /\ Tail(queue) \in Seq(Commands)
         /\ Len(Tail(queue)) = Len(queue) - 1 /\ Len(queue) \in Nat \ {0}
         /\ Len(Tail(queue)) <= QueueCap
         /\ \A i \in 1..(Len(queue) - 1) : Tail(queue)[i] = queue[i + 1]
         /\ Head(queue) = queue[1]
<1>1. queue \in Seq(Commands) /\ Len(queue) <= QueueCap /\ QueueCap \in Nat
  BY RecorderAssumption DEF Types, StorageTypes
<1>2. /\ Head(queue) \in Commands /\ Tail(queue) \in Seq(Commands)
      /\ Len(Tail(queue)) = Len(queue) - 1 /\ Len(queue) \in Nat \ {0}
      /\ \A i \in 1..Len(Tail(queue)) : Tail(queue)[i] = queue[i + 1]
  BY <1>1, HeadTailProperties, EmptySeq
<1>3. Len(Tail(queue)) <= QueueCap
  BY <1>1, <1>2
<1>4. Head(queue) = queue[1]
  BY <1>1
<1> QED BY <1>2, <1>3, <1>4

LEMMA ReceiveTypes ==
  ASSUME Types, Receive
  PROVE  Types'
<1> DEFINE next == Head(queue)
           Begun(pc) == /\ wpc' = pc /\ cmd' = next /\ queue' = Tail(queue)
                        /\ UNCHANGED <<alive, error, call>>
<1>1. wpc = "recv" /\ queue # <<>> /\ UNCHANGED files /\ Quiet
  BY DEF Receive
<1>2. next \in Commands /\ Tail(queue) \in Seq(Commands) /\ Len(Tail(queue)) <= QueueCap
  BY <1>1, QueueTail
<1>3. DOMAIN files' \subseteq Names /\ files' \in [DOMAIN files' -> File]
  BY <1>1 DEF Types, StorageTypes
<1>4. ASSUME NEW pc \in {"open", "rows", "finalise"}, Begun(pc) PROVE
        /\ BrokerTypes' /\ wpc' = pc /\ cmd' = next
        /\ session' \in 0..MaxSessions /\ stamp' \in Stamps /\ segment_index' \in 0..MaxSegment
           /\ session_record_offset' \in Nat => StorageTypes'
  <2>1. alive' = (wpc' # "dead") /\ alive' \in BOOLEAN
    <3>1. alive = TRUE /\ wpc' # "dead"
      BY <1>1, <1>4 DEF Types, StorageTypes
    <3> QED BY <1>4, <3>1
  <2>2. BrokerTypes'
    BY <1>1, <1>4 DEF Quiet, brokerState, ghosts, Types, BrokerTypes, CallTypes
  <2> QED BY <1>2, <1>3, <1>4, <2>1, <2>2 DEF Types, StorageTypes
<1>5. CASE /\ next.type = "start" /\ segment = NoSegment
           /\ session' = next.session /\ stamp' = next.stamp
           /\ segment_index' = 0 /\ session_record_offset' = 0
           /\ Begun("open") /\ UNCHANGED segment
  <2>1. /\ next \in OpsCommands /\ session' \in Sessions /\ stamp' \in Stamps
    BY <1>2, <1>5, CommandFacts
  <2>2. session' \in 0..MaxSessions /\ session' # 0 /\ 0 \in 0..MaxSegment
    BY <2>1, RecorderAssumption DEF Sessions
  <2>3. WorkerOK'
    BY <1>4, <1>5, <2>1, <2>2 DEF WorkerOK
  <2> QED BY <1>4, <1>5, <2>1, <2>2, <2>3 DEF Types
<1>6. CASE /\ next.type = "packet" /\ session # 0 /\ segment # NoSegment
           /\ Begun("rows") /\ UNCHANGED worker
  <2>1. next \in PacketCommands
    BY <1>2, <1>6, CommandFacts
  <2>2. WorkerOK'
    BY <1>1, <1>4, <1>6, <2>1 DEF WorkerOK, worker, Types
  <2> QED BY <1>4, <1>6, <2>2 DEF Types, StorageTypes, worker
<1>7. CASE /\ next.type \in {"stop", "shutdown"} /\ segment # NoSegment
           /\ Begun("finalise") /\ UNCHANGED worker
  <2>1. WorkerOK'
    BY <1>1, <1>2, <1>4, <1>7 DEF WorkerOK, worker, Types
  <2> QED BY <1>4, <1>7, <2>1 DEF Types, StorageTypes, worker
<1>8. CASE /\ next.type \in {"stop", "shutdown"} /\ segment = NoSegment
           /\ Succeed(next, Tail(queue)) /\ UNCHANGED worker
  <2>1. session' = 0 <=> segment' = NoSegment
    BY <1>1, <1>8 DEF Types, WorkerOK, worker
  <2> QED BY <1>1, <1>2, <1>3, <1>8, <2>1, SucceedTypes DEF Types, StorageTypes, worker
<1>9. CASE Fail(next)
  BY <1>1, <1>3, <1>9, FailTypes
<1> QED BY <1>5, <1>6, <1>7, <1>8, <1>9 DEF Receive

LEMMA InHandFacts ==
  ASSUME Types
  PROVE  /\ InHand => cmd \in Commands /\ wpc # "dead" /\ alive = TRUE
         /\ wpc \in {"rows", "packet"} => cmd.type = "packet" /\ cmd.packet \in Packets
         /\ segment # NoSegment => segment \in DOMAIN files /\ session # 0 /\ session \in Sessions
         /\ session # 0 => session \in Sessions
         /\ queue \in Seq(Commands) /\ Len(queue) \in Nat
<1>1. InHand => cmd \in Commands
  BY CommandFacts DEF InHand, Types, WorkerOK
<1>2. wpc \in {"rows", "packet"} => cmd.type = "packet" /\ cmd.packet \in Packets
  BY CommandFacts DEF Types, WorkerOK
<1>3. segment # NoSegment => segment \in DOMAIN files /\ session # 0
  <2>1. wpc = "open" => session # 0
    BY DEF Types, WorkerOK
  <2>2. wpc # "open" => (session = 0 <=> segment = NoSegment)
    BY DEF Types, WorkerOK
  <2> QED BY <2>1, <2>2 DEF Types, WorkerOK
<1>4. session # 0 => session \in Sessions
  BY DEF Types, StorageTypes, Sessions
<1>5. InHand => wpc # "dead" /\ alive = TRUE
  BY DEF Types, StorageTypes, InHand
<1> QED BY <1>1, <1>2, <1>3, <1>4, <1>5 DEF Types, StorageTypes

(* What a step that works on in the same segment owes to Types. *)
LEMMA WorkingTypes ==
  ASSUME Types, InHand, Working, Quiet, wpc' \in {"open", "packet", "finalise", "rename"},
         DOMAIN files' \subseteq Names, files' \in [DOMAIN files' -> File],
         UNCHANGED <<session, stamp>>, segment_index' \in 0..MaxSegment,
         session_record_offset' \in Nat, WorkerOK'
  PROVE  Types'
<1>1. BrokerTypes'
  BY DEF Working, Quiet, brokerState, ghosts, Types, BrokerTypes, CallTypes
<1>2. alive' \in BOOLEAN /\ alive' = (wpc' # "dead")
  <2>1. alive = TRUE
    BY InHandFacts
  <2> QED BY <2>1 DEF Working
<1>3. StorageTypes'
  BY <1>2 DEF Working, Types, StorageTypes
<1> QED BY <1>1, <1>3 DEF Types

LEMMA OpenTypes ==
  ASSUME Types, OpenSegment
  PROVE  Types'
<1>1. wpc = "open" /\ InHand /\ Quiet /\ session # 0 /\ segment = NoSegment /\ cmd \in Commands
  BY OpenStep, InHandFacts DEF InHand, Types, WorkerOK
<1>2. CASE /\ Name \notin DOMAIN files /\ files' = Created /\ segment' = Name
           /\ Succeed(cmd, queue)
           /\ UNCHANGED <<session, stamp, segment_index, session_record_offset>>
  <2>1. /\ DOMAIN files' \subseteq Names /\ files' \in [DOMAIN files' -> File]
        /\ Name \in DOMAIN files' /\ files'[Name] = NewFile
    BY <1>1, <1>2, FilesAfterCreate DEF Types
  <2>2. cmd.type # "shutdown"
    BY <1>1, CommandFacts DEF Types, WorkerOK
  <2>3. Name # NoSegment /\ segment' = <<stamp', segment_index'>>
    BY <1>2 DEF Name, NoSegment
  <2>4. NewFile.session = session /\ ~NewFile.final
    BY DEF NewFile
  <2>5. Len(queue) <= QueueCap /\ queue \in Seq(Commands)
    BY DEF Types, StorageTypes
  <2> QED BY <1>1, <1>2, <2>1, <2>2, <2>3, <2>4, <2>5, SucceedTypes DEF Types, StorageTypes
<1>3. CASE Fail(cmd) /\ (files' = files \/ (Name \notin DOMAIN files /\ files' = Created))
  <2>1. DOMAIN files' \subseteq Names /\ files' \in [DOMAIN files' -> File]
    BY <1>1, <1>3, FilesAfterCreate DEF Types, StorageTypes
  <2> QED BY <1>1, <1>3, <2>1, FailTypes
<1> QED BY <1>2, <1>3, OpenStep

LEMMA RowsTypes ==
  ASSUME Types, AppendRows
  PROVE  Types'
<1> DEFINE rows == Rows(cmd.packet)
<1>1. wpc = "rows" /\ InHand /\ Quiet /\ segment # NoSegment /\ segment \in DOMAIN files
  BY RowsStep, InHandFacts DEF InHand, Types, WorkerOK
<1>2. \A k \in 0..Len(rows) : WithRows(SubSeq(rows, 1, k)) \in File
  BY <1>1, WritesTyped DEF Types
<1>3. ASSUME NEW k \in 0..Len(rows), Wrote(WithRows(SubSeq(rows, 1, k)))
      PROVE  /\ DOMAIN files' = DOMAIN files /\ files' \in [DOMAIN files' -> File]
             /\ DOMAIN files' \subseteq Names
             /\ files'[segment] = WithRows(SubSeq(rows, 1, k))
  BY <1>1, <1>2, <1>3, FilesAfterWrite DEF Types, StorageTypes
<1>4. CASE /\ Wrote(WithRows(SubSeq(rows, 1, Len(rows)))) /\ wpc' = "packet"
           /\ UNCHANGED <<worker, cmd>> /\ Working
  <2>1. Len(rows) \in 0..Len(rows)
    BY <1>1, RowsType, InHandFacts
  <2>2. WorkerOK'
    <3>1. files'[segment].session = files[segment].session /\ files'[segment].final = files[segment].final
      <4>1. files[segment] \in File
        BY <1>1 DEF Types, StorageTypes
      <4> QED BY <1>3, <1>4, <2>1, <4>1 DEF WithRows, File
    <3> QED BY <1>1, <1>3, <1>4, <2>1, <3>1 DEF Types, WorkerOK, worker
  <2> QED BY <1>1, <1>3, <1>4, <2>1, <2>2, WorkingTypes DEF worker, Types, StorageTypes
<1>5. CASE \E k \in 0..Len(rows) : Wrote(WithRows(SubSeq(rows, 1, k))) /\ Fail(cmd)
  BY <1>1, <1>3, <1>5, FailTypes
<1> QED BY <1>4, <1>5, RowsStep

LEMMA PacketTypes ==
  ASSUME Types, AppendPacket
  PROVE  Types'
<1>1. /\ wpc = "packet" /\ InHand /\ Quiet /\ segment # NoSegment /\ segment \in DOMAIN files
      /\ cmd \in Commands /\ cmd.type = "packet" /\ cmd.packet \in Packets
  BY PacketStep, InHandFacts DEF InHand, Types, WorkerOK
<1>2. Wrote(WithEntry) =>
             /\ DOMAIN files' = DOMAIN files /\ files' \in [DOMAIN files' -> File]
             /\ DOMAIN files' \subseteq Names /\ files'[segment] = WithEntry
  BY <1>1, WritesTyped, FilesAfterWrite DEF Types, StorageTypes
<1>3. CASE /\ Wrote(WithEntry)
           /\ session_record_offset' = session_record_offset + cmd.packet.n
           /\ \/ Succeed(cmd, queue)
              \/ segment_index < MaxSegment /\ wpc' = "finalise" /\ UNCHANGED cmd /\ Working
           /\ UNCHANGED <<session, stamp, segment_index, segment>>
  <2>1. session_record_offset' \in Nat
    BY <1>1, <1>3, RowsType DEF Types, StorageTypes
  <2>2. WithEntry.session = files[segment].session /\ WithEntry.final = files[segment].final
    <3>1. files[segment] \in File
      BY <1>1 DEF Types, StorageTypes
    <3> QED BY <3>1 DEF WithEntry, File
  <2>3. /\ segment' = <<stamp', segment_index'>> /\ segment' \in DOMAIN files'
        /\ files'[segment'].session = session' /\ ~files'[segment'].final
    BY <1>1, <1>2, <1>3, <2>2 DEF Types, WorkerOK
  <2>4. Len(queue) <= QueueCap /\ queue \in Seq(Commands) /\ session # 0
    BY <1>1, InHandFacts DEF Types, StorageTypes
  <2>5. CASE Succeed(cmd, queue)
    BY <1>1, <1>2, <1>3, <2>1, <2>3, <2>4, <2>5, SucceedTypes DEF Types, StorageTypes
  <2>6. CASE segment_index < MaxSegment /\ wpc' = "finalise" /\ UNCHANGED cmd /\ Working
    <3>1. WorkerOK'
      BY <1>1, <1>3, <2>3, <2>4, <2>6 DEF Types, WorkerOK
    <3> QED BY <1>1, <1>2, <1>3, <2>1, <2>6, <3>1, WorkingTypes DEF Types, StorageTypes
  <2> QED BY <1>3, <2>5, <2>6
<1>4. CASE (files' = files \/ Wrote(WithEntry)) /\ Fail(cmd)
  <2>1. DOMAIN files' \subseteq Names /\ files' \in [DOMAIN files' -> File]
    BY <1>2, <1>4 DEF Types, StorageTypes
  <2> QED BY <1>1, <1>4, <2>1, FailTypes
<1> QED BY <1>3, <1>4, PacketStep

LEMMA FinaliseTypes ==
  ASSUME Types, Finalise
  PROVE  Types'
<1>1. wpc = "finalise" /\ InHand /\ Quiet /\ segment # NoSegment /\ segment \in DOMAIN files
  BY FinaliseStep, InHandFacts DEF InHand, Types, WorkerOK
<1>2. {files[segment], Closed, Clean, Complete} \subseteq File
  BY <1>1, WritesTyped DEF Types
<1>3. ASSUME NEW g \in {files[segment], Closed, Clean, Complete}, Wrote(g)
      PROVE  /\ DOMAIN files' = DOMAIN files /\ files' \in [DOMAIN files' -> File]
             /\ DOMAIN files' \subseteq Names /\ files'[segment] = g
  BY <1>1, <1>2, <1>3, FilesAfterWrite DEF Types, StorageTypes
<1>4. CASE Wrote(Complete) /\ wpc' = "rename" /\ UNCHANGED <<worker, cmd>> /\ Working
  <2>1. Complete.session = files[segment].session /\ Complete.final = files[segment].final
    BY <1>2 DEF Complete, Clean, Closed, File
  <2>2. WorkerOK'
    BY <1>1, <1>3, <1>4, <2>1 DEF Types, WorkerOK, worker
  <2> QED BY <1>1, <1>3, <1>4, <2>2, WorkingTypes DEF worker, Types, StorageTypes
<1>5. CASE \E g \in {files[segment], Closed, Clean, Complete} : Wrote(g) /\ Fail(cmd)
  BY <1>1, <1>3, <1>5, FailTypes
<1> QED BY <1>4, <1>5, FinaliseStep

LEMMA RenameTypes ==
  ASSUME Types, Rename
  PROVE  Types'
<1>1. /\ wpc = "rename" /\ InHand /\ Quiet /\ segment # NoSegment /\ segment \in DOMAIN files
      /\ cmd \in Commands /\ wpc # "dead" /\ session # 0
  BY RenameStep, InHandFacts DEF InHand, Types, WorkerOK
<1>2. Wrote(Final) => /\ DOMAIN files' = DOMAIN files /\ files' \in [DOMAIN files' -> File]
                      /\ DOMAIN files' \subseteq Names
  BY <1>1, WritesTyped, FilesAfterWrite DEF Types, StorageTypes
<1>3. CASE /\ Wrote(Final) /\ segment' = NoSegment
           /\ cmd.type = "packet"
           /\ segment_index' = segment_index + 1 /\ wpc' = "open"
           /\ UNCHANGED <<session, cmd>> /\ Working
           /\ UNCHANGED <<stamp, session_record_offset>>
  <2>1. cmd \in PacketCommands /\ segment_index < MaxSegment
    BY <1>1, <1>3, CommandFacts DEF Types, WorkerOK
  <2>2. segment_index' \in 0..MaxSegment /\ segment_index' # 0
    BY <1>3, <2>1, RecorderAssumption DEF Types, StorageTypes
  <2>3. WorkerOK'
    BY <1>1, <1>3, <2>1, <2>2 DEF WorkerOK
  <2> QED BY <1>1, <1>2, <1>3, <2>2, <2>3, WorkingTypes DEF Types, StorageTypes
<1>4. CASE /\ Wrote(Final) /\ segment' = NoSegment
           /\ cmd.type # "packet"
           /\ session' = 0 /\ Succeed(cmd, queue) /\ UNCHANGED segment_index
           /\ UNCHANGED <<stamp, session_record_offset>>
  <2>1. 0 \in 0..MaxSessions /\ queue \in Seq(Commands) /\ Len(queue) <= QueueCap
    BY RecorderAssumption DEF Types, StorageTypes
  <2> QED BY <1>1, <1>2, <1>4, <2>1, SucceedTypes DEF Types, StorageTypes
<1>5. CASE Fail(cmd) /\ UNCHANGED files
  BY <1>1, <1>5, FailTypes DEF Types, StorageTypes
<1> QED BY <1>3, <1>4, <1>5, RenameStep

(* The steps of the broker leave the storage thread alone but for its      *)
(* queue.                                                                  *)
LEMMA StorageKept ==
  ASSUME Types, UNCHANGED storage
  PROVE  StorageTypes' /\ WorkerOK'
  BY DEF Types, StorageTypes, WorkerOK, storage

LEMMA QueueGrown ==
  ASSUME Types, NEW x \in Commands, alive, Len(queue) < QueueCap, queue' = Append(queue, x),
         UNCHANGED <<alive, error, wpc, cmd, worker, files>>
  PROVE  /\ StorageTypes' /\ WorkerOK'
         /\ Len(queue') = Len(queue) + 1 /\ queue'[Len(queue) + 1] = x
         /\ \A i \in 1..Len(queue) : queue'[i] = queue[i]
<1>0. wpc # "dead" /\ alive' \in BOOLEAN /\ alive' = (wpc' # "dead")
  BY DEF Types, StorageTypes
<1>1. queue \in Seq(Commands) /\ Len(queue) \in Nat /\ QueueCap \in Nat /\ wpc # "dead"
  BY <1>0, RecorderAssumption DEF Types, StorageTypes
<1>2. /\ queue' \in Seq(Commands) /\ Len(queue') = Len(queue) + 1 /\ queue'[Len(queue) + 1] = x
      /\ \A i \in 1..Len(queue) : queue'[i] = queue[i]
  BY <1>1, AppendProperties
<1>3. StorageTypes'
  <2>1. Len(queue') <= QueueCap
    BY <1>1, <1>2
  <2>2. UNCHANGED <<error, wpc, session, stamp, segment_index, session_record_offset, files>>
    BY DEF worker
  <2> QED BY <1>0, <1>2, <2>1, <2>2 DEF Types, StorageTypes
<1>4. WorkerOK'
  BY <1>1 DEF Types, WorkerOK, worker
<1> QED BY <1>2, <1>3, <1>4

LEMMA CommandOf ==
  ASSUME CallTypes, NEW c \in Callers, call[c].st # "idle"
  PROVE  /\ call[c] # Idle /\ call[c].command \in Commands
         /\ c = "ops" => call[c].command \in OpsCommands
         /\ c = "main" => call[c].command \in MainCommands
  BY CallFacts, CommandFacts DEF CallTypes, Callers, Idle

LEMMA EnqueueTypes ==
  ASSUME Types, NEW c \in Callers, Enqueue(c)
  PROVE  Types'
<1>1. call[c] # Idle /\ call[c].command \in Commands
  BY CommandOf DEF Enqueue, Types, BrokerTypes
<1>2. StorageTypes' /\ WorkerOK'
  BY <1>1, QueueGrown DEF Enqueue
<1>3. CallTypes'
  <2>1. PICK st \in {"ok", "waiting"} : call' = [call EXCEPT ![c].st = st]
    BY DEF Enqueue
  <2> QED BY <1>1, <2>1, CallMoved DEF Types, BrokerTypes
<1>4. BrokerTypes'
  <2>1. call'["ops"] # Idle => call["ops"] # Idle
    BY <1>1, CallMoved DEF Enqueue, Types, BrokerTypes, Callers
  <2> QED BY <1>3, <2>1 DEF Enqueue, Types, BrokerTypes, brokerState, ghosts
<1> QED BY <1>2, <1>4 DEF Types

LEMMA BrokerKept ==
  ASSUME Types, UNCHANGED storage, CallTypes',
         running' \in BOOLEAN, receiving' \in BOOLEAN, fatal' \in BOOLEAN,
         main' \in {"serving", "stream_stop", "stopping", "closing", "exited"},
         started' \in 0..MaxSessions, running' \/ call'["ops"] # Idle => started' # 0,
         delivered' \in [Sessions -> Seq(Packets)], due' \in [Sessions -> Nat]
  PROVE  Types'
  BY StorageKept DEF Types, BrokerTypes

LEMMA OpsTypes ==
  ASSUME Types
  PROVE  /\ \A c \in Callers : SendFails(c) => Types'
         /\ \A t \in Sessions : StartCall(t) => Types'
         /\ StartDone => Types'
         /\ \A reason \in StopReasons : StopCall(reason) => Types'
         /\ StopDone => Types'
<1> USE DEF Types, BrokerTypes, brokerState, ghosts
<1>1. ASSUME NEW c \in Callers, SendFails(c) PROVE Types'
  <2>1. CallTypes'
    BY <1>1, CommandOf, CallMoved DEF SendFails
  <2>2. call'["ops"] # Idle => call["ops"] # Idle
    BY <1>1, CommandOf, CallMoved DEF SendFails, Callers
  <2> QED BY <1>1, <2>1, <2>2, BrokerKept DEF SendFails
<1>2. ASSUME NEW t \in Sessions, StartCall(t) PROVE Types'
  <2>1. started \in Nat /\ started + 1 \in Sessions
    BY <1>2, RecorderAssumption DEF StartCall, Sessions
  <2>2. [type |-> "start", session |-> started + 1, stamp |-> t, by |-> "ops"] \in OpsCommands
    BY <2>1 DEF OpsCommands, Stamps, Sessions
  <2>3. CallTypes'
    BY <1>2, <2>2, CallAsked DEF StartCall, Callers
  <2>4. started' \in 0..MaxSessions /\ started' # 0
    BY <1>2, <2>1 DEF StartCall, Sessions
  <2> QED BY <1>2, <2>3, <2>4, BrokerKept DEF StartCall
<1>3. ASSUME StartDone PROVE Types'
  <2>1. CallTypes'
    BY <1>3, CallForgotten DEF StartDone, Callers
  <2>2. running' \in BOOLEAN /\ started # 0
    <3>1. running' \in BOOLEAN
      BY <1>3 DEF StartDone
    <3>2. call["ops"] # Idle
      BY <1>3 DEF StartDone, Idle
    <3> QED BY <3>1, <3>2
  <2> QED BY <1>3, <2>1, <2>2, BrokerKept DEF StartDone
<1>4. ASSUME NEW reason \in StopReasons, StopCall(reason) PROVE Types'
  <2>1. [type |-> "stop", reason |-> reason, by |-> "ops"] \in OpsCommands
    BY DEF OpsCommands, Reasons
  <2>2. CallTypes'
    BY <1>4, <2>1, CallAsked DEF StopCall, Callers
  <2>3. due' \in [Sessions -> Nat]
    <3>1. started \in Sessions
      BY <1>4 DEF StopCall, Sessions
    <3>2. Len(delivered[started]) \in Nat
      BY <3>1
    <3> QED BY <1>4, <3>2 DEF StopCall
  <2>4. running /\ started' = started
    BY <1>4 DEF StopCall
  <2> QED BY <1>4, <2>2, <2>3, <2>4, BrokerKept DEF StopCall
<1>5. ASSUME StopDone PROVE Types'
  <2>1. CallTypes'
    BY <1>5, CallForgotten DEF StopDone, Callers
  <2>2. call["ops"] # Idle
    BY <1>5 DEF StopDone, Idle
  <2> QED BY <1>5, <2>1, <2>2, BrokerKept DEF StopDone
<1> QED BY <1>1, <1>2, <1>3, <1>4, <1>5

LEMMA PacketProcessed ==
  ASSUME Types, ProcessPacket
  PROVE  /\ main # "exited" /\ running /\ started \in Sessions /\ Sent \in Seq(Packets)
         /\ NextPacket \in Packets /\ [type |-> "packet", packet |-> NextPacket] \in Commands
         /\ \/ /\ alive /\ Len(queue) < QueueCap
               /\ queue' = Append(queue, [type |-> "packet", packet |-> NextPacket])
               /\ history' = Push(history, NextPacket, Capacity[started])
               /\ delivered' = [delivered EXCEPT ![started] = Append(Sent, NextPacket)]
               /\ UNCHANGED <<receiving, fatal>>
            \/ fatal' = TRUE /\ receiving' = FALSE /\ UNCHANGED <<queue, history, delivered>>
         /\ UNCHANGED <<alive, error, wpc, cmd, worker, files, running, call, main,
                        started, crashes, due>>
<1>1. main # "exited" /\ running /\ Len(FlattenSeq(delivered)) < MaxPackets
  BY DEF ProcessPacket
<1>2. started \in Sessions /\ Sent \in Seq(Packets) /\ NextPacket \in Packets
  BY <1>1, PacketTyped DEF Types
<1>3. [type |-> "packet", packet |-> NextPacket] \in Commands
  BY <1>2 DEF Commands, PacketCommands
<1> QED BY <1>1, <1>2, <1>3 DEF ProcessPacket, Sent, NextPacket

LEMMA DeliveredAfter ==
  ASSUME Types, NEW p \in Packets, started \in Sessions,
         delivered' = [delivered EXCEPT ![started] = Append(Sent, p)]
  PROVE  /\ delivered' \in [Sessions -> Seq(Packets)] /\ delivered'[started] = Append(Sent, p)
         /\ \A s \in Sessions : s # started => delivered'[s] = delivered[s]
<1>1. Sent \in Seq(Packets) /\ delivered \in [Sessions -> Seq(Packets)]
  BY DEF Types, BrokerTypes, Sent
<1>2. Append(Sent, p) \in Seq(Packets)
  BY <1>1, AppendProperties
<1> QED BY <1>1, <1>2

LEMMA ProcessTypes ==
  ASSUME Types, ProcessPacket
  PROVE  Types'
<1>1. CASE /\ alive /\ Len(queue) < QueueCap
           /\ queue' = Append(queue, [type |-> "packet", packet |-> NextPacket])
           /\ delivered' = [delivered EXCEPT ![started] = Append(Sent, NextPacket)]
           /\ UNCHANGED <<receiving, fatal>>
  <2>1. StorageTypes' /\ WorkerOK'
    BY <1>1, PacketProcessed, QueueGrown
  <2>2. delivered' \in [Sessions -> Seq(Packets)]
    BY <1>1, PacketProcessed, DeliveredAfter
  <2>3. UNCHANGED <<running, call, main, started, due>>
    BY PacketProcessed
  <2>4. BrokerTypes'
    BY <1>1, <2>2, <2>3 DEF Types, BrokerTypes, CallTypes
  <2> QED BY <2>1, <2>4 DEF Types
<1>2. CASE fatal' = TRUE /\ receiving' = FALSE /\ UNCHANGED <<queue, history, delivered>>
  <2>1. UNCHANGED <<storage, running, call, main, started, due, delivered>>
    BY <1>2, PacketProcessed DEF storage, worker
  <2> QED BY <1>2, <2>1, BrokerKept DEF Types, BrokerTypes, CallTypes
<1> QED BY <1>1, <1>2, PacketProcessed

LEMMA MainTypes ==
  ASSUME Types
  PROVE  /\ Monitor => Types'
         /\ ShutdownBegin => Types'
         /\ ShutdownStop => Types'
         /\ ShutdownRecording => Types'
         /\ Exit => Types'
<1> USE DEF Types, BrokerTypes, brokerState, ghosts
<1>1. [type |-> "shutdown"] \in MainCommands
  BY DEF MainCommands
<1>2. ASSUME NEW x \in MainCommands, Ask("main", x)
      PROVE  CallTypes' /\ call'["ops"] = call["ops"]
  BY <1>2, CallAsked DEF Callers
<1>3. ASSUME Monitor PROVE Types'
  BY <1>3, BrokerKept DEF Monitor, CallTypes
<1>4. ASSUME ShutdownBegin PROVE Types'
  <2>1. CASE running
    <3>1. due' \in [Sessions -> Nat]
      <4>1. started \in Sessions
        BY <2>1 DEF Sessions
      <4>2. Len(delivered[started]) \in Nat
        BY <4>1
      <4> QED BY <1>4, <2>1, <4>2 DEF ShutdownBegin
    <3> QED BY <1>4, <2>1, <3>1, BrokerKept DEF ShutdownBegin, CallTypes
  <2>2. CASE ~running
    <3>1. CallTypes' /\ call'["ops"] = call["ops"]
      BY <1>1, <1>2, <1>4, <2>2 DEF ShutdownBegin
    <3> QED BY <1>4, <2>2, <3>1, BrokerKept DEF ShutdownBegin
  <2> QED BY <2>1, <2>2
<1>5. ASSUME ShutdownStop PROVE Types'
  <2>1. [type |-> "stop", reason |-> "BrokerShutdown", by |-> "main"] \in MainCommands
    BY DEF MainCommands, Reasons
  <2>2. CallTypes' /\ call'["ops"] = call["ops"]
    BY <1>2, <1>5, <2>1 DEF ShutdownStop
  <2> QED BY <1>5, <2>2, BrokerKept DEF ShutdownStop
<1>6. ASSUME ShutdownRecording PROVE Types'
  <2>1. CallTypes' /\ call'["ops"] = call["ops"]
    BY <1>1, <1>2, <1>6 DEF ShutdownRecording
  <2> QED BY <1>6, <2>1, BrokerKept DEF ShutdownRecording
<1>7. ASSUME Exit PROVE Types'
  <2>1. CallTypes' /\ call'["ops"] = Idle
    BY <1>7, CallFacts DEF Exit, CallTypes, Callers
  <2> QED BY <1>7, <2>1, BrokerKept DEF Exit
<1> QED BY <1>3, <1>4, <1>5, <1>6, <1>7

BootFacts ==
    /\ queue = <<>> /\ wpc = "recv" /\ cmd = Idle /\ session = 0 /\ segment = NoSegment
    /\ call["ops"] = Idle /\ call["main"] = Idle /\ CallTypes /\ history = <<>>
    /\ ~running /\ main = "serving" /\ WorkerOK /\ alive = TRUE
    /\ queue \in Seq(Commands) /\ Len(queue) <= QueueCap /\ alive = (wpc # "dead")
    /\ session \in 0..MaxSessions /\ stamp \in Stamps /\ segment_index \in 0..MaxSegment
    /\ session_record_offset \in Nat

LEMMA BootedTypes == Booted => BootFacts
<1> SUFFICES ASSUME Booted PROVE BootFacts
  OBVIOUS
<1>1. CallTypes /\ call["ops"] = Idle /\ call["main"] = Idle
  BY CallFacts DEF Booted, CallTypes, Callers
<1>2. <<>> \in Seq(Commands) /\ Len(<<>>) = 0 /\ 0 <= QueueCap
  BY EmptySeq, RecorderAssumption
<1>3. WorkerOK
  BY DEF Booted, WorkerOK
<1>4. alive = TRUE /\ alive = (wpc # "dead")
  BY DEF Booted
<1>5. 0 \in 0..MaxSessions /\ 1 \in Stamps /\ 0 \in 0..MaxSegment
  BY RecorderAssumption DEF Stamps
<1> QED BY <1>1, <1>2, <1>3, <1>4, <1>5 DEF Booted, BootFacts

LEMMA BootedPrimed == Booted' => BootFacts'
  BY BootedTypes, PTL

LEMMA InitTypes == Init => Types
<1> SUFFICES ASSUME Init PROVE Types
  OBVIOUS
<1>1. DOMAIN files = {} /\ files \in [DOMAIN files -> File]
  BY DEF Init
<1>2. BrokerTypes
  <2>1. <<>> \in Seq(Packets) /\ 0 \in 0..MaxSessions
    BY EmptySeq, RecorderAssumption
  <2> QED BY <2>1, BootedTypes DEF Init, BootFacts, BrokerTypes, Booted
<1>3. StorageTypes
  BY <1>1, BootedTypes DEF Init, BootFacts, StorageTypes, Booted
<1> QED BY <1>2, <1>3, BootedTypes DEF Types, Init, BootFacts

LEMMA CrashTypes ==
  ASSUME Types, Crash
  PROVE  Types' /\ Booted'
<1>1. Booted'
  BY DEF Crash, Booted
<1>2. BootFacts'
  BY <1>1, BootedPrimed
<1>3. alive' \in BOOLEAN /\ alive' = (wpc' # "dead")
  BY DEF Crash
<1>4. UNCHANGED <<files, started, delivered, due>>
  BY DEF Crash
<1>5. BrokerTypes'
  BY <1>1, <1>2, <1>4 DEF Types, BrokerTypes, Crash, BootFacts
<1>6. StorageTypes'
  BY <1>1, <1>2, <1>3, <1>4 DEF Types, StorageTypes, Crash, BootFacts
<1> QED BY <1>1, <1>2, <1>5, <1>6 DEF Types, BootFacts

LEMMA TypesStep ==
  ASSUME Types, [Next]_vars
  PROVE  Types'
<1>1. ASSUME UNCHANGED vars PROVE Types'
  BY <1>1, BrokerKept DEF vars, brokerState, control, ghosts, Types, BrokerTypes, CallTypes
<1>2. ASSUME NEW c \in Callers, Enqueue(c) \/ SendFails(c) PROVE Types'
  BY <1>2, EnqueueTypes, OpsTypes
<1>3. ASSUME Worker PROVE Types'
  BY <1>3, ReceiveTypes, OpenTypes, RowsTypes, PacketTypes, FinaliseTypes, RenameTypes DEF Worker
<1> QED BY <1>1, <1>2, <1>3, OpsTypes, ProcessTypes, MainTypes, CrashTypes DEF Next, Ended

LEMMA TypesImplyTypeOK == Types => TypeOK
<1> SUFFICES ASSUME Types PROVE TypeOK
  OBVIOUS
<1>1. segment = NoSegment \/ segment \in DOMAIN files
  BY InHandFacts
<1> QED BY <1>1 DEF Types, BrokerTypes, StorageTypes, TypeOK

(* The command queue never holds more than QUEUE_CAPACITY commands, it is  *)
(* open exactly while the storage thread lives, and the thread always      *)
(* writes to a file that exists.                                           *)
THEOREM RecorderTypes == Spec => []TypeOK
<1>1. Spec => []Types
  BY InitTypes, TypesStep, PTL DEF Spec
<1> QED BY <1>1, TypesImplyTypeOK, PTL

----------------------------------------------------------------------------
(* The tables of the files. *)

LEMMA PackedType ==
  ASSUME NEW g \in File
  PROVE  /\ Packed(g) \in Seq(Packets) /\ Len(Packed(g)) = Len(g.packets) /\ Len(g.packets) \in Nat
         /\ RecordCount(Packed(g)) \in Nat /\ AllRows(Packed(g)) \in Seq(Nat)
         /\ RecordCount(Packed(g)) = Len(AllRows(Packed(g)))
<1>1. g.packets \in Seq(Entry)
  BY FileFields
<1>2. \A i \in 1..Len(g.packets) : g.packets[i].packet \in Packets
  <2>1. \A i \in 1..Len(g.packets) : g.packets[i] \in Entry
    BY <1>1, ElementOfSeq
  <2>2. \A e \in Entry : e.packet \in Packets
    BY DEF Entry
  <2> QED BY <2>1, <2>2
<1>3. Packed(g) \in Seq(Packets) /\ Len(Packed(g)) = Len(g.packets)
  BY <1>1, <1>2 DEF Packed
<1> QED BY <1>1, <1>3, AllRowsType

LEMMA SameTables ==
  ASSUME NEW g, NEW h, h.packets = g.packets, h.base = g.base
  PROVE  Packed(h) = Packed(g) /\ (OffsetsOK(g) => OffsetsOK(h))
  BY DEF Packed, OffsetsOK

(* A packet is entered at the offset where the file ends. *)
LEMMA EntryAdded ==
  ASSUME NEW g \in File, NEW p \in Packets, NEW o \in Nat, NEW h,
         h = [g EXCEPT !.packets = Append(@, [packet |-> p, offset |-> o])]
  PROVE  /\ Packed(h) = Append(Packed(g), p)
         /\ OffsetsOK(g) /\ o = g.base + RecordCount(Packed(g)) => OffsetsOK(h)
<1>1. g.packets \in Seq(Entry) /\ [packet |-> p, offset |-> o] \in Entry
  BY FileFields DEF Entry
<1>2. h.packets = Append(g.packets, [packet |-> p, offset |-> o]) /\ h.base = g.base
  BY DEF File
<1>3. PICK n \in Nat : n = Len(g.packets)
  BY <1>1
<1>4. /\ Len(h.packets) = n + 1 /\ h.packets[n + 1] = [packet |-> p, offset |-> o]
      /\ \A i \in 1..n : h.packets[i] = g.packets[i]
  BY <1>1, <1>2, <1>3, AppendProperties
<1>5. Packed(g) \in Seq(Packets) /\ Len(Packed(g)) = n
  BY <1>3, PackedType
<1>6. \A i \in 1..n : Packed(g)[i] = g.packets[i].packet
  BY <1>3 DEF Packed
<1>7. Packed(h) = Append(Packed(g), p)
  <2>1. Append(Packed(g), p) \in Seq(Packets) /\ Len(Append(Packed(g), p)) = n + 1
    BY <1>5, AppendProperties
  <2>2. \A i \in 1..(n + 1) : h.packets[i].packet = Append(Packed(g), p)[i]
    BY <1>4, <1>5, <1>6
  <2>3. Packed(h) = [i \in 1..(n + 1) |-> Append(Packed(g), p)[i]]
    BY <1>4, <2>2 DEF Packed
  <2> QED BY <2>1, <2>3
<1>8. ASSUME OffsetsOK(g), o = g.base + RecordCount(Packed(g)),
             NEW i \in 1..Len(h.packets)
      PROVE  h.packets[i].offset = h.base + RecordCount(SubSeq(Packed(h), 1, i - 1))
  <2>1. CASE i \in 1..n
    <3>1. SubSeq(Append(Packed(g), p), 1, i - 1) = SubSeq(Packed(g), 1, i - 1)
      BY <1>5, <2>1
    <3>2. g.packets[i].offset = g.base + RecordCount(SubSeq(Packed(g), 1, i - 1))
      BY <1>3, <1>8, <2>1 DEF OffsetsOK
    <3> QED BY <1>2, <1>4, <1>7, <2>1, <3>1, <3>2
  <2>2. CASE i = n + 1
    <3>1. SubSeq(Append(Packed(g), p), 1, n) = Packed(g) /\ i - 1 = n
      BY <1>5, <2>2
    <3>2. h.packets[i].offset = o
      BY <1>4, <2>2
    <3>3. SubSeq(Packed(h), 1, i - 1) = Packed(g)
      BY <1>7, <3>1
    <3> QED BY <1>2, <1>8, <3>2, <3>3
  <2>3. i \in 1..n \/ i = n + 1
    BY <1>4
  <2> QED BY <2>1, <2>2, <2>3
<1> QED BY <1>7, <1>8 DEF OffsetsOK

(* Tables after a step that failed, and after one that left files alone.   *)
LEMMA TablesFailed ==
  ASSUME Types, NEW x, Fail(x),
         \A f \in DOMAIN files' : OffsetsOK(files'[f]) /\ (files'[f].final => SoundFile(files'[f]))
  PROVE  Tables'
  BY FailStep DEF Tables

LEMMA TablesReceive ==
  ASSUME Types, Tables, Receive
  PROVE  Tables'
<1>1. wpc = "recv" /\ files' = files /\ queue # <<>>
  BY DEF Receive
<1>2. CASE Fail(Head(queue))
  BY <1>1, <1>2, TablesFailed DEF Tables
<1>3. CASE segment = NoSegment /\ segment' = segment /\ wpc' # "rename"
  BY <1>1, <1>3 DEF Tables
<1>4. CASE UNCHANGED worker /\ wpc' \in {"rows", "finalise"}
  BY <1>1, <1>4 DEF Tables, worker
<1>5. CASE /\ Head(queue).type \in {"stop", "shutdown"} /\ segment = NoSegment
           /\ Succeed(Head(queue), Tail(queue)) /\ UNCHANGED worker
  <2>1. wpc' \in {"recv", "dead"}
    BY <1>5 DEF Succeed, Die
  <2> QED BY <1>1, <1>5, <2>1 DEF Tables, worker
<1> QED BY <1>2, <1>3, <1>4, <1>5 DEF Receive

LEMMA TablesOpen ==
  ASSUME Types, Tables, OpenSegment
  PROVE  Tables'
<1>1. wpc = "open" /\ InHand /\ session # 0 /\ segment = NoSegment /\ cmd \in Commands
  BY OpenStep, InHandFacts DEF InHand, Types, WorkerOK
<1>2. /\ NewFile.base = session_record_offset /\ Packed(NewFile) = <<>> /\ OffsetsOK(NewFile)
      /\ NewFile.rows = <<>> /\ ~NewFile.final
  BY DEF NewFile, Packed, OffsetsOK
<1>3. ASSUME files' = files \/ (Name \notin DOMAIN files /\ files' = Created)
      PROVE  \A f \in DOMAIN files' : OffsetsOK(files'[f]) /\ (files'[f].final => SoundFile(files'[f]))
  <2>1. CASE files' = files
    BY <2>1 DEF Tables
  <2>2. CASE Name \notin DOMAIN files /\ files' = Created
    <3>1. /\ DOMAIN files' = DOMAIN files \cup {Name} /\ files'[Name] = NewFile
          /\ \A f \in DOMAIN files : files'[f] = files[f]
      BY <1>1, <2>2, FilesAfterCreate DEF Types
    <3> QED BY <1>2, <3>1 DEF Tables
  <2> QED BY <1>3, <2>1, <2>2
<1>4. CASE /\ Name \notin DOMAIN files /\ files' = Created /\ segment' = Name
           /\ Succeed(cmd, queue)
           /\ UNCHANGED <<session, stamp, segment_index, session_record_offset>>
  <2>1. files'[Name] = NewFile
    BY <1>1, <1>4, FilesAfterCreate DEF Types
  <2>2. wpc' \in {"recv", "dead"}
    BY <1>4 DEF Succeed, Die
  <2>3. AllRows(<<>>) = <<>> /\ RecordCount(<<>>) = 0 /\ session_record_offset \in Nat
    BY AllRowsEmpty DEF RecordCount, Types, StorageTypes
  <2> QED BY <1>2, <1>3, <1>4, <2>1, <2>2, <2>3 DEF Tables
<1>5. CASE Fail(cmd) /\ (files' = files \/ (Name \notin DOMAIN files /\ files' = Created))
  BY <1>3, <1>5, TablesFailed
<1> QED BY <1>4, <1>5, OpenStep

(* A file is written: the others keep their tables. *)
LEMMA TablesWritten ==
  ASSUME Types, Tables, segment # NoSegment, NEW g \in File, Wrote(g),
         OffsetsOK(g), g.final => SoundFile(g)
  PROVE  /\ files'[segment] = g
         /\ \A f \in DOMAIN files' : OffsetsOK(files'[f]) /\ (files'[f].final => SoundFile(files'[f]))
  BY InHandFacts, FilesAfterWrite DEF Types, Tables

LEMMA TablesRows ==
  ASSUME Types, Tables, AppendRows
  PROVE  Tables'
<1> DEFINE rows == Rows(cmd.packet)
<1>1. /\ wpc = "rows" /\ InHand /\ segment # NoSegment /\ segment \in DOMAIN files
      /\ files[segment] \in File /\ ~files[segment].final
  BY RowsStep, InHandFacts, WritesTyped DEF InHand, Types, WorkerOK
<1>2. rows \in Seq(Nat)
  BY <1>1, RowsType, InHandFacts
<1>3. ASSUME NEW k \in 0..Len(rows), Wrote(WithRows(SubSeq(rows, 1, k)))
      PROVE  /\ files'[segment] = WithRows(SubSeq(rows, 1, k))
             /\ WithRows(SubSeq(rows, 1, k)).rows = files[segment].rows \o SubSeq(rows, 1, k)
             /\ WithRows(SubSeq(rows, 1, k)).base = files[segment].base
             /\ Packed(WithRows(SubSeq(rows, 1, k))) = Packed(files[segment])
             /\ \A f \in DOMAIN files' : OffsetsOK(files'[f]) /\ (files'[f].final => SoundFile(files'[f]))
  <2>1. PICK g : g = WithRows(SubSeq(rows, 1, k))
    OBVIOUS
  <2>2. g \in File
    BY <1>1, <2>1, WritesTyped DEF Types
  <2>3. /\ g.packets = files[segment].packets /\ g.base = files[segment].base
        /\ g.rows = files[segment].rows \o SubSeq(rows, 1, k) /\ ~g.final
    BY <1>1, <2>1 DEF WithRows, File
  <2>4. Packed(g) = Packed(files[segment]) /\ OffsetsOK(g)
    BY <1>1, <2>3, SameTables DEF Tables
  <2> QED BY <1>1, <1>3, <2>1, <2>2, <2>3, <2>4, TablesWritten
<1>4. CASE /\ Wrote(WithRows(SubSeq(rows, 1, Len(rows)))) /\ wpc' = "packet"
           /\ UNCHANGED <<worker, cmd>> /\ Working
  <2>1. Len(rows) \in 0..Len(rows) /\ SubSeq(rows, 1, Len(rows)) = rows
    BY <1>2
  <2>2. files[segment].rows = AllRows(Packed(files[segment]))
    BY <1>1 DEF Tables
  <2>3. /\ files'[segment].rows = AllRows(Packed(files'[segment])) \o rows
        /\ files'[segment].base = files[segment].base
        /\ Packed(files'[segment]) = Packed(files[segment])
    <3>1. PICK g : g = WithRows(SubSeq(rows, 1, Len(rows)))
      OBVIOUS
    <3>2. /\ files'[segment] = g /\ g.rows = files[segment].rows \o SubSeq(rows, 1, Len(rows))
          /\ g.base = files[segment].base /\ Packed(g) = Packed(files[segment])
      BY <1>3, <1>4, <2>1, <3>1
    <3> QED BY <2>1, <2>2, <3>2
  <2>4. \A f \in DOMAIN files' : OffsetsOK(files'[f]) /\ (files'[f].final => SoundFile(files'[f]))
    BY <1>3, <1>4, <2>1
  <2>5. segment' = segment /\ session_record_offset' = session_record_offset /\ cmd' = cmd
    BY <1>4 DEF worker
  <2> QED BY <1>1, <1>4, <2>3, <2>4, <2>5 DEF Tables
<1>5. CASE \E k \in 0..Len(rows) : Wrote(WithRows(SubSeq(rows, 1, k))) /\ Fail(cmd)
  BY <1>3, <1>5, TablesFailed
<1> QED BY <1>4, <1>5, RowsStep

LEMMA TablesPacket ==
  ASSUME Types, Tables, AppendPacket
  PROVE  Tables'
<1>1. /\ wpc = "packet" /\ InHand /\ segment # NoSegment /\ segment \in DOMAIN files
      /\ files[segment] \in File /\ ~files[segment].final /\ cmd.packet \in Packets
      /\ session_record_offset \in Nat
  BY PacketStep, InHandFacts, WritesTyped DEF InHand, Types, WorkerOK, StorageTypes
<1>2. PICK g : g = files[segment]
  OBVIOUS
<1>3. PICK h : h = WithEntry
  OBVIOUS
<1>4. /\ session_record_offset = g.base + RecordCount(Packed(g))
      /\ g.rows = AllRows(Packed(g)) \o Rows(cmd.packet) /\ OffsetsOK(g)
  BY <1>1, <1>2 DEF Tables
<1>5. Packed(h) = Append(Packed(g), cmd.packet) /\ OffsetsOK(h)
  <2>1. PICK p \in Packets, o \in Nat : p = cmd.packet /\ o = session_record_offset
    BY <1>1
  <2>2. h = [g EXCEPT !.packets = Append(@, [packet |-> p, offset |-> o])] /\ g \in File
    BY <1>1, <1>2, <1>3, <2>1 DEF WithEntry
  <2>3. Packed(h) = Append(Packed(g), p)
    BY <2>2, EntryAdded
  <2>4. OffsetsOK(g) /\ o = g.base + RecordCount(Packed(g)) => OffsetsOK(h)
    BY <2>2, EntryAdded
  <2> QED BY <1>4, <2>1, <2>3, <2>4
<1>6. h \in File /\ h.base = g.base /\ h.rows = g.rows /\ ~h.final
  BY <1>1, <1>2, <1>3, WritesTyped DEF WithEntry, File, Types
<1>7. /\ AllRows(Packed(h)) = g.rows
      /\ RecordCount(Packed(h)) = RecordCount(Packed(g)) + cmd.packet.n
  <2>1. Packed(g) \in Seq(Packets)
    BY <1>1, <1>2, PackedType
  <2>2. /\ AllRows(Append(Packed(g), cmd.packet)) = AllRows(Packed(g)) \o Rows(cmd.packet)
        /\ RecordCount(Append(Packed(g), cmd.packet)) = RecordCount(Packed(g)) + cmd.packet.n
    BY <1>1, <2>1, AllRowsAppend
  <2> QED BY <1>4, <1>5, <2>2
<1>8. Wrote(WithEntry) =>
        /\ files'[segment] = h
        /\ \A f \in DOMAIN files' : OffsetsOK(files'[f]) /\ (files'[f].final => SoundFile(files'[f]))
  BY <1>1, <1>3, <1>5, <1>6, TablesWritten
<1>9. CASE /\ Wrote(WithEntry)
           /\ session_record_offset' = session_record_offset + cmd.packet.n
           /\ \/ Succeed(cmd, queue)
              \/ segment_index < MaxSegment /\ wpc' = "finalise" /\ UNCHANGED cmd /\ Working
           /\ UNCHANGED <<session, stamp, segment_index, segment>>
  <2>1. wpc' \in {"recv", "dead", "finalise"}
    BY <1>9 DEF Succeed, Die
  <2>2. session_record_offset' = h.base + RecordCount(Packed(h))
    <3>1. g.base \in Nat /\ RecordCount(Packed(g)) \in Nat /\ cmd.packet.n \in Nat
      BY <1>1, <1>2, FileFields, PackedType, RowsType
    <3> QED BY <1>4, <1>6, <1>7, <1>9, <3>1
  <2> QED BY <1>6, <1>7, <1>8, <1>9, <2>1, <2>2 DEF Tables
<1>10. CASE (files' = files \/ Wrote(WithEntry)) /\ Fail(cmd)
  <2>1. \A f \in DOMAIN files' : OffsetsOK(files'[f]) /\ (files'[f].final => SoundFile(files'[f]))
    BY <1>8, <1>10 DEF Tables
  <2> QED BY <1>10, <2>1, TablesFailed
<1> QED BY <1>9, <1>10, PacketStep

LEMMA TablesFinalise ==
  ASSUME Types, Tables, Finalise
  PROVE  Tables'
<1>1. /\ wpc = "finalise" /\ InHand /\ segment # NoSegment /\ segment \in DOMAIN files
      /\ files[segment] \in File /\ ~files[segment].final
  BY FinaliseStep, InHandFacts, WritesTyped DEF InHand, Types, WorkerOK
<1>2. ASSUME NEW g \in {files[segment], Closed, Clean, Complete}, Wrote(g)
      PROVE  /\ files'[segment] = g /\ Packed(g) = Packed(files[segment])
             /\ g.base = files[segment].base /\ g.rows = files[segment].rows
             /\ \A f \in DOMAIN files' : OffsetsOK(files'[f]) /\ (files'[f].final => SoundFile(files'[f]))
  <2>1. g \in File
    BY <1>1, WritesTyped DEF Types
  <2>2. /\ g.packets = files[segment].packets /\ g.base = files[segment].base
        /\ g.rows = files[segment].rows /\ ~g.final
    BY <1>1 DEF Closed, Clean, Complete, File
  <2>3. Packed(g) = Packed(files[segment]) /\ OffsetsOK(g)
    BY <1>1, <2>2, SameTables DEF Tables
  <2> QED BY <1>1, <1>2, <2>1, <2>2, <2>3, TablesWritten
<1>3. CASE Wrote(Complete) /\ wpc' = "rename" /\ UNCHANGED <<worker, cmd>> /\ Working
  <2>1. Complete.clean /\ Complete.reason # "none"
    <3>1. Reason # "none"
      BY <1>1, ReasonType DEF Types
    <3> QED BY <1>1, <3>1 DEF Complete, Clean, Closed, File
  <2>2. segment' = segment /\ session_record_offset' = session_record_offset
    BY <1>3 DEF worker
  <2>3. PICK g : g = Complete
    OBVIOUS
  <2>4. /\ files'[segment] = g /\ Packed(g) = Packed(files[segment])
        /\ g.base = files[segment].base /\ g.rows = files[segment].rows
        /\ \A f \in DOMAIN files' : OffsetsOK(files'[f]) /\ (files'[f].final => SoundFile(files'[f]))
    BY <1>2, <1>3, <2>3
  <2> QED BY <1>1, <1>3, <2>1, <2>2, <2>3, <2>4 DEF Tables
<1>4. CASE \E g \in {files[segment], Closed, Clean, Complete} : Wrote(g) /\ Fail(cmd)
  BY <1>2, <1>4, TablesFailed
<1> QED BY <1>3, <1>4, FinaliseStep

LEMMA TablesRename ==
  ASSUME Types, Tables, Rename
  PROVE  Tables'
<1>1. /\ wpc = "rename" /\ InHand /\ segment # NoSegment /\ segment \in DOMAIN files
      /\ files[segment] \in File
  BY RenameStep, InHandFacts, WritesTyped DEF InHand, Types, WorkerOK
<1>2. CASE Wrote(Final) /\ segment' = NoSegment /\ wpc' \in {"open", "recv", "dead"}
  <2>1. PICK g : g = Final
    OBVIOUS
  <2>2. /\ g \in File /\ g.packets = files[segment].packets /\ g.base = files[segment].base
        /\ g.rows = files[segment].rows /\ g.clean = files[segment].clean
        /\ g.reason = files[segment].reason
    BY <1>1, <2>1, WritesTyped DEF Final, File, Types
  <2>3. Packed(g) = Packed(files[segment]) /\ OffsetsOK(g)
    BY <1>1, <2>2, SameTables DEF Tables
  <2>4. SoundFile(g)
    BY <1>1, <2>2, <2>3 DEF SoundFile, Tables
  <2>5. \A f \in DOMAIN files' : OffsetsOK(files'[f]) /\ (files'[f].final => SoundFile(files'[f]))
    BY <1>1, <1>2, <2>1, <2>2, <2>3, <2>4, TablesWritten
  <2> QED BY <1>2, <2>5 DEF Tables
<1>3. CASE Fail(cmd) /\ UNCHANGED files
  BY <1>3, TablesFailed DEF Tables
<1>4. Succeed(cmd, queue) => wpc' \in {"recv", "dead"}
  BY DEF Succeed, Die
<1> QED BY <1>2, <1>3, <1>4, RenameStep

LEMMA TablesStep ==
  ASSUME Types, Tables, [Next]_vars
  PROVE  Tables'
<1>1. ASSUME UNCHANGED <<wpc, cmd, worker, files>> PROVE Tables'
  BY <1>1 DEF Tables, worker
<1>2. ASSUME Worker PROVE Tables'
  BY <1>2, TablesReceive, TablesOpen, TablesRows, TablesPacket, TablesFinalise, TablesRename DEF Worker
<1>3. ASSUME Crash PROVE Tables'
  BY <1>3 DEF Crash, Tables
<1>4. ASSUME NEW c \in Callers, Enqueue(c) \/ SendFails(c) PROVE Tables'
  BY <1>1, <1>4 DEF Enqueue, SendFails, storage, worker
<1>5. ASSUME NEW t \in Sessions, StartCall(t) PROVE Tables'
  BY <1>1, <1>5 DEF StartCall, storage, worker
<1>6. ASSUME NEW reason \in StopReasons, StopCall(reason) PROVE Tables'
  BY <1>1, <1>6 DEF StopCall, storage, worker
<1>7. ASSUME StartDone \/ StopDone \/ Monitor \/ ShutdownBegin \/ ShutdownStop
             \/ ShutdownRecording \/ Exit \/ UNCHANGED vars
      PROVE  Tables'
  BY <1>1, <1>7 DEF StartDone, StopDone, Monitor, ShutdownBegin, ShutdownStop, ShutdownRecording,
                    Exit, vars, storage, worker
<1>8. ASSUME ProcessPacket PROVE Tables'
  BY <1>1, <1>8, PacketProcessed
<1> QED BY <1>2, <1>3, <1>4, <1>5, <1>6, <1>7, <1>8 DEF Next, Ended

LEMMA TablesImplySound == Types /\ Tables => FinalIsSound
<1> SUFFICES ASSUME Types, Tables, NEW f \in DOMAIN files, files[f].final
             PROVE  /\ files[f].clean /\ files[f].reason # "none"
                    /\ files[f].rows = AllRows(Entries(f))
                    /\ \A i \in 1..Len(files[f].packets) :
                          files[f].packets[i].offset
                            = files[f].base + RecordCount(SubSeq(Entries(f), 1, i - 1))
  BY DEF FinalIsSound
<1>1. Entries(f) = Packed(files[f])
  BY DEF Entries, Packed
<1> QED BY <1>1 DEF Tables, SoundFile, OffsetsOK

LEMMA TablesInit == Init => Tables
  BY DEF Init, Booted, Tables

(* Whatever fails or is killed in the middle of append, close_segment or   *)
(* finalise_file, a file under its final name is clean, has a close        *)
(* reason, and its record and packet tables describe the same records at   *)
(* the right offsets.                                                      *)
THEOREM FinalFilesAreSound == Spec => []FinalIsSound
<1>1. Init => Types /\ Tables
  BY InitTypes, TablesInit
<1>2. Types /\ Tables /\ [Next]_vars => (Types /\ Tables)'
  BY TypesStep, TablesStep
<1> QED BY <1>1, <1>2, TablesImplySound, PTL DEF Spec

----------------------------------------------------------------------------
(* Which commands are under way, and for whom. *)

LEMMA Kinds ==
  ASSUME NEW x \in Commands
  PROVE  /\ x \in OpsCommands <=> ByOps(x)
         /\ x \in MainCommands <=> ByMain(x)
         /\ x \in PacketCommands <=> x.type = "packet"
         /\ x.type = "start" => ByOps(x)
         /\ ~(ByOps(x) /\ ByMain(x)) /\ ~(ByOps(x) /\ x.type = "packet") /\ ~(ByMain(x) /\ x.type = "packet")
         /\ ByOps(x) \/ ByMain(x) \/ x.type = "packet"
  BY DEF Commands, OpsCommands, MainCommands, PacketCommands, ByOps, ByMain

LEMMA QueueFacts ==
  ASSUME Types
  PROVE  /\ Len(queue) \in Nat /\ \A i \in 1..Len(queue) : queue[i] \in Commands
         /\ InHand => cmd \in Commands
         /\ call["ops"].st \in {"idle", "sending", "waiting", "ok", "failed"}
         /\ call["ops"].st = "idle" <=> call["ops"] = Idle
         /\ call["ops"].st # "idle" => call["ops"].command \in OpsCommands
         /\ call["main"].st # "idle" => call["main"].command \in MainCommands
         /\ started \in Nat
<1>1. queue \in Seq(Commands) /\ Len(queue) \in Nat
  BY DEF Types, StorageTypes
<1>2. \A i \in 1..Len(queue) : queue[i] \in Commands
  BY <1>1, ElementOfSeq
<1>3. /\ call["ops"].st \in {"idle", "sending", "waiting", "ok", "failed"}
      /\ call["ops"].st = "idle" <=> call["ops"] = Idle
      /\ call["ops"].st # "idle" => call["ops"].command \in OpsCommands
  BY CallFacts DEF Types, BrokerTypes, CallTypes
<1>4. call["main"].st # "idle" => call["main"].command \in MainCommands
  BY CallFacts DEF Types, BrokerTypes, CallTypes
<1>5. started \in Nat
  BY RecorderAssumption DEF Types, BrokerTypes
<1>6. InHand => cmd \in Commands
  BY InHandFacts
<1> QED BY <1>1, <1>2, <1>3, <1>4, <1>5, <1>6

(* While no start or stop waits for its answer none is under way. *)
LEMMA OpsQuiet ==
  ASSUME Types, Control, call["ops"].st # "waiting", main # "exited"
  PROVE  /\ \A i \in 1..Len(queue) : ~ByOps(queue[i]) /\ queue[i].type # "start"
         /\ InHand => ~ByOps(cmd) /\ cmd.type # "start"
<1>1. \A i \in 1..Len(queue) : ~ByOps(queue[i])
  BY DEF Control, QueueOps, OpsWait
<1>2. InHand => ~ByOps(cmd)
  BY DEF Control, HandOps, OpsWait
<1> QED BY <1>1, <1>2, QueueFacts, Kinds

(* The effect of a step on the calls, as Control sees it. *)
LEMMA ControlAfterDeath ==
  ASSUME Types, Control, Die, Quiet, session' = 0
  PROVE  Control'
<1>1. /\ queue' = <<>> /\ wpc' = "dead" /\ alive' = FALSE
      /\ UNCHANGED <<running, main, started, delivered>>
  BY DEF Die, Quiet, brokerState, ghosts
<1>2. /\ call'["ops"] = IF call["ops"].st = "waiting"
                        THEN [st |-> "failed", command |-> call["ops"].command] ELSE call["ops"]
      /\ call'["main"] = IF call["main"].st = "waiting"
                         THEN [st |-> "failed", command |-> call["main"].command] ELSE call["main"]
  BY CallsDropped DEF Types, BrokerTypes, Callers
<1>3. Len(queue') = 0 /\ ~InHand'
  BY <1>1 DEF InHand
<1>4. /\ call'["ops"].st # "idle" => call["ops"].st # "idle" /\ call'["ops"].command = call["ops"].command
      /\ call'["ops"].st \in {"sending", "waiting"} => call["ops"].st = "sending"
      /\ call'["main"].st # "idle" => call["main"].st # "idle"
  BY <1>2
<1>5. QueueOps' /\ HandOps' /\ MainCalls'
  BY <1>1, <1>3, <1>4 DEF QueueOps, HandOps, MainCalls, Control
<1>6. OpsCalls'
  BY <1>1, <1>4 DEF OpsCalls, Control
<1>7. Starts'
  <2>1. Asks("start")' => Asks("start") /\ call'["ops"].command = call["ops"].command
    BY <1>4 DEF Asks
  <2>2. ~(\E i \in 1..Len(queue') : queue'[i].type = "start")
    BY <1>3
  <2>3. StartDue' => Asks("start")'
    BY <1>3, <2>2 DEF StartDue
  <2> QED BY <1>1, <1>3, <2>1, <2>2, <2>3 DEF Starts, Control
<1> QED BY <1>5, <1>6, <1>7 DEF Control, Owned

LEMMA ControlFailed ==
  ASSUME Types, Control, NEW x, Fail(x), Quiet
  PROVE  Control'
  BY ControlAfterDeath DEF Fail

(* The command in hand, or none, is kept. *)
LEMMA ControlWorking ==
  ASSUME Types, Control, Working, Quiet, InHand, InHand', cmd' = cmd, session' = session,
         wpc = "open" /\ ByOps(cmd) => wpc' = "open"
  PROVE  Control'
<1> USE DEF Working, Quiet, brokerState, ghosts
<1>1. UNCHANGED <<queue, alive, call, main, running, started, delivered>>
  OBVIOUS
<1>2. QueueOps' /\ HandOps' /\ MainCalls' /\ OpsCalls'
  BY <1>1 DEF Control, QueueOps, HandOps, MainCalls, OpsCalls, OpsWait, Ending
<1>3. Starts'
  <2>1. StartDue' => StartDue
    BY <1>1 DEF StartDue, Asks
  <2> QED BY <1>1, <2>1 DEF Control, Starts, Asks
<1>4. Owned'
  BY <1>1 DEF Control, Owned, Asks
<1> QED BY <1>2, <1>3, <1>4 DEF Control

(* A command has succeeded and rest is what the queue holds after it. *)
LEMMA ControlSucceeds ==
  ASSUME Types, Control, wpc # "dead", NEW x \in Commands, NEW rest, Succeed(x, rest), Quiet,
         Len(rest) \in Nat,
         \A i \in 1..Len(rest) : \E j \in 1..Len(queue) : rest[i] = queue[j],
         \A i \in 1..Len(rest) : ByOps(rest[i]) =>
            /\ OpsWait(rest[i])
            /\ \A j \in (i + 1)..Len(rest) : ~ByOps(rest[j]) /\ rest[j].type # "packet",
         ByOps(x) => /\ OpsWait(x)
                     /\ \A j \in 1..Len(rest) : ~ByOps(rest[j]) /\ rest[j].type # "packet",
         x.type = "shutdown" => session' = 0,
         session' # 0 => session' = session /\ x = cmd /\ InHand /\ x.type \in {"start", "packet"}
  PROVE  Control'
<1>1. CASE x.type = "shutdown"
  <2>1. Die /\ session' = 0
    BY <1>1 DEF Succeed
  <2> QED BY <2>1, ControlAfterDeath
<1>2. CASE x.type # "shutdown"
  <2>1. /\ queue' = rest /\ wpc' = "recv" /\ cmd' = Idle /\ alive' = alive
        /\ UNCHANGED <<running, main, started, delivered>>
    BY <1>2, SucceedStep DEF Quiet, brokerState, ghosts
  <2>2. ~InHand'
    BY <2>1 DEF InHand
  <2>3. x.type = "packet" \/ (ByOps(x) /\ x.by = "ops") \/ (ByMain(x) /\ x.by = "main" /\ ~ByOps(x))
    <3>1. x.type \in {"start", "stop", "packet"} /\ (ByOps(x) \/ ByMain(x) \/ x.type = "packet")
      BY <1>2, CommandFacts, Kinds
    <3> QED BY <1>2, <3>1 DEF ByOps, ByMain
  <2>4. /\ x.type = "packet" => call' = call
        /\ x.type # "packet" => x.by \in Callers /\ call' = Answered(x.by, "ok")
    BY <1>2, CallAfterSuccess, CommandFacts DEF Types, BrokerTypes
  <2>5. /\ call'["ops"] = IF ByOps(x) /\ call["ops"].st = "waiting"
                          THEN [st |-> "ok", command |-> call["ops"].command] ELSE call["ops"]
        /\ call'["main"].st # "idle" => call["main"].st # "idle"
    <3>1. CASE x.type = "packet"
      BY <2>4, <3>1 DEF ByOps
    <3>2. CASE x.type # "packet" /\ x.by = "ops" /\ ByOps(x)
      BY <2>4, <3>2, CallAnswered DEF Types, BrokerTypes, Callers
    <3>3. CASE x.type # "packet" /\ x.by = "main" /\ ~ByOps(x)
      BY <2>4, <3>3, CallAnswered DEF Types, BrokerTypes, Callers
    <3> QED BY <2>3, <3>1, <3>2, <3>3
  <2>6. /\ call'["ops"].st # "idle" => call["ops"].st # "idle" /\ call'["ops"].command = call["ops"].command
        /\ call'["ops"].st \in {"sending", "waiting", "failed"} => call'["ops"] = call["ops"]
    BY <2>5
  <2>7. QueueOps'
    <3>1. CASE ByOps(x)
      BY <2>1, <3>1 DEF QueueOps
    <3>2. CASE ~ByOps(x)
      <4>1. call'["ops"] = call["ops"]
        BY <2>5, <3>2
      <4> QED BY <2>1, <4>1 DEF QueueOps, OpsWait
    <3> QED BY <3>1, <3>2
  <2>8. HandOps' /\ OpsCalls'
    BY <2>1, <2>2, <2>6 DEF HandOps, OpsCalls, Control
  <2>9. MainCalls'
    <3>1. \A i \in 1..Len(queue') : ByMain(queue'[i]) => Ending'
      BY <2>1 DEF Control, MainCalls, Ending
    <3> QED BY <2>1, <2>2, <2>5, <3>1 DEF Control, MainCalls
  <2>10. Starts'
    <3>1. Asks("start")' => Asks("start")
      BY <2>6 DEF Asks
    <3>2. (\E i \in 1..Len(queue') : queue'[i].type = "start") => \E j \in 1..Len(queue) : queue[j].type = "start"
      BY <2>1
    <3>3. Asks("start")' \/ StartDue' => Asks("start") \/ StartDue
      BY <2>2, <3>1, <3>2 DEF StartDue
    <3>4. \A i \in 1..Len(queue') : queue'[i].type = "start" => queue'[i].session = started
      BY <2>1 DEF Control, Starts
    <3>5. Asks("start")' => call'["ops"].command.session = started
      BY <2>6, <3>1 DEF Control, Starts, Asks
    <3> QED BY <2>1, <2>2, <3>3, <3>4, <3>5 DEF Control, Starts
  <2>11. Owned'
    <3>1. SUFFICES ASSUME session' # 0 PROVE Owned'
      BY DEF Owned
    <3>2. session' = session /\ session # 0 /\ x = cmd /\ InHand /\ x.type \in {"start", "packet"}
      BY <3>1
    <3>3. CASE x.type = "packet"
      <4>1. call' = call /\ ~ByOps(x)
        BY <2>4, <3>3 DEF ByOps
      <4> QED BY <2>1, <3>2, <4>1 DEF Control, Owned, Asks
    <3>4. CASE x.type = "start"
      <4>1. ByOps(x) /\ OpsWait(x)
        BY <3>4, Kinds
      <4>2. main = "exited" \/ (call'["ops"].st = "ok" /\ call'["ops"].command = x)
        BY <2>5, <4>1 DEF OpsWait
      <4> QED BY <2>1, <3>2, <3>4, <4>2 DEF Control, Owned, Asks
    <3> QED BY <3>2, <3>3, <3>4
  <2> QED BY <2>7, <2>8, <2>9, <2>10, <2>11 DEF Control
<1> QED BY <1>1, <1>2

(* A command in hand has succeeded. *)
LEMMA ControlDone ==
  ASSUME Types, Control, InHand, Succeed(cmd, queue), Quiet,
         cmd.type = "shutdown" => session' = 0,
         session' # 0 => session' = session /\ cmd.type \in {"start", "packet"}
  PROVE  Control'
<1>1. cmd \in Commands /\ wpc # "dead" /\ Len(queue) \in Nat
  BY InHandFacts
<1>2. \A i \in 1..Len(queue) : ByOps(queue[i]) =>
            /\ OpsWait(queue[i])
            /\ \A j \in (i + 1)..Len(queue) : ~ByOps(queue[j]) /\ queue[j].type # "packet"
  BY DEF Control, QueueOps
<1>3. ByOps(cmd) => /\ OpsWait(cmd)
                    /\ \A j \in 1..Len(queue) : ~ByOps(queue[j]) /\ queue[j].type # "packet"
  BY DEF Control, HandOps
<1> QED BY <1>1, <1>2, <1>3, ControlSucceeds

LEMMA ControlReceive ==
  ASSUME Types, Control, Receive
  PROVE  Control'
<1> DEFINE next == Head(queue)
           Begun(pc) == /\ wpc' = pc /\ cmd' = next /\ queue' = Tail(queue)
                        /\ UNCHANGED <<alive, error, call>>
<1>1. wpc = "recv" /\ queue # <<>> /\ Quiet
  BY DEF Receive
<1>2. /\ next \in Commands /\ Len(Tail(queue)) = Len(queue) - 1 /\ Len(queue) \in Nat \ {0}
      /\ \A i \in 1..(Len(queue) - 1) : Tail(queue)[i] = queue[i + 1]
      /\ next = queue[1]
  BY <1>1, QueueTail
<1>3. \A i \in 1..Len(Tail(queue)) : i + 1 \in 1..Len(queue) /\ Tail(queue)[i] = queue[i + 1]
  BY <1>2
<1>4. ASSUME NEW i \in 1..Len(Tail(queue)), ByOps(Tail(queue)[i])
      PROVE  /\ OpsWait(Tail(queue)[i])
             /\ \A j \in (i + 1)..Len(Tail(queue)) : ~ByOps(Tail(queue)[j]) /\ Tail(queue)[j].type # "packet"
  <2>1. i + 1 \in 1..Len(queue) /\ Tail(queue)[i] = queue[i + 1]
    BY <1>3
  <2>2. /\ OpsWait(queue[i + 1])
        /\ \A j \in ((i + 1) + 1)..Len(queue) : ~ByOps(queue[j]) /\ queue[j].type # "packet"
    BY <1>4, <2>1 DEF Control, QueueOps
  <2>3. ASSUME NEW j \in (i + 1)..Len(Tail(queue))
        PROVE  ~ByOps(Tail(queue)[j]) /\ Tail(queue)[j].type # "packet"
    <3>1. j \in 1..Len(Tail(queue)) /\ j + 1 \in ((i + 1) + 1)..Len(queue)
      BY <1>2
    <3>2. Tail(queue)[j] = queue[j + 1]
      BY <1>3, <3>1
    <3> QED BY <2>2, <3>1, <3>2
  <2> QED BY <2>1, <2>2, <2>3
<1>5. ByOps(next) =>
        /\ OpsWait(next)
        /\ \A j \in 1..Len(Tail(queue)) : ~ByOps(Tail(queue)[j]) /\ Tail(queue)[j].type # "packet"
  <2>1. ByOps(next) =>
          OpsWait(next) /\ \A j \in (1 + 1)..Len(queue) : ~ByOps(queue[j]) /\ queue[j].type # "packet"
    BY <1>2 DEF Control, QueueOps
  <2>2. \A j \in 1..Len(Tail(queue)) : j + 1 \in (1 + 1)..Len(queue)
    BY <1>2
  <2> QED BY <1>3, <2>1, <2>2
<1>6. ASSUME NEW pc \in {"open", "rows", "finalise"}, Begun(pc),
             IF pc = "open" THEN next.type = "start" /\ session' = next.session
                            ELSE next.type # "start" /\ session' = session
      PROVE  Control'
  <2>1. /\ wpc' = pc /\ cmd' = next /\ queue' = Tail(queue) /\ InHand'
        /\ UNCHANGED <<alive, call, main, running, started, delivered>>
    BY <1>1, <1>6 DEF Quiet, brokerState, ghosts, InHand
  <2>2. QueueOps' /\ HandOps'
    BY <1>4, <1>5, <2>1 DEF QueueOps, HandOps, OpsWait
  <2>3. MainCalls'
    <3>1. \A i \in 1..Len(queue') : ByMain(queue'[i]) => Ending'
      BY <1>3, <2>1 DEF Control, MainCalls, Ending
    <3>2. ByMain(next) => Ending'
      BY <1>2, <2>1 DEF Control, MainCalls, Ending
    <3> QED BY <2>1, <3>1, <3>2 DEF Control, MainCalls
  <2>4. OpsCalls'
    BY <2>1 DEF Control, OpsCalls
  <2>5. Starts'
    <3>1. Asks("start")' = Asks("start")
      BY <2>1 DEF Asks
    <3>2. StartDue' => StartDue
      BY <1>2, <1>3, <2>1 DEF StartDue, Asks
    <3>3. next.type = "start" => next.session = started
      BY <1>2 DEF Control, Starts
    <3>4. \A i \in 1..Len(queue') : queue'[i].type = "start" => queue'[i].session = started
      BY <1>3, <2>1 DEF Control, Starts
    <3> QED BY <2>1, <3>1, <3>2, <3>3, <3>4 DEF Control, Starts
  <2>6. Owned'
    <3>1. CASE pc = "open"
      <4>1. session' = started /\ ByOps(next)
        BY <1>2, <1>6, <3>1, Kinds DEF Control, Starts
      <4> QED BY <2>1, <3>1, <4>1 DEF Owned
    <3>2. CASE pc # "open"
      BY <1>1, <1>6, <2>1, <3>2 DEF Control, Owned, Asks
    <3> QED BY <3>1, <3>2
  <2> QED BY <2>2, <2>3, <2>4, <2>5, <2>6 DEF Control
<1>7. ASSUME next.type \in {"stop", "shutdown"}, segment = NoSegment,
             Succeed(next, Tail(queue)), UNCHANGED worker
      PROVE  Control'
  <2>1. session' = 0
    BY <1>1, <1>7 DEF Types, WorkerOK, worker
  <2>2. \A i \in 1..Len(Tail(queue)) : \E j \in 1..Len(queue) : Tail(queue)[i] = queue[j]
    BY <1>3
  <2>3. Len(Tail(queue)) \in Nat /\ wpc # "dead"
    BY <1>1, <1>2
  <2> QED BY <1>1, <1>2, <1>4, <1>5, <1>7, <2>1, <2>2, <2>3, ControlSucceeds
<1>8. ASSUME Fail(next) PROVE Control'
  BY <1>1, <1>8, ControlFailed
<1> QED BY <1>6, <1>7, <1>8 DEF Receive, worker

LEMMA ControlWorker ==
  ASSUME Types, Control, Worker
  PROVE  Control'
<1>1. ASSUME OpenSegment PROVE Control'
  <2>1. wpc = "open" /\ Quiet /\ InHand
    BY <1>1, OpenStep DEF InHand
  <2>2. CASE Fail(cmd)
    BY <2>1, <2>2, ControlFailed
  <2>3. CASE Succeed(cmd, queue) /\ UNCHANGED session
    <3>1. cmd.type \in {"start", "packet"}
      BY <2>1, CommandFacts DEF Types, WorkerOK
    <3> QED BY <2>1, <2>3, <3>1, ControlDone
  <2> QED BY <1>1, <2>2, <2>3, OpenStep
<1>2. ASSUME AppendRows PROVE Control'
  <2>1. wpc = "rows" /\ Quiet /\ InHand
    BY <1>2, RowsStep DEF InHand
  <2>2. CASE Fail(cmd)
    BY <2>1, <2>2, ControlFailed
  <2>3. CASE wpc' = "packet" /\ UNCHANGED <<worker, cmd>> /\ Working
    BY <2>1, <2>3, ControlWorking DEF InHand, worker
  <2> QED BY <1>2, <2>2, <2>3, RowsStep
<1>3. ASSUME AppendPacket PROVE Control'
  <2>1. wpc = "packet" /\ Quiet /\ InHand /\ cmd.type = "packet"
    BY <1>3, PacketStep, InHandFacts DEF InHand
  <2>2. CASE Fail(cmd)
    BY <2>1, <2>2, ControlFailed
  <2>3. CASE Succeed(cmd, queue) /\ UNCHANGED session
    BY <2>1, <2>3, ControlDone
  <2>4. CASE wpc' = "finalise" /\ UNCHANGED <<session, cmd>> /\ Working
    BY <2>1, <2>4, ControlWorking DEF InHand
  <2> QED BY <1>3, <2>2, <2>3, <2>4, PacketStep
<1>4. ASSUME Finalise PROVE Control'
  <2>1. wpc = "finalise" /\ Quiet /\ InHand
    BY <1>4, FinaliseStep DEF InHand
  <2>2. CASE Fail(cmd)
    BY <2>1, <2>2, ControlFailed
  <2>3. CASE wpc' = "rename" /\ UNCHANGED <<worker, cmd>> /\ Working
    BY <2>1, <2>3, ControlWorking DEF InHand, worker
  <2> QED BY <1>4, <2>2, <2>3, FinaliseStep
<1>5. ASSUME Rename PROVE Control'
  <2>1. wpc = "rename" /\ Quiet /\ InHand
    BY <1>5, RenameStep DEF InHand
  <2>2. CASE Fail(cmd)
    BY <2>1, <2>2, ControlFailed
  <2>3. CASE wpc' = "open" /\ UNCHANGED <<session, cmd>> /\ Working
    BY <2>1, <2>3, ControlWorking DEF InHand
  <2>4. CASE session' = 0 /\ Succeed(cmd, queue)
    BY <2>1, <2>4, ControlDone
  <2> QED BY <1>5, <2>2, <2>3, <2>4, RenameStep
<1> QED BY <1>1, <1>2, <1>3, <1>4, <1>5, ControlReceive DEF Worker

(* A step of the broker that changes neither the calls of "ops" nor what   *)
(* they are about.                                                         *)
LEMMA ControlMain ==
  ASSUME Types, Control,
         UNCHANGED <<queue, wpc, cmd, session, alive, running, started, delivered>>,
         call'["ops"] = call["ops"], main' = "exited" <=> main = "exited",
         call'["main"].st # "idle" => main' \in {"stopping", "closing"}, Ending => Ending'
  PROVE  Control'
<1>1. QueueOps' /\ HandOps'
  BY DEF Control, QueueOps, HandOps, OpsWait, InHand
<1>2. MainCalls' /\ OpsCalls'
  BY DEF Control, MainCalls, OpsCalls, InHand
<1>3. Starts'
  <2>1. (StartDue' => StartDue) /\ (Asks("start")' => Asks("start"))
    BY DEF StartDue, Asks, InHand
  <2> QED BY <2>1 DEF Control, Starts, InHand, Asks
<1>4. Owned'
  BY DEF Control, Owned, Asks
<1> QED BY <1>1, <1>2, <1>3, <1>4 DEF Control

LEMMA DeadIsIdle ==
  ASSUME Types, ~alive
  PROVE  session = 0
  BY DEF Types, StorageTypes, WorkerOK

(* A step of the ops caller: none of its commands was under way. *)
LEMMA ControlOps ==
  ASSUME Types, Control, UNCHANGED <<queue, wpc, cmd, session, alive, main>>,
         call["ops"].st # "waiting", main # "exited", call'["main"] = call["main"],
         call'["ops"].st # "idle" => ~running', call'["ops"].st = "failed" => ~alive,
         started' \in Nat, started' >= started, \A s \in Sessions : s > started => delivered'[s] = <<>>,
         Asks("start")' => call'["ops"].command.session = started' /\ delivered'[started'] = <<>>,
         session # 0 =>
            /\ session = started'
            /\ \/ running'
               \/ Asks("start")' /\ call'["ops"].st = "ok"
               \/ Asks("stop")' /\ call'["ops"].st \in {"sending", "waiting"}
  PROVE  Control'
<1>1. /\ \A i \in 1..Len(queue) : ~ByOps(queue[i]) /\ queue[i].type # "start"
      /\ InHand => ~ByOps(cmd) /\ cmd.type # "start"
  BY OpsQuiet
<1>2. started \in Nat
  BY QueueFacts
<1>3. QueueOps' /\ HandOps'
  BY <1>1 DEF QueueOps, HandOps, InHand
<1>4. MainCalls' /\ OpsCalls'
  BY DEF Control, MainCalls, OpsCalls, InHand, Ending
<1>5. Starts'
  <2>1. StartDue' => Asks("start")'
    BY <1>1 DEF StartDue, InHand
  <2>2. \A s \in Sessions : s > started' => delivered'[s] = <<>>
    BY <1>2 DEF Sessions
  <2> QED BY <1>1, <2>1, <2>2 DEF Starts, InHand
<1>6. Owned'
  BY DEF Owned
<1> QED BY <1>3, <1>4, <1>5, <1>6 DEF Control

LEMMA ControlStarts ==
  ASSUME Types, Control
  PROVE  /\ \A t \in Sessions : StartCall(t) => Control'
         /\ StartDone => Control'
<1>1. ASSUME NEW t \in Sessions, StartCall(t) PROVE Control'
  <2> DEFINE x == [type |-> "start", session |-> started + 1, stamp |-> t, by |-> "ops"]
  <2>1. /\ main # "exited" /\ ~running /\ call["ops"] = Idle /\ started < MaxSessions /\ Ask("ops", x)
        /\ started' = started + 1
        /\ UNCHANGED <<queue, wpc, cmd, session, alive, main, delivered, running>>
    BY <1>1 DEF StartCall, storage, brokerState
  <2>2. started \in Nat /\ started + 1 \in Sessions
    BY <2>1, QueueFacts, RecorderAssumption DEF Sessions
  <2>3. x \in OpsCommands
    BY <2>2 DEF OpsCommands, Stamps, Sessions
  <2>4. call'["ops"] = [st |-> "sending", command |-> x] /\ call'["main"] = call["main"]
    BY <2>1, <2>3, CallAsked DEF Callers, Types, BrokerTypes
  <2>5. call["ops"].st = "idle"
    BY <2>1 DEF Idle
  <2>6. InHand => ~ByOps(cmd)
    BY <2>1, <2>5, OpsQuiet
  <2>7. session = 0
    BY <2>1, <2>5, <2>6 DEF Control, Owned, Asks, InHand
  <2>8. delivered[started + 1] = <<>> /\ \A s \in Sessions : s > started => delivered[s] = <<>>
    BY <2>2 DEF Control, Starts
  <2>9. Asks("start")' /\ call'["ops"].command.session = started'
    BY <2>1, <2>4 DEF Asks
  <2> QED BY <2>1, <2>2, <2>4, <2>5, <2>7, <2>8, <2>9, ControlOps
<1>2. ASSUME StartDone PROVE Control'
  <2>1. /\ call["ops"].st \in {"ok", "failed"} /\ call["ops"].command.type = "start"
        /\ running' = (call["ops"].st = "ok")
        /\ UNCHANGED <<queue, wpc, cmd, session, alive, main, started, delivered>>
    BY <1>2 DEF StartDone, storage, ghosts
  <2>2. call'["ops"] = Idle /\ call'["main"] = call["main"]
    BY <1>2, CallForgotten DEF StartDone, Callers, Types, BrokerTypes
  <2>3. main # "exited" /\ ~running /\ (call["ops"].st = "failed" => ~alive)
    BY <2>1 DEF Control, OpsCalls
  <2>4. session # 0 => session = started /\ running'
    BY <2>1, <2>3, DeadIsIdle DEF Control, Owned
  <2>5. started \in Nat /\ \A s \in Sessions : s > started => delivered[s] = <<>>
    BY QueueFacts DEF Control, Starts
  <2>6. call'["ops"].st = "idle" /\ ~Asks("start")'
    BY <2>2 DEF Idle, Asks
  <2>7. /\ call["ops"].st # "waiting" /\ started' = started /\ started' >= started
        /\ UNCHANGED <<queue, wpc, cmd, session, alive, main, started, delivered>>
    BY <2>1, <2>5
  <2>8. started' \in Nat /\ \A s \in Sessions : s > started => delivered'[s] = <<>>
    BY <2>5, <2>7
  <2>9. session # 0 =>
            /\ session = started'
            /\ \/ running'
               \/ Asks("start")' /\ call'["ops"].st = "ok"
               \/ Asks("stop")' /\ call'["ops"].st \in {"sending", "waiting"}
    <3>1. session # 0 => session = started'
      BY <2>4, <2>7
    <3>2. session # 0 => running'
      BY <2>4
    <3> QED BY <3>1, <3>2
  <2>10. Asks("start")' => call'["ops"].command.session = started' /\ delivered'[started'] = <<>>
    BY <2>6
  <2>11. /\ (call'["ops"].st # "idle" => ~running')
         /\ (call'["ops"].st = "failed" => ~alive)
    BY <2>6
  <2> QED BY <2>2, <2>3, <2>7, <2>8, <2>9, <2>10, <2>11, ControlOps
<1> QED BY <1>1, <1>2

LEMMA ControlStops ==
  ASSUME Types, Control
  PROVE  /\ \A reason \in StopReasons : StopCall(reason) => Control'
         /\ StopDone => Control'
<1>0. started \in Nat /\ \A s \in Sessions : s > started => delivered[s] = <<>>
  BY QueueFacts DEF Control, Starts
<1>1. ASSUME NEW reason \in StopReasons, StopCall(reason) PROVE Control'
  <2> DEFINE x == [type |-> "stop", reason |-> reason, by |-> "ops"]
  <2>1. /\ main # "exited" /\ running /\ call["ops"] = Idle /\ Ask("ops", x) /\ ~running'
        /\ UNCHANGED <<queue, wpc, cmd, session, alive, main, started, delivered>>
    BY <1>1 DEF StopCall, storage
  <2>2. x \in OpsCommands
    BY DEF OpsCommands, Reasons
  <2>3. call'["ops"] = [st |-> "sending", command |-> x] /\ call'["main"] = call["main"]
    BY <2>1, <2>2, CallAsked DEF Callers, Types, BrokerTypes
  <2>4. call["ops"].st = "idle"
    BY <2>1 DEF Idle
  <2>5. ~Asks("start")' /\ Asks("stop")' /\ call'["ops"].st = "sending"
    BY <2>3 DEF Asks
  <2>6. session # 0 => session = started
    BY DEF Control, Owned
  <2> QED BY <1>0, <2>1, <2>3, <2>4, <2>5, <2>6, ControlOps
<1>2. ASSUME StopDone PROVE Control'
  <2>1. /\ call["ops"].st \in {"ok", "failed"} /\ call["ops"].command.type = "stop"
        /\ UNCHANGED <<queue, wpc, cmd, session, alive, main, started, delivered, running>>
    BY <1>2 DEF StopDone, storage, brokerState, ghosts
  <2>2. call'["ops"] = Idle /\ call'["main"] = call["main"]
    BY <1>2, CallForgotten DEF StopDone, Callers, Types, BrokerTypes
  <2>3. main # "exited" /\ ~running
    BY <2>1 DEF Control, OpsCalls
  <2>4. InHand => ~ByOps(cmd)
    BY <2>1, <2>3, OpsQuiet
  <2>5. session = 0
    BY <2>1, <2>3, <2>4 DEF Control, Owned, Asks, InHand
  <2>6. call'["ops"].st = "idle" /\ ~Asks("start")'
    BY <2>2 DEF Idle, Asks
  <2> QED BY <1>0, <2>1, <2>2, <2>3, <2>5, <2>6, ControlOps
<1> QED BY <1>1, <1>2

LEMMA ControlSendFails ==
  ASSUME Types, Control, NEW c \in Callers, SendFails(c)
  PROVE  Control'
<1>1. /\ call[c].st = "sending" /\ ~alive
      /\ UNCHANGED <<queue, wpc, cmd, session, alive, main, running, started, delivered>>
  BY DEF SendFails, storage, brokerState, ghosts
<1>2. /\ call'[c] = [st |-> "failed", command |-> call[c].command]
      /\ \A d \in Callers : d # c => call'[d] = call[d]
  BY CommandOf, CallMoved DEF SendFails, Types, BrokerTypes
<1>3. CASE c = "ops"
  <2>1. main # "exited" /\ ~running
    BY <1>1, <1>3 DEF Control, OpsCalls
  <2>2. Asks("start")' => Asks("start") /\ call'["ops"].command = call["ops"].command
    BY <1>1, <1>2, <1>3 DEF Asks
  <2>3. Asks("start")' => call'["ops"].command.session = started /\ delivered[started] = <<>>
    BY <2>2 DEF Control, Starts
  <2>4. started \in Nat /\ \A s \in Sessions : s > started => delivered[s] = <<>>
    BY QueueFacts DEF Control, Starts
  <2>5. call'["main"] = call["main"] /\ call'["ops"].st = "failed"
    BY <1>2, <1>3 DEF Callers
  <2> QED BY <1>1, <1>3, <2>1, <2>3, <2>4, <2>5, DeadIsIdle, ControlOps
<1>4. CASE c = "main"
  <2>1. call'["ops"] = call["ops"] /\ main \in {"stopping", "closing"}
    BY <1>1, <1>2, <1>4 DEF Control, MainCalls, Callers
  <2> QED BY <1>1, <2>1, ControlMain DEF Ending
<1> QED BY <1>3, <1>4 DEF Callers

LEMMA ControlEnqueue ==
  ASSUME Types, Control, NEW c \in Callers, Enqueue(c)
  PROVE  Control'
<1> DEFINE x == call[c].command
           n == Len(queue) + 1
<1>1. /\ call[c].st = "sending" /\ alive /\ queue' = Append(queue, x)
      /\ UNCHANGED <<wpc, cmd, session, alive, main, running, started, delivered>>
  BY DEF Enqueue, worker, brokerState, ghosts
<1>2. /\ x \in Commands /\ call[c] # Idle
      /\ c = "ops" => x \in OpsCommands
      /\ c = "main" => x \in MainCommands
  BY <1>1, CommandOf DEF Types, BrokerTypes
<1>3. PICK st \in {"ok", "waiting"} :
        /\ call' = [call EXCEPT ![c].st = st] /\ (x.type # "shutdown" => st = "waiting")
  BY DEF Enqueue
<1>4. /\ call'[c] = [st |-> st, command |-> x]
      /\ \A d \in Callers : d # c => call'[d] = call[d]
  BY <1>2, <1>3, CallMoved DEF Types, BrokerTypes
<1>5. /\ Len(queue') = n /\ queue'[n] = x /\ n \in Nat /\ Len(queue) \in Nat
      /\ \A i \in 1..Len(queue) : queue'[i] = queue[i]
  BY <1>1, <1>2, QueueGrown, QueueFacts DEF Enqueue
<1>6. \A i \in 1..Len(queue') : i = n \/ (i \in 1..Len(queue) /\ queue'[i] = queue[i])
  BY <1>5
<1>7. CASE c = "ops"
  <2>1. main # "exited" /\ ~running
    BY <1>1, <1>7 DEF Control, OpsCalls
  <2>2. /\ \A i \in 1..Len(queue) : ~ByOps(queue[i]) /\ queue[i].type # "start"
        /\ InHand => ~ByOps(cmd) /\ cmd.type # "start"
    BY <1>1, <1>7, <2>1, OpsQuiet
  <2>3. ByOps(x) /\ ~ByMain(x) /\ x.type \in {"start", "stop"}
    BY <1>2, <1>7, Kinds, CommandFacts
  <2>4. call'["ops"] = [st |-> "waiting", command |-> x] /\ call'["main"] = call["main"]
    BY <1>3, <1>4, <1>7, <2>3 DEF Callers
  <2>5. QueueOps' /\ HandOps'
    BY <1>1, <1>5, <1>6, <2>2, <2>4 DEF QueueOps, HandOps, OpsWait, InHand
  <2>6. MainCalls'
    <3>1. \A i \in 1..Len(queue') : ByMain(queue'[i]) => Ending'
      BY <1>1, <1>5, <1>6, <2>3 DEF Control, MainCalls, Ending
    <3> QED BY <1>1, <2>4, <3>1 DEF Control, MainCalls, InHand, Ending
  <2>7. OpsCalls'
    BY <1>1, <2>1, <2>4 DEF OpsCalls
  <2>8. Starts'
    <3>1. Asks("start")' => Asks("start") /\ x.type = "start" /\ x.session = started
      BY <1>1, <1>7, <2>4 DEF Asks, Control, Starts
    <3>2. Asks("start")' \/ StartDue' => Asks("start")
      BY <1>1, <1>5, <1>6, <1>7, <2>2, <2>4 DEF StartDue, InHand, Asks
    <3>3. \A i \in 1..Len(queue') : queue'[i].type = "start" => queue'[i].session = started
      BY <1>1, <1>5, <1>6, <1>7, <2>2 DEF Asks, Control, Starts
    <3> QED BY <1>1, <2>2, <2>4, <3>1, <3>2, <3>3 DEF Control, Starts, InHand
  <2>9. Owned'
    BY <1>1, <1>7, <2>4 DEF Control, Owned, Asks
  <2> QED BY <2>5, <2>6, <2>7, <2>8, <2>9 DEF Control
<1>8. CASE c = "main"
  <2>1. main \in {"stopping", "closing"}
    BY <1>1, <1>8 DEF Control, MainCalls
  <2>2. ~ByOps(x) /\ x.type # "packet" /\ x.type # "start"
    BY <1>2, <1>8, Kinds, CommandFacts
  <2>3. call'["ops"] = call["ops"]
    BY <1>4, <1>8 DEF Callers
  <2>4. QueueOps'
    <3>1. SUFFICES ASSUME NEW i \in 1..Len(queue'), ByOps(queue'[i])
          PROVE  /\ OpsWait(queue[i])'
                 /\ \A j \in (i + 1)..Len(queue') : ~ByOps(queue'[j]) /\ queue'[j].type # "packet"
      BY DEF QueueOps
    <3>2. i \in 1..Len(queue) /\ queue'[i] = queue[i]
      BY <1>5, <1>6, <2>2, <3>1
    <3>3. OpsWait(queue[i]) /\ \A j \in (i + 1)..Len(queue) : ~ByOps(queue[j]) /\ queue[j].type # "packet"
      BY <3>1, <3>2 DEF Control, QueueOps
    <3>4. \A j \in (i + 1)..Len(queue') : j = n \/ (j \in (i + 1)..Len(queue) /\ queue'[j] = queue[j])
      BY <1>5
    <3> QED BY <1>1, <1>5, <2>2, <2>3, <3>2, <3>3, <3>4 DEF OpsWait
  <2>5. HandOps'
    BY <1>1, <1>5, <1>6, <2>2, <2>3 DEF Control, HandOps, OpsWait, InHand
  <2>6. MainCalls' /\ OpsCalls'
    BY <1>1, <2>1, <2>3 DEF Control, MainCalls, OpsCalls, Ending
  <2>7. Starts'
    <3>1. (StartDue' => StartDue) /\ (Asks("start")' <=> Asks("start"))
      BY <1>1, <1>5, <1>6, <2>2, <2>3 DEF StartDue, InHand, Asks
    <3>2. \A i \in 1..Len(queue') : queue'[i].type = "start" => queue'[i].session = started
      BY <1>5, <1>6, <2>2 DEF Control, Starts
    <3> QED BY <1>1, <2>3, <3>1, <3>2 DEF Control, Starts, InHand
  <2>8. Owned'
    BY <1>1, <2>3 DEF Control, Owned, Asks
  <2> QED BY <2>4, <2>5, <2>6, <2>7, <2>8 DEF Control
<1> QED BY <1>7, <1>8 DEF Callers

LEMMA ControlProcess ==
  ASSUME Types, Control, ProcessPacket
  PROVE  Control'
<1>1. /\ main # "exited" /\ running /\ started \in Sessions
      /\ UNCHANGED <<wpc, cmd, session, alive, main, running, started, call>>
  BY PacketProcessed DEF worker
<1>2. call["ops"].st = "idle"
  BY <1>1 DEF Control, OpsCalls
<1>3. CASE UNCHANGED <<queue, delivered>>
  BY <1>1, <1>3, ControlMain DEF Control, MainCalls, Ending
<1>4. CASE /\ alive /\ Len(queue) < QueueCap
           /\ queue' = Append(queue, [type |-> "packet", packet |-> NextPacket])
           /\ delivered' = [delivered EXCEPT ![started] = Append(Sent, NextPacket)]
  <2> DEFINE x == [type |-> "packet", packet |-> NextPacket]
             n == Len(queue) + 1
  <2>1. /\ Len(queue') = n /\ queue'[n] = x /\ n \in Nat /\ Len(queue) \in Nat
        /\ \A i \in 1..Len(queue) : queue'[i] = queue[i]
    BY <1>4, PacketProcessed, QueueGrown, QueueFacts
  <2>2. \A i \in 1..Len(queue') : i = n \/ (i \in 1..Len(queue) /\ queue'[i] = queue[i])
    BY <2>1
  <2>3. x.type = "packet" /\ ~ByOps(x) /\ ~ByMain(x)
    BY DEF ByOps, ByMain
  <2>4. /\ \A i \in 1..Len(queue) : ~ByOps(queue[i]) /\ queue[i].type # "start"
        /\ InHand => ~ByOps(cmd) /\ cmd.type # "start"
    BY <1>1, <1>2, OpsQuiet
  <2>5. /\ \A i \in 1..Len(queue') : ~ByOps(queue'[i]) /\ queue'[i].type # "start"
        /\ \A i \in 1..Len(queue') : ByMain(queue'[i]) => Ending
    BY <2>1, <2>2, <2>3, <2>4 DEF Control, MainCalls
  <2>6. QueueOps' /\ HandOps' /\ OpsCalls'
    BY <1>1, <1>2, <2>4, <2>5 DEF QueueOps, HandOps, OpsCalls, InHand
  <2>7. MainCalls'
    BY <1>1, <2>5 DEF Control, MainCalls, InHand, Ending
  <2>8. Starts'
    <3>1. \A s \in Sessions : s > started => delivered'[s] = <<>>
      <4>1. \A s \in Sessions : s # started => delivered'[s] = delivered[s]
        BY <1>1, <1>4, PacketProcessed, DeliveredAfter
      <4>2. \A s \in Sessions : s > started => s # started
        BY <1>1 DEF Sessions
      <4> QED BY <4>1, <4>2 DEF Control, Starts
    <3>2. ~Asks("start")' /\ ~StartDue'
      BY <1>1, <1>2, <2>4, <2>5 DEF Asks, StartDue, InHand
    <3> QED BY <1>1, <2>4, <2>5, <3>1, <3>2 DEF Starts, InHand
  <2>9. Owned'
    BY <1>1 DEF Control, Owned, Asks
  <2> QED BY <2>6, <2>7, <2>8, <2>9 DEF Control
<1> QED BY <1>3, <1>4, PacketProcessed

LEMMA ControlShutdown ==
  ASSUME Types, Control
  PROVE  /\ Monitor => Control'
         /\ ShutdownBegin => Control'
         /\ ShutdownStop => Control'
         /\ ShutdownRecording => Control'
         /\ Exit => Control'
<1> USE DEF storage, brokerState, ghosts
<1>1. [type |-> "shutdown"] \in MainCommands
  BY DEF MainCommands
<1>2. ASSUME NEW x \in MainCommands, Ask("main", x)
      PROVE  call'["ops"] = call["ops"]
  BY <1>2, CallAsked DEF Callers, Types, BrokerTypes
<1>3. ASSUME Monitor PROVE Control'
  BY <1>3, ControlMain DEF Monitor, Control, MainCalls, Ending
<1>4. ASSUME ShutdownBegin PROVE Control'
  <2>1. CASE running
    BY <1>4, <2>1, ControlMain DEF ShutdownBegin, Control, MainCalls, Ending
  <2>2. CASE ~running
    BY <1>1, <1>2, <1>4, <2>2, ControlMain DEF ShutdownBegin, Ending
  <2> QED BY <2>1, <2>2
<1>5. ASSUME ShutdownStop PROVE Control'
  <2>1. [type |-> "stop", reason |-> "BrokerShutdown", by |-> "main"] \in MainCommands
    BY DEF MainCommands, Reasons
  <2>2. call'["ops"] = call["ops"]
    BY <1>2, <1>5, <2>1 DEF ShutdownStop
  <2> QED BY <1>5, <2>2, ControlMain DEF ShutdownStop, Ending
<1>6. ASSUME ShutdownRecording PROVE Control'
  BY <1>1, <1>2, <1>6, ControlMain DEF ShutdownRecording, Ending
<1>7. ASSUME Exit PROVE Control'
  <2>1. /\ main' = "exited" /\ call'["ops"] = Idle /\ call'["main"] = Idle
        /\ UNCHANGED <<queue, wpc, cmd, session, alive, started, delivered>>
    BY <1>7 DEF Exit, Callers
  <2>2. call'["ops"].st = "idle" /\ call'["main"].st = "idle"
    BY <2>1 DEF Idle
  <2>3. QueueOps' /\ HandOps'
    BY <2>1 DEF Control, QueueOps, HandOps, OpsWait, InHand
  <2>4. MainCalls' /\ OpsCalls'
    BY <2>1, <2>2 DEF MainCalls, OpsCalls, Ending
  <2>5. Starts'
    <3>1. ~Asks("start")' /\ (StartDue' => StartDue)
      BY <2>1, <2>2 DEF Asks, StartDue, InHand
    <3> QED BY <2>1, <3>1 DEF Control, Starts, InHand
  <2>6. Owned'
    BY <2>1 DEF Control, Owned
  <2> QED BY <2>3, <2>4, <2>5, <2>6 DEF Control
<1> QED BY <1>3, <1>4, <1>5, <1>6, <1>7

(* A process that has just started has nothing under way. *)
BootControl ==
    BootFacts /\ started \in Nat /\ (\A s \in Sessions : s > started => delivered[s] = <<>>)

LEMMA BootedControl == BootControl => Control
<1> SUFFICES ASSUME BootControl PROVE Control
  OBVIOUS
<1>1. /\ Len(queue) = 0 /\ ~InHand /\ call["ops"].st = "idle" /\ call["main"].st = "idle" /\ session = 0
      /\ main = "serving" /\ 1..Len(queue) = {}
  BY DEF BootControl, BootFacts, InHand, Idle
<1>2. ~Asks("start") /\ ~StartDue
  BY <1>1 DEF Asks, StartDue
<1> QED BY <1>1, <1>2 DEF BootControl, Control, QueueOps, HandOps, MainCalls, OpsCalls, Starts, Owned

LEMMA ControlInit == Init => Control
<1> SUFFICES ASSUME Init PROVE Control
  OBVIOUS
<1>1. BootControl
  BY BootedTypes DEF Init, BootControl
<1> QED BY <1>1, BootedControl

LEMMA ControlCrash ==
  ASSUME Types, Control, Crash
  PROVE  Control'
<1>1. BootFacts'
  BY CrashTypes, BootedPrimed
<1>2. BootControl'
  BY <1>1, QueueFacts DEF Crash, BootControl, Control, Starts
<1>3. BootControl' => Control'
  BY BootedControl, PTL
<1> QED BY <1>2, <1>3

LEMMA ControlStep ==
  ASSUME Types, Control, [Next]_vars
  PROVE  Control'
<1>1. ASSUME UNCHANGED vars PROVE Control'
  BY <1>1, ControlMain DEF vars, storage, brokerState, control, ghosts, Control, MainCalls, Ending
<1>2. ASSUME NEW c \in Callers, Enqueue(c) \/ SendFails(c) PROVE Control'
  BY <1>2, ControlEnqueue, ControlSendFails
<1> QED BY <1>1, <1>2, ControlStarts, ControlStops, ControlProcess, ControlShutdown, ControlWorker,
           ControlCrash DEF Next, Ended

----------------------------------------------------------------------------
(* From the broker to the file: what is queued is what was handed on. *)

LEMMA LeadKept ==
  ASSUME NEW q, NEW r, Len(q) \in Nat, \A i \in 1..Len(q) : r[i] = q[i]
  PROVE  \A i \in 0..Len(q) : Lead(r, i) <=> Lead(q, i)
<1>1. \A i \in 0..Len(q) : \A j \in 1..i : j \in 1..Len(q)
  OBVIOUS
<1> QED BY <1>1 DEF Lead

LEMMA FitsCommand ==
  ASSUME NEW q \in Seq(Commands), NEW sent \in Seq(Packets), NEW n \in Nat, NEW owed \in Nat,
         Fits(q, sent, n, owed), NEW x \in Commands, x.type # "packet", owed <= Len(sent)
  PROVE  Fits(Append(q, x), sent, n, owed)
<1>1. PICK r : r = Append(q, x)
  OBVIOUS
<1>2. /\ Len(r) = Len(q) + 1 /\ r[Len(q) + 1] = x /\ Len(q) \in Nat /\ Len(sent) \in Nat
      /\ \A i \in 1..Len(q) : r[i] = q[i]
  BY <1>1, AppendProperties
<1>3. \A i \in 0..Len(q) : Lead(r, i) <=> Lead(q, i)
  BY <1>2, LeadKept
<1>4. ~Lead(r, Len(r))
  BY <1>2 DEF Lead
<1>5. ASSUME NEW i \in 1..Len(r), Lead(r, i)
      PROVE  n + i <= Len(sent) /\ r[i].packet = sent[n + i]
  <2>1. i \in 1..Len(q) /\ i \in 0..Len(q)
    BY <1>2, <1>4, <1>5
  <2> QED BY <1>2, <1>3, <1>5, <2>1 DEF Fits
<1>6. ASSUME NEW i \in 1..Len(r), Lead(r, i - 1), r[i].type \in {"stop", "shutdown"}
      PROVE  owed <= n + (i - 1)
  <2>1. i - 1 \in 0..Len(q) /\ Lead(q, i - 1)
    BY <1>2, <1>3, <1>6
  <2>2. CASE i \in 1..Len(q)
    BY <1>2, <1>6, <2>1, <2>2 DEF Fits
  <2>3. CASE i - 1 = Len(q)
    BY <1>2, <2>1, <2>3 DEF Fits
  <2> QED BY <1>2, <2>2, <2>3
<1> QED BY <1>1, <1>4, <1>5, <1>6 DEF Fits

LEMMA FitsPacket ==
  ASSUME NEW q \in Seq(Commands), NEW sent \in Seq(Packets), NEW n \in Nat, NEW owed \in Nat,
         Fits(q, sent, n, owed), NEW p \in Packets
  PROVE  Fits(Append(q, [type |-> "packet", packet |-> p]), Append(sent, p), n, owed)
<1>1. PICK x : x = [type |-> "packet", packet |-> p]
  OBVIOUS
<1>2. PICK r : r = Append(q, x)
  OBVIOUS
<1>3. PICK more : more = Append(sent, p)
  OBVIOUS
<1>4. x \in Commands /\ x.type = "packet" /\ x.packet = p
  BY <1>1 DEF Commands, PacketCommands
<1>5. /\ Len(r) = Len(q) + 1 /\ r[Len(q) + 1] = x /\ Len(q) \in Nat
      /\ \A i \in 1..Len(q) : r[i] = q[i]
  BY <1>2, <1>4, AppendProperties
<1>6. /\ Len(more) = Len(sent) + 1 /\ more[Len(sent) + 1] = p /\ Len(sent) \in Nat
      /\ \A i \in 1..Len(sent) : more[i] = sent[i]
  BY <1>3, AppendProperties
<1>7. \A i \in 0..Len(q) : Lead(r, i) <=> Lead(q, i)
  BY <1>5, LeadKept
<1>8. Lead(r, Len(r)) => n + Len(q) = Len(sent)
  <2>1. Lead(r, Len(r)) => Lead(r, Len(q))
    BY <1>5 DEF Lead
  <2> QED BY <1>5, <1>7, <2>1 DEF Fits
<1>9. ASSUME NEW i \in 1..Len(r), Lead(r, i)
      PROVE  n + i <= Len(more) /\ r[i].packet = more[n + i]
  <2>1. CASE i \in 1..Len(q)
    <3>1. n + i <= Len(sent) /\ q[i].packet = sent[n + i] /\ n + i \in 1..Len(sent)
      BY <1>6, <1>7, <1>9, <2>1 DEF Fits
    <3> QED BY <1>5, <1>6, <2>1, <3>1
  <2>2. CASE i = Len(r)
    <3>1. n + i = Len(sent) + 1
      BY <1>5, <1>6, <1>8, <1>9, <2>2
    <3> QED BY <1>4, <1>5, <1>6, <2>2, <3>1
  <2> QED BY <1>5, <2>1, <2>2
<1>10. ASSUME NEW i \in 1..Len(r), Lead(r, i - 1), r[i].type \in {"stop", "shutdown"}
      PROVE  owed <= n + (i - 1)
  <2>1. i \in 1..Len(q) /\ i - 1 \in 0..Len(q)
    BY <1>4, <1>5, <1>10
  <2> QED BY <1>5, <1>7, <1>10, <2>1 DEF Fits
<1>11. n <= Len(more) /\ (Lead(r, Len(r)) => n + Len(r) = Len(more))
  <2>1. n <= Len(sent)
    BY DEF Fits
  <2> QED BY <1>5, <1>6, <1>8, <2>1
<1>12. Fits(r, more, n, owed)
  BY <1>9, <1>10, <1>11 DEF Fits
<1> QED BY <1>1, <1>2, <1>3, <1>12

LEMMA FitsTail ==
  ASSUME NEW q \in Seq(Commands), q # <<>>, NEW sent \in Seq(Packets), NEW n \in Nat, NEW owed \in Nat,
         Fits(q, sent, n, owed)
  PROVE  /\ q[1].type = "packet" =>
              n + 1 <= Len(sent) /\ q[1].packet = sent[n + 1] /\ Fits(Tail(q), sent, n + 1, owed)
         /\ q[1].type \in {"stop", "shutdown"} => owed <= n
<1>1. PICK r : r = Tail(q)
  OBVIOUS
<1>2. Len(r) = Len(q) - 1 /\ Len(q) \in Nat \ {0} /\ (\A i \in 1..Len(r) : r[i] = q[i + 1]) /\ Len(sent) \in Nat
  BY <1>1, HeadTailProperties, EmptySeq
<1>3. ASSUME q[1].type = "packet"
      PROVE  n + 1 <= Len(sent) /\ q[1].packet = sent[n + 1] /\ Fits(r, sent, n + 1, owed)
  <2>1. Lead(q, 1) /\ 1 \in 1..Len(q)
    BY <1>2, <1>3 DEF Lead
  <2>2. n + 1 <= Len(sent) /\ q[1].packet = sent[n + 1]
    BY <2>1 DEF Fits
  <2>3. \A i \in 0..Len(r) : Lead(r, i) => Lead(q, i + 1)
    <3>1. SUFFICES ASSUME NEW i \in 0..Len(r), Lead(r, i), NEW j \in 1..(i + 1) PROVE q[j].type = "packet"
      BY DEF Lead
    <3>2. j = 1 \/ (j - 1 \in 1..i /\ j - 1 \in 1..Len(r) /\ (j - 1) + 1 = j)
      BY <1>2, <3>1
    <3> QED BY <1>2, <1>3, <3>1, <3>2 DEF Lead
  <2>4. ASSUME NEW i \in 1..Len(r), Lead(r, i)
        PROVE  (n + 1) + i <= Len(sent) /\ r[i].packet = sent[(n + 1) + i]
    <3>1. i \in 0..Len(r) /\ i + 1 \in 1..Len(q) /\ n + (i + 1) = (n + 1) + i
      BY <1>2
    <3>2. Lead(q, i + 1)
      BY <2>3, <2>4, <3>1
    <3>3. n + (i + 1) <= Len(sent) /\ q[i + 1].packet = sent[n + (i + 1)]
      BY <3>1, <3>2 DEF Fits
    <3> QED BY <1>2, <3>1, <3>3
  <2>5. Lead(r, Len(r)) => (n + 1) + Len(r) = Len(sent)
    <3>1. Lead(r, Len(r)) => Lead(q, Len(q))
      <4>1. Len(r) \in 0..Len(r) /\ Len(r) + 1 = Len(q)
        BY <1>2
      <4> QED BY <2>3, <4>1
    <3>2. Lead(q, Len(q)) => n + Len(q) = Len(sent)
      BY DEF Fits
    <3>3. (n + 1) + Len(r) = n + Len(q)
      BY <1>2
    <3> QED BY <3>1, <3>2, <3>3
  <2>6. ASSUME NEW i \in 1..Len(r), Lead(r, i - 1), r[i].type \in {"stop", "shutdown"}
        PROVE  owed <= (n + 1) + (i - 1)
    <3>1. i - 1 \in 0..Len(r) /\ i + 1 \in 1..Len(q) /\ (i + 1) - 1 = (i - 1) + 1
      BY <1>2
    <3>2. Lead(q, (i + 1) - 1) /\ q[i + 1].type \in {"stop", "shutdown"}
      BY <1>2, <2>3, <2>6, <3>1
    <3>3. owed <= n + ((i + 1) - 1)
      BY <3>1, <3>2 DEF Fits
    <3> QED BY <3>1, <3>3
  <2> QED BY <2>2, <2>4, <2>5, <2>6 DEF Fits
<1>4. ASSUME q[1].type \in {"stop", "shutdown"} PROVE owed <= n
  <2>1. Lead(q, 1 - 1) /\ 1 \in 1..Len(q)
    BY <1>2 DEF Lead
  <2>2. owed <= n + (1 - 1)
    BY <1>4, <2>1 DEF Fits
  <2> QED BY <2>2
<1> QED BY <1>1, <1>3, <1>4

LEMMA FitsFresh ==
  ASSUME NEW q \in Seq(Commands), \A j \in 1..Len(q) : q[j].type # "packet"
  PROVE  Fits(q, <<>>, 0, 0)
<1>1. Len(q) \in Nat /\ Len(<<>>) = 0
  OBVIOUS
<1>2. \A i \in 1..Len(q) : ~Lead(q, i)
  <2>1. \A i \in 1..Len(q) : 1 \in 1..i /\ 1 \in 1..Len(q)
    BY <1>1
  <2> QED BY <2>1 DEF Lead
<1>3. Lead(q, Len(q)) => Len(q) = 0
  BY <1>1, <1>2
<1>4. \A i \in 1..Len(q) : 0 <= 0 + (i - 1)
  BY <1>1
<1> QED BY <1>1, <1>2, <1>3, <1>4 DEF Fits

LEMMA FitsOwed ==
  ASSUME NEW q, NEW sent, NEW n, NEW owed, NEW more, Fits(q, sent, n, owed),
         \A j \in 1..Len(q) : q[j].type \notin {"stop", "shutdown"}
  PROVE  Fits(q, sent, n, more)
  BY DEF Fits

(* The parts of Reached that a step keeps. *)
LEMMA ReachedKept ==
  ASSUME NEW k, Reached(k), UNCHANGED <<session, session_record_offset, queue>>,
         delivered'[session] = delivered[session], due'[session] = due[session],
         Held' = Held, Held = 1 => cmd' = cmd, Closing' <=> Closing
  PROVE  Reached(k)'
  BY DEF Reached

LEMMA PipelineKept ==
  ASSUME Pipeline, UNCHANGED <<session, session_record_offset, queue, delivered, due>>,
         session # 0 => Held' = Held /\ (Held = 1 => cmd' = cmd) /\ (Closing' <=> Closing)
  PROVE  Pipeline'
<1>1. ASSUME session # 0 PROVE \E k \in 0..Len(delivered[session]) : Reached(k)'
  BY <1>1, ReachedKept DEF Pipeline
<1> QED BY <1>1 DEF Pipeline

LEMMA PipelineEnds ==
  ASSUME Pipeline, session' = 0, UNCHANGED <<delivered, due>>
  PROVE  Pipeline'
  BY DEF Pipeline

LEMMA SessionFacts ==
  ASSUME Types, session # 0
  PROVE  /\ session \in Sessions /\ delivered[session] \in Seq(Packets) /\ due[session] \in Nat
         /\ Len(delivered[session]) \in Nat /\ session_record_offset \in Nat
         /\ queue \in Seq(Commands) /\ Held \in {0, 1}
<1>1. session \in Sessions
  BY InHandFacts
<1> QED BY <1>1 DEF Types, BrokerTypes, StorageTypes, Held

(* One more packet of a prefix. *)
LEMMA PrefixGrows ==
  ASSUME NEW ps \in Seq(Packets), NEW k \in Nat, k + 1 <= Len(ps)
  PROVE  /\ ps[k + 1] \in Packets /\ SubSeq(ps, 1, k + 1) = Append(SubSeq(ps, 1, k), ps[k + 1])
         /\ RecordCount(SubSeq(ps, 1, k + 1)) = RecordCount(SubSeq(ps, 1, k)) + ps[k + 1].n
         /\ AllRows(SubSeq(ps, 1, k + 1)) = AllRows(SubSeq(ps, 1, k)) \o Rows(ps[k + 1])
<1>1. ps[k + 1] \in Packets /\ Len(ps) \in Nat /\ k \in 0..Len(ps)
  OBVIOUS
<1>2. SubSeq(ps, 1, k) \in Seq(Packets) /\ Len(SubSeq(ps, 1, k)) = k
  BY <1>1
<1>3. SubSeq(ps, 1, k + 1) = Append(SubSeq(ps, 1, k), ps[k + 1])
  BY <1>1, <1>2
<1> QED BY <1>1, <1>2, <1>3, AllRowsAppend

LEMMA PipelineReceive ==
  ASSUME Types, Control, Pipeline, Receive
  PROVE  Pipeline'
<1> DEFINE next == Head(queue)
           Begun(pc) == /\ wpc' = pc /\ cmd' = next /\ queue' = Tail(queue)
                        /\ UNCHANGED <<alive, error, call>>
<1>1. wpc = "recv" /\ queue # <<>> /\ Quiet /\ UNCHANGED <<delivered, due>>
  BY DEF Receive, Quiet, ghosts
<1>2. /\ next \in Commands /\ Tail(queue) \in Seq(Commands)
      /\ Len(Tail(queue)) = Len(queue) - 1 /\ Len(queue) \in Nat \ {0}
      /\ \A i \in 1..(Len(queue) - 1) : Tail(queue)[i] = queue[i + 1]
      /\ next = queue[1]
  BY <1>1, QueueTail
<1>3. Held = 0 /\ ~Closing
  BY <1>1 DEF Held, Closing
<1>4. ASSUME next.type = "start", session' = next.session, session_record_offset' = 0, Begun("open")
      PROVE  Pipeline'
  <2>1. next.session = started /\ delivered[started] = <<>> /\ next \in OpsCommands
    BY <1>2, <1>4, Kinds DEF Control, Starts, StartDue
  <2>2. started \in Sessions /\ due[started] = 0
    <3>1. started \in Sessions
      BY <2>1, <1>4, CommandFacts
    <3>2. due[started] \in Nat /\ due[started] <= Len(<<>>)
      BY <2>1, <3>1 DEF Pipeline, Types, BrokerTypes
    <3> QED BY <3>1, <3>2
  <2>3. \A j \in 1..Len(Tail(queue)) : Tail(queue)[j].type # "packet"
    <3>1. \A j \in (1 + 1)..Len(queue) : queue[j].type # "packet"
      BY <1>2, <2>1, Kinds DEF Control, QueueOps
    <3>2. \A j \in 1..Len(Tail(queue)) : j + 1 \in (1 + 1)..Len(queue) /\ j \in 1..(Len(queue) - 1)
      BY <1>2
    <3> QED BY <1>2, <3>1, <3>2
  <2>4. Fits(Tail(queue), <<>>, 0, 0)
    BY <1>2, <2>3, FitsFresh
  <2>5. session' = started /\ delivered'[started] = <<>> /\ due'[started] = 0 /\ session_record_offset' = 0
        /\ queue' = Tail(queue) /\ Held' = 0 /\ ~Closing'
    BY <1>1, <1>4, <2>1, <2>2 DEF Held, Closing
  <2>6. RecordCount(SubSeq(<<>>, 1, 0)) = 0
    <3>1. SubSeq(<<>>, 1, 0) = <<>>
      OBVIOUS
    <3>2. PICK e : e = <<>>
      OBVIOUS
    <3>3. AllRows(e) = e /\ Len(e) = 0 /\ RecordCount(e) = Len(AllRows(e))
      BY <3>2, AllRowsEmpty DEF RecordCount
    <3> QED BY <3>1, <3>2, <3>3, Zenon
  <2>7. Reached(0)'
    BY <2>4, <2>5, <2>6 DEF Reached
  <2> QED BY <1>1, <2>5, <2>7 DEF Pipeline
<1>5. ASSUME next.type = "packet", session # 0, Begun("rows"), UNCHANGED worker
      PROVE  Pipeline'
  <2>1. PICK k \in 0..Len(delivered[session]) : Reached(k)
    BY <1>5 DEF Pipeline
  <2> DEFINE sent == delivered[session]
  <2>2. sent \in Seq(Packets) /\ due[session] \in Nat /\ k \in Nat /\ queue \in Seq(Commands) /\ Len(sent) \in Nat
    BY <1>5, SessionFacts
  <2>3. Fits(queue, sent, k, due[session]) /\ session_record_offset = RecordCount(SubSeq(sent, 1, k))
    BY <1>3, <2>1, <2>2 DEF Reached
  <2>4. k + 1 <= Len(sent) /\ next.packet = sent[k + 1] /\ Fits(Tail(queue), sent, k + 1, due[session])
    BY <1>1, <1>2, <1>5, <2>2, <2>3, FitsTail
  <2>5. /\ session' = session /\ delivered' = delivered /\ due' = due /\ Held' = 1 /\ ~Closing'
        /\ session_record_offset' = session_record_offset /\ queue' = Tail(queue) /\ cmd' = next
    BY <1>1, <1>5 DEF worker, Held, Closing
  <2>6. Reached(k)'
    BY <2>3, <2>4, <2>5 DEF Reached
  <2> QED BY <2>5, <2>6 DEF Pipeline
<1>6. ASSUME next.type \in {"stop", "shutdown"}, Begun("finalise"), UNCHANGED worker
      PROVE  Pipeline'
  <2>1. CASE session = 0
    BY <1>1, <1>6, <2>1, PipelineEnds DEF worker
  <2>2. CASE session # 0
    <3>1. PICK k \in 0..Len(delivered[session]) : Reached(k)
      BY <2>2 DEF Pipeline
    <3>2. delivered[session] \in Seq(Packets) /\ due[session] \in Nat /\ k \in Nat /\ queue \in Seq(Commands)
      BY <2>2, SessionFacts
    <3>3. /\ Fits(queue, delivered[session], k, due[session]) /\ k <= Len(delivered[session])
          /\ session_record_offset = RecordCount(SubSeq(delivered[session], 1, k))
      BY <1>3, <3>1, <3>2 DEF Reached
    <3>4. due[session] <= k
      BY <1>1, <1>2, <1>6, <3>2, <3>3, FitsTail
    <3>5. /\ session' = session /\ delivered' = delivered /\ due' = due /\ Held' = 0 /\ Closing'
          /\ session_record_offset' = session_record_offset
      BY <1>1, <1>6 DEF worker, Held, Closing
    <3>6. Reached(k)'
      BY <3>2, <3>3, <3>4, <3>5 DEF Reached
    <3> QED BY <3>5, <3>6 DEF Pipeline
  <2> QED BY <2>1, <2>2
<1>7. ASSUME segment = NoSegment, UNCHANGED worker PROVE Pipeline'
  <2>1. session' = 0
    BY <1>1, <1>7 DEF Types, WorkerOK, worker
  <2> QED BY <1>1, <2>1, PipelineEnds
<1>8. ASSUME Fail(next) PROVE Pipeline'
  BY <1>1, <1>8, PipelineEnds DEF Fail
<1> QED BY <1>4, <1>5, <1>6, <1>7, <1>8 DEF Receive

LEMMA PipelineWorker ==
  ASSUME Types, Control, Pipeline, Worker
  PROVE  Pipeline'
<1>1. ASSUME NEW x, Fail(x), Quiet PROVE Pipeline'
  BY <1>1, PipelineEnds DEF Fail, Quiet, ghosts
<1>2. ASSUME OpenSegment PROVE Pipeline'
  <2>1. wpc = "open" /\ Quiet /\ cmd \in Commands /\ cmd.type \in {"start", "packet"}
    BY <1>2, OpenStep, CommandFacts DEF Types, WorkerOK
  <2>2. ASSUME Succeed(cmd, queue), UNCHANGED <<session, session_record_offset>> PROVE Pipeline'
    <3>1. wpc' = "recv" /\ queue' = queue /\ UNCHANGED <<delivered, due>>
      BY <2>1, <2>2, SucceedStep DEF Quiet, ghosts
    <3>2. Held' = Held /\ Held = 0 /\ ~Closing /\ ~Closing'
      BY <2>1, <3>1 DEF Held, Closing
    <3> QED BY <2>2, <3>1, <3>2, PipelineKept
  <2> QED BY <1>1, <1>2, <2>1, <2>2, OpenStep
<1>3. ASSUME AppendRows PROVE Pipeline'
  <2>1. wpc = "rows" /\ Quiet
    BY <1>3, RowsStep
  <2>2. ASSUME wpc' = "packet", UNCHANGED <<worker, cmd>>, Working PROVE Pipeline'
    <3>1. Held' = Held /\ ~Closing /\ ~Closing'
      BY <2>1, <2>2 DEF Held, Closing
    <3> QED BY <2>1, <2>2, <3>1, PipelineKept DEF worker, Working, Quiet, ghosts
  <2> QED BY <1>1, <1>3, <2>1, <2>2, RowsStep
<1>4. ASSUME AppendPacket PROVE Pipeline'
  <2>1. wpc = "packet" /\ Quiet /\ cmd \in Commands /\ cmd.type = "packet" /\ session # 0
    BY <1>4, PacketStep, InHandFacts DEF InHand, Types, WorkerOK
  <2>2. ASSUME session_record_offset' = session_record_offset + cmd.packet.n, session' = session,
               queue' = queue, \/ wpc' = "recv"
                               \/ wpc' = "finalise" /\ cmd' = cmd
        PROVE  Pipeline'
    <3>1. PICK k \in 0..Len(delivered[session]) : Reached(k)
      BY <2>1 DEF Pipeline
    <3> DEFINE sent == delivered[session]
    <3>2. sent \in Seq(Packets) /\ due[session] \in Nat /\ k \in Nat /\ Len(sent) \in Nat
      BY <2>1, SessionFacts
    <3>3. Held = 1 /\ ~Closing /\ Held' = 0 /\ ~Closing'
      BY <2>1, <2>2 DEF Held, Closing
    <3>4. /\ k + 1 <= Len(sent) /\ cmd.packet = sent[k + 1]
          /\ Fits(queue, sent, k + 1, due[session]) /\ session_record_offset = RecordCount(SubSeq(sent, 1, k))
      BY <3>1, <3>3 DEF Reached
    <3>5. session_record_offset' = RecordCount(SubSeq(sent, 1, k + 1))
      BY <2>2, <3>2, <3>4, PrefixGrows
    <3>6. UNCHANGED <<delivered, due>> /\ k + 1 \in 0..Len(sent) /\ (k + 1) + 0 = k + 1
      BY <2>1, <3>2, <3>4 DEF Quiet, ghosts
    <3>7. Reached(k + 1)'
      BY <2>2, <3>3, <3>4, <3>5, <3>6 DEF Reached
    <3> QED BY <2>2, <3>6, <3>7 DEF Pipeline
  <2>3. Succeed(cmd, queue) => wpc' = "recv" /\ queue' = queue
    BY <2>1, SucceedStep
  <2> QED BY <1>1, <1>4, <2>1, <2>2, <2>3, PacketStep DEF Working
<1>5. ASSUME Finalise PROVE Pipeline'
  <2>1. wpc = "finalise" /\ Quiet
    BY <1>5, FinaliseStep
  <2>2. ASSUME wpc' = "rename", UNCHANGED <<worker, cmd>>, Working PROVE Pipeline'
    <3>1. Held' = Held /\ Held = 0 /\ (Closing' <=> Closing)
      BY <2>1, <2>2 DEF Held, Closing
    <3> QED BY <2>1, <2>2, <3>1, PipelineKept DEF worker, Working, Quiet, ghosts
  <2> QED BY <1>1, <1>5, <2>1, <2>2, FinaliseStep
<1>6. ASSUME Rename PROVE Pipeline'
  <2>1. wpc = "rename" /\ Quiet /\ UNCHANGED <<delivered, due>>
    BY <1>6, RenameStep DEF Quiet, ghosts
  <2>2. ASSUME cmd.type = "packet", wpc' = "open", UNCHANGED <<session, session_record_offset>>, Working
        PROVE  Pipeline'
    <3>1. Held' = Held /\ Held = 0 /\ ~Closing /\ ~Closing'
      BY <2>1, <2>2 DEF Held, Closing
    <3> QED BY <2>1, <2>2, <3>1, PipelineKept DEF Working
  <2>3. ASSUME session' = 0 PROVE Pipeline'
    BY <2>1, <2>3, PipelineEnds
  <2> QED BY <1>1, <1>6, <2>1, <2>2, <2>3, RenameStep
<1> QED BY <1>2, <1>3, <1>4, <1>5, <1>6, PipelineReceive DEF Worker

(* While the broker serves and no start or stop waits, nothing that ends   *)
(* the session is under way.                                               *)
LEMMA NoEndYet ==
  ASSUME Types, Control, call["ops"].st # "waiting", main \notin {"stopping", "closing", "exited"}
  PROVE  /\ \A j \in 1..Len(queue) : queue[j].type \notin {"stop", "shutdown"}
         /\ ~Closing
<1>1. /\ \A i \in 1..Len(queue) : ~ByOps(queue[i]) /\ ~ByMain(queue[i])
      /\ InHand => ~ByOps(cmd) /\ ~ByMain(cmd)
  BY OpsQuiet DEF Control, MainCalls, Ending
<1>2. \A i \in 1..Len(queue) : queue[i].type = "packet"
  BY <1>1, QueueFacts, Kinds
<1>3. InHand => cmd.type = "packet"
  BY <1>1, QueueFacts, Kinds
<1> QED BY <1>2, <1>3 DEF Closing, InHand

(* The end of the session that runs is asked for. *)
LEMMA PipelineDue ==
  ASSUME Types, Control, Pipeline, main \notin {"stopping", "closing", "exited"}, running,
         due' = [due EXCEPT ![started] = Len(delivered[started])], UNCHANGED storage, UNCHANGED delivered
  PROVE  Pipeline'
<1>1. UNCHANGED <<session, session_record_offset, queue, cmd, wpc>>
  BY DEF storage
<1>2. started \in Sessions /\ due \in [Sessions -> Nat] /\ delivered \in [Sessions -> Seq(Packets)]
  BY DEF Types, BrokerTypes, Sessions
<1>3. /\ due'[started] = Len(delivered[started])
      /\ \A s \in Sessions : s # started => due'[s] = due[s]
  BY <1>2
<1>4. \A s \in Sessions : due'[s] <= Len(delivered'[s])
  <2>1. \A s \in Sessions : Len(delivered[s]) \in Nat
    BY <1>2
  <2> QED BY <1>3, <2>1 DEF Pipeline
<1>5. ASSUME session # 0 PROVE \E k \in 0..Len(delivered[session]) : Reached(k)'
  <2>1. PICK k \in 0..Len(delivered[session]) : Reached(k)
    BY <1>5 DEF Pipeline
  <2>2. call["ops"].st # "waiting"
    BY DEF Control, OpsCalls
  <2>3. Held' = Held /\ ~Closing /\ ~Closing'
    BY <1>1, <2>2, NoEndYet DEF Held, Closing
  <2>4. Fits(queue, delivered[session], k + Held, due'[session])
    <3>1. Fits(queue, delivered[session], k + Held, due[session])
      BY <2>1, <2>3 DEF Reached
    <3> QED BY <2>2, <3>1, NoEndYet, FitsOwed
  <2> QED BY <1>1, <2>1, <2>3, <2>4 DEF Reached
<1> QED BY <1>1, <1>4, <1>5 DEF Pipeline

LEMMA PipelineStill ==
  ASSUME Types, Pipeline, UNCHANGED <<storage, delivered, due>>
  PROVE  Pipeline'
<1>1. UNCHANGED <<session, session_record_offset, queue, cmd, wpc>>
  BY DEF storage
<1>2. Held' = Held /\ (Closing' <=> Closing)
  BY <1>1 DEF Held, Closing
<1> QED BY <1>1, <1>2, PipelineKept

LEMMA PipelineEnqueue ==
  ASSUME Types, Control, Pipeline, NEW c \in Callers, Enqueue(c)
  PROVE  Pipeline'
<1> DEFINE x == call[c].command
<1>1. /\ queue' = Append(queue, x)
      /\ UNCHANGED <<wpc, cmd, session, session_record_offset, delivered, due>>
  BY DEF Enqueue, worker, ghosts
<1>2. x \in Commands /\ x.type # "packet"
  <2>1. /\ x \in Commands
        /\ c = "ops" => x \in OpsCommands
        /\ c = "main" => x \in MainCommands
    BY CommandOf DEF Enqueue, Types, BrokerTypes
  <2> QED BY <2>1, Kinds DEF Callers
<1>3. ASSUME session # 0 PROVE \E k \in 0..Len(delivered[session]) : Reached(k)'
  <2>1. PICK k \in 0..Len(delivered[session]) : Reached(k)
    BY <1>3 DEF Pipeline
  <2>2. Held' = Held /\ (Closing' <=> Closing) /\ Held \in {0, 1}
    BY <1>1 DEF Held, Closing
  <2>3. ~Closing => Fits(Append(queue, x), delivered[session], k + Held, due[session])
    <3>1. /\ session \in Sessions /\ delivered[session] \in Seq(Packets) /\ due[session] \in Nat
          /\ queue \in Seq(Commands) /\ k + Held \in Nat
      BY <1>3, <2>2, SessionFacts
    <3>2. due[session] <= Len(delivered[session])
      BY <3>1 DEF Pipeline
    <3>3. ~Closing => Fits(queue, delivered[session], k + Held, due[session])
      BY <2>1 DEF Reached
    <3> QED BY <1>2, <3>1, <3>2, <3>3, FitsCommand
  <2> QED BY <1>1, <2>1, <2>2, <2>3 DEF Reached
<1> QED BY <1>1, <1>3 DEF Pipeline

LEMMA PipelineProcess ==
  ASSUME Types, Control, Pipeline, ProcessPacket
  PROVE  Pipeline'
<1>1. /\ main # "exited" /\ running /\ started \in Sessions /\ Sent \in Seq(Packets) /\ NextPacket \in Packets
      /\ UNCHANGED <<wpc, cmd, session, session_record_offset, due>>
  BY PacketProcessed DEF worker
<1>2. CASE UNCHANGED <<queue, delivered>>
  <2>1. Held' = Held /\ (Closing' <=> Closing)
    BY <1>1 DEF Held, Closing
  <2> QED BY <1>1, <1>2, <2>1, PipelineKept
<1>3. CASE /\ queue' = Append(queue, [type |-> "packet", packet |-> NextPacket])
           /\ delivered' = [delivered EXCEPT ![started] = Append(Sent, NextPacket)]
  <2>1. /\ delivered'[started] = Append(Sent, NextPacket)
        /\ \A s \in Sessions : s # started => delivered'[s] = delivered[s]
    BY <1>1, <1>3, DeliveredAfter
  <2>2. /\ Len(Append(Sent, NextPacket)) = Len(Sent) + 1 /\ Len(Sent) \in Nat
        /\ \A i \in 1..Len(Sent) : Append(Sent, NextPacket)[i] = Sent[i]
    BY <1>1, AppendProperties
  <2>3. \A s \in Sessions : due'[s] <= Len(delivered'[s])
    <3>1. \A s \in Sessions : due[s] \in Nat /\ due[s] <= Len(delivered[s])
      BY DEF Pipeline, Types, BrokerTypes
    <3> QED BY <1>1, <2>1, <2>2, <3>1 DEF Sent
  <2>4. ASSUME session # 0 PROVE \E k \in 0..Len(delivered'[session]) : Reached(k)'
    <3>1. PICK k \in 0..Len(delivered[session]) : Reached(k)
      BY <2>4 DEF Pipeline
    <3>2. session = started /\ delivered[session] = Sent
      BY <2>4 DEF Control, Owned, Sent
    <3>3. Held' = Held /\ (Closing' <=> Closing) /\ Held \in {0, 1}
      BY <1>1 DEF Held, Closing
    <3>4. queue \in Seq(Commands) /\ k + Held \in Nat /\ k \in 0..Len(Sent) /\ due[session] \in Nat
      BY <2>4, <3>1, <3>2, <3>3, SessionFacts
    <3>5. ~Closing => Fits(queue', Append(Sent, NextPacket), k + Held, due[session])
      <4>1. ~Closing => Fits(queue, Sent, k + Held, due[session])
        BY <3>1, <3>2 DEF Reached
      <4> QED BY <1>1, <1>3, <3>4, <4>1, FitsPacket
    <3>6. SubSeq(Append(Sent, NextPacket), 1, k) = SubSeq(Sent, 1, k)
      BY <1>1, <3>4
    <3>7. /\ k + Held <= Len(Sent) /\ session_record_offset = RecordCount(SubSeq(Sent, 1, k))
          /\ Held = 1 => cmd.packet = Sent[k + 1]
          /\ Closing => due[session] <= k
      BY <3>1, <3>2 DEF Reached
    <3>8. Held = 1 => cmd.packet = Append(Sent, NextPacket)[k + 1]
      <4>1. Held = 1 => k + 1 \in 1..Len(Sent)
        BY <2>2, <3>4, <3>7
      <4> QED BY <2>2, <3>7, <4>1
    <3>9. k + Held <= Len(Append(Sent, NextPacket)) /\ k \in 0..Len(Append(Sent, NextPacket))
      BY <2>2, <3>3, <3>4, <3>7
    <3>10. session' = session /\ delivered'[session'] = Append(Sent, NextPacket) /\ due'[session'] = due[session]
           /\ cmd' = cmd /\ session_record_offset' = session_record_offset
      BY <1>1, <2>1, <3>2
    <3>11. Reached(k)'
      BY <3>3, <3>5, <3>6, <3>7, <3>8, <3>9, <3>10 DEF Reached
    <3> QED BY <3>9, <3>10, <3>11
  <2> QED BY <1>1, <2>3, <2>4 DEF Pipeline
<1> QED BY <1>2, <1>3, PacketProcessed

LEMMA PipelineStep ==
  ASSUME Types, Control, Pipeline, [Next]_vars
  PROVE  Pipeline'
<1> USE DEF ghosts
<1>1. ASSUME UNCHANGED vars PROVE Pipeline'
  BY <1>1, PipelineStill DEF vars
<1>2. ASSUME NEW c \in Callers, Enqueue(c) \/ SendFails(c) PROVE Pipeline'
  BY <1>2, PipelineEnqueue, PipelineStill DEF SendFails
<1>3. ASSUME NEW t \in Sessions, StartCall(t) PROVE Pipeline'
  BY <1>3, PipelineStill DEF StartCall
<1>4. ASSUME StartDone \/ StopDone PROVE Pipeline'
  BY <1>4, PipelineStill DEF StartDone, StopDone
<1>5. ASSUME NEW reason \in StopReasons, StopCall(reason) PROVE Pipeline'
  <2>1. CASE main = "serving"
    BY <1>5, <2>1, PipelineDue DEF StopCall
  <2>2. CASE main # "serving"
    BY <1>5, <2>2, PipelineStill DEF StopCall
  <2> QED BY <2>1, <2>2
<1>6. ASSUME ShutdownBegin PROVE Pipeline'
  <2>1. CASE running
    BY <1>6, <2>1, PipelineDue DEF ShutdownBegin
  <2>2. CASE ~running
    BY <1>6, <2>2, PipelineStill DEF ShutdownBegin
  <2> QED BY <2>1, <2>2
<1>7. ASSUME Monitor \/ ShutdownStop \/ ShutdownRecording \/ Exit PROVE Pipeline'
  BY <1>7, PipelineStill DEF Monitor, ShutdownStop, ShutdownRecording, Exit
<1>8. ASSUME Crash PROVE Pipeline'
  BY <1>8, PipelineEnds DEF Crash
<1>9. ASSUME Ended PROVE Pipeline'
  BY <1>1, <1>9 DEF Ended
<1> QED BY <1>1, <1>2, <1>3, <1>4, <1>5, <1>6, <1>7, <1>8, <1>9, PipelineProcess, PipelineWorker DEF Next

LEMMA PipelineInit == Init => Pipeline
  BY DEF Init, Booted, Pipeline

----------------------------------------------------------------------------
(* The segments of a session hold what was handed on, one after the other. *)

LEMMA Part ==
  ASSUME NEW S, NEW s \in Seq(S), NEW a \in Nat, NEW z \in Nat, a <= z, z <= Len(s)
  PROVE  /\ SubSeq(s, a + 1, z) \in Seq(S) /\ Len(SubSeq(s, a + 1, z)) = z - a
         /\ \A i \in 1..(z - a) : SubSeq(s, a + 1, z)[i] = s[a + i]
<1>1. PICK m : m = a + 1
  OBVIOUS
<1>2. m \in Int /\ z \in Int /\ \A i \in m..z : s[i] \in S
  BY <1>1
<1>3. /\ SubSeq(s, m, z) \in Seq(S)
      /\ Len(SubSeq(s, m, z)) = IF m <= z THEN z - m + 1 ELSE 0
      /\ \A i \in 1..(z - m + 1) : SubSeq(s, m, z)[i] = s[m + i - 1]
  BY <1>2, SubSeqProperties
<1>4. z - m + 1 = z - a /\ (IF m <= z THEN z - m + 1 ELSE 0) = z - a /\ \A i \in 1..(z - a) : m + i - 1 = a + i
  BY <1>1
<1>5. PICK x : x = SubSeq(s, m, z)
  OBVIOUS
<1>6. x \in Seq(S) /\ Len(x) = z - a /\ \A i \in 1..(z - a) : x[i] = s[m + i - 1]
  BY <1>3, <1>4, <1>5, Zenon
<1>7. \A i \in 1..(z - a) : x[i] = s[a + i]
  BY <1>4, <1>6, Zenon
<1>8. x = SubSeq(s, a + 1, z)
  BY <1>1, <1>5
<1> QED BY <1>6, <1>7, <1>8, Zenon

(* Parts and concatenations of rows, by their elements. *)
PartOf(x, s, a, z) == x \in Seq(Nat) /\ Len(x) = z - a /\ \A i \in 1..(z - a) : x[i] = s[a + i]
Joined(c, u, v) ==
    /\ c \in Seq(Nat) /\ Len(c) = Len(u) + Len(v) /\ Len(u) \in Nat /\ Len(v) \in Nat
    /\ \A i \in 1..Len(u) : c[i] = u[i]
    /\ \A i \in 1..Len(v) : c[Len(u) + i] = v[i]
IsPart(x, s, a, z) == x = SubSeq(s, a + 1, z)
IsFront(x, s, z) == x = SubSeq(s, 1, z)
IsCat(c, u, v) == c = u \o v

LEMMA PartIs ==
  ASSUME NEW s \in Seq(Nat), NEW a \in Nat, NEW z \in Nat, a <= z, z <= Len(s), NEW x, IsPart(x, s, a, z)
  PROVE  PartOf(x, s, a, z)
<1>1. /\ SubSeq(s, a + 1, z) \in Seq(Nat) /\ Len(SubSeq(s, a + 1, z)) = z - a
      /\ \A i \in 1..(z - a) : SubSeq(s, a + 1, z)[i] = s[a + i]
  BY Part
<1> QED BY <1>1 DEF PartOf, IsPart

LEMMA FrontIs ==
  ASSUME NEW s \in Seq(Nat), NEW z \in Nat, z <= Len(s), NEW x, IsFront(x, s, z)
  PROVE  PartOf(x, s, 0, z)
<1>1. PICK y : y = SubSeq(s, 1, z)
  OBVIOUS
<1>2. y \in Seq(Nat) /\ Len(y) = z /\ \A i \in 1..z : y[i] = s[i]
  BY <1>1
<1>3. z - 0 = z /\ \A i \in 1..z : 0 + i = i
  OBVIOUS
<1>4. x = y
  BY <1>1 DEF IsFront
<1> QED BY <1>2, <1>3, <1>4 DEF PartOf

LEMMA CatIs ==
  ASSUME NEW u \in Seq(Nat), NEW v \in Seq(Nat), NEW c, IsCat(c, u, v)
  PROVE  Joined(c, u, v)
<1>1. Len(u) \in Nat /\ Len(v) \in Nat
  OBVIOUS
<1>2. /\ u \o v \in Seq(Nat) /\ Len(u \o v) = Len(u) + Len(v)
      /\ \A i \in 1..(Len(u) + Len(v)) : (u \o v)[i] = IF i <= Len(u) THEN u[i] ELSE v[i - Len(u)]
  BY ConcatProperties
<1>3. \A i \in 1..Len(u) : i \in 1..(Len(u) + Len(v)) /\ i <= Len(u)
  BY <1>1
<1>4. \A i \in 1..Len(v) : /\ Len(u) + i \in 1..(Len(u) + Len(v)) /\ ~(Len(u) + i <= Len(u))
                           /\ (Len(u) + i) - Len(u) = i
  BY <1>1
<1> QED BY <1>1, <1>2, <1>3, <1>4 DEF Joined, IsCat

LEMMA SubSeqGrows ==
  ASSUME NEW w \in Seq(Nat), NEW r \in Seq(Nat), NEW o \in Nat, NEW b \in 0..o, NEW j \in 0..Len(r),
         o + Len(r) <= Len(w), \A i \in 1..Len(r) : w[o + i] = r[i]
  PROVE  SubSeq(w, b + 1, o + j) = SubSeq(w, b + 1, o) \o SubSeq(r, 1, j)
<1>1. /\ Len(w) \in Nat /\ Len(r) \in Nat /\ b \in Nat /\ j \in Nat /\ b <= o /\ o <= Len(w) /\ j <= Len(r)
  OBVIOUS
<1>2. PICK z : z = o + j
  OBVIOUS
<1>3. z \in Nat /\ b <= z /\ z <= Len(w)
  BY <1>1, <1>2
<1>4. PICK u : IsPart(u, w, b, z)
  BY DEF IsPart
<1>5. PICK v : IsPart(v, w, b, o)
  BY DEF IsPart
<1>6. PICK x : IsFront(x, r, j)
  BY DEF IsFront
<1>7. PICK c : IsCat(c, v, x)
  BY DEF IsCat
<1>8. PartOf(u, w, b, z) /\ PartOf(v, w, b, o) /\ PartOf(x, r, 0, j)
  BY <1>1, <1>3, <1>4, <1>5, <1>6, PartIs, FrontIs
<1>9. v \in Seq(Nat) /\ x \in Seq(Nat)
  BY <1>8 DEF PartOf
<1>10. Joined(c, v, x)
  BY <1>7, <1>9, CatIs
<1>11. u \in Seq(Nat) /\ Len(u) = z - b /\ \A i \in 1..(z - b) : u[i] = w[b + i]
  BY <1>8 DEF PartOf
<1>12. Len(v) = o - b /\ \A i \in 1..(o - b) : v[i] = w[b + i]
  BY <1>8 DEF PartOf
<1>13. Len(x) = j /\ \A i \in 1..j : x[i] = r[i]
  <2>1. j - 0 = j /\ \A i \in 1..j : 0 + i = i
    BY <1>1
  <2> QED BY <1>8, <2>1 DEF PartOf
<1>14. /\ c \in Seq(Nat) /\ Len(c) = (o - b) + j
       /\ \A i \in 1..(o - b) : c[i] = v[i]
       /\ \A i \in 1..j : c[(o - b) + i] = x[i]
  BY <1>10, <1>12, <1>13 DEF Joined
<1>15. \A i \in 1..Len(u) : u[i] = c[i]
  <2>1. SUFFICES ASSUME NEW i \in 1..Len(u) PROVE u[i] = c[i]
    OBVIOUS
  <2>2. i \in 1..(z - b) /\ u[i] = w[b + i]
    BY <1>11, <2>1
  <2>3. CASE i \in 1..(o - b)
    BY <1>12, <1>14, <2>2, <2>3
  <2>4. CASE i > o - b
    <3>1. PICK m : m = i - (o - b)
      OBVIOUS
    <3>2. m \in 1..j /\ (o - b) + m = i /\ o + m = b + i /\ m \in 1..Len(r)
      BY <1>1, <1>2, <2>2, <2>4, <3>1
    <3>3. c[i] = x[m] /\ x[m] = r[m] /\ w[o + m] = r[m]
      BY <1>13, <1>14, <3>2
    <3> QED BY <2>2, <3>2, <3>3
  <2>5. i \in 1..(o - b) \/ i > o - b
    BY <1>1, <1>3, <2>2
  <2> QED BY <2>3, <2>4, <2>5
<1>16. Len(u) = Len(c)
  BY <1>1, <1>2, <1>11, <1>14
<1>17. u = c
  BY <1>11, <1>14, <1>15, <1>16, SeqEqual
<1>18. /\ u = SubSeq(w, b + 1, o + j) /\ v = SubSeq(w, b + 1, o) /\ x = SubSeq(r, 1, j)
       /\ c = v \o x
  BY <1>2, <1>4, <1>5, <1>6, <1>7 DEF IsPart, IsFront, IsCat
<1> QED BY <1>17, <1>18, Zenon

LEMMA RowsAppended ==
  ASSUME NEW ps \in Seq(Packets), NEW k \in Nat, k + 1 <= Len(ps), NEW j \in 0..Len(Rows(ps[k + 1])),
         NEW o, o = RecordCount(SubSeq(ps, 1, k)), NEW b \in Nat, b <= o
  PROVE  /\ o + j <= Len(AllRows(ps))
         /\ SubSeq(AllRows(ps), b + 1, o + j)
              = SubSeq(AllRows(ps), b + 1, o) \o SubSeq(Rows(ps[k + 1]), 1, j)
<1>1. PICK w : w = AllRows(ps)
  OBVIOUS
<1>2. PICK r : r = Rows(ps[k + 1])
  OBVIOUS
<1>3. PICK a : a = AllRows(SubSeq(ps, 1, k))
  OBVIOUS
<1>4. ps[k + 1] \in Packets /\ k \in 0..Len(ps) /\ k + 1 \in 0..Len(ps)
  OBVIOUS
<1>5. r \in Seq(Nat) /\ Len(r) = ps[k + 1].n /\ Len(r) \in Nat
  BY <1>2, <1>4, RowsType
<1>6. SubSeq(ps, 1, k) \in Seq(Packets)
  BY <1>4, RowsOfPrefix
<1>7. a \in Seq(Nat) /\ Len(a) = o /\ o \in Nat
  BY <1>3, <1>6, AllRowsType DEF RecordCount
<1>8. w \in Seq(Nat) /\ Len(w) = RecordCount(ps) /\ Len(w) \in Nat
  BY <1>1, AllRowsType DEF RecordCount
<1>9. PICK z : z = o + Len(r)
  OBVIOUS
<1>10. PICK c : IsCat(c, a, r)
  BY DEF IsCat
<1>11. AllRows(SubSeq(ps, 1, k + 1)) = a \o r /\ RecordCount(SubSeq(ps, 1, k + 1)) = z
  BY <1>2, <1>3, <1>5, <1>9, PrefixGrows
<1>12. z \in Nat /\ z <= Len(w) /\ IsFront(c, w, z)
  <2>1. /\ RecordCount(SubSeq(ps, 1, k + 1)) <= RecordCount(ps)
        /\ AllRows(SubSeq(ps, 1, k + 1)) = SubSeq(AllRows(ps), 1, RecordCount(SubSeq(ps, 1, k + 1)))
    BY <1>4, RowsOfPrefix
  <2>2. z \in Nat
    BY <1>5, <1>7, <1>9
  <2>3. z <= Len(w)
    BY <1>8, <1>11, <2>1
  <2>4. c = SubSeq(w, 1, z)
    BY <1>1, <1>10, <1>11, <2>1, Zenon DEF IsCat
  <2> QED BY <2>2, <2>3, <2>4 DEF IsFront
<1>13. PartOf(c, w, 0, z) /\ Joined(c, a, r)
  BY <1>5, <1>7, <1>8, <1>10, <1>12, FrontIs, CatIs
<1>14. \A i \in 1..Len(r) : w[o + i] = r[i]
  <2>1. SUFFICES ASSUME NEW i \in 1..Len(r) PROVE w[o + i] = r[i]
    OBVIOUS
  <2>2. c[o + i] = r[i]
    BY <1>7, <1>13 DEF Joined
  <2>3. o + i \in 1..(z - 0) /\ 0 + (o + i) = o + i
    <3>1. PICK l : l = Len(r)
      OBVIOUS
    <3>2. l \in Nat /\ o \in Nat /\ z = o + l /\ i \in 1..l
      BY <1>5, <1>7, <1>9, <3>1, Zenon
    <3> QED BY <3>2
  <2>4. c[o + i] = w[o + i]
    BY <1>13, <2>3 DEF PartOf
  <2> QED BY <2>2, <2>4
<1>15. o + j <= Len(w) /\ b \in 0..o /\ j \in 0..Len(r) /\ o + Len(r) <= Len(w)
  BY <1>2, <1>5, <1>7, <1>8, <1>9, <1>12
<1>16. SubSeq(w, b + 1, o + j) = SubSeq(w, b + 1, o) \o SubSeq(r, 1, j)
  BY <1>5, <1>7, <1>8, <1>14, <1>15, SubSeqGrows, ZenonT(30)
<1> QED BY <1>1, <1>2, <1>15, <1>16

(* A longer prefix holds more. *)
LEMMA CountsGrow ==
  ASSUME NEW ps \in Seq(Packets), NEW j \in Nat, NEW k \in Nat, j <= k, k <= Len(ps)
  PROVE  RecordCount(SubSeq(ps, 1, j)) <= RecordCount(SubSeq(ps, 1, k))
<1>1. PICK qs : qs = SubSeq(ps, 1, k)
  OBVIOUS
<1>2. qs \in Seq(Packets) /\ Len(qs) = k /\ k \in 0..Len(ps) /\ j \in 0..Len(qs)
  BY <1>1
<1>3. SubSeq(qs, 1, j) = SubSeq(ps, 1, j)
  <2>1. \A i \in 1..k : qs[i] = ps[i]
    BY <1>1, <1>2
  <2> QED BY <1>2, <2>1
<1>4. RecordCount(SubSeq(qs, 1, j)) <= RecordCount(qs)
  BY <1>2, RowsOfPrefix
<1> QED BY <1>1, <1>3, <1>4

LEMMA NameFacts ==
  ASSUME Types, NEW f \in DOMAIN files
  PROVE  /\ files[f] \in File /\ f = <<f[1], f[2]>> /\ f[1] \in Stamps /\ f[2] \in 0..MaxSegment /\ f[2] \in Nat
         /\ files[f].session \in Sessions /\ files[f].base \in Nat /\ files[f].rows \in Seq(Nat)
         /\ Len(files[f].rows) \in Nat /\ EndOf(f) \in Nat
         /\ delivered[files[f].session] \in Seq(Packets) /\ due[files[f].session] \in Nat
         /\ Handed(files[f].session) \in Seq(Nat) /\ started \in Nat
<1>1. files[f] \in File /\ f \in Names
  BY DEF Types, StorageTypes
<1>2. f = <<f[1], f[2]>> /\ f[1] \in Stamps /\ f[2] \in 0..MaxSegment /\ f[2] \in Nat
  BY <1>1, RecorderAssumption DEF Names
<1>3. /\ files[f].session \in Sessions /\ files[f].base \in Nat /\ files[f].rows \in Seq(Nat)
      /\ Len(files[f].rows) \in Nat
  BY <1>1, FileFields
<1>4. delivered[files[f].session] \in Seq(Packets) /\ due[files[f].session] \in Nat
  BY <1>3 DEF Types, BrokerTypes
<1>5. Handed(files[f].session) \in Seq(Nat)
  BY <1>4, AllRowsType DEF Handed
<1>6. EndOf(f) \in Nat
  BY <1>3 DEF EndOf
<1> QED BY <1>1, <1>2, <1>3, <1>4, <1>5, <1>6, QueueFacts

LEMMA PrevFacts ==
  ASSUME Types, Linked, NEW f \in DOMAIN files, f[2] # 0
  PROVE  Prev(f) \in DOMAIN files /\ Prev(f) # f /\ files[Prev(f)].final
<1>1. f[2] \in Nat /\ f = <<f[1], f[2]>>
  BY NameFacts
<1>2. f[2] - 1 \in 0..f[2] /\ f[2] - 1 # f[2]
  BY <1>1
<1>3. <<f[1], f[2] - 1>> \in DOMAIN files
  BY <1>2 DEF Linked, FileLinked
<1>4. Prev(f)[2] # f[2]
  BY <1>2 DEF Prev
<1> QED BY <1>3, <1>4 DEF Prev, Linked, FileLinked

(* The files are left alone. *)
LEMMA LinkedSame ==
  ASSUME Types, Linked, files' = files, started' \in Nat, started' >= started,
         \A f \in DOMAIN files :
            /\ delivered'[files[f].session] = delivered[files[f].session]
            /\ due'[files[f].session] = due[files[f].session] \/ ~files[f].complete
  PROVE  Linked'
<1>1. SUFFICES ASSUME NEW f \in DOMAIN files PROVE FileLinked(f)'
  BY DEF Linked
<1>2. FileLinked(f) /\ files[f].session \in Nat /\ started \in Nat
  BY NameFacts DEF Linked, Sessions
<1>3. Handed(files[f].session)' = Handed(files[f].session) /\ EndOf(f)' = EndOf(f) /\ EndOf(Prev(f))' = EndOf(Prev(f))
  BY DEF Handed, EndOf
<1>4. files[f].session <= started'
  BY <1>2 DEF FileLinked
<1> QED BY <1>2, <1>3, <1>4 DEF FileLinked

LEMMA LinkedDelivered ==
  ASSUME Types, Linked, Pipeline, files' = files, UNCHANGED <<started, due>>, started \in Sessions,
         NEW p \in Packets, delivered' = [delivered EXCEPT ![started] = Append(Sent, p)]
  PROVE  Linked'
<1>1. SUFFICES ASSUME NEW f \in DOMAIN files PROVE FileLinked(f)'
  BY DEF Linked
<1> DEFINE s == files[f].session
<1>2. FileLinked(f)
  BY DEF Linked
<1>3. /\ delivered'[started] = Append(Sent, p)
      /\ \A t \in Sessions : t # started => delivered'[t] = delivered[t]
  BY DeliveredAfter
<1>4. EndOf(f)' = EndOf(f) /\ EndOf(Prev(f))' = EndOf(Prev(f)) /\ s \in Sessions /\ EndOf(f) \in Nat
      /\ files[f].base \in Nat /\ delivered[s] \in Seq(Packets) /\ due[s] \in Nat /\ Len(files[f].rows) \in Nat
  BY NameFacts DEF EndOf
<1>5. CASE s # started
  <2>1. Handed(s)' = Handed(s) /\ delivered'[s] = delivered[s]
    BY <1>3, <1>4, <1>5 DEF Handed
  <2> QED BY <1>2, <1>4, <2>1 DEF FileLinked
<1>6. CASE s = started
  <2>1. PICK h : h = Handed(s)
    OBVIOUS
  <2>2. PICK r : r = Rows(p)
    OBVIOUS
  <2>3. PICK c : IsCat(c, h, r)
    BY DEF IsCat
  <2>4. h \in Seq(Nat) /\ r \in Seq(Nat)
    BY <1>4, <2>1, <2>2, AllRowsType, RowsType DEF Handed
  <2>5. delivered'[s] = Append(delivered[s], p) /\ Handed(s)' = c
    <3>1. delivered'[s] = Append(delivered[s], p)
      BY <1>3, <1>6 DEF Sent
    <3>2. AllRows(Append(delivered[s], p)) = AllRows(delivered[s]) \o Rows(p)
      BY <1>4, AllRowsAppend
    <3> QED BY <2>1, <2>2, <2>3, <3>1, <3>2 DEF Handed, IsCat
  <2>6. Joined(c, h, r)
    BY <2>3, <2>4, CatIs
  <2>7. EndOf(f) <= Len(h) /\ files[f].rows = SubSeq(h, files[f].base + 1, EndOf(f))
    BY <1>2, <2>1 DEF FileLinked
  <2>8. EndOf(f) <= Len(c) /\ Len(c) \in Nat /\ Len(h) \in Nat /\ Len(h) <= Len(c) /\ c \in Seq(Nat)
    BY <1>4, <2>6, <2>7 DEF Joined
  <2>9. SubSeq(c, files[f].base + 1, EndOf(f)) = SubSeq(h, files[f].base + 1, EndOf(f))
    <3>1. PICK a : a = files[f].base
      OBVIOUS
    <3>2. PICK z : z = EndOf(f)
      OBVIOUS
    <3>3. a \in Nat /\ z \in Nat /\ a <= z /\ z <= Len(h) /\ z <= Len(c)
      BY <1>4, <2>7, <2>8, <3>1, <3>2 DEF EndOf
    <3>4. PICK x : IsPart(x, h, a, z)
      BY DEF IsPart
    <3>5. PICK y : IsPart(y, c, a, z)
      BY DEF IsPart
    <3>6. PartOf(x, h, a, z) /\ PartOf(y, c, a, z)
      BY <2>4, <2>8, <3>3, <3>4, <3>5, PartIs
    <3>7. \A i \in 1..(z - a) : h[a + i] = c[a + i]
      <4>1. \A i \in 1..(z - a) : a + i \in 1..Len(h)
        BY <2>8, <3>3
      <4> QED BY <2>6, <4>1 DEF Joined
    <3>8. /\ x \in Seq(Nat) /\ y \in Seq(Nat) /\ Len(x) = z - a /\ Len(y) = z - a
          /\ \A i \in 1..(z - a) : x[i] = y[i]
      BY <3>6, <3>7 DEF PartOf
    <3>9. x = y
      <4>1. Len(x) = Len(y) /\ \A i \in 1..Len(x) : x[i] = y[i]
        BY <3>8
      <4> QED BY <3>8, <4>1, SeqEqual
    <3> QED BY <3>1, <3>2, <3>4, <3>5, <3>9 DEF IsPart
  <2>10. SubSeq(delivered'[s], 1, due[s]) = SubSeq(delivered[s], 1, due[s])
    <3>1. due[s] <= Len(delivered[s])
      BY <1>4 DEF Pipeline
    <3> QED BY <1>4, <2>5, <3>1, SMTT(30)
  <2> QED BY <1>2, <1>4, <2>5, <2>7, <2>8, <2>9, <2>10 DEF FileLinked
<1> QED BY <1>5, <1>6

(* The file of the open segment is written. *)
LEMMA LinkedWrite ==
  ASSUME Types, Linked, segment # NoSegment, NEW g \in File, Wrote(g),
         g.session = files[segment].session, g.index = files[segment].index, g.base = files[segment].base,
         UNCHANGED <<started, delivered, due>>,
         g.base + Len(g.rows) <= Len(Handed(g.session)),
         g.rows = SubSeq(Handed(g.session), g.base + 1, g.base + Len(g.rows)),
         g.complete => RecordCount(SubSeq(delivered[g.session], 1, due[g.session])) <= g.base + Len(g.rows)
  PROVE  Linked'
<1>1. segment \in DOMAIN files /\ ~files[segment].final
  BY InHandFacts DEF Types, WorkerOK
<1>2. /\ DOMAIN files' = DOMAIN files
      /\ files'[segment] = g /\ \A f \in DOMAIN files : f # segment => files'[f] = files[f]
  BY <1>1, FilesAfterWrite DEF Types
<1>3. \A f \in DOMAIN files : files'[f].session = files[f].session /\ files'[f].index = files[f].index
                              /\ files'[f].base = files[f].base
  BY <1>2
<1>4. SUFFICES ASSUME NEW f \in DOMAIN files PROVE FileLinked(f)'
  BY <1>2 DEF Linked
<1>5. FileLinked(f)
  BY DEF Linked
<1>6. f[2] # 0 => Prev(f) \in DOMAIN files /\ files'[Prev(f)] = files[Prev(f)]
  BY <1>1, <1>2, PrevFacts
<1>7. f[2] # 0 => EndOf(Prev(f))' = EndOf(Prev(f))
  BY <1>6 DEF EndOf
<1>8. \A s : Handed(s)' = Handed(s)
  BY DEF Handed
<1>9. /\ files'[f].index = f[2] /\ files'[f].session <= started'
      /\ \A j \in 0..f[2] : <<f[1], j>> \in DOMAIN files'
      /\ \A h \in DOMAIN files' : h[1] = f[1] <=> files'[h].session = files'[f].session
      /\ f[2] = 0 => files'[f].base = 0
      /\ f[2] # 0 => files'[Prev(f)].final /\ ~files'[Prev(f)].complete /\ files'[f].base = EndOf(Prev(f))'
  <2>1. files'[f].index = f[2] /\ files'[f].session <= started' /\ (f[2] = 0 => files'[f].base = 0)
    BY <1>3, <1>5 DEF FileLinked
  <2>2. \A j \in 0..f[2] : <<f[1], j>> \in DOMAIN files'
    BY <1>2, <1>5 DEF FileLinked
  <2>3. \A h \in DOMAIN files' : h[1] = f[1] <=> files'[h].session = files'[f].session
    BY <1>2, <1>3, <1>5 DEF FileLinked
  <2>4. f[2] # 0 => files'[Prev(f)].final /\ ~files'[Prev(f)].complete /\ files'[f].base = EndOf(Prev(f))'
    BY <1>3, <1>5, <1>6, <1>7 DEF FileLinked
  <2> QED BY <2>1, <2>2, <2>3, <2>4
<1>10. CASE f = segment
  <2>1. EndOf(f)' = g.base + Len(g.rows) /\ files'[f] = g
    BY <1>2, <1>10 DEF EndOf
  <2> QED BY <1>8, <1>9, <2>1 DEF FileLinked
<1>11. CASE f # segment
  <2>1. files'[f] = files[f] /\ EndOf(f)' = EndOf(f)
    BY <1>2, <1>11 DEF EndOf
  <2> QED BY <1>5, <1>8, <1>9, <2>1 DEF FileLinked
<1> QED BY <1>10, <1>11

(* A new segment is created behind the last one of its session. *)
LEMMA LinkedCreate ==
  ASSUME Types, Linked, session # 0, session <= started, Name \notin DOMAIN files, files' = Created,
         UNCHANGED <<started, delivered, due>>, session_record_offset <= Len(Handed(session)),
         \/ /\ segment_index = 0 /\ session_record_offset = 0
            /\ \A f \in DOMAIN files : files[f].session # session
         \/ /\ segment_index # 0 /\ <<stamp, segment_index - 1>> \in DOMAIN files
            /\ files[<<stamp, segment_index - 1>>].session = session
            /\ files[<<stamp, segment_index - 1>>].final /\ ~files[<<stamp, segment_index - 1>>].complete
            /\ EndOf(<<stamp, segment_index - 1>>) = session_record_offset
  PROVE  Linked'
<1>0. PICK m : m = Name
  OBVIOUS
<1>9. PICK s : s = session
  OBVIOUS
<1>1. /\ DOMAIN files' = DOMAIN files \cup {m} /\ files'[m] = NewFile
      /\ \A f \in DOMAIN files : files'[f] = files[f]
  BY <1>0, FilesAfterCreate DEF Types
<1>2. \A u : Handed(u)' = Handed(u)
  BY DEF Handed
<1>3. /\ NewFile.session = session /\ NewFile.index = segment_index /\ NewFile.base = session_record_offset
      /\ NewFile.rows = <<>> /\ ~NewFile.complete
  BY DEF NewFile
<1>4. m[1] = stamp /\ m[2] = segment_index /\ segment_index \in Nat /\ session_record_offset \in Nat
  BY <1>0, RecorderAssumption DEF Name, Types, StorageTypes
<1>5. \A f \in DOMAIN files : f[1] = stamp <=> files[f].session = session
  <2>1. CASE segment_index = 0 /\ \A f \in DOMAIN files : files[f].session # session
    <3>1. SUFFICES ASSUME NEW f \in DOMAIN files, f[1] = stamp PROVE FALSE
      BY <2>1
    <3>2. 0 \in 0..f[2] /\ FileLinked(f)
      BY NameFacts DEF Linked
    <3>3. <<f[1], 0>> \in DOMAIN files
      BY <3>2 DEF FileLinked
    <3> QED BY <1>0, <2>1, <3>1, <3>3 DEF Name
  <2>2. CASE /\ segment_index # 0 /\ <<stamp, segment_index - 1>> \in DOMAIN files
             /\ files[<<stamp, segment_index - 1>>].session = session
    <3>1. FileLinked(<<stamp, segment_index - 1>>)
      BY <2>2 DEF Linked
    <3> QED BY <2>2, <3>1 DEF FileLinked
  <2> QED BY <2>1, <2>2
<1>6. \A h \in DOMAIN files' : h[1] = stamp <=> files'[h].session = session
  BY <1>1, <1>3, <1>4, <1>5
<1>7. FileLinked(m)'
  <2>1. EndOf(m)' = session_record_offset
    BY <1>1, <1>3, <1>4 DEF EndOf
  <2>2. files'[m].index = m[2] /\ files'[m].session <= started'
    BY <1>1, <1>3, <1>4
  <2>3. \A j \in 0..m[2] : <<m[1], j>> \in DOMAIN files'
    <3>1. SUFFICES ASSUME NEW j \in 0..segment_index PROVE <<stamp, j>> \in DOMAIN files'
      BY <1>4
    <3>2. CASE j = segment_index
      BY <1>0, <1>1, <3>2 DEF Name
    <3>3. CASE j # segment_index
      <4>1. segment_index # 0 /\ j \in 0..(segment_index - 1)
        BY <1>4, <3>3
      <4>2. FileLinked(<<stamp, segment_index - 1>>)
        BY <4>1 DEF Linked
      <4>3. <<stamp, j>> \in DOMAIN files
        BY <4>1, <4>2 DEF FileLinked
      <4> QED BY <1>1, <4>3
    <3> QED BY <3>2, <3>3
  <2>4. \A h \in DOMAIN files' : h[1] = m[1] <=> files'[h].session = files'[m].session
    BY <1>1, <1>3, <1>4, <1>6
  <2>5. m[2] = 0 => files'[m].base = 0
    BY <1>1, <1>3, <1>4
  <2>6. m[2] # 0 => files'[Prev(m)].final /\ ~files'[Prev(m)].complete
                       /\ files'[m].base = EndOf(Prev(m))'
    <3>1. SUFFICES ASSUME segment_index # 0
          PROVE  files'[Prev(m)].final /\ ~files'[Prev(m)].complete
                 /\ files'[m].base = EndOf(Prev(m))'
      BY <1>4
    <3>2. Prev(m) = <<stamp, segment_index - 1>> /\ Prev(m) \in DOMAIN files
      BY <1>4, <3>1 DEF Prev
    <3>3. files'[Prev(m)] = files[Prev(m)]
      BY <1>1, <3>2
    <3>4. EndOf(Prev(m))' = EndOf(Prev(m))
      BY <3>3 DEF EndOf, Prev
    <3> QED BY <1>1, <1>3, <3>1, <3>2, <3>3, <3>4
  <2>7. EndOf(m)' <= Len(Handed(s)')
    BY <1>2, <1>9, <2>1
  <2>8. files'[m].rows = SubSeq(Handed(s), session_record_offset + 1, session_record_offset)
    <3>1. session_record_offset + 1 \in Int /\ session_record_offset \in Int
          /\ session_record_offset < session_record_offset + 1
      BY <1>4
    <3>2. SubSeq(Handed(s), session_record_offset + 1, session_record_offset) = <<>>
      BY <3>1, SubSeqEmpty
    <3> QED BY <1>1, <1>3, <3>2
  <2>9. files'[m].session = s /\ files'[m].base = session_record_offset /\ ~files'[m].complete
    BY <1>1, <1>3, <1>9
  <2>10. Handed(s)' = Handed(s)
    BY <1>2
  <2> QED BY <2>1, <2>2, <2>3, <2>4, <2>5, <2>6, <2>7, <2>8, <2>9, <2>10 DEF FileLinked
<1>8. ASSUME NEW f \in DOMAIN files PROVE FileLinked(f)'
  <2>1. FileLinked(f) /\ files'[f] = files[f]
    BY <1>1 DEF Linked
  <2>2. f[2] # 0 => Prev(f) \in DOMAIN files /\ files'[Prev(f)] = files[Prev(f)]
    BY <1>1, PrevFacts
  <2>3. EndOf(f)' = EndOf(f) /\ (f[2] # 0 => EndOf(Prev(f))' = EndOf(Prev(f)))
    BY <2>1, <2>2 DEF EndOf
  <2>4. \A j \in 0..f[2] : <<f[1], j>> \in DOMAIN files'
    BY <1>1, <2>1 DEF FileLinked
  <2>5. \A h \in DOMAIN files' : h[1] = f[1] <=> files'[h].session = files'[f].session
    <3>1. SUFFICES ASSUME NEW h \in DOMAIN files' PROVE h[1] = f[1] <=> files'[h].session = files[f].session
      BY <2>1
    <3>2. CASE h \in DOMAIN files
      BY <1>1, <2>1, <3>2 DEF FileLinked
    <3>3. CASE h = m
      BY <1>1, <1>3, <1>4, <1>5, <3>3
    <3> QED BY <1>1, <3>2, <3>3
  <2> QED BY <1>2, <2>1, <2>2, <2>3, <2>4, <2>5 DEF FileLinked
<1> QED BY <1>1, <1>7, <1>8 DEF Linked

(* No step of the storage thread makes a start due. *)
LEMMA DueFailed ==
  ASSUME Types, NEW x, Fail(x), Quiet
  PROVE  /\ Asks("start")' => Asks("start")
         /\ StartDue' => StartDue /\ call["ops"].st = "sending"
<1>1. queue' = <<>> /\ ~InHand'
  BY FailStep DEF InHand
<1>2. call'["ops"] = IF call["ops"].st = "waiting"
                     THEN [st |-> "failed", command |-> call["ops"].command] ELSE call["ops"]
  BY CallsDropped DEF Fail, Types, BrokerTypes, Callers
<1>3. Asks("start")' => Asks("start")
  BY <1>2 DEF Asks
<1>4. StartDue' => Asks("start")' /\ call'["ops"].st \in {"sending", "waiting"}
  BY <1>1 DEF StartDue
<1>5. call'["ops"].st \in {"sending", "waiting"} => call["ops"].st = "sending"
  BY <1>2
<1> QED BY <1>3, <1>4, <1>5 DEF StartDue

LEMMA DueSucceeded ==
  ASSUME Types, wpc # "dead", NEW x \in Commands, NEW rest, Succeed(x, rest), Quiet,
         \A i \in 1..Len(rest) : \E j \in 1..Len(queue) : rest[i] = queue[j]
  PROVE  /\ Asks("start")' => Asks("start")
         /\ StartDue' => StartDue
         /\ x.type = "start" /\ OpsWait(x) /\ OpsCalls /\ (\A i \in 1..Len(rest) : ~ByOps(rest[i]))
               /\ rest = queue => ~StartDue'
<1>1. ~InHand' /\ (queue' = <<>> \/ queue' = rest) /\ (x.type # "shutdown" => queue' = rest)
  BY SucceedStep DEF InHand
<1>2. /\ \/ call'["ops"] = call["ops"]
         \/ /\ call["ops"].st = "waiting"
            /\ call'["ops"].st \in {"ok", "failed"} /\ call'["ops"].command = call["ops"].command
      /\ x.type = "start" /\ call["ops"].st = "waiting" => call'["ops"].st = "ok"
  <2>1. CASE x.type = "shutdown"
    BY <2>1, CallsDropped, CallAfterSuccess DEF Types, BrokerTypes, Callers
  <2>2. CASE x.type = "packet"
    BY <2>2, CallAfterSuccess DEF Types, BrokerTypes
  <2>3. CASE x.type \in {"start", "stop"}
    <3>1. x.by \in Callers /\ call' = Answered(x.by, "ok") /\ (x.type = "start" => x.by = "ops")
      BY <2>3, CallAfterSuccess, CommandFacts DEF Types, BrokerTypes
    <3> QED BY <3>1, CallAnswered DEF Types, BrokerTypes, Callers
  <2> QED BY <2>1, <2>2, <2>3, CommandFacts
<1>3. Asks("start")' => Asks("start")
  BY <1>2 DEF Asks
<1>4. \A i \in 1..Len(queue') : \E j \in 1..Len(queue) : queue'[i] = queue[j]
  <2>1. CASE queue' = <<>>
    BY <2>1
  <2>2. CASE queue' = rest
    BY <2>2
  <2> QED BY <1>1, <2>1, <2>2
<1>5. (\E i \in 1..Len(queue') : queue'[i].type = "start") => \E j \in 1..Len(queue) : queue[j].type = "start"
  BY <1>4
<1>6. StartDue' => StartDue
  BY <1>1, <1>2, <1>3, <1>5 DEF StartDue
<1>7. ASSUME x.type = "start", OpsWait(x), OpsCalls, \A i \in 1..Len(rest) : ~ByOps(rest[i]), rest = queue
      PROVE  ~StartDue'
  <2>1. queue' = queue
    BY <1>1, <1>7
  <2>2. \A i \in 1..Len(queue) : queue[i] \in Commands
    BY QueueFacts
  <2>3. \A i \in 1..Len(queue') : queue'[i].type # "start"
    BY <1>7, <2>1, <2>2, Kinds
  <2>4. call'["ops"].st \notin {"sending", "waiting"}
    BY <1>2, <1>7, QueueFacts DEF OpsWait, OpsCalls
  <2> QED BY <1>1, <2>3, <2>4 DEF StartDue
<1> QED BY <1>3, <1>6, <1>7

LEMMA DueWorking ==
  ASSUME Working, InHand, cmd' = cmd
  PROVE  (Asks("start")' => Asks("start")) /\ (StartDue' => StartDue)
  BY DEF Working, Asks, StartDue

(* Sessions keep their files, and no file becomes complete while its       *)
(* session runs.                                                           *)
LEMMA LinksRest ==
  ASSUME Links, Quiet,
         Asks("start")' => Asks("start"), StartDue' => StartDue,
         \A f \in DOMAIN files' : f \in DOMAIN files /\ files'[f].session = files[f].session,
         main = "serving" /\ (running \/ Asks("start")) =>
            \A f \in DOMAIN files' : files'[f].complete => files[f].complete
  PROVE  Unwritten' /\ Unfinished'
<1>1. UNCHANGED <<main, running, started>>
  BY DEF Quiet, brokerState, ghosts
<1>2. Unwritten'
  BY <1>1 DEF Links, Unwritten
<1>3. Unfinished'
  BY <1>1 DEF Links, Unfinished
<1> QED BY <1>2, <1>3

LEMMA LinksReceive ==
  ASSUME Types, Control, Links, Receive
  PROVE  Links'
<1> DEFINE next == Head(queue)
           Begun(pc) == /\ wpc' = pc /\ cmd' = next /\ queue' = Tail(queue)
                        /\ UNCHANGED <<alive, error, call>>
<1>1. wpc = "recv" /\ queue # <<>> /\ Quiet /\ files' = files /\ UNCHANGED <<started, delivered, due>>
  BY DEF Receive, Quiet, ghosts
<1>2. /\ next \in Commands /\ Len(Tail(queue)) = Len(queue) - 1 /\ Len(queue) \in Nat \ {0}
      /\ \A i \in 1..(Len(queue) - 1) : Tail(queue)[i] = queue[i + 1]
      /\ next = queue[1]
  BY <1>1, QueueTail
<1>3. \A i \in 1..Len(Tail(queue)) : i + 1 \in 1..Len(queue) /\ Tail(queue)[i] = queue[i + 1]
  BY <1>2
<1>4. Linked'
  <2>1. started \in Nat /\ started' = started
    BY <1>1, QueueFacts
  <2> QED BY <1>1, <2>1, LinkedSame DEF Links
<1>5. /\ Asks("start")' => Asks("start")
      /\ StartDue' => StartDue
      /\ wpc' = "open" => cmd'.type = "start"
      /\ wpc' # "rename"
  <2>1. ASSUME NEW pc \in {"open", "rows", "finalise"}, Begun(pc), pc = "open" => next.type = "start"
        PROVE  /\ (Asks("start")' => Asks("start")) /\ (StartDue' => StartDue)
               /\ (wpc' = "open" => cmd'.type = "start") /\ wpc' # "rename"
    <3>1. Asks("start")' => Asks("start")
      BY <2>1 DEF Asks
    <3>2. (InHand /\ cmd.type = "start")' => \E i \in 1..Len(queue) : queue[i].type = "start"
      BY <1>2, <2>1
    <3>3. (\E i \in 1..Len(queue') : queue'[i].type = "start") => \E i \in 1..Len(queue) : queue[i].type = "start"
      BY <1>3, <2>1
    <3>4. StartDue' => StartDue
      BY <2>1, <3>1, <3>2, <3>3 DEF StartDue
    <3> QED BY <2>1, <3>1, <3>4
  <2>2. ASSUME Succeed(next, Tail(queue))
        PROVE  /\ (Asks("start")' => Asks("start")) /\ (StartDue' => StartDue) /\ wpc' \in {"recv", "dead"}
    <3>1. \A i \in 1..Len(Tail(queue)) : \E j \in 1..Len(queue) : Tail(queue)[i] = queue[j]
      BY <1>3
    <3> QED BY <1>1, <1>2, <2>2, <3>1, DueSucceeded, SucceedStep
  <2>3. ASSUME Fail(next)
        PROVE  /\ (Asks("start")' => Asks("start")) /\ (StartDue' => StartDue) /\ wpc' = "dead"
    BY <1>1, <2>3, DueFailed, FailStep
  <2> QED BY <2>1, <2>2, <2>3 DEF Receive
<1>6. Unwritten' /\ Unfinished'
  BY <1>1, <1>5, LinksRest
<1>7. Rotating'
  BY <1>5 DEF Rotating
<1> QED BY <1>4, <1>6, <1>7 DEF Links

LEMMA OffsetHanded ==
  ASSUME Types, Pipeline, session # 0
  PROVE  session_record_offset <= Len(Handed(session))
<1>1. PICK k \in 0..Len(delivered[session]) : Reached(k)
  BY DEF Pipeline
<1>2. delivered[session] \in Seq(Packets)
  BY SessionFacts
<1>3. session_record_offset = RecordCount(SubSeq(delivered[session], 1, k))
  BY <1>1 DEF Reached
<1>4. RecordCount(SubSeq(delivered[session], 1, k)) <= RecordCount(delivered[session])
  BY <1>2, RowsOfPrefix
<1> QED BY <1>3, <1>4 DEF Handed, RecordCount

LEMMA LinksOpen ==
  ASSUME Types, Control, Pipeline, Links, OpenSegment
  PROVE  Links'
<1>1. wpc = "open" /\ Quiet /\ InHand /\ cmd \in Commands /\ UNCHANGED <<started, delivered, due, main, running>>
  BY OpenStep, InHandFacts DEF InHand, Quiet, ghosts, brokerState
<1>2. session # 0 /\ session = started
  BY <1>1 DEF Types, WorkerOK, Control, Owned
<1>3. started \in Nat /\ started' = started
  BY <1>1, QueueFacts
<1>4. /\ Asks("start")' => Asks("start")
      /\ StartDue' => StartDue
      /\ wpc' \in {"recv", "dead"} /\ ~StartDue'
  <2>1. cmd.type = "start" => /\ OpsWait(cmd) /\ call["ops"].st # "sending"
                              /\ \A i \in 1..Len(queue) : ~ByOps(queue[i])
    BY <1>1, Kinds DEF Control, HandOps, OpsWait, OpsCalls
  <2>2. cmd.type # "start" => ~StartDue
    <3>1. SUFFICES ASSUME cmd.type # "start" PROVE ~StartDue
      OBVIOUS
    <3>2. <<stamp, segment_index - 1>> \in DOMAIN files /\ files[<<stamp, segment_index - 1>>].session = session
      BY <1>1, <3>1, CommandFacts DEF Types, WorkerOK, Links, Rotating
    <3> QED BY <1>2, <3>2 DEF Links, Unwritten
  <2>3. CASE Fail(cmd)
    BY <1>1, <2>1, <2>2, <2>3, DueFailed, FailStep
  <2>4. CASE Succeed(cmd, queue)
    <3>1. wpc' \in {"recv", "dead"} /\ (Asks("start")' => Asks("start")) /\ (StartDue' => StartDue)
      BY <1>1, <2>4, DueSucceeded, SucceedStep
    <3>2. cmd.type = "start" => ~StartDue'
      BY <1>1, <2>1, <2>4, DueSucceeded DEF Control
    <3> QED BY <2>2, <3>1, <3>2
  <2> QED BY <2>3, <2>4, OpenStep
<1>5. CASE files' = files
  <2>1. Linked'
    BY <1>1, <1>3, <1>5, LinkedSame DEF Links
  <2>2. Unwritten' /\ Unfinished'
    BY <1>1, <1>4, <1>5, LinksRest
  <2> QED BY <1>4, <2>1, <2>2 DEF Links, Rotating
<1>6. CASE Name \notin DOMAIN files /\ files' = Created
  <2>1. Linked'
    <3>1. CASE cmd.type = "start"
      <4>1. segment_index = 0 /\ session_record_offset = 0
        BY <1>1, <3>1, CommandFacts DEF Types, WorkerOK
      <4>2. \A f \in DOMAIN files : files[f].session # session
        BY <1>1, <1>2, <3>1 DEF Links, Unwritten, StartDue
      <4> QED BY <1>1, <1>2, <1>3, <1>6, <4>1, <4>2, LinkedCreate, OffsetHanded DEF Links
    <3>2. CASE cmd.type # "start"
      <4>1. cmd.type = "packet" /\ segment_index # 0
        BY <1>1, <3>2, CommandFacts DEF Types, WorkerOK
      <4> QED BY <1>1, <1>2, <1>3, <1>6, <4>1, LinkedCreate, OffsetHanded DEF Links, Rotating
    <3> QED BY <3>1, <3>2
  <2>2. /\ DOMAIN files' = DOMAIN files \cup {Name} /\ ~files'[Name].complete
        /\ \A f \in DOMAIN files : files'[f] = files[f]
    BY <1>2, <1>6, FilesAfterCreate DEF Types, NewFile
  <2>3. Unwritten'
    BY <1>4 DEF Unwritten
  <2>4. Unfinished'
    BY <1>1, <1>4, <2>2 DEF Links, Unfinished
  <2> QED BY <1>4, <2>1, <2>3, <2>4 DEF Links, Rotating
<1> QED BY <1>5, <1>6, OpenStep

(* The file of the open segment is written to. *)
LEMMA LinksWritten ==
  ASSUME Types, Links, Quiet, segment # NoSegment, NEW g \in File, Wrote(g),
         g.session = files[segment].session, g.index = files[segment].index, g.base = files[segment].base,
         g.base + Len(g.rows) <= Len(Handed(g.session)),
         g.rows = SubSeq(Handed(g.session), g.base + 1, g.base + Len(g.rows)),
         g.complete => RecordCount(SubSeq(delivered[g.session], 1, due[g.session])) <= g.base + Len(g.rows),
         Asks("start")' => Asks("start"), StartDue' => StartDue,
         main = "serving" /\ (running \/ Asks("start")) => (g.complete => files[segment].complete)
  PROVE  Linked' /\ Unwritten' /\ Unfinished'
<1>1. UNCHANGED <<started, delivered, due>>
  BY DEF Quiet, ghosts
<1>2. Linked'
  BY <1>1, LinkedWrite DEF Links
<1>3. segment \in DOMAIN files
  BY InHandFacts
<1>4. /\ DOMAIN files' = DOMAIN files
      /\ files'[segment] = g /\ \A f \in DOMAIN files : f # segment => files'[f] = files[f]
  BY <1>3, FilesAfterWrite DEF Types
<1>5. \A f \in DOMAIN files' : f \in DOMAIN files /\ files'[f].session = files[f].session
  BY <1>3, <1>4
<1>6. main = "serving" /\ (running \/ Asks("start")) =>
         \A f \in DOMAIN files' : files'[f].complete => files[f].complete
  BY <1>3, <1>4
<1>7. Unwritten' /\ Unfinished'
  BY <1>5, <1>6, LinksRest
<1> QED BY <1>2, <1>7

(* What is written to is a segment of the session; its end is where the    *)
(* next packet goes, unless the rows of a packet are there already.        *)
LEMMA SegmentFacts ==
  ASSUME Types, Tables, Pipeline, Links, segment # NoSegment
  PROVE  /\ segment \in DOMAIN files /\ files[segment] \in File /\ files[segment].session = session
         /\ session \in Sessions /\ files[segment].base \in Nat /\ Len(files[segment].rows) \in Nat
         /\ EndOf(segment) = files[segment].base + Len(files[segment].rows)
         /\ EndOf(segment) <= Len(Handed(session))
         /\ files[segment].rows = SubSeq(Handed(session), files[segment].base + 1, EndOf(segment))
         /\ files[segment].complete =>
               RecordCount(SubSeq(delivered[session], 1, due[session])) <= EndOf(segment)
         /\ wpc # "packet" => EndOf(segment) = session_record_offset
<1>1. segment \in DOMAIN files /\ files[segment].session = session /\ session \in Sessions
  BY InHandFacts DEF Types, WorkerOK
<1>2. FileLinked(segment)
  BY <1>1 DEF Links, Linked
<1>3. files[segment] \in File /\ files[segment].base \in Nat /\ Len(files[segment].rows) \in Nat
  BY <1>1, NameFacts
<1>4. wpc # "packet" => EndOf(segment) = session_record_offset
  BY DEF Tables, EndOf, RecordCount
<1> QED BY <1>1, <1>2, <1>3, <1>4 DEF FileLinked, EndOf

(* A write that touches neither the rows nor what a reader makes of them.  *)
LEMMA LinksMarked ==
  ASSUME Types, Tables, Pipeline, Links, Quiet, segment # NoSegment, NEW g \in File, Wrote(g),
         g.session = files[segment].session, g.index = files[segment].index, g.base = files[segment].base,
         g.rows = files[segment].rows,
         g.complete => \/ files[segment].complete
                       \/ /\ RecordCount(SubSeq(delivered[session], 1, due[session])) <= session_record_offset
                          /\ wpc # "packet" /\ ~(main = "serving" /\ (running \/ Asks("start"))),
         Asks("start")' => Asks("start"), StartDue' => StartDue
  PROVE  Linked' /\ Unwritten' /\ Unfinished'
<1>1. /\ files[segment].session = session
      /\ EndOf(segment) = files[segment].base + Len(files[segment].rows)
      /\ EndOf(segment) <= Len(Handed(session))
      /\ files[segment].rows = SubSeq(Handed(session), files[segment].base + 1, EndOf(segment))
      /\ files[segment].complete =>
            RecordCount(SubSeq(delivered[session], 1, due[session])) <= EndOf(segment)
      /\ wpc # "packet" => EndOf(segment) = session_record_offset
  BY SegmentFacts
<1>2. g.session = session /\ g.base + Len(g.rows) = EndOf(segment)
  BY <1>1
<1>3. /\ g.base + Len(g.rows) <= Len(Handed(g.session))
      /\ g.rows = SubSeq(Handed(g.session), g.base + 1, g.base + Len(g.rows))
  BY <1>1, <1>2
<1>4. g.complete => RecordCount(SubSeq(delivered[g.session], 1, due[g.session])) <= g.base + Len(g.rows)
  BY <1>1, <1>2
<1>5. main = "serving" /\ (running \/ Asks("start")) => (g.complete => files[segment].complete)
  OBVIOUS
<1> QED BY <1>3, <1>4, <1>5, LinksWritten

LEMMA LinksRows ==
  ASSUME Types, Tables, Control, Pipeline, Links, AppendRows
  PROVE  Links'
<1>1. /\ wpc = "rows" /\ Quiet /\ InHand /\ segment # NoSegment /\ cmd \in Commands
      /\ cmd.packet \in Packets /\ StorageTypes /\ WorkerOK
  BY RowsStep, InHandFacts DEF InHand, Types, WorkerOK
<1>2. PICK j \in 0..Len(Rows(cmd.packet)) :
         /\ Wrote(WithRows(SubSeq(Rows(cmd.packet), 1, j)))
         /\ \/ Fail(cmd)
            \/ wpc' = "packet" /\ cmd' = cmd /\ Working
  <2>1. Len(Rows(cmd.packet)) \in Nat
    BY <1>1, RowsType
  <2>2. Len(Rows(cmd.packet)) \in 0..Len(Rows(cmd.packet))
    BY <2>1
  <2> QED BY <2>2, RowsStep
<1>3. PICK g : g = WithRows(SubSeq(Rows(cmd.packet), 1, j))
  OBVIOUS
<1>4. /\ g \in File /\ Wrote(g) /\ files[segment] \in File
  BY <1>1, <1>2, <1>3, WritesTyped
<1>5. /\ g.session = files[segment].session /\ g.index = files[segment].index /\ g.base = files[segment].base
      /\ g.complete = files[segment].complete
      /\ g.rows = files[segment].rows \o SubSeq(Rows(cmd.packet), 1, j)
  BY <1>3, <1>4 DEF WithRows, File
<1>6. /\ files[segment].session = session /\ session \in Sessions /\ files[segment].base \in Nat
      /\ files[segment].base + Len(files[segment].rows) = session_record_offset
      /\ Len(files[segment].rows) \in Nat
      /\ files[segment].rows = SubSeq(Handed(session), files[segment].base + 1, session_record_offset)
      /\ files[segment].complete =>
            RecordCount(SubSeq(delivered[session], 1, due[session])) <= session_record_offset
  BY <1>1, SegmentFacts
<1>7. PICK k \in 0..Len(delivered[session]) : Reached(k)
  BY <1>6, InHandFacts DEF Pipeline, Types, WorkerOK, Sessions
<1>8. /\ k + 1 <= Len(delivered[session]) /\ cmd.packet = delivered[session][k + 1]
      /\ session_record_offset = RecordCount(SubSeq(delivered[session], 1, k))
  BY <1>1, <1>7 DEF Reached, Held
<1>9. PICK o : o = session_record_offset
  OBVIOUS
<1>10. PICK b : b = files[segment].base
  OBVIOUS
<1>11. /\ delivered[session] \in Seq(Packets) /\ k \in Nat /\ b \in Nat /\ o \in Nat /\ b <= o
  <2>1. delivered[session] \in Seq(Packets)
    BY <1>6 DEF Types, BrokerTypes
  <2>2. o \in Nat
    BY <1>9 DEF Types, StorageTypes
  <2>3. b \in Nat /\ b <= o
    BY <1>6, <1>9, <1>10, <2>2
  <2> QED BY <2>1, <2>2, <2>3
<1>12. /\ o + j <= Len(Handed(session))
       /\ SubSeq(Handed(session), b + 1, o + j)
            = SubSeq(Handed(session), b + 1, o) \o SubSeq(Rows(cmd.packet), 1, j)
  <2>1. PICK ps : ps = delivered[session]
    OBVIOUS
  <2>2. ps \in Seq(Packets) /\ k + 1 <= Len(ps) /\ cmd.packet = ps[k + 1] /\ o = RecordCount(SubSeq(ps, 1, k))
    BY <1>8, <1>9, <1>11, <2>1
  <2>3. j \in 0..Len(Rows(ps[k + 1]))
    BY <1>2, <2>2
  <2>4. /\ o + j <= Len(AllRows(ps))
        /\ SubSeq(AllRows(ps), b + 1, o + j)
             = SubSeq(AllRows(ps), b + 1, o) \o SubSeq(Rows(ps[k + 1]), 1, j)
    <3>1. ps \in Seq(Packets) /\ k \in Nat /\ k + 1 <= Len(ps) /\ b \in Nat /\ b <= o
      BY <1>11, <2>2
    <3> QED BY <2>2, <2>3, <3>1, RowsAppended, ZenonT(40)
  <2> QED BY <2>1, <2>2, <2>4 DEF Handed
<1>13. g.rows = SubSeq(Handed(session), b + 1, o + j)
  BY <1>5, <1>6, <1>9, <1>10, <1>12
<1>14. b + Len(g.rows) = o + j /\ j \in Nat
  <2>1. PICK h : h = Handed(session)
    OBVIOUS
  <2>2. PICK z : z = o + j
    OBVIOUS
  <2>3. h \in Seq(Nat)
    BY <1>11, <2>1, AllRowsType DEF Handed
  <2>4. j \in Nat /\ z \in Nat /\ b <= z /\ z <= Len(h)
    <3>1. Len(Rows(cmd.packet)) \in Nat
      BY <1>1, RowsType
    <3> QED BY <1>2, <1>11, <1>12, <2>1, <2>2, <3>1
  <2>5. IsPart(g.rows, h, b, z)
    BY <1>13, <2>1, <2>2 DEF IsPart
  <2>6. Len(g.rows) = z - b
    BY <1>11, <2>3, <2>4, <2>5, PartIs DEF PartOf
  <2> QED BY <1>11, <2>2, <2>4, <2>6
<1>15. g.session = session /\ g.base = b
  BY <1>5, <1>6, <1>10
<1>16. /\ g.base + Len(g.rows) <= Len(Handed(g.session))
       /\ g.rows = SubSeq(Handed(g.session), g.base + 1, g.base + Len(g.rows))
  BY <1>12, <1>13, <1>14, <1>15
<1>17. g.complete => RecordCount(SubSeq(delivered[g.session], 1, due[g.session])) <= g.base + Len(g.rows)
  <2>1. PICK d : d = RecordCount(SubSeq(delivered[session], 1, due[session]))
    OBVIOUS
  <2>2. d \in Nat
    <3>1. due[session] \in Nat /\ due[session] <= Len(delivered[session])
      BY <1>6 DEF Types, BrokerTypes, Pipeline
    <3>2. due[session] \in 0..Len(delivered[session])
      BY <1>11, <3>1
    <3>3. SubSeq(delivered[session], 1, due[session]) \in Seq(Packets)
      BY <1>11, <3>2, RowsOfPrefix
    <3> QED BY <2>1, <3>3, AllRowsType DEF RecordCount
  <2>3. g.complete => d <= o
    BY <1>5, <1>6, <1>9, <2>1
  <2>4. g.complete => d <= b + Len(g.rows)
    BY <1>11, <1>14, <2>2, <2>3
  <2> QED BY <1>15, <2>1, <2>4
<1>18. (Asks("start")' => Asks("start")) /\ (StartDue' => StartDue) /\ wpc' \in {"dead", "packet"}
  BY <1>1, <1>2, DueFailed, DueWorking, FailStep
<1>19. Linked' /\ Unwritten' /\ Unfinished'
  BY <1>1, <1>4, <1>5, <1>16, <1>17, <1>18, LinksWritten
<1>20. Rotating'
  BY <1>18 DEF Rotating
<1> QED BY <1>19, <1>20 DEF Links

LEMMA LinksPacket ==
  ASSUME Types, Tables, Control, Pipeline, Links, AppendPacket
  PROVE  Links'
<1>1. /\ wpc = "packet" /\ Quiet /\ InHand /\ segment # NoSegment /\ cmd \in Commands /\ wpc # "dead"
      /\ segment \in DOMAIN files /\ StorageTypes /\ WorkerOK
  BY PacketStep, InHandFacts DEF InHand, Types, WorkerOK
<1>2. /\ Asks("start")' => Asks("start")
      /\ StartDue' => StartDue
      /\ wpc' \in {"recv", "dead", "finalise"}
  <2>1. \A i \in 1..Len(queue) : \E j \in 1..Len(queue) : queue[i] = queue[j]
    OBVIOUS
  <2>2. CASE Succeed(cmd, queue)
    BY <1>1, <2>1, <2>2, DueSucceeded, SucceedStep
  <2>3. CASE Fail(cmd)
    BY <1>1, <2>3, DueFailed, FailStep
  <2>4. CASE wpc' = "finalise" /\ UNCHANGED cmd /\ Working
    BY <1>1, <2>4, DueWorking
  <2> QED BY <2>2, <2>3, <2>4, PacketStep
<1>3. PICK g \in {files[segment], WithEntry} : Wrote(g)
  <2>1. CASE files' = files
    <3>1. Wrote(files[segment])
      BY <1>1, <2>1 DEF Wrote, StorageTypes
    <3> QED BY <3>1
  <2>2. CASE Wrote(WithEntry)
    BY <2>2
  <2> QED BY <2>1, <2>2, PacketStep
<1>4. g \in File /\ files[segment] \in File
  BY <1>1, <1>3, WritesTyped
<1>5. /\ g.session = files[segment].session /\ g.index = files[segment].index /\ g.base = files[segment].base
      /\ g.rows = files[segment].rows /\ g.complete = files[segment].complete
  BY <1>3, <1>4 DEF WithEntry, File
<1>6. Linked' /\ Unwritten' /\ Unfinished'
  BY <1>1, <1>2, <1>3, <1>4, <1>5, LinksMarked
<1>7. Rotating'
  BY <1>2 DEF Rotating
<1> QED BY <1>6, <1>7 DEF Links

(* A command that completes a session does so after every packet it owes.  *)
LEMMA CompletesAfterAll ==
  ASSUME Types, Tables, Control, Pipeline, wpc = "finalise", CompletesSession(Reason)
  PROVE  /\ RecordCount(SubSeq(delivered[session], 1, due[session])) <= session_record_offset
         /\ ~(main = "serving" /\ (running \/ Asks("start")))
         /\ cmd.type # "packet"
<1>1. cmd.type # "packet"
  <2>1. Reason # "SegmentLimit"
    BY DEF CompletesSession
  <2> QED BY <2>1, ReasonType DEF Types
<1>2. Closing /\ session # 0
  BY <1>1, InHandFacts DEF Closing, Types, WorkerOK
<1>3. PICK k \in 0..Len(delivered[session]) : Reached(k)
  BY <1>2 DEF Pipeline
<1>4. due[session] <= k /\ session_record_offset = RecordCount(SubSeq(delivered[session], 1, k))
  BY <1>2, <1>3 DEF Reached
<1>5. delivered[session] \in Seq(Packets) /\ due[session] \in Nat /\ k \in Nat /\ k <= Len(delivered[session])
  BY <1>2, <1>3, SessionFacts
<1>6. RecordCount(SubSeq(delivered[session], 1, due[session])) <= session_record_offset
  BY <1>4, <1>5, CountsGrow
<1>7. ~(main = "serving" /\ (running \/ Asks("start")))
  <2>1. SUFFICES ASSUME main = "serving", running \/ Asks("start") PROVE FALSE
    OBVIOUS
  <2>2. call["ops"].st = "waiting"
    BY <1>2, <2>1, NoEndYet
  <2>3. Asks("start")
    BY <2>1, <2>2 DEF Control, OpsCalls
  <2>4. InHand /\ cmd \in Commands
    BY <1>2, InHandFacts DEF Closing, InHand
  <2>5. ByOps(cmd)
    <3>1. ~ByMain(cmd)
      BY <2>1, <2>4 DEF Control, MainCalls, Ending
    <3> QED BY <1>1, <2>4, <3>1, Kinds
  <2>6. call["ops"].command = cmd
    BY <2>1, <2>4, <2>5 DEF Control, HandOps, OpsWait
  <2>7. cmd.type = "start"
    BY <2>3, <2>6 DEF Asks
  <2>8. cmd.type # "start"
    BY <1>1, CommandFacts DEF Types, WorkerOK
  <2> QED BY <2>7, <2>8
<1> QED BY <1>1, <1>6, <1>7

LEMMA LinksFinalise ==
  ASSUME Types, Tables, Control, Pipeline, Links, Finalise
  PROVE  Links'
<1>1. /\ wpc = "finalise" /\ Quiet /\ InHand /\ segment # NoSegment /\ cmd \in Commands
      /\ segment \in DOMAIN files /\ StorageTypes /\ WorkerOK
  BY FinaliseStep, InHandFacts DEF InHand, Types, WorkerOK
<1>2. PICK g \in {files[segment], Closed, Clean, Complete} :
         /\ Wrote(g)
         /\ \/ Fail(cmd)
            \/ g = Complete /\ wpc' = "rename" /\ UNCHANGED <<worker, cmd>> /\ Working
  BY FinaliseStep
<1>3. g \in File /\ files[segment] \in File
  BY <1>1, <1>2, WritesTyped
<1>4. /\ g.session = files[segment].session /\ g.index = files[segment].index /\ g.base = files[segment].base
      /\ g.rows = files[segment].rows
      /\ g.complete => files[segment].complete \/ CompletesSession(Reason)
      /\ g = Complete => g.complete = CompletesSession(Reason)
  <2>1. files[segment] \in File
    BY <1>3
  <2>2. /\ Closed.session = files[segment].session /\ Closed.index = files[segment].index
        /\ Closed.base = files[segment].base /\ Closed.rows = files[segment].rows
        /\ Closed.complete = files[segment].complete
    BY <2>1 DEF Closed, File
  <2>3. /\ Clean.session = Closed.session /\ Clean.index = Closed.index
        /\ Clean.base = Closed.base /\ Clean.rows = Closed.rows /\ Clean.complete = Closed.complete
    BY <2>1 DEF Closed, Clean, File
  <2>4. /\ Complete.session = Clean.session /\ Complete.index = Clean.index
        /\ Complete.base = Clean.base /\ Complete.rows = Clean.rows
        /\ Complete.complete = CompletesSession(Reason)
    BY <2>1 DEF Closed, Clean, Complete, File
  <2> QED BY <1>2, <2>2, <2>3, <2>4
<1>5. (Asks("start")' => Asks("start")) /\ (StartDue' => StartDue) /\ wpc' \in {"dead", "rename"}
  BY <1>1, <1>2, DueFailed, DueWorking, FailStep
<1>6. g.complete => \/ files[segment].complete
                    \/ /\ RecordCount(SubSeq(delivered[session], 1, due[session])) <= session_record_offset
                       /\ wpc # "packet" /\ ~(main = "serving" /\ (running \/ Asks("start")))
  BY <1>1, <1>4, CompletesAfterAll
<1>7. Linked' /\ Unwritten' /\ Unfinished'
  BY <1>1, <1>2, <1>3, <1>4, <1>5, <1>6, LinksMarked
<1>8. Rotating'
  <2>1. CASE Fail(cmd)
    BY <2>1, FailStep DEF Rotating
  <2>2. CASE g = Complete /\ wpc' = "rename" /\ UNCHANGED <<worker, cmd>> /\ Working
    <3>1. files'[segment] = g /\ segment' = segment /\ cmd' = cmd
      BY <1>1, <1>2, <1>3, <2>2, FilesAfterWrite DEF worker
    <3>2. cmd.type = "packet" => ~g.complete
      BY <1>1, <1>4, <2>2, CompletesAfterAll
    <3> QED BY <2>2, <3>1, <3>2 DEF Rotating
  <2> QED BY <1>2, <2>1, <2>2
<1> QED BY <1>7, <1>8 DEF Links

LEMMA LinksRename ==
  ASSUME Types, Tables, Control, Pipeline, Links, Rename
  PROVE  Links'
<1>1. /\ wpc = "rename" /\ Quiet /\ InHand /\ segment # NoSegment /\ cmd \in Commands /\ wpc # "dead"
      /\ segment \in DOMAIN files /\ StorageTypes /\ WorkerOK
  BY RenameStep, InHandFacts DEF InHand, Types, WorkerOK
<1>2. /\ Asks("start")' => Asks("start")
      /\ StartDue' => StartDue
  <2>1. \A i \in 1..Len(queue) : \E j \in 1..Len(queue) : queue[i] = queue[j]
    OBVIOUS
  <2>2. CASE Succeed(cmd, queue)
    BY <1>1, <2>1, <2>2, DueSucceeded
  <2>3. CASE Fail(cmd)
    BY <1>1, <2>3, DueFailed
  <2>4. CASE UNCHANGED cmd /\ Working
    BY <1>1, <2>4, DueWorking
  <2> QED BY <2>2, <2>3, <2>4, RenameStep
<1>3. PICK g \in {files[segment], Final} : Wrote(g)
  <2>1. CASE files' = files
    <3>1. Wrote(files[segment])
      BY <1>1, <2>1 DEF Wrote, StorageTypes
    <3> QED BY <3>1
  <2>2. CASE Wrote(Final)
    BY <2>2
  <2> QED BY <2>1, <2>2, RenameStep
<1>4. g \in File /\ files[segment] \in File
  BY <1>1, <1>3, WritesTyped
<1>5. /\ g.session = files[segment].session /\ g.index = files[segment].index /\ g.base = files[segment].base
      /\ g.rows = files[segment].rows /\ g.complete = files[segment].complete
  BY <1>3, <1>4 DEF Final, File
<1>6. Linked' /\ Unwritten' /\ Unfinished'
  BY <1>1, <1>2, <1>3, <1>4, <1>5, LinksMarked
<1>7. Rotating'
  <2>1. CASE wpc' \in {"recv", "dead"}
    BY <2>1 DEF Rotating
  <2>2. CASE /\ Wrote(Final) /\ cmd.type = "packet" /\ segment_index' = segment_index + 1 /\ wpc' = "open"
             /\ UNCHANGED <<session, cmd, stamp, session_record_offset>>
    <3>1. PICK m : m = segment
      OBVIOUS
    <3>2. m = <<stamp, segment_index>> /\ segment_index \in Nat /\ segment_index' - 1 = segment_index
      BY <1>1, <2>2, <3>1, RecorderAssumption DEF WorkerOK, StorageTypes
    <3>3. <<stamp', segment_index' - 1>> = m
      BY <2>2, <3>2
    <3>4. Final \in File
      BY <1>1, WritesTyped
    <3>5. files'[m] = Final /\ m \in DOMAIN files'
      BY <1>1, <2>2, <3>1, <3>4, FilesAfterWrite
    <3>6. /\ Final.session = session /\ Final.final /\ Final.complete = files[segment].complete
          /\ Final.base = files[segment].base /\ Final.rows = files[segment].rows
      BY <1>1, <1>4, SegmentFacts DEF Final, File
    <3>7. ~files[segment].complete
      BY <1>1, <2>2 DEF Links, Rotating
    <3>8. EndOf(segment) = session_record_offset
      BY <1>1, SegmentFacts
    <3>9. EndOf(m)' = session_record_offset
      BY <3>5, <3>6, <3>8 DEF EndOf
    <3>10. m \in DOMAIN files' /\ files'[m].session = session' /\ files'[m].final /\ ~files'[m].complete
      BY <2>2, <3>5, <3>6, <3>7
    <3>11. EndOf(<<stamp, segment_index - 1>>)' = session_record_offset'
      BY <2>2, <3>3, <3>9 DEF EndOf
    <3> QED BY <2>2, <3>3, <3>10, <3>11 DEF Rotating
  <2>3. CASE Succeed(cmd, queue)
    BY <1>1, <2>1, <2>3, SucceedStep
  <2>4. CASE Fail(cmd)
    BY <2>1, <2>4, FailStep
  <2> QED BY <2>2, <2>3, <2>4, RenameStep
<1> QED BY <1>6, <1>7 DEF Links

(* The files and the storage thread are left alone. *)
LEMMA LinksKept ==
  ASSUME Types, Links, UNCHANGED <<files, wpc, cmd, worker, started, delivered>>,
         \A s \in Sessions : due'[s] = due[s]
                             \/ /\ s = started /\ main = "serving"
                                /\ running,
         StartDue' => StartDue,
         main' = "serving" /\ (running' \/ Asks("start")') => main = "serving" /\ (running \/ Asks("start"))
  PROVE  Links'
<1>1. started' \in Nat /\ started' >= started
  BY NameFacts, QueueFacts
<1>2. \A f \in DOMAIN files : /\ delivered'[files[f].session] = delivered[files[f].session]
                              /\ due'[files[f].session] = due[files[f].session] \/ ~files[f].complete
  BY NameFacts DEF Links, Unfinished
<1>3. Linked'
  BY <1>1, <1>2, LinkedSame DEF Links
<1>4. Unwritten'
  BY DEF Links, Unwritten
<1>5. Unfinished'
  BY DEF Links, Unfinished
<1>6. Rotating'
  BY DEF Links, Rotating, EndOf, worker
<1> QED BY <1>3, <1>4, <1>5, <1>6 DEF Links

LEMMA LinksEnqueue ==
  ASSUME Types, Links, NEW c \in Callers, Enqueue(c)
  PROVE  Links'
<1> DEFINE x == call[c].command
<1>1. /\ call[c].st = "sending" /\ queue' = Append(queue, x)
      /\ UNCHANGED <<wpc, cmd, worker, files, running, main, started, delivered, due>>
  BY DEF Enqueue, brokerState, ghosts
<1>2. /\ call[c] # Idle /\ x \in Commands /\ queue \in Seq(Commands)
      /\ c = "main" => x \in MainCommands
  BY <1>1, CommandOf, InHandFacts DEF Types, BrokerTypes
<1>3. \E st \in {"sending", "waiting", "ok", "failed"} : call' = [call EXCEPT ![c].st = st]
  BY DEF Enqueue
<1>4. PICK st \in {"sending", "waiting", "ok", "failed"} : call' = [call EXCEPT ![c].st = st]
  BY <1>3
<1>5. /\ call'[c] = [st |-> st, command |-> x]
      /\ \A d \in Callers : d # c => call'[d] = call[d]
  BY <1>2, <1>4, CallMoved DEF Types, BrokerTypes
<1>6. /\ Len(queue') = Len(queue) + 1 /\ queue'[Len(queue) + 1] = x /\ Len(queue) \in Nat
      /\ \A i \in 1..Len(queue) : queue'[i] = queue[i]
  BY <1>1, <1>2, AppendProperties
<1>7. Asks("start")' <=> Asks("start")
  BY <1>1, <1>5 DEF Asks, Callers
<1>8. x.type = "start" => Asks("start") /\ call["ops"].st = "sending"
  BY <1>1, <1>2, Kinds, CommandFacts DEF Asks, Callers
<1>9. Asks("start")' /\ call'["ops"].st \in {"sending", "waiting"} =>
         Asks("start") /\ call["ops"].st \in {"sending", "waiting"}
  BY <1>1, <1>5, <1>7 DEF Callers
<1>10. (\E i \in 1..Len(queue') : queue'[i].type = "start") =>
          x.type = "start" \/ \E i \in 1..Len(queue) : queue[i].type = "start"
  BY <1>6
<1>11. StartDue' => StartDue
  BY <1>1, <1>8, <1>9, <1>10 DEF StartDue, InHand
<1> QED BY <1>1, <1>7, <1>11, LinksKept

LEMMA LinksProcess ==
  ASSUME Types, Pipeline, Links, ProcessPacket
  PROVE  Links'
<1>1. /\ started \in Sessions /\ Sent \in Seq(Packets) /\ NextPacket \in Packets
      /\ UNCHANGED <<wpc, cmd, worker, files, running, call, main, started, due>>
  BY PacketProcessed
<1>2. CASE UNCHANGED <<queue, delivered>>
  <2>1. StartDue' => StartDue
    BY <1>1, <1>2 DEF StartDue, InHand, Asks
  <2>2. Asks("start")' <=> Asks("start")
    BY <1>1 DEF Asks
  <2> QED BY <1>1, <1>2, <2>1, <2>2, LinksKept
<1>3. CASE /\ queue' = Append(queue, [type |-> "packet", packet |-> NextPacket])
           /\ delivered' = [delivered EXCEPT ![started] = Append(Sent, NextPacket)]
  <2>1. queue \in Seq(Commands) /\ Len(queue) \in Nat
    BY InHandFacts
  <2>2. PICK y : y = [type |-> "packet", packet |-> NextPacket]
    OBVIOUS
  <2>3. /\ Len(queue') = Len(queue) + 1 /\ queue'[Len(queue) + 1] = y
        /\ \A i \in 1..Len(queue) : queue'[i] = queue[i]
    <3>1. y \in Commands
      BY <2>2, PacketProcessed
    <3> QED BY <1>3, <2>1, <2>2, <3>1, AppendProperties
  <2>4. (\E i \in 1..Len(queue') : queue'[i].type = "start") =>
          \E i \in 1..Len(queue) : queue[i].type = "start"
    BY <2>1, <2>2, <2>3
  <2>5. Asks("start")' <=> Asks("start")
    BY <1>1 DEF Asks
  <2>6. StartDue' => StartDue
    BY <1>1, <2>4, <2>5 DEF StartDue, InHand
  <2>7. Linked'
    BY <1>1, <1>3, LinkedDelivered DEF Links
  <2>8. Unwritten' /\ Unfinished'
    BY <1>1, <2>5, <2>6 DEF Links, Unwritten, Unfinished
  <2>9. Rotating'
    BY <1>1 DEF Links, Rotating, EndOf, worker
  <2> QED BY <2>7, <2>8, <2>9 DEF Links
<1> QED BY <1>2, <1>3, PacketProcessed

LEMMA LinksStartCall ==
  ASSUME Types, Links, NEW t \in Sessions, StartCall(t)
  PROVE  Links'
<1>1. UNCHANGED <<files, wpc, cmd, worker, delivered, due>> /\ started' = started + 1 /\ started \in Nat
  BY QueueFacts DEF StartCall, storage, worker
<1>2. \A f \in DOMAIN files : files'[f].session # started'
  <2>1. \A f \in DOMAIN files : files[f].session \in Nat /\ files[f].session <= started
    BY NameFacts DEF Links, Linked, FileLinked, Sessions
  <2> QED BY <1>1, <2>1
<1>3. Linked'
  <2>1. started' \in Nat /\ started' >= started
    BY <1>1
  <2> QED BY <1>1, <2>1, LinkedSame DEF Links
<1>4. Unwritten' /\ Unfinished'
  BY <1>1, <1>2 DEF Unwritten, Unfinished
<1>5. Rotating'
  BY <1>1 DEF Links, Rotating, EndOf, worker
<1> QED BY <1>3, <1>4, <1>5 DEF Links

(* What only changes what the broker asks for. *)
LEMMA LinksAsked ==
  ASSUME Types, Links, UNCHANGED <<storage, started, delivered>>,
         \A s \in Sessions : due'[s] = due[s] \/ (s = started /\ main = "serving" /\ running),
         \/ call'["ops"] = call["ops"]
         \/ call'["ops"].st \in {"failed", "idle"} /\ call'["ops"].command = call["ops"].command
               /\ call["ops"].st # "idle"
         \/ call'["ops"].st = "idle"
         \/ call'["ops"].command.type = "stop",
         main' = "serving" => main = "serving", running' => running \/ Asks("start")
  PROVE  Links'
<1>1. UNCHANGED <<files, wpc, cmd, worker, queue>>
  BY DEF storage, worker
<1>2. Asks("start")' => Asks("start")
  BY DEF Asks
<1>3. Asks("start")' /\ call'["ops"].st \in {"sending", "waiting"} =>
         Asks("start") /\ call["ops"].st \in {"sending", "waiting"}
  BY <1>2 DEF Asks
<1>4. StartDue' => StartDue
  BY <1>1, <1>3 DEF StartDue, InHand
<1> QED BY <1>1, <1>2, <1>4, LinksKept

LEMMA LinksBroker ==
  ASSUME Types, Control, Links
  PROVE  /\ \A c \in Callers : SendFails(c) => Links'
         /\ StartDone => Links'
         /\ \A reason \in StopReasons : StopCall(reason) => Links'
         /\ StopDone => Links'
         /\ (Monitor \/ ShutdownBegin \/ ShutdownStop \/ ShutdownRecording \/ Exit) => Links'
<1> USE DEF brokerState, ghosts
<1>0. CallTypes /\ "ops" \in Callers /\ "main" \in Callers /\ Idle.st = "idle"
  BY DEF Types, BrokerTypes, Callers, Idle
<1>d. ASSUME started \in Sessions, due' = [due EXCEPT ![started] = Len(delivered[started])]
      PROVE  \A s \in Sessions : s # started => due'[s] = due[s]
  BY <1>d DEF Types, BrokerTypes
<1>1. ASSUME NEW c \in Callers, SendFails(c) PROVE Links'
  <2>1. call[c] # Idle
    BY <1>0, <1>1 DEF SendFails
  <2>2. /\ call'[c] = [st |-> "failed", command |-> call[c].command]
        /\ \A d \in Callers : d # c => call'[d] = call[d]
    BY <1>0, <1>1, <2>1, CallMoved DEF SendFails
  <2> QED BY <1>0, <1>1, <2>2, LinksAsked DEF SendFails
<1>2. ASSUME StartDone PROVE Links'
  <2>1. call'["ops"] = Idle
    BY <1>0, <1>2, CallForgotten DEF StartDone
  <2>2. Asks("start")
    BY <1>2 DEF StartDone, Asks
  <2> QED BY <1>0, <1>2, <2>1, <2>2, LinksAsked DEF StartDone
<1>3. ASSUME NEW reason \in StopReasons, StopCall(reason) PROVE Links'
  <2>1. call'["ops"].command.type = "stop"
    BY <1>0, <1>3 DEF StopCall, Ask, CallTypes
  <2>2. started \in Sessions /\ running
    BY <1>3 DEF StopCall, Types, BrokerTypes, Sessions
  <2>3. \A s \in Sessions : due'[s] = due[s] \/ (s = started /\ main = "serving" /\ running)
    BY <1>d, <1>3, <2>2 DEF StopCall
  <2> QED BY <1>3, <2>1, <2>3, LinksAsked DEF StopCall
<1>4. ASSUME StopDone PROVE Links'
  <2>1. call'["ops"] = Idle
    BY <1>0, <1>4, CallForgotten DEF StopDone
  <2> QED BY <1>0, <1>4, <2>1, LinksAsked DEF StopDone
<1>5. ASSUME Monitor PROVE Links'
  BY <1>5, LinksAsked DEF Monitor
<1>6. ASSUME NEW x, Ask("main", x) PROVE call'["ops"] = call["ops"]
  BY <1>0, <1>6 DEF Ask, CallTypes
<1>7. ASSUME ShutdownBegin PROVE Links'
  <2>1. CASE running
    <3>1. started \in Sessions
      BY <2>1 DEF Types, BrokerTypes, Sessions
    <3>2. \A s \in Sessions : due'[s] = due[s] \/ (s = started /\ main = "serving" /\ running)
      BY <1>d, <1>7, <2>1, <3>1 DEF ShutdownBegin
    <3> QED BY <1>7, <2>1, <3>2, LinksAsked DEF ShutdownBegin
  <2>2. CASE ~running
    BY <1>6, <1>7, <2>2, LinksAsked DEF ShutdownBegin
  <2> QED BY <2>1, <2>2
<1>8. ASSUME ShutdownStop PROVE Links'
  BY <1>6, <1>8, LinksAsked DEF ShutdownStop
<1>9. ASSUME ShutdownRecording PROVE Links'
  BY <1>6, <1>9, LinksAsked DEF ShutdownRecording
<1>10. ASSUME Exit PROVE Links'
  <2>1. call'["ops"] = Idle
    BY <1>0, <1>10 DEF Exit
  <2> QED BY <1>0, <1>10, <2>1, LinksAsked DEF Exit
<1> QED BY <1>1, <1>2, <1>3, <1>4, <1>5, <1>7, <1>8, <1>9, <1>10

LEMMA LinksCrash ==
  ASSUME Types, Links, Crash
  PROVE  Links'
<1>1. /\ queue' = <<>> /\ wpc' = "recv" /\ running' = FALSE /\ call' = [c \in Callers |-> Idle]
      /\ UNCHANGED <<files, started, delivered, due>>
  BY DEF Crash
<1>2. ~Asks("start")' /\ ~StartDue'
  <2>1. call'["ops"].st = "idle"
    BY <1>1 DEF Callers, Idle
  <2> QED BY <1>1, <2>1 DEF Asks, StartDue, InHand
<1>3. started' \in Nat /\ started' >= started
  BY <1>1, QueueFacts
<1>4. Linked'
  BY <1>1, <1>3, LinkedSame DEF Links
<1>5. Unwritten' /\ Unfinished'
  BY <1>1, <1>2 DEF Unwritten, Unfinished
<1>6. Rotating'
  BY <1>1 DEF Rotating
<1> QED BY <1>4, <1>5, <1>6 DEF Links

LEMMA LinksStep ==
  ASSUME Types, Tables, Control, Pipeline, Links, [Next]_vars
  PROVE  Links'
<1>1. ASSUME UNCHANGED vars PROVE Links'
  <2>1. UNCHANGED <<storage, call, main, running, started, delivered, due>>
    BY <1>1 DEF vars, control, brokerState, ghosts
  <2> QED BY <2>1, LinksAsked
<1>2. ASSUME Ended PROVE Links'
  BY <1>1, <1>2 DEF Ended
<1>3. ASSUME Worker PROVE Links'
  BY <1>3, LinksReceive, LinksOpen, LinksRows, LinksPacket, LinksFinalise, LinksRename DEF Worker
<1> QED BY <1>1, <1>2, <1>3, LinksEnqueue, LinksStartCall, LinksBroker, LinksProcess, LinksCrash DEF Next

LEMMA LinksInit == Init => Links
<1> SUFFICES ASSUME Init PROVE Links
  OBVIOUS
<1>2. DOMAIN files = {}
  BY DEF Init
<1>3. wpc = "recv"
  BY DEF Init, Booted
<1> QED BY <1>2, <1>3 DEF Links, Linked, Unwritten, Unfinished, Rotating

(* An increasing function from 1..n to 0..(n - 1) leaves nothing out.      *)
LEMMA Increasing ==
  ASSUME NEW n \in Nat, NEW h, \A i \in 1..n : h[i] \in 0..(n - 1),
         \A i, j \in 1..n : i < j => h[i] < h[j]
  PROVE  \A i \in 1..n : h[i] = i - 1
<1>1. \A i \in 1..n : h[i] >= i - 1
  <2> DEFINE T == {k \in Nat : k \in 1..n => h[k] >= k - 1}
  <2>1. 0 \in T
    OBVIOUS
  <2>2. ASSUME NEW k \in Nat, k \in T PROVE k + 1 \in T
    <3>1. SUFFICES ASSUME k + 1 \in 1..n PROVE h[k + 1] >= (k + 1) - 1
      OBVIOUS
    <3>2. CASE k = 0
      <4>1. h[1] \in 0..(n - 1) /\ k + 1 = 1
        BY <3>1, <3>2
      <4> QED BY <3>2, <4>1
    <3>3. CASE k # 0
      <4>1. k \in 1..n /\ k < k + 1
        BY <3>1, <3>3
      <4>2. h[k] >= k - 1 /\ h[k] < h[k + 1] /\ h[k] \in Int /\ h[k + 1] \in Int
        BY <2>2, <3>1, <4>1
      <4> QED BY <4>2
    <3> QED BY <3>2, <3>3
  <2> HIDE DEF T
  <2>3. \A k \in Nat : k \in T
    BY <2>1, <2>2, NatInd
  <2> QED BY <2>3 DEF T
<1>2. \A i \in 1..n : h[i] <= i - 1
  <2> DEFINE T == {k \in Nat : n - k \in 1..n => h[n - k] <= (n - k) - 1}
  <2>1. 0 \in T
    <3>1. n - 0 = n
      OBVIOUS
    <3>2. n \in 1..n => h[n] <= n - 1
      OBVIOUS
    <3> QED BY <3>1, <3>2
  <2>2. ASSUME NEW k \in Nat, k \in T PROVE k + 1 \in T
    <3>1. SUFFICES ASSUME n - (k + 1) \in 1..n PROVE h[n - (k + 1)] <= (n - (k + 1)) - 1
      OBVIOUS
    <3>2. PICK a : a = n - k
      OBVIOUS
    <3>3. PICK b : b = n - (k + 1)
      OBVIOUS
    <3>4. a \in 1..n /\ b \in 1..n /\ b < a /\ b = a - 1
      BY <3>1, <3>2, <3>3
    <3>5. h[a] <= a - 1
      BY <2>2, <3>2, <3>4
    <3>6. h[b] < h[a] /\ h[a] \in Int /\ h[b] \in Int
      BY <3>4
    <3>7. h[b] <= b - 1
      BY <3>4, <3>5, <3>6
    <3> QED BY <3>3, <3>7
  <2> HIDE DEF T
  <2>3. \A k \in Nat : k \in T
    BY <2>1, <2>2, NatInd
  <2>4. SUFFICES ASSUME NEW i \in 1..n PROVE h[i] <= i - 1
    OBVIOUS
  <2>5. n - i \in Nat /\ n - (n - i) = i
    OBVIOUS
  <2>6. n - i \in T
    BY <2>3, <2>5
  <2>7. n - (n - i) \in 1..n => h[n - (n - i)] <= (n - (n - i)) - 1
    BY <2>6 DEF T
  <2> QED BY <2>5, <2>7
<1>3. SUFFICES ASSUME NEW i \in 1..n PROVE h[i] = i - 1
  OBVIOUS
<1>4. h[i] >= i - 1 /\ h[i] <= i - 1 /\ h[i] \in Int
  BY <1>1, <1>2
<1> QED BY <1>4

(* The n files of session s are the segments 0, 1, ... stamped t. *)
Named(s, t, n) ==
    /\ n \in Nat
    /\ \A i \in 1..n : <<t, i - 1>> \in DOMAIN files /\ files[<<t, i - 1>>].session = s
    /\ \A f \in DOMAIN files : files[f].session = s => \E i \in 1..n : f = <<t, i - 1>>

LEMMA SessionNamed ==
  ASSUME Types, Linked, NEW s \in Sessions
  PROVE  \E t, n : Named(s, t, n)
<1>1. CASE \A f \in DOMAIN files : files[f].session # s
  <2>1. 0 \in Nat /\ 1..0 = {}
    OBVIOUS
  <2>2. Named(s, 1, 0)
    BY <1>1, <2>1 DEF Named
  <2> QED BY <2>2
<1>2. ASSUME NEW g \in DOMAIN files, files[g].session = s PROVE \E t, n : Named(s, t, n)
  <2>1. PICK t : t = g[1]
    OBVIOUS
  <2> DEFINE T == {k \in Nat : <<t, k>> \notin DOMAIN files}
  <2>2. MaxSegment + 1 \in T
    <3>1. MaxSegment + 1 \in Nat /\ MaxSegment + 1 \notin 0..MaxSegment
      BY RecorderAssumption
    <3>2. <<t, MaxSegment + 1>> \notin Names
      BY <3>1 DEF Names
    <3> QED BY <3>1, <3>2 DEF Types, StorageTypes
  <2>3. PICK n \in T : \A k \in T : n <= k
    BY <2>2, NatLeast
  <2>4. n \in Nat /\ <<t, n>> \notin DOMAIN files /\ \A k \in Nat : k < n => <<t, k>> \in DOMAIN files
    BY <2>3
  <2>5. \A f \in DOMAIN files : f[1] = t <=> files[f].session = s
    <3>1. FileLinked(g)
      BY DEF Linked
    <3> QED BY <1>2, <2>1, <3>1 DEF FileLinked
  <2>6. ASSUME NEW i \in 1..n PROVE <<t, i - 1>> \in DOMAIN files /\ files[<<t, i - 1>>].session = s
    <3>1. i - 1 \in Nat /\ i - 1 < n
      BY <2>4
    <3>2. <<t, i - 1>> \in DOMAIN files
      BY <2>4, <3>1
    <3> QED BY <2>5, <3>2
  <2>7. ASSUME NEW f \in DOMAIN files, files[f].session = s PROVE \E i \in 1..n : f = <<t, i - 1>>
    <3>1. f = <<f[1], f[2]>> /\ f[2] \in Nat /\ f[1] = t
      BY <2>5, <2>7, NameFacts
    <3>2. ~(n <= f[2])
      <4>1. SUFFICES ASSUME n <= f[2] PROVE FALSE
        OBVIOUS
      <4>2. n \in 0..f[2]
        BY <2>4, <3>1, <4>1
      <4>3. <<f[1], n>> \in DOMAIN files
        BY <4>2 DEF Linked, FileLinked
      <4> QED BY <2>4, <3>1, <4>3
    <3>3. f[2] + 1 \in 1..n /\ (f[2] + 1) - 1 = f[2]
      BY <2>4, <3>1, <3>2
    <3> QED BY <3>1, <3>3
  <2>8. Named(s, t, n)
    BY <2>4, <2>6, <2>7 DEF Named
  <2> QED BY <2>8
<1> QED BY <1>1, <1>2

LEMMA SessionFilesAre ==
  ASSUME Types, Linked, NEW s \in Sessions, NEW t, NEW n, Named(s, t, n)
  PROVE  SessionFiles(s) = [i \in 1..n |-> <<t, i - 1>>]
<1> DEFINE mine == {f \in DOMAIN files : files[f].session = s}
           g == [i \in 1..n |-> <<t, i - 1>>]
           Sorted(fs) == \A i, j \in DOMAIN fs : i < j => files[fs[i]].index < files[fs[j]].index
<1>1. n \in Nat
  BY DEF Named
<1>2. /\ \A i \in 1..n : <<t, i - 1>> \in mine /\ files[<<t, i - 1>>].index = i - 1
      /\ \A f \in mine : \E i \in 1..n : f = <<t, i - 1>>
  <2>1. \A i \in 1..n : <<t, i - 1>> \in mine
    BY DEF Named
  <2>2. \A f \in mine : \E i \in 1..n : f = <<t, i - 1>>
    BY DEF Named
  <2>3. \A i \in 1..n : files[<<t, i - 1>>].index = i - 1
    <3>1. SUFFICES ASSUME NEW i \in 1..n PROVE files[<<t, i - 1>>].index = i - 1
      OBVIOUS
    <3>2. FileLinked(<<t, i - 1>>)
      BY <2>1 DEF Linked
    <3>3. <<t, i - 1>>[2] = i - 1
      OBVIOUS
    <3> QED BY <3>2, <3>3 DEF FileLinked
  <2> QED BY <2>1, <2>2, <2>3
<1>3. g \in [1..n -> mine] /\ \A i \in 1..n : g[i] = <<t, i - 1>>
  BY <1>2
<1>4. \A i, j \in 1..n : g[i] = g[j] => i = j
  <2>1. SUFFICES ASSUME NEW i \in 1..n, NEW j \in 1..n, g[i] = g[j] PROVE i = j
    OBVIOUS
  <2>2. <<t, i - 1>> = <<t, j - 1>>
    BY <2>1
  <2>3. i - 1 = j - 1
    BY <2>2
  <2> QED BY <1>1, <2>3
<1>5. Cardinality(mine) = n
  <2>1. g \in Bijection(1..n, mine)
    <3>1. \A f \in mine : \E i \in 1..n : g[i] = f
      BY <1>2, <1>3
    <3>2. IsInjective(g)
      BY <1>3, <1>4 DEF IsInjective
    <3> HIDE DEF g, mine
    <3> QED BY <1>3, <3>1, <3>2 DEF Bijection, Injection, Surjection
  <2>2. ExistsBijection(1..n, mine)
    BY <2>1 DEF ExistsBijection
  <2>3. IsFiniteSet(1..n) /\ Cardinality(1..n) = n
    BY <1>1, FS_Interval
  <2> HIDE DEF g, mine
  <2> QED BY <2>2, <2>3, FS_Bijection
<1>6. g \in SetToSeqs(mine) /\ Sorted(g)
  <2>1. g \in SetToSeqs(mine)
    <3> HIDE DEF g, mine
    <3> QED BY <1>3, <1>4, <1>5 DEF SetToSeqs
  <2>2. \A i \in 1..n : files[g[i]].index = i - 1
    BY <1>2, <1>3
  <2>3. DOMAIN g = 1..n
    OBVIOUS
  <2> HIDE DEF g, mine
  <2> QED BY <1>1, <2>1, <2>2, <2>3
<1>7. ASSUME NEW fs \in SetToSeqs(mine), Sorted(fs) PROVE fs = g
  <2>1. fs \in [1..n -> mine]
    <3> HIDE DEF mine
    <3> QED BY <1>5 DEF SetToSeqs
  <2>2. \A i \in 1..n : \E j \in 1..n : fs[i] = <<t, j - 1>>
    BY <1>2, <2>1
  <2>3. PICK h : h = [i \in 1..n |-> files[fs[i]].index]
    OBVIOUS
  <2>4. \A i \in 1..n : fs[i] = <<t, h[i]>> /\ h[i] \in 0..(n - 1)
    <3>1. SUFFICES ASSUME NEW i \in 1..n PROVE fs[i] = <<t, h[i]>> /\ h[i] \in 0..(n - 1)
      OBVIOUS
    <3>2. PICK j \in 1..n : fs[i] = <<t, j - 1>>
      BY <2>2
    <3>3. h[i] = j - 1
      BY <1>2, <2>3, <3>2
    <3>4. j - 1 \in 0..(n - 1)
      BY <1>1
    <3> QED BY <3>2, <3>3, <3>4
  <2>5. \A i, j \in 1..n : i < j => h[i] < h[j]
    BY <1>7, <2>1, <2>3
  <2>6. \A i \in 1..n : h[i] = i - 1
    BY <1>1, <2>4, <2>5, Increasing
  <2>7. \A i \in 1..n : fs[i] = g[i]
    BY <1>3, <2>4, <2>6
  <2> QED BY <1>3, <2>1, <2>7
<1>8. SessionFiles(s) = CHOOSE fs \in SetToSeqs(mine) : Sorted(fs)
  BY DEF SessionFiles
<1> HIDE DEF g, mine, Sorted
<1>9. SessionFiles(s) = g
  BY <1>6, <1>7, <1>8
<1> QED BY <1>9 DEF g

(* Adjacent stretches of w, one after the other. *)
Adjacent(w, n, R, last) ==
    /\ w \in Seq(Nat) /\ n \in Nat /\ last[0] = 0
    /\ \A i \in 0..n : last[i] \in Nat /\ last[i] <= Len(w)
    /\ \A i \in 1..n : last[i - 1] <= last[i] /\ R[i] = SubSeq(w, last[i - 1] + 1, last[i])

LEMMA FlattenParts ==
  ASSUME NEW w, NEW n, NEW R, NEW last, Adjacent(w, n, R, last)
  PROVE  FlattenSeq([i \in 1..n |-> R[i]]) = SubSeq(w, 1, last[n])
<1> USE DEF Adjacent
<1> DEFINE Up(k) == [i \in 1..k |-> R[i]]
           T == {k \in Nat : k <= n => FlattenSeq(Up(k)) = SubSeq(w, 1, last[k])}
<1>0. PICK S : S = Seq(Nat)
  OBVIOUS
<1>1. \A i \in 1..n : R[i] \in S
  <2>1. SUFFICES ASSUME NEW i \in 1..n PROVE R[i] \in S
    OBVIOUS
  <2>2. i - 1 \in 0..n /\ i \in 0..n
    OBVIOUS
  <2>3. PICK a, z : a = last[i - 1] /\ z = last[i]
    OBVIOUS
  <2>4. a \in Nat /\ z \in Nat /\ a <= z /\ z <= Len(w) /\ R[i] = SubSeq(w, a + 1, z)
    BY <2>2, <2>3
  <2>5. SubSeq(w, a + 1, z) \in Seq(Nat)
    BY <2>4, Part
  <2> QED BY <1>0, <2>4, <2>5
<1>2. 0 \in T
  <2>1. Up(0) = <<>> /\ SubSeq(w, 1, 0) = <<>>
    OBVIOUS
  <2> QED BY <2>1, FlattenEmpty
<1>3. ASSUME NEW k \in Nat, k \in T PROVE k + 1 \in T
  <2>1. SUFFICES ASSUME k + 1 <= n PROVE FlattenSeq(Up(k + 1)) = SubSeq(w, 1, last[k + 1])
    OBVIOUS
  <2>2. k + 1 \in 1..n /\ k \in 0..n /\ (k + 1) - 1 = k /\ k + 1 \in 0..n
    BY <2>1
  <2>3. PICK a, z : a = last[k] /\ z = last[k + 1]
    OBVIOUS
  <2>4. a \in Nat /\ z \in Nat /\ a <= z /\ z <= Len(w) /\ R[k + 1] = SubSeq(w, a + 1, z)
    BY <2>2, <2>3
  <2>5. FlattenSeq(Up(k)) = SubSeq(w, 1, a)
    BY <1>3, <2>1, <2>3
  <2>6. Up(k) \in Seq(S) /\ Len(Up(k)) = k /\ R[k + 1] \in S
    <3>1. \A i \in 1..k : i \in 1..n
      BY <2>1
    <3> QED BY <1>1, <2>2, <3>1
  <2>7. Up(k + 1) = Append(Up(k), R[k + 1])
    <3>1. /\ Append(Up(k), R[k + 1]) \in Seq(S) /\ Len(Append(Up(k), R[k + 1])) = k + 1
          /\ Append(Up(k), R[k + 1])[k + 1] = R[k + 1]
          /\ \A i \in 1..k : Append(Up(k), R[k + 1])[i] = R[i]
      BY <2>6, AppendProperties
    <3>2. Up(k + 1) \in Seq(S) /\ Len(Up(k + 1)) = k + 1 /\ \A i \in 1..(k + 1) : Up(k + 1)[i] = R[i]
      <4>1. \A i \in 1..(k + 1) : i \in 1..n
        BY <2>1
      <4> QED BY <1>1, <4>1
    <3>3. \A i \in 1..(k + 1) : Up(k + 1)[i] = Append(Up(k), R[k + 1])[i]
      <4> HIDE DEF Up
      <4>1. \A i \in 1..(k + 1) : i = k + 1 \/ i \in 1..k
        OBVIOUS
      <4> QED BY <3>1, <3>2, <4>1
    <3> HIDE DEF Up
    <3> QED BY <3>1, <3>2, <3>3, SeqEqual
  <2> HIDE DEF Up
  <2>8. FlattenSeq(Up(k + 1)) = FlattenSeq(Up(k)) \o R[k + 1]
    BY <1>0, <2>6, <2>7, FlattenAppend
  <2>9. SubSeq(w, 1, a) \o SubSeq(w, a + 1, z) = SubSeq(w, 1, z)
    <3>1. 1 \in 1..(Len(w) + 1) /\ a \in (1 - 1)..Len(w) /\ z \in a..Len(w)
      BY <2>4
    <3> QED BY <3>1, ConcatAdjacentSubSeq, Zenon
  <2> QED BY <2>3, <2>4, <2>5, <2>8, <2>9
<1> HIDE DEF T
<1>4. n \in T
  BY <1>2, <1>3, NatInd
<1> QED BY <1>4 DEF T

(* The last record of the first i segments stamped t. *)
LastOf(t, i) == IF i = 0 THEN 0 ELSE EndOf(<<t, i - 1>>)

LEMMA SegmentOf ==
  ASSUME Types, Linked, NEW s \in Sessions, NEW t, NEW n, Named(s, t, n), NEW i \in 1..n
  PROVE  LET f == <<t, i - 1>>
         IN  /\ f \in DOMAIN files /\ files[f].session = s /\ files[f].index = i - 1
             /\ files[f].base = LastOf(t, i - 1) /\ LastOf(t, i) = files[f].base + Len(files[f].rows)
             /\ LastOf(t, i) \in Nat /\ LastOf(t, i - 1) \in Nat /\ LastOf(t, i - 1) <= LastOf(t, i)
             /\ LastOf(t, i) <= Len(Handed(s))
             /\ files[f].rows = SubSeq(Handed(s), LastOf(t, i - 1) + 1, LastOf(t, i))
             /\ i < n => files[f].final /\ ~files[f].complete
             /\ files[f].complete => RecordCount(SubSeq(delivered[s], 1, due[s])) <= LastOf(t, i)
<1>1. PICK f : f = <<t, i - 1>>
  OBVIOUS
<1>2. n \in Nat /\ i \in Nat /\ f \in DOMAIN files /\ files[f].session = s
  BY <1>1 DEF Named
<1>3. FileLinked(f) /\ f[2] = i - 1 /\ f[1] = t
  BY <1>1, <1>2 DEF Linked
<1>4. files[f].base \in Nat /\ Len(files[f].rows) \in Nat /\ EndOf(f) \in Nat
  BY <1>2, NameFacts
<1>5. LastOf(t, i) = EndOf(f)
  BY <1>1, <1>2 DEF LastOf
<1>6. files[f].base = LastOf(t, i - 1)
  <2>1. CASE i = 1
    <3>1. i - 1 = 0
      BY <2>1
    <3> QED BY <1>3, <3>1 DEF FileLinked, LastOf
  <2>2. CASE i # 1
    <3>1. Prev(f) = <<t, (i - 1) - 1>> /\ i - 1 # 0
      BY <1>2, <1>3, <2>2 DEF Prev
    <3> QED BY <1>3, <3>1 DEF FileLinked, LastOf
  <2> QED BY <2>1, <2>2
<1>7. i < n => files[f].final /\ ~files[f].complete
  <2>1. SUFFICES ASSUME i < n PROVE files[f].final /\ ~files[f].complete
    OBVIOUS
  <2>2. i + 1 \in 1..n /\ (i + 1) - 1 = i
    BY <1>2, <2>1
  <2>3. PICK h : h = <<t, i>>
    OBVIOUS
  <2>4. h \in DOMAIN files /\ h[2] = i /\ h[1] = t
    BY <2>2, <2>3 DEF Named
  <2>5. Prev(h) = f
    BY <1>1, <2>4 DEF Prev
  <2>6. FileLinked(h) /\ h[2] # 0
    BY <1>2, <2>4 DEF Linked
  <2> QED BY <2>5, <2>6 DEF FileLinked
<1>8. /\ EndOf(f) <= Len(Handed(s))
      /\ files[f].rows = SubSeq(Handed(s), files[f].base + 1, EndOf(f))
      /\ files[f].complete => RecordCount(SubSeq(delivered[s], 1, due[s])) <= EndOf(f)
      /\ files[f].index = i - 1
  BY <1>2, <1>3 DEF FileLinked
<1>9. EndOf(f) = files[f].base + Len(files[f].rows)
  BY DEF EndOf
<1>10. LastOf(t, i - 1) \in Nat /\ LastOf(t, i) \in Nat /\ LastOf(t, i - 1) <= LastOf(t, i)
  BY <1>4, <1>5, <1>6, <1>9
<1> QED BY <1>1, <1>2, <1>5, <1>6, <1>7, <1>8, <1>9, <1>10

LEMMA RecordedIs ==
  ASSUME Types, Linked, NEW s \in Sessions, NEW t, NEW n, Named(s, t, n)
  PROVE  /\ Recorded(s) = SubSeq(Handed(s), 1, LastOf(t, n))
         /\ LastOf(t, n) \in Nat /\ LastOf(t, n) <= Len(Handed(s)) /\ Handed(s) \in Seq(Nat)
<1>1. n \in Nat
  BY DEF Named
<1>2. PICK w : w = Handed(s)
  OBVIOUS
<1>3. w \in Seq(Nat) /\ Len(w) \in Nat
  BY <1>2, AllRowsType DEF Handed, Types, BrokerTypes
<1>4. PICK last : last = [i \in 0..n |-> LastOf(t, i)]
  OBVIOUS
<1>5. PICK R : R = [i \in 1..n |-> files[<<t, i - 1>>].rows]
  OBVIOUS
<1>6. ASSUME NEW i \in 1..n
      PROVE  /\ last[i - 1] = LastOf(t, i - 1) /\ last[i] = LastOf(t, i)
             /\ last[i] \in Nat /\ last[i] <= Len(w) /\ last[i - 1] <= last[i]
             /\ R[i] = SubSeq(w, last[i - 1] + 1, last[i])
  <2>1. i - 1 \in 0..n /\ i \in 0..n
    BY <1>1
  <2>2. last[i - 1] = LastOf(t, i - 1) /\ last[i] = LastOf(t, i) /\ R[i] = files[<<t, i - 1>>].rows
    BY <1>4, <1>5, <2>1
  <2> QED BY <1>2, <2>2, SegmentOf
<1>7. last[0] = 0
  <2>1. 0 \in 0..n
    BY <1>1
  <2> QED BY <1>4, <2>1 DEF LastOf
<1>8. \A i \in 0..n : last[i] \in Nat /\ last[i] <= Len(w)
  <2>1. \A i \in 0..n : i = 0 \/ i \in 1..n
    BY <1>1
  <2> QED BY <1>3, <1>6, <1>7, <2>1
<1>9. FlattenSeq([i \in 1..n |-> R[i]]) = SubSeq(w, 1, last[n])
  <2>1. \A i \in 1..n : last[i - 1] <= last[i] /\ R[i] = SubSeq(w, last[i - 1] + 1, last[i])
    BY <1>6
  <2>2. Adjacent(w, n, R, last)
    BY <1>1, <1>3, <1>7, <1>8, <2>1 DEF Adjacent
  <2> QED BY <2>2, FlattenParts
<1>10. last[n] = LastOf(t, n) /\ last[n] \in Nat /\ last[n] <= Len(w)
  <2>1. n \in 0..n
    BY <1>1
  <2> QED BY <1>4, <1>8, <2>1
<1>11. Recorded(s) = FlattenSeq([i \in 1..n |-> R[i]])
  <2>1. PICK fs : fs = SessionFiles(s)
    OBVIOUS
  <2>2. fs = [i \in 1..n |-> <<t, i - 1>>]
    BY <2>1, SessionFilesAre
  <2>3. Len(fs) = n
    BY <1>1, <2>2
  <2>4. [i \in 1..Len(fs) |-> files[fs[i]].rows] = [i \in 1..n |-> R[i]]
    BY <1>5, <2>2, <2>3
  <2> QED BY <2>1, <2>4 DEF Recorded
<1> QED BY <1>2, <1>3, <1>9, <1>10, <1>11

(* The first a of w are the first a of the first z. *)
LEMMA PrefixOfPrefix ==
  ASSUME NEW w \in Seq(Nat), NEW a \in Nat, NEW z \in Nat, a <= z, z <= Len(w)
  PROVE  IsPrefix(SubSeq(w, 1, a), SubSeq(w, 1, z))
<1>1. PICK u, v : IsFront(u, w, a) /\ IsFront(v, w, z)
  BY DEF IsFront
<1>2. Len(w) \in Nat /\ a <= Len(w)
  OBVIOUS
<1>3. PartOf(u, w, 0, a) /\ PartOf(v, w, 0, z)
  BY <1>1, <1>2, FrontIs
<1>4. a - 0 = a /\ z - 0 = z /\ \A i \in Nat : 0 + i = i
  OBVIOUS
<1>5. /\ u \in Seq(Nat) /\ Len(u) = a /\ \A i \in 1..a : u[i] = w[i]
      /\ v \in Seq(Nat) /\ Len(v) = z /\ \A i \in 1..z : v[i] = w[i]
  BY <1>3, <1>4 DEF PartOf
<1>6. SubSeq(u, 1, a) = u
  BY <1>5, SubSeqFull
<1>7. SubSeq(v, 1, a) = u
  <2>1. PICK x : IsFront(x, v, a)
    BY DEF IsFront
  <2>2. PartOf(x, v, 0, a)
    BY <1>5, <2>1, FrontIs
  <2>3. x \in Seq(Nat) /\ Len(x) = a /\ \A i \in 1..a : x[i] = v[i]
    BY <1>4, <2>2 DEF PartOf
  <2>4. \A i \in 1..a : x[i] = u[i]
    <3>1. \A i \in 1..a : i \in 1..z
      OBVIOUS
    <3> QED BY <1>5, <2>3, <3>1
  <2>5. x = u
    BY <1>5, <2>3, <2>4, SeqEqual
  <2> QED BY <2>1, <2>5 DEF IsFront
<1>8. u = SubSeq(w, 1, a) /\ v = SubSeq(w, 1, z)
  BY <1>1 DEF IsFront
<1>9. IsPrefix(u, v)
  BY <1>5, <1>6, <1>7 DEF IsPrefix
<1> QED BY <1>8, <1>9

LEMMA LinksImplySegments ==
  ASSUME Types, Links
  PROVE  SegmentsLinked
<1>1. SUFFICES ASSUME NEW s \in Sessions
      PROVE  LET fs == SessionFiles(s)
             IN  /\ \A i \in 1..Len(fs) :
                       /\ files[fs[i]].index = i - 1
                       /\ i < Len(fs) => /\ files[fs[i]].final /\ ~files[fs[i]].complete
                                         /\ files[fs[i + 1]].base
                                              = files[fs[i]].base + Len(files[fs[i]].rows)
                 /\ IsPrefix(Recorded(s), AllRows(delivered[s]))
  BY DEF SegmentsLinked
<1>2. Linked
  BY DEF Links
<1>3. PICK t, n : Named(s, t, n)
  BY <1>2, SessionNamed
<1>4. PICK fs : fs = SessionFiles(s)
  OBVIOUS
<1>5. n \in Nat /\ Len(fs) = n /\ \A i \in 1..n : fs[i] = <<t, i - 1>>
  <2>1. fs = [i \in 1..n |-> <<t, i - 1>>]
    BY <1>2, <1>3, <1>4, SessionFilesAre
  <2>2. n \in Nat
    BY <1>3 DEF Named
  <2> QED BY <2>1, <2>2
<1>6. ASSUME NEW i \in 1..n
      PROVE  /\ files[fs[i]].index = i - 1
             /\ i < n => /\ files[fs[i]].final /\ ~files[fs[i]].complete
                         /\ files[fs[i + 1]].base = files[fs[i]].base + Len(files[fs[i]].rows)
  <2>1. /\ files[fs[i]].index = i - 1 /\ LastOf(t, i) = files[fs[i]].base + Len(files[fs[i]].rows)
        /\ i < n => files[fs[i]].final /\ ~files[fs[i]].complete
    <3>1. PICK f : f = <<t, i - 1>>
      OBVIOUS
    <3>2. /\ files[f].index = i - 1 /\ LastOf(t, i) = files[f].base + Len(files[f].rows)
          /\ i < n => files[f].final /\ ~files[f].complete
      BY <1>2, <1>3, <3>1, SegmentOf
    <3> QED BY <1>5, <3>1, <3>2
  <2>2. ASSUME i < n PROVE files[fs[i + 1]].base = LastOf(t, i)
    <3>1. PICK j \in 1..n : j = i + 1 /\ j - 1 = i
      BY <1>5, <2>2
    <3>2. files[<<t, j - 1>>].base = LastOf(t, j - 1)
      BY <1>2, <1>3, SegmentOf
    <3> QED BY <1>5, <3>1, <3>2
  <2> QED BY <2>1, <2>2
<1>7. IsPrefix(Recorded(s), AllRows(delivered[s]))
  <2>1. PICK w : w = Handed(s)
    OBVIOUS
  <2>2. PICK e : e = LastOf(t, n)
    OBVIOUS
  <2>3. Recorded(s) = SubSeq(w, 1, e) /\ e \in Nat /\ e <= Len(w) /\ w \in Seq(Nat)
    BY <1>2, <1>3, <2>1, <2>2, RecordedIs
  <2>4. IsPrefix(SubSeq(w, 1, e), SubSeq(w, 1, Len(w)))
    BY <2>3, PrefixOfPrefix
  <2>5. SubSeq(w, 1, Len(w)) = w
    BY <2>3, SubSeqFull
  <2> QED BY <2>1, <2>3, <2>4, <2>5 DEF Handed
<1> QED BY <1>4, <1>5, <1>6, <1>7

LEMMA LinksImplyComplete ==
  ASSUME Types, Pipeline, Links
  PROVE  CompleteHoldsAll
<1>1. SUFFICES ASSUME NEW s \in Sessions, NEW f \in DOMAIN files, files[f].session = s, files[f].complete
      PROVE  IsPrefix(AllRows(SubSeq(delivered[s], 1, due[s])), Recorded(s))
  BY DEF CompleteHoldsAll
<1>2. Linked
  BY DEF Links
<1>3. PICK t, n : Named(s, t, n)
  BY <1>2, SessionNamed
<1>4. n \in Nat /\ \E i \in 1..n : f = <<t, i - 1>>
  BY <1>1, <1>3 DEF Named
<1>5. PICK i \in 1..n : f = <<t, i - 1>>
  BY <1>4
<1>6. i = n
  <2>1. ~(i < n)
    BY <1>1, <1>2, <1>3, <1>5, SegmentOf
  <2> QED BY <1>4, <2>1
<1>7. PICK ps : ps = delivered[s]
  OBVIOUS
<1>8. PICK d : d = due[s]
  OBVIOUS
<1>9. ps \in Seq(Packets) /\ d \in 0..Len(ps)
  BY <1>7, <1>8 DEF Types, BrokerTypes, Pipeline
<1>10. PICK w : w = Handed(s)
  OBVIOUS
<1>11. PICK e : e = LastOf(t, n)
  OBVIOUS
<1>12. Recorded(s) = SubSeq(w, 1, e) /\ e \in Nat /\ e <= Len(w) /\ w \in Seq(Nat)
  BY <1>2, <1>3, <1>10, <1>11, RecordedIs
<1>13. PICK c : c = RecordCount(SubSeq(ps, 1, d))
  OBVIOUS
<1>14. c <= e
  BY <1>1, <1>2, <1>3, <1>5, <1>6, <1>7, <1>8, <1>11, <1>13, SegmentOf
<1>15. c \in Nat /\ AllRows(SubSeq(ps, 1, d)) = SubSeq(w, 1, c)
  <2>1. SubSeq(ps, 1, d) \in Seq(Packets)
    BY <1>9, RowsOfPrefix
  <2>2. AllRows(SubSeq(ps, 1, d)) = SubSeq(AllRows(ps), 1, RecordCount(SubSeq(ps, 1, d)))
    BY <1>9, RowsOfPrefix
  <2> QED BY <1>7, <1>10, <1>13, <2>1, <2>2, AllRowsType DEF Handed
<1>16. IsPrefix(SubSeq(w, 1, c), SubSeq(w, 1, e))
  BY <1>12, <1>14, <1>15, PrefixOfPrefix
<1> QED BY <1>7, <1>8, <1>12, <1>15, <1>16

(* Everything the storage thread and its callers keep to. *)
RecorderInv == Types /\ Tables /\ Control /\ Pipeline /\ Links

LEMMA RecorderInvariant == Spec => []RecorderInv
<1>1. Init => RecorderInv
  BY InitTypes, TablesInit, ControlInit, PipelineInit, LinksInit DEF RecorderInv
<1>2. RecorderInv /\ [Next]_vars => RecorderInv'
  BY TypesStep, TablesStep, ControlStep, PipelineStep, LinksStep DEF RecorderInv
<1> QED BY <1>1, <1>2, PTL DEF Spec

(* Rotation neither loses nor repeats a record, whatever fails: for every  *)
(* queue capacity, packet size and number of segments, the files of a      *)
(* session carry consecutive segment indices, all but the last have been   *)
(* renamed to their final name (rotate_if_due, close_segment), and one     *)
(* after the other they hold the records of the packets that               *)
(* process_packet handed on, from the first.                               *)
THEOREM SegmentsAreLinked == Spec => []SegmentsLinked
<1>1. RecorderInv => SegmentsLinked
  BY LinksImplySegments DEF RecorderInv
<1> QED BY <1>1, RecorderInvariant, PTL

(* A session whose last segment finalise_file has marked session_complete  *)
(* holds all that was handed on before its end was asked for, although     *)
(* packets, stops and the shut-down reach the thread over one queue from   *)
(* several tasks.                                                          *)
THEOREM CompleteSessionsHoldAll == Spec => []CompleteHoldsAll
<1>1. RecorderInv => CompleteHoldsAll
  BY LinksImplyComplete DEF RecorderInv
<1> QED BY <1>1, RecorderInvariant, PTL

----------------------------------------------------------------------------
(* What the recent history replays. *)

LEMMA ModUnique ==
  ASSUME NEW m \in Nat \ {0}, NEW x \in Int, NEW q \in Int, NEW r \in 0..(m - 1), x = q * m + r
  PROVE  x % m = r
  OBVIOUS

LEMMA ModParts ==
  ASSUME NEW m \in Nat \ {0}, NEW a \in Nat
  PROVE  \E q \in Int : a = q * m + (a % m)
<1>1. (a \div m) \in Int /\ a = m * (a \div m) + (a % m)
  OBVIOUS
<1>2. m * (a \div m) = (a \div m) * m
  BY <1>1
<1> QED BY <1>1, <1>2

LEMMA ModAgain ==
  ASSUME NEW m \in Nat \ {0}, NEW a \in Nat, NEW b \in Nat
  PROVE  ((a % m) + b) % m = (a + b) % m
<1>1. PICK c : c = a % m
  OBVIOUS
<1>2. c \in 0..(m - 1) /\ c \in Nat
  BY <1>1
<1>3. PICK q \in Int : a = q * m + c
  BY <1>1, ModParts
<1>4. PICK d : d = (c + b) % m
  OBVIOUS
<1>5. d \in 0..(m - 1)
  BY <1>2, <1>4
<1>6. PICK e \in Int : c + b = e * m + d
  <2>1. c + b \in Nat
    BY <1>2
  <2> QED BY <1>4, <2>1, ModParts
<1>7. a + b = (q + e) * m + d /\ q + e \in Int /\ a + b \in Int
  BY <1>2, <1>3, <1>5, <1>6
<1>8. (a + b) % m = d
  BY <1>5, <1>7, ModUnique
<1> QED BY <1>1, <1>4, <1>8

(* An index computed in two steps wraps as one computed in one.            *)
LEMMA SampleAgain ==
  ASSUME NEW a \in Nat, NEW x \in Nat, NEW y \in Nat
  PROVE  SampleIndex(SampleIndex(a, x), y) = SampleIndex(a, x + y)
<1>1. Decimation \in Nat /\ IndexModulus \in Nat \ {0}
  BY RecorderAssumption
<1>2. PICK u, v : u = x * Decimation /\ v = y * Decimation
  OBVIOUS
<1>3. u \in Nat /\ v \in Nat /\ (x + y) * Decimation = u + v
  BY <1>1, <1>2
<1>4. PICK b : b = a + u
  OBVIOUS
<1>5. b \in Nat /\ a + (u + v) = b + v
  BY <1>3, <1>4
<1>6. ((b % IndexModulus) + v) % IndexModulus = (b + v) % IndexModulus
  BY <1>1, <1>3, <1>5, ModAgain
<1> QED BY <1>2, <1>3, <1>4, <1>5, <1>6 DEF SampleIndex

(* A packet trimmed at its front keeps the rows it has left. *)
LEMMA Trimmed ==
  ASSUME NEW p \in Packets, NEW x \in 0..(p.n - 1), NEW q,
         q = [first |-> SampleIndex(p.first, x), n |-> p.n - x]
  PROVE  q \in Packets /\ Rows(q) = SubSeq(Rows(p), x + 1, p.n)
<1>1. /\ p.n \in Nat \ {0} /\ p.first \in Nat /\ Rows(p) \in Seq(Nat) /\ Len(Rows(p)) = p.n
      /\ \A k \in 1..p.n : Rows(p)[k] = SampleIndex(p.first, k - 1)
  BY RowsType
<1>2. x \in Nat /\ p.n - x \in Nat \ {0} /\ x <= p.n /\ p.n \in Nat
  BY <1>1
<1>3. q \in Packets /\ q.n = p.n - x /\ q.first = SampleIndex(p.first, x)
  BY <1>1, <1>2, SampleIndexType DEF Packets
<1>4. /\ Rows(q) \in Seq(Nat) /\ Len(Rows(q)) = p.n - x
      /\ \A k \in 1..(p.n - x) : Rows(q)[k] = SampleIndex(q.first, k - 1)
  BY <1>3, RowsType
<1>5. PICK r : IsPart(r, Rows(p), x, p.n)
  BY DEF IsPart
<1>6. r \in Seq(Nat) /\ Len(r) = p.n - x /\ \A k \in 1..(p.n - x) : r[k] = Rows(p)[x + k]
  <2>1. PICK v, n : v = Rows(p) /\ n = p.n
    OBVIOUS
  <2>2. v \in Seq(Nat) /\ n \in Nat /\ x \in Nat /\ x <= n /\ n <= Len(v) /\ IsPart(r, v, x, n)
    BY <1>1, <1>2, <1>5, <2>1
  <2>3. PartOf(r, v, x, n)
    BY <2>2, PartIs
  <2> QED BY <2>1, <2>3 DEF PartOf
<1>7. \A k \in 1..(p.n - x) : Rows(q)[k] = r[k]
  <2>1. SUFFICES ASSUME NEW k \in 1..(p.n - x) PROVE Rows(q)[k] = r[k]
    OBVIOUS
  <2>2. k - 1 \in Nat /\ x + k \in 1..p.n /\ x + (k - 1) = (x + k) - 1
    BY <1>2
  <2>3. Rows(q)[k] = SampleIndex(p.first, x + (k - 1))
    BY <1>1, <1>2, <1>3, <1>4, <2>2, SampleAgain
  <2>4. r[k] = SampleIndex(p.first, (x + k) - 1)
    BY <1>1, <1>6, <2>2
  <2> QED BY <2>2, <2>3, <2>4
<1>8. Rows(q) = r
  BY <1>4, <1>6, <1>7, SeqEqual
<1> QED BY <1>3, <1>5, <1>8 DEF IsPart

(* The packets from the i-th on. *)
Back(ps, i) == SubSeq(ps, i, Len(ps))

LEMMA BackFacts ==
  ASSUME NEW ps \in Seq(Packets), NEW i \in 1..(Len(ps) + 1)
  PROVE  /\ Back(ps, i) \in Seq(Packets) /\ Len(Back(ps, i)) = (Len(ps) - i) + 1
         /\ RecordCount(Back(ps, i)) \in Nat /\ AllRows(Back(ps, i)) \in Seq(Nat)
         /\ RecordCount(Back(ps, i)) = Len(AllRows(Back(ps, i)))
         /\ \E h \in Seq(Packets) : ps = h \o Back(ps, i)
         /\ i = 1 => Back(ps, i) = ps
         /\ i = Len(ps) + 1 => Back(ps, i) = <<>> /\ RecordCount(Back(ps, i)) = 0
<1>1. PICK k : k = i - 1
  OBVIOUS
<1>2. k \in 0..Len(ps) /\ k + 1 = i /\ k \in Nat /\ Len(ps) \in Nat /\ k <= Len(ps)
  BY <1>1
<1>3. /\ SubSeq(ps, 1, k) \in Seq(Packets) /\ SubSeq(ps, k + 1, Len(ps)) \in Seq(Packets)
      /\ ps = SubSeq(ps, 1, k) \o SubSeq(ps, k + 1, Len(ps))
  BY <1>2, RowsOfPrefix
<1>4. Back(ps, i) \in Seq(Packets) /\ \E h \in Seq(Packets) : ps = h \o Back(ps, i)
  BY <1>2, <1>3 DEF Back
<1>5. Len(Back(ps, i)) = (Len(ps) - i) + 1
  <2>1. Len(SubSeq(ps, k + 1, Len(ps))) = Len(ps) - k
    BY <1>2, Part
  <2> QED BY <1>2, <2>1 DEF Back
<1>6. i = 1 => Back(ps, i) = ps
  BY SubSeqFull DEF Back
<1>7. i = Len(ps) + 1 => Back(ps, i) = <<>> /\ RecordCount(Back(ps, i)) = 0
  <2>1. SUFFICES ASSUME i = Len(ps) + 1 PROVE Back(ps, i) = <<>> /\ RecordCount(Back(ps, i)) = 0
    OBVIOUS
  <2>2. Len(Back(ps, i)) = 0
    BY <1>2, <1>5, <2>1
  <2>3. Back(ps, i) = <<>>
    BY <1>4, <2>2, EmptySeq
  <2>4. Len(<<>>) = 0
    OBVIOUS
  <2> QED BY <2>3, <2>4, AllRowsEmpty DEF RecordCount
<1> QED BY <1>4, <1>5, <1>6, <1>7, AllRowsType

LEMMA OneRow ==
  ASSUME NEW p \in Packets
  PROVE  <<p>> \in Seq(Packets) /\ AllRows(<<p>>) = Rows(p) /\ RecordCount(<<p>>) = p.n
<1>1. <<p>> = Append(<<>>, p) /\ <<>> \in Seq(Packets) /\ <<p>> \in Seq(Packets)
  OBVIOUS
<1>2. AllRows(Append(<<>>, p)) = AllRows(<<>>) \o Rows(p)
  BY <1>1, AllRowsAppend
<1>3. Rows(p) \in Seq(Nat) /\ Len(Rows(p)) = p.n
  BY RowsType
<1>4. <<>> \o Rows(p) = Rows(p)
  BY <1>3, ConcatEmptySeq
<1> QED BY <1>1, <1>2, <1>3, <1>4, AllRowsEmpty DEF RecordCount

LEMMA BackSplits ==
  ASSUME NEW ps \in Seq(Packets), NEW i \in 1..Len(ps)
  PROVE  /\ ps[i] \in Packets
         /\ AllRows(Back(ps, i)) = Rows(ps[i]) \o AllRows(Back(ps, i + 1))
         /\ RecordCount(Back(ps, i)) = ps[i].n + RecordCount(Back(ps, i + 1))
<1>1. ps[i] \in Packets /\ Len(ps) \in Nat /\ i + 1 \in 1..(Len(ps) + 1)
  OBVIOUS
<1>2. Back(ps, i + 1) \in Seq(Packets) /\ <<ps[i]>> \in Seq(Packets)
  BY <1>1, BackFacts, OneRow
<1>3. Back(ps, i) = <<ps[i]>> \o Back(ps, i + 1)
  <2>1. SubSeq(ps, i, i) \o SubSeq(ps, i + 1, Len(ps)) = SubSeq(ps, i, Len(ps))
    <3>1. i \in 1..(Len(ps) + 1) /\ i \in (i - 1)..Len(ps) /\ Len(ps) \in i..Len(ps)
      BY <1>1
    <3> QED BY <3>1, ConcatAdjacentSubSeq, Zenon
  <2>2. SubSeq(ps, i, i) = <<ps[i]>>
    <3>1. PICK x : x = SubSeq(ps, i, i)
      OBVIOUS
    <3>2. \A j \in i..i : ps[j] \in Packets
      BY <1>1
    <3>3. x \in Seq(Packets) /\ Len(x) = 1 /\ x[1] = ps[i]
      <4>1. /\ SubSeq(ps, i, i) \in Seq(Packets)
            /\ Len(SubSeq(ps, i, i)) = IF i <= i THEN i - i + 1 ELSE 0
            /\ \A j \in 1..(i - i + 1) : SubSeq(ps, i, i)[j] = ps[i + j - 1]
        BY <3>2, SubSeqProperties
      <4>2. i - i + 1 = 1 /\ i + 1 - 1 = i /\ 1 \in 1..1
        OBVIOUS
      <4> QED BY <3>1, <4>1, <4>2
    <3>4. x = <<ps[i]>>
      <4>1. Len(<<ps[i]>>) = 1 /\ <<ps[i]>>[1] = ps[i]
        OBVIOUS
      <4>2. \A j \in 1..Len(x) : x[j] = <<ps[i]>>[j]
        BY <3>3, <4>1
      <4> QED BY <1>2, <3>3, <4>1, <4>2, SeqEqual
    <3> QED BY <3>1, <3>4
  <2> QED BY <2>1, <2>2 DEF Back
<1> QED BY <1>1, <1>2, <1>3, AllRowsConcat, OneRow

(* s is what w ends with. *)
Ends(s, w) == s \in Seq(Nat) /\ \E h \in Seq(Nat) : w = h \o s

LEMMA EndsTwice ==
  ASSUME NEW s, NEW v, NEW w, Ends(s, v), Ends(v, w)
  PROVE  Ends(s, w)
<1>1. PICK g \in Seq(Nat) : v = g \o s
  BY DEF Ends
<1>2. PICK h \in Seq(Nat) : w = h \o v
  BY DEF Ends
<1>3. s \in Seq(Nat)
  BY DEF Ends
<1>4. h \o g \in Seq(Nat) /\ (h \o g) \o s = h \o (g \o s)
  <2>1. h \o g \in Seq(Nat)
    BY ConcatProperties
  <2>2. (h \o g) \o s = h \o (g \o s)
    BY <1>3, ConcatAssociative
  <2> QED BY <2>1, <2>2
<1>5. w = (h \o g) \o s
  BY <1>1, <1>2, <1>4, Zenon
<1> QED BY <1>3, <1>4, <1>5, Zenon DEF Ends

LEMMA ReverseIs ==
  ASSUME NEW s \in Seq(Nat)
  PROVE  /\ Reverse(s) \in Seq(Nat) /\ Len(Reverse(s)) = Len(s)
         /\ \A i \in 1..Len(s) : Reverse(s)[i] = s[(Len(s) - i) + 1]
<1>1. \A i \in 1..Len(s) : s[(Len(s) - i) + 1] \in Nat
  <2>1. \A i \in 1..Len(s) : (Len(s) - i) + 1 \in 1..Len(s)
    OBVIOUS
  <2> QED BY <2>1
<1> QED BY <1>1 DEF Reverse

LEMMA EndsBy ==
  ASSUME NEW s, NEW w, Ends(s, w)
  PROVE  /\ Len(s) \in Nat /\ Len(w) \in Nat /\ Len(s) <= Len(w)
         /\ s = SubSeq(w, (Len(w) - Len(s)) + 1, Len(w)) /\ IsSuffix(s, w)
<1>1. s \in Seq(Nat)
  BY DEF Ends
<1>2. PICK h \in Seq(Nat) : IsCat(w, h, s)
  BY DEF Ends, IsCat
<1>3. Joined(w, h, s)
  BY <1>1, <1>2, CatIs
<1>4. PICK a, b, c : a = Len(h) /\ b = Len(s) /\ c = Len(w)
  OBVIOUS
<1>5. /\ a \in Nat /\ b \in Nat /\ c = a + b /\ w \in Seq(Nat)
      /\ \A i \in 1..b : w[a + i] = s[i]
  BY <1>3, <1>4 DEF Joined
<1>6. c \in Nat /\ b <= c /\ a <= c /\ c - b = a /\ c - a = b
  BY <1>5
<1>7. s = SubSeq(w, a + 1, c)
  <2>1. PICK x : IsPart(x, w, a, c)
    BY DEF IsPart
  <2>2. PartOf(x, w, a, c)
    <3>1. c <= Len(w)
      BY <1>4, <1>6
    <3> QED BY <1>5, <1>6, <2>1, <3>1, PartIs
  <2>3. x \in Seq(Nat) /\ Len(x) = b /\ \A i \in 1..b : x[i] = w[a + i]
    BY <1>6, <2>2 DEF PartOf
  <2>4. \A i \in 1..b : x[i] = s[i]
    BY <1>5, <2>3
  <2>5. x = s
    BY <1>1, <1>4, <2>3, <2>4, SeqEqual
  <2> QED BY <2>1, <2>5 DEF IsPart
<1>8. IsSuffix(s, w)
  <2>1. PICK y, z : y = Reverse(s) /\ z = Reverse(w)
    OBVIOUS
  <2>2. /\ y \in Seq(Nat) /\ Len(y) = b /\ \A i \in 1..b : y[i] = s[(b - i) + 1]
    BY <1>1, <1>4, <2>1, ReverseIs
  <2>3. /\ z \in Seq(Nat) /\ Len(z) = c /\ \A i \in 1..c : z[i] = w[(c - i) + 1]
    <3>1. w \in Seq(Nat) /\ c = Len(w) /\ z = Reverse(w)
      BY <1>4, <1>5, <2>1
    <3> QED BY <3>1, ReverseIs
  <2>4. \A i \in 1..b : y[i] = z[i]
    <3>1. SUFFICES ASSUME NEW i \in 1..b PROVE y[i] = z[i]
      OBVIOUS
    <3>2. i \in 1..c /\ (b - i) + 1 \in 1..b /\ a + ((b - i) + 1) = (c - i) + 1
      BY <1>5, <1>6
    <3>3. w[a + ((b - i) + 1)] = s[(b - i) + 1]
      BY <1>5, <3>2
    <3> QED BY <2>2, <2>3, <3>2, <3>3
  <2>5. SubSeq(y, 1, b) = y
    BY <2>2, SubSeqFull
  <2>6. SubSeq(z, 1, b) = y
    <3>1. PICK x : IsFront(x, z, b)
      BY DEF IsFront
    <3>2. PartOf(x, z, 0, b)
      BY <1>5, <1>6, <2>3, <3>1, FrontIs
    <3>3. b - 0 = b /\ \A i \in Nat : 0 + i = i
      BY <1>5
    <3>4. x \in Seq(Nat) /\ Len(x) = b /\ \A i \in 1..b : x[i] = z[i]
      BY <3>2, <3>3 DEF PartOf
    <3>5. \A i \in 1..b : x[i] = y[i]
      BY <2>4, <3>4
    <3>6. x = y
      BY <2>2, <3>4, <3>5, SeqEqual
    <3> QED BY <3>1, <3>6 DEF IsFront
  <2> QED BY <1>6, <2>1, <2>2, <2>3, <2>5, <2>6 DEF IsSuffix, IsPrefix
<1> QED BY <1>4, <1>5, <1>6, <1>7, <1>8

LEMMA RowsEnd ==
  ASSUME NEW h \in Seq(Packets), NEW ps \in Seq(Packets)
  PROVE  Ends(AllRows(ps), AllRows(h \o ps))
<1>1. AllRows(h \o ps) = AllRows(h) \o AllRows(ps) /\ AllRows(h) \in Seq(Nat) /\ AllRows(ps) \in Seq(Nat)
  BY AllRowsConcat, AllRowsType
<1> QED BY <1>1 DEF Ends

(* Where Recent starts. *)
Newest(ps, r, i) ==
    /\ RecordCount(SubSeq(ps, i, Len(ps))) >= r
    /\ i = Len(ps) \/ RecordCount(SubSeq(ps, i + 1, Len(ps))) < r

LEMMA NewestExists ==
  ASSUME NEW ps \in Seq(Packets), NEW r \in 1..RecordCount(ps)
  PROVE  \E i \in 1..Len(ps) : Newest(ps, r, i)
<1> DEFINE T == {k \in Nat : k <= Len(ps) /\ RecordCount(Back(ps, k + 1)) < r}
<1>1. Len(ps) \in Nat /\ RecordCount(ps) \in Nat /\ r \in Nat \ {0} /\ r <= RecordCount(ps)
  BY AllRowsType
<1>2. Len(ps) \in T
  <2>1. Len(ps) + 1 \in 1..(Len(ps) + 1)
    BY <1>1
  <2>2. RecordCount(Back(ps, Len(ps) + 1)) = 0
    BY <2>1, BackFacts
  <2> QED BY <1>1, <2>2
<1>3. PICK k \in T : \A j \in T : k <= j
  BY <1>2, NatLeast
<1>4. k \in Nat /\ k <= Len(ps) /\ RecordCount(Back(ps, k + 1)) < r
  BY <1>3
<1>5. k # 0
  <2>1. SUFFICES ASSUME k = 0 PROVE FALSE
    OBVIOUS
  <2>2. 1 \in 1..(Len(ps) + 1) /\ k + 1 = 1
    BY <1>1, <2>1
  <2>3. Back(ps, 1) = ps
    BY <2>2, BackFacts
  <2> QED BY <1>1, <1>4, <2>2, <2>3
<1>6. RecordCount(Back(ps, k)) >= r
  <2>1. k - 1 \in Nat /\ k - 1 <= Len(ps) /\ (k - 1) + 1 = k /\ ~(k <= k - 1) /\ k \in 1..(Len(ps) + 1)
    BY <1>1, <1>4, <1>5
  <2>2. k - 1 \notin T
    BY <1>3, <2>1
  <2>3. RecordCount(Back(ps, k)) \in Nat
    BY <2>1, BackFacts
  <2> QED BY <1>1, <2>1, <2>2, <2>3
<1>7. k \in 1..Len(ps)
  BY <1>1, <1>4, <1>5
<1> QED BY <1>4, <1>6, <1>7 DEF Newest, Back

(* History::recent gives the newest r records, with their own indices.     *)
LEMMA RecentExact ==
  ASSUME NEW ps \in Seq(Packets), NEW r \in 1..RecordCount(ps)
  PROVE  Ends(AllRows(Recent(ps, r)), AllRows(ps)) /\ Len(AllRows(Recent(ps, r))) = r
<1>1. PICK i : i = CHOOSE j \in 1..Len(ps) : Newest(ps, r, j)
  OBVIOUS
<1>2. i \in 1..Len(ps) /\ Newest(ps, r, i)
  BY <1>1, NewestExists
<1>3. PICK x : x = RecordCount(Back(ps, i)) - r
  OBVIOUS
<1>4. PICK q : q = [first |-> SampleIndex(ps[i].first, x), n |-> ps[i].n - x]
  OBVIOUS
<1>5. Recent(ps, r) = <<q>> \o Back(ps, i + 1)
  BY <1>1, <1>3, <1>4, Zenon DEF Recent, Newest, Back
<1>6. Len(ps) \in Nat /\ i \in Nat /\ i \in 1..(Len(ps) + 1) /\ i + 1 \in 1..(Len(ps) + 1) /\ r \in Nat
      /\ r # 0 /\ RecordCount(ps) \in Nat
  BY <1>2, AllRowsType
<1>7. /\ ps[i] \in Packets
      /\ AllRows(Back(ps, i)) = Rows(ps[i]) \o AllRows(Back(ps, i + 1))
      /\ RecordCount(Back(ps, i)) = ps[i].n + RecordCount(Back(ps, i + 1))
  BY <1>2, BackSplits
<1>8. PICK y, v, b, n : y = AllRows(Back(ps, i + 1)) /\ v = Rows(ps[i])
                        /\ b = RecordCount(Back(ps, i + 1)) /\ n = ps[i].n
  OBVIOUS
<1>9. y \in Seq(Nat) /\ b \in Nat /\ b = Len(y) /\ Back(ps, i + 1) \in Seq(Packets)
  BY <1>6, <1>8, BackFacts
<1>10. n \in Nat \ {0} /\ v \in Seq(Nat) /\ Len(v) = n
  BY <1>7, <1>8, RowsType
<1>11. RecordCount(Back(ps, i)) = n + b /\ n + b >= r /\ b < r
  <2>1. RecordCount(Back(ps, i)) = n + b
    BY <1>7, <1>8
  <2>2. RecordCount(Back(ps, i)) >= r /\ (i = Len(ps) \/ RecordCount(Back(ps, i + 1)) < r)
    BY <1>2 DEF Newest, Back
  <2>3. i = Len(ps) => b = 0
    BY <1>6, <1>8, BackFacts
  <2> QED BY <1>6, <1>8, <2>1, <2>2, <2>3
<1>12. x \in 0..(n - 1) /\ x = (n + b) - r
  BY <1>3, <1>6, <1>9, <1>10, <1>11
<1>13. q \in Packets /\ Rows(q) = SubSeq(v, x + 1, n)
  BY <1>4, <1>7, <1>8, <1>12, Trimmed
<1>14. PICK t, g : t = SubSeq(v, x + 1, n) /\ g = SubSeq(v, 1, x)
  OBVIOUS
<1>15. x \in Nat /\ x <= n /\ n \in Nat /\ n <= Len(v)
  BY <1>10, <1>12
<1>16. t \in Seq(Nat) /\ Len(t) = n - x
  <2>1. SubSeq(v, x + 1, n) \in Seq(Nat) /\ Len(SubSeq(v, x + 1, n)) = n - x
    BY <1>10, <1>15, Part
  <2> QED BY <1>14, <2>1
<1>17. g \in Seq(Nat) /\ v = g \o t
  <2>1. SubSeq(v, 1, x) \o SubSeq(v, x + 1, n) = SubSeq(v, 1, n)
    <3>1. 1 \in 1..(Len(v) + 1) /\ x \in (1 - 1)..Len(v) /\ n \in x..Len(v)
      BY <1>10, <1>15
    <3> QED BY <1>10, <3>1, ConcatAdjacentSubSeq, Zenon
  <2>2. SubSeq(v, 1, n) = v
    BY <1>10, SubSeqFull
  <2>3. g \in Seq(Nat)
    BY <1>10, <1>14, <1>15
  <2> QED BY <1>14, <2>1, <2>2, <2>3
<1>18. AllRows(Recent(ps, r)) = t \o y
  <2>1. <<q>> \in Seq(Packets) /\ AllRows(<<q>>) = Rows(q)
    BY <1>13, OneRow
  <2>2. AllRows(<<q>> \o Back(ps, i + 1)) = AllRows(<<q>>) \o AllRows(Back(ps, i + 1))
    BY <1>9, <2>1, AllRowsConcat
  <2> QED BY <1>5, <1>8, <1>13, <1>14, <2>1, <2>2
<1>19. t \o y \in Seq(Nat) /\ Len(t \o y) = (n - x) + b
  BY <1>9, <1>16, Cat
<1>20. (n - x) + b = r
  BY <1>6, <1>9, <1>10, <1>12
<1>21. AllRows(Back(ps, i)) = g \o (t \o y)
  <2>1. (g \o t) \o y = g \o (t \o y)
    BY <1>9, <1>16, <1>17, Cat
  <2> QED BY <1>7, <1>8, <1>17, <2>1
<1>22. Ends(t \o y, AllRows(Back(ps, i)))
  BY <1>17, <1>19, <1>21 DEF Ends
<1>23. Ends(AllRows(Back(ps, i)), AllRows(ps))
  <2>1. Back(ps, i) \in Seq(Packets) /\ \E h \in Seq(Packets) : ps = h \o Back(ps, i)
    BY <1>6, BackFacts
  <2>2. PICK h \in Seq(Packets) : ps = h \o Back(ps, i)
    BY <2>1
  <2>3. Ends(AllRows(Back(ps, i)), AllRows(h \o Back(ps, i)))
    BY <2>1, RowsEnd
  <2> QED BY <2>2, <2>3
<1> QED BY <1>18, <1>19, <1>20, <1>22, <1>23, EndsTwice

(* Where Push cuts. *)
Fitting(all, capacity, i) ==
    /\ i = Len(all) \/ RecordCount(SubSeq(all, i, Len(all))) <= capacity
    /\ \A j \in 1..(i - 1) : RecordCount(SubSeq(all, j, Len(all))) > capacity

LEMMA FittingExists ==
  ASSUME NEW all \in Seq(Packets), all # <<>>, NEW capacity \in Nat
  PROVE  \E i \in 1..Len(all) : Fitting(all, capacity, i)
<1> DEFINE T == {i \in Nat : i \in 1..Len(all) /\ (i = Len(all) \/ RecordCount(Back(all, i)) <= capacity)}
<1>1. Len(all) \in T
  OBVIOUS
<1>2. PICK i \in T : \A j \in T : i <= j
  BY <1>1, NatLeast
<1>3. i \in 1..Len(all) /\ i \in Nat /\ Len(all) \in Nat
  BY <1>2
<1>4. \A j \in 1..(i - 1) : RecordCount(Back(all, j)) > capacity
  <2>1. SUFFICES ASSUME NEW j \in 1..(i - 1) PROVE RecordCount(Back(all, j)) > capacity
    OBVIOUS
  <2>2. j \in Nat /\ j \in 1..Len(all) /\ ~(i <= j) /\ j \in 1..(Len(all) + 1)
    BY <1>3
  <2>3. ~(RecordCount(Back(all, j)) <= capacity)
    BY <1>2, <2>2
  <2>4. RecordCount(Back(all, j)) \in Nat
    BY <2>2, BackFacts
  <2> QED BY <2>3, <2>4
<1>5. i = Len(all) \/ RecordCount(Back(all, i)) <= capacity
  BY <1>2
<1> QED BY <1>3, <1>4, <1>5 DEF Fitting, Back

LEMMA PushKeeps ==
  ASSUME NEW ps \in Seq(Packets), NEW p \in Packets, NEW capacity \in Nat
  PROVE  /\ Push(ps, p, capacity) \in Seq(Packets)
         /\ \E h \in Seq(Packets) : Append(ps, p) = h \o Push(ps, p, capacity)
         /\ RecordCount(Push(ps, p, capacity)) <= capacity \/ Len(Push(ps, p, capacity)) = 1
<1>1. PICK all : all = Append(ps, p)
  OBVIOUS
<1>2. all \in Seq(Packets) /\ all # <<>> /\ Len(all) \in Nat
  BY <1>1, AppendProperties
<1>3. PICK i : i = CHOOSE j \in 1..Len(all) : Fitting(all, capacity, j)
  OBVIOUS
<1>4. i \in 1..Len(all) /\ Fitting(all, capacity, i)
  BY <1>2, <1>3, FittingExists
<1>5. Push(ps, p, capacity) = Back(all, i)
  BY <1>1, <1>3, Zenon DEF Push, Fitting, Back
<1>6. i \in 1..(Len(all) + 1)
  BY <1>2, <1>4
<1>7. /\ Back(all, i) \in Seq(Packets) /\ Len(Back(all, i)) = (Len(all) - i) + 1
      /\ \E h \in Seq(Packets) : all = h \o Back(all, i)
  BY <1>2, <1>6, BackFacts
<1>8. RecordCount(Back(all, i)) <= capacity \/ Len(Back(all, i)) = 1
  <2>1. i = Len(all) => Len(Back(all, i)) = 1
    BY <1>2, <1>7
  <2> QED BY <1>4, <2>1 DEF Fitting, Back
<1> QED BY <1>1, <1>5, <1>7, <1>8

LEMMA AppendLater ==
  ASSUME NEW u \in Seq(Packets), NEW v \in Seq(Packets), NEW p \in Packets
  PROVE  Append(u \o v, p) = u \o Append(v, p)
  OBVIOUS

LEMMA WindowProcess ==
  ASSUME Types, Window, ProcessPacket
  PROVE  Window'
<1>1. /\ running /\ running' = running /\ started' = started /\ started \in Sessions
      /\ Sent \in Seq(Packets) /\ NextPacket \in Packets
  BY PacketProcessed
<1>2. CASE UNCHANGED <<history, delivered>>
  BY <1>1, <1>2 DEF Window
<1>3. CASE /\ history' = Push(history, NextPacket, Capacity[started])
           /\ delivered' = [delivered EXCEPT ![started] = Append(Sent, NextPacket)]
  <2>1. PICK p \in Packets : p = NextPacket
    BY <1>1
  <2>2. PICK c \in Nat : c = Capacity[started]
    BY <1>1, RecorderAssumption DEF Sessions
  <2>3. history \in Seq(Packets) /\ \E h \in Seq(Packets) : Sent = h \o history
    <3>1. CASE history = <<>>
      <4>1. Sent = Sent \o <<>> /\ <<>> \in Seq(Packets)
        BY <1>1, ConcatEmptySeq, EmptySeq
      <4> QED BY <1>1, <3>1, <4>1
    <3>2. CASE history # <<>>
      BY <3>2 DEF Window, Sent
    <3> QED BY <3>1, <3>2
  <2>4. PICK h \in Seq(Packets) : Sent = h \o history
    BY <2>3
  <2>5. PICK new : new = Push(history, p, c)
    OBVIOUS
  <2>6. /\ new \in Seq(Packets) /\ (RecordCount(new) <= c \/ Len(new) = 1)
        /\ \E g \in Seq(Packets) : Append(history, p) = g \o new
    BY <2>3, <2>5, PushKeeps
  <2>7. PICK g \in Seq(Packets) : Append(history, p) = g \o new
    BY <2>6
  <2>8. h \o g \in Seq(Packets) /\ Append(Sent, p) = (h \o g) \o new
    <3>0. history \in Seq(Packets) /\ new \in Seq(Packets)
      BY <2>3, <2>6
    <3>1. Append(h \o history, p) = h \o Append(history, p)
      BY <3>0, AppendLater, Zenon
    <3>2. h \o (g \o new) = (h \o g) \o new
      BY <3>0, ConcatAssociative
    <3>3. h \o g \in Seq(Packets)
      BY ConcatProperties, Zenon
    <3> QED BY <2>4, <2>7, <3>1, <3>2, <3>3
  <2>9. delivered'[started'] = Append(Sent, p)
    BY <1>1, <1>3, <2>1, DeliveredAfter
  <2>10. history' = new /\ new \in Seq(Packets) /\ Capacity[started'] = c
         /\ (RecordCount(new) <= c \/ Len(new) = 1)
    <3>1. history' = new
      BY <1>3, <2>1, <2>2, <2>5
    <3>2. new \in Seq(Packets) /\ (RecordCount(new) <= c \/ Len(new) = 1)
      BY <2>6
    <3> QED BY <1>1, <2>2, <3>1, <3>2
  <2> QED BY <1>1, <2>8, <2>9, <2>10 DEF Window
<1> QED BY <1>2, <1>3, PacketProcessed

LEMMA WindowStep ==
  ASSUME Types, Window, [Next]_vars
  PROVE  Window'
<1>1. ASSUME UNCHANGED <<history, running, started, delivered>> PROVE Window'
  BY <1>1 DEF Window
<1>2. ASSUME history' = <<>> PROVE Window'
  BY <1>2 DEF Window
<1>3. ASSUME UNCHANGED vars PROVE Window'
  BY <1>1, <1>3 DEF vars, brokerState, ghosts
<1>4. ASSUME NEW c \in Callers, Enqueue(c) \/ SendFails(c) PROVE Window'
  BY <1>1, <1>4 DEF Enqueue, SendFails, brokerState, ghosts
<1>5. ASSUME NEW t \in Sessions, StartCall(t) PROVE Window'
  <2>1. history = <<>> /\ history' = history
    BY <1>5 DEF StartCall, brokerState, Window
  <2> QED BY <1>2, <2>1
<1>6. ASSUME NEW reason \in StopReasons, StopCall(reason) PROVE Window'
  BY <1>2, <1>6 DEF StopCall
<1>7. ASSUME StartDone \/ Crash PROVE Window'
  BY <1>2, <1>7 DEF StartDone, Crash
<1>8. ASSUME StopDone \/ Monitor \/ ShutdownBegin \/ ShutdownStop \/ ShutdownRecording \/ Exit
      PROVE  Window'
  BY <1>1, <1>8 DEF StopDone, Monitor, ShutdownBegin, ShutdownStop, ShutdownRecording, Exit,
                    brokerState, ghosts
<1>9. ASSUME Worker PROVE Window'
  <2>1. Quiet
    BY <1>9 DEF Worker, Receive, OpenSegment, AppendRows, AppendPacket, Finalise, Rename
  <2> QED BY <1>1, <2>1 DEF Quiet, brokerState, ghosts
<1>10. ASSUME Ended PROVE Window'
  BY <1>3, <1>10 DEF Ended
<1> QED BY <1>3, <1>4, <1>5, <1>6, <1>7, <1>8, <1>9, <1>10, WindowProcess DEF Next

LEMMA WindowInit == Init => Window
  BY DEF Init, Booted, Window

LEMMA WindowImpliesReplay ==
  ASSUME Types, Window
  PROVE  ReplayExact
<1>1. SUFFICES ASSUME history # <<>>
      PROVE  LET all == AllRows(history)
                 sent == AllRows(delivered[started])
             IN  /\ Len(all) <= Capacity[started] \/ Len(history) = 1
                 /\ IsSuffix(all, sent)
                 /\ \A r \in 1..Len(all) :
                       AllRows(Recent(history, r)) = SubSeq(sent, Len(sent) - r + 1, Len(sent))
  BY DEF ReplayExact
<1>2. PICK all, sent : all = AllRows(history) /\ sent = AllRows(delivered[started])
  OBVIOUS
<1>3. history \in Seq(Packets) /\ \E h \in Seq(Packets) : delivered[started] = h \o history
  BY <1>1 DEF Window
<1>4. Ends(all, sent)
  BY <1>2, <1>3, RowsEnd
<1>5. Len(all) <= Capacity[started] \/ Len(history) = 1
  BY <1>1, <1>2 DEF Window, RecordCount
<1>6. IsSuffix(all, sent)
  BY <1>4, EndsBy
<1>7. ASSUME NEW r \in 1..Len(all)
      PROVE  AllRows(Recent(history, r)) = SubSeq(sent, Len(sent) - r + 1, Len(sent))
  <2>1. PICK x : x = AllRows(Recent(history, r))
    OBVIOUS
  <2>2. r \in 1..RecordCount(history)
    BY <1>2 DEF RecordCount
  <2>3. Ends(x, all) /\ Len(x) = r
    BY <1>2, <1>3, <2>1, <2>2, RecentExact
  <2>4. Ends(x, sent)
    BY <1>4, <2>3, EndsTwice
  <2>5. x = SubSeq(sent, (Len(sent) - Len(x)) + 1, Len(sent))
    BY <2>4, EndsBy
  <2> QED BY <2>1, <2>3, <2>5
<1> QED BY <1>2, <1>5, <1>6, <1>7

(* A client that joins is replayed exactly the newest records it asks for, *)
(* with their own sample indices (History::recent trims the oldest packet  *)
(* and moves its first index, which wraps), and History::push keeps the    *)
(* window within its capacity unless one packet alone exceeds it: for all  *)
(* packet sizes, capacities, decimations and index widths.                 *)
THEOREM ReplayIsExact == Spec => []ReplayExact
<1>1. Init => Types /\ Window
  BY InitTypes, WindowInit
<1>2. Types /\ Window /\ [Next]_vars => (Types /\ Window)'
  BY TypesStep, WindowStep
<1>3. Types /\ Window => ReplayExact
  BY WindowImpliesReplay
<1> QED BY <1>1, <1>2, <1>3, PTL DEF Spec
=============================================================================
