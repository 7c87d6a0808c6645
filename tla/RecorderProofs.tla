---------------------------- MODULE RecorderProofs ----------------------------
(***************************************************************************)
(* Proofs about the JSONL recorder: what its two files hold, whatever is   *)
(* killed, torn or lost on the way.                                        *)
(*                                                                         *)
(* The argument is about streams: the stream of a file is what the file    *)
(* holds followed by what its writer still holds.  Every step leaves a     *)
(* stream alone, adds one record to it or cuts it to one of its starts     *)
(* (Moves), and the file is always a start of its stream.  Five invariants *)
(* are carried over these steps: the order of the pieces (Ordered), what   *)
(* has been acknowledged is there (Acks), how many lines are torn (Torn),  *)
(* which hints wait (Undamaged), what is not synced (RiskBounded).         *)
(***************************************************************************)
EXTENDS Recorder, FiniteSetTheorems, SequenceTheorems, TLAPS

(* The states of the recorder, with the shape of the pieces; whoever writes *)
(* a snapshot has been given one.                                           *)
Piece == Nat \X {"head", "tail"}

stream(f) == file[f] \o buf[f]

IsStart(s, t) == Len(s) <= Len(t) /\ \A i \in 1 .. Len(s) : s[i] = t[i]

Ops == {"idle", "hint", "flush1", "flush2", "sync", "close2", "closeSync"} \union Stopped

Types ==
    /\ file \in [Files -> Seq(Piece)]
    /\ buf \in [Files -> Seq(Piece)]
    /\ synced \in [Files -> Nat]
    /\ \A f \in Files : synced[f] <= Len(file[f])
    /\ broken \subseteq Files
    /\ writes \in Nat /\ given \in 0 .. MaxSnapshots /\ reopens \in Nat /\ missed \in Nat
    /\ op \in Ops
    /\ op \in {"hint", "flush1", "flush2", "sync"} => given > 0
    /\ acked \subseteq 1 .. given
    /\ damaged \in BOOLEAN

LEMMA RecordIsSeq ==
    ASSUME NEW n \in Nat
    PROVE  /\ Record(n) \in Seq(Piece)
           /\ Len(Record(n)) = 2
           /\ Record(n)[1] = <<n, "head">> /\ Record(n)[2] = <<n, "tail">>
BY DEF Record, Piece

LEMMA Regroup ==
    ASSUME NEW s \in Seq(Piece), NEW t \in Seq(Piece), NEW u \in Seq(Piece)
    PROVE  (s \o t) \o u = s \o (t \o u)
OBVIOUS

LEMMA SplitAt ==
    ASSUME NEW s \in Seq(Piece), NEW b \in Seq(Piece), NEW k \in 0 .. Len(b)
    PROVE  /\ SubSeq(b, 1, k) \in Seq(Piece)
           /\ SubSeq(b, k + 1, Len(b)) \in Seq(Piece)
           /\ s \o SubSeq(b, 1, k) \in Seq(Piece)
           /\ (s \o SubSeq(b, 1, k)) \o SubSeq(b, k + 1, Len(b)) = s \o b
           /\ IsStart(s, s \o SubSeq(b, 1, k))
           /\ IsStart(s \o SubSeq(b, 1, k), s \o b)
<1>1. /\ SubSeq(b, 1, k) \in Seq(Piece) /\ Len(SubSeq(b, 1, k)) = k
      /\ \A i \in 1 .. k : SubSeq(b, 1, k)[i] = b[i]
  <2>1. \A i \in 1 .. k : b[i] \in Piece
    BY ElementOfSeq
  <2> QED
    BY <2>1
<1>2. /\ SubSeq(b, k + 1, Len(b)) \in Seq(Piece) /\ Len(SubSeq(b, k + 1, Len(b))) = Len(b) - k
      /\ \A i \in 1 .. Len(b) - k : SubSeq(b, k + 1, Len(b))[i] = b[k + i]
  OBVIOUS
<1>3. s \o SubSeq(b, 1, k) \in Seq(Piece) /\ s \o b \in Seq(Piece)
  BY <1>1
<1>4. (s \o SubSeq(b, 1, k)) \o SubSeq(b, k + 1, Len(b)) = s \o b
  <2>1. SubSeq(b, 1, k) \o SubSeq(b, k + 1, Len(b)) = b
    <3>1. 1 \in 1 .. Len(b) + 1 /\ k \in 1 - 1 .. Len(b) /\ Len(b) \in k .. Len(b)
      OBVIOUS
    <3>2. SubSeq(b, 1, k) \o SubSeq(b, k + 1, Len(b)) = SubSeq(b, 1, Len(b))
      BY <3>1, ConcatAdjacentSubSeq, Zenon
    <3>3. SubSeq(b, 1, Len(b)) = b
      BY SubSeqFull, Zenon
    <3> QED
      BY <3>2, <3>3
  <2>2. (s \o SubSeq(b, 1, k)) \o SubSeq(b, k + 1, Len(b)) = s \o (SubSeq(b, 1, k) \o SubSeq(b, k + 1, Len(b)))
    BY <1>1, <1>2, Regroup
  <2> QED
    BY <2>1, <2>2
<1>5. IsStart(s, s \o SubSeq(b, 1, k)) /\ IsStart(s \o SubSeq(b, 1, k), s \o b)
  BY <1>1 DEF IsStart
<1> QED
  BY <1>1, <1>2, <1>3, <1>4, <1>5

(* What a buffered write does: the stream of pieces grows by what is        *)
(* written, the file by a start of what was waiting.                        *)
LEMMA PutGrows ==
    ASSUME Types, NEW f \in Files, NEW more \in Seq(Piece), NEW k \in Nat,
           k <= Len(buf[f]) + Len(more), NEW ok, put(f, more, k, ok)
    PROVE  /\ file' \in [Files -> Seq(Piece)] /\ buf' \in [Files -> Seq(Piece)]
           /\ stream(f)' = stream(f) \o more
           /\ IsStart(file[f], file'[f]) /\ IsStart(file'[f], stream(f) \o more)
           /\ k = Len(buf[f]) + Len(more) => file'[f] = stream(f) \o more /\ buf'[f] = <<>>
           /\ \A g \in Files \ {f} : file'[g] = file[g] /\ buf'[g] = buf[g]
<1> DEFINE b == buf[f] \o more
<1>1. file[f] \in Seq(Piece) /\ buf[f] \in Seq(Piece) /\ b \in Seq(Piece) /\ Len(b) = Len(buf[f]) + Len(more)
  BY DEF Types
<1>2. k \in 0 .. Len(b)
  BY <1>1
<1>3. /\ file' = [file EXCEPT ![f] = file[f] \o SubSeq(b, 1, k)]
      /\ buf' = [buf EXCEPT ![f] = SubSeq(b, k + 1, Len(b))]
  BY DEF put, remaining, Types
<1>4. stream(f) \o more = file[f] \o b
  <2>1. (file[f] \o buf[f]) \o more = file[f] \o (buf[f] \o more)
    BY <1>1, Regroup
  <2> QED
    BY <2>1 DEF stream
<1> HIDE DEF b
<1>5. file'[f] = file[f] \o SubSeq(b, 1, k) /\ buf'[f] = SubSeq(b, k + 1, Len(b))
  BY <1>3 DEF Types
<1>6. /\ file'[f] \in Seq(Piece) /\ buf'[f] \in Seq(Piece)
      /\ file'[f] \o buf'[f] = file[f] \o b
      /\ IsStart(file[f], file'[f]) /\ IsStart(file'[f], file[f] \o b)
  <2>1. file[f] \in Seq(Piece) /\ b \in Seq(Piece) /\ k \in 0 .. Len(b)
    BY <1>1, <1>2
  <2> DEFINE s == file[f]
  <2>2. s \in Seq(Piece)
    BY <1>1
  <2> HIDE DEF s
  <2>3. /\ SubSeq(b, k + 1, Len(b)) \in Seq(Piece)
        /\ s \o SubSeq(b, 1, k) \in Seq(Piece)
        /\ (s \o SubSeq(b, 1, k)) \o SubSeq(b, k + 1, Len(b)) = s \o b
        /\ IsStart(s, s \o SubSeq(b, 1, k)) /\ IsStart(s \o SubSeq(b, 1, k), s \o b)
    BY <2>1, <2>2, SplitAt
  <2> QED
    BY <1>5, <2>3 DEF s
<1>7. k = Len(b) => file'[f] = file[f] \o b /\ buf'[f] = <<>>
  <2>1. SubSeq(b, 1, Len(b)) = b /\ SubSeq(b, Len(b) + 1, Len(b)) = <<>>
    BY <1>1
  <2> QED
    BY <2>1, <1>5
<1> QED
  BY <1>1, <1>3, <1>4, <1>6, <1>7 DEF Types, stream

LEMMA FlushGrows ==
    ASSUME Types, NEW f \in Files, NEW next, NEW otherwise, Flush(f, next, otherwise)
    PROVE  /\ file' \in [Files -> Seq(Piece)] /\ buf' \in [Files -> Seq(Piece)]
           /\ stream(f)' = stream(f)
           /\ IsStart(file[f], file'[f]) /\ IsStart(file'[f], stream(f))
           /\ \A g \in Files \ {f} : file'[g] = file[g] /\ buf'[g] = buf[g]
           /\ synced' = synced /\ damaged' \in BOOLEAN
           /\ \/ /\ op' = next /\ f \notin broken /\ broken' = broken /\ damaged' = damaged
                 /\ file'[f] = stream(f) /\ buf'[f] = <<>>
              \/ op' = otherwise /\ f \in broken /\ UNCHANGED <<file, buf, broken, damaged>>
              \/ op' = otherwise /\ damaged' = TRUE /\ broken' = broken \union {f}
<1>1. /\ file[f] \in Seq(Piece) /\ buf[f] \in Seq(Piece) /\ stream(f) \in Seq(Piece)
      /\ <<>> \in Seq(Piece) /\ Len(<<>>) = 0 /\ stream(f) \o <<>> = stream(f)
      /\ IsStart(file[f], stream(f)) /\ IsStart(file[f], file[f])
  BY DEF Types, stream, IsStart
<1>2. CASE f \in broken /\ op' = otherwise /\ UNCHANGED <<disk, damaged>>
  BY <1>1, <1>2 DEF disk, stream, Types
<1>3. CASE f \notin broken /\ put(f, <<>>, Len(buf[f]), TRUE) /\ op' = next
  <2>1. Len(buf[f]) \in Nat /\ Len(buf[f]) <= Len(buf[f]) + Len(<<>>) /\ Len(buf[f]) = Len(buf[f]) + Len(<<>>)
    BY <1>1
  <2>2. /\ file' \in [Files -> Seq(Piece)] /\ buf' \in [Files -> Seq(Piece)]
        /\ stream(f)' = stream(f) \o <<>>
        /\ IsStart(file[f], file'[f]) /\ IsStart(file'[f], stream(f) \o <<>>)
        /\ file'[f] = stream(f) \o <<>> /\ buf'[f] = <<>>
        /\ \A g \in Files \ {f} : file'[g] = file[g] /\ buf'[g] = buf[g]
    BY <1>1, <1>3, <2>1, PutGrows
  <2>3. synced' = synced /\ broken' = broken /\ damaged' = damaged
    BY <1>3 DEF put, breaks, Types
  <2> QED
    BY <1>1, <1>3, <2>2, <2>3 DEF Types
<1>4. CASE /\ f \notin broken
           /\ \E k \in 0 .. Len(buf[f]) - 1 : put(f, <<>>, k, FALSE)
           /\ op' = otherwise
  <2>1. PICK k \in 0 .. Len(buf[f]) - 1 : put(f, <<>>, k, FALSE)
    BY <1>4
  <2>2. k \in Nat /\ k <= Len(buf[f]) + Len(<<>>)
    BY <1>1
  <2>3. /\ file' \in [Files -> Seq(Piece)] /\ buf' \in [Files -> Seq(Piece)]
        /\ stream(f)' = stream(f) \o <<>>
        /\ IsStart(file[f], file'[f]) /\ IsStart(file'[f], stream(f) \o <<>>)
        /\ \A g \in Files \ {f} : file'[g] = file[g] /\ buf'[g] = buf[g]
    BY <1>1, <2>1, <2>2, PutGrows
  <2>4. synced' = synced /\ broken' = broken \union {f} /\ damaged' = TRUE
    BY <2>1 DEF put, breaks, Types
  <2> QED
    BY <1>1, <1>4, <2>3, <2>4
<1> QED
  BY <1>2, <1>3, <1>4 DEF Flush

(* What EncodeSnapshot does to the snapshots.                               *)
LEMMA EncodeGrows ==
    ASSUME Types, NEW hinted \in BOOLEAN, NEW ok \in BOOLEAN, NEW k \in Nat,
           EncodeSnapshot(hinted, k, ok), "snapshots" \notin broken
    PROVE  /\ file' \in [Files -> Seq(Piece)] /\ buf' \in [Files -> Seq(Piece)]
           /\ stream("snapshots")' = stream("snapshots") \o Record(given')
           /\ IsStart(file["snapshots"], file'["snapshots"])
           /\ IsStart(file'["snapshots"], stream("snapshots")')
           /\ file'["hints"] = file["hints"] /\ buf'["hints"] = buf["hints"]
           /\ synced' = synced /\ damaged' = (damaged \/ ~ok)
           /\ broken' = IF ok THEN broken ELSE broken \union {"snapshots"}
           /\ op' = IF ~ok THEN "idle" ELSE IF hinted THEN "hint" ELSE "flush1"
<1>1. /\ k <= Len(buf["snapshots"]) + IF ok THEN 2 ELSE 1
      /\ put("snapshots", Record(given'), k, ok)
      /\ op' = IF ~ok THEN "idle" ELSE IF hinted THEN "hint" ELSE "flush1"
      /\ given' = given + 1
  BY DEF EncodeSnapshot
<1>2. given' \in Nat /\ Record(given') \in Seq(Piece) /\ Len(Record(given')) = 2
  <2>1. given' \in Nat
    BY <1>1 DEF Types
  <2> QED
    BY <2>1, RecordIsSeq
<1>3. k <= Len(buf["snapshots"]) + Len(Record(given')) /\ "snapshots" \in Files
  <2>1. Len(buf["snapshots"]) \in Nat /\ "snapshots" \in Files
    BY DEF Types, Files
  <2>2. k <= Len(buf["snapshots"]) + 2
    <3>1. CASE ok
      BY <1>1, <2>1, <3>1
    <3>2. CASE ~ok
      BY <1>1, <2>1, <3>2
    <3> QED
      BY <3>1, <3>2
  <2> QED
    BY <1>2, <2>1, <2>2
<1>4. /\ file' \in [Files -> Seq(Piece)] /\ buf' \in [Files -> Seq(Piece)]
      /\ stream("snapshots")' = stream("snapshots") \o Record(given')
      /\ IsStart(file["snapshots"], file'["snapshots"])
      /\ IsStart(file'["snapshots"], stream("snapshots") \o Record(given'))
      /\ \A g \in Files \ {"snapshots"} : file'[g] = file[g] /\ buf'[g] = buf[g]
  BY <1>1, <1>2, <1>3, PutGrows
<1> QED
  BY <1>1, <1>4 DEF put, breaks, Files

(* What EncodeHint does to the hints.                                       *)
LEMMA HintGrows ==
    ASSUME Types, EncodeHint, "hints" \notin broken
    PROVE  /\ file' = file /\ buf' \in [Files -> Seq(Piece)]
           /\ buf'["hints"] = buf["hints"] \o Record(given)
           /\ stream("hints")' = stream("hints") \o Record(given)
           /\ buf'["snapshots"] = buf["snapshots"]
           /\ UNCHANGED <<synced, broken, damaged>> /\ op' = "flush1"
<1>1. put("hints", Record(given), 0, TRUE) /\ op' = "flush1"
  BY DEF EncodeHint
<1>2. /\ Record(given) \in Seq(Piece) /\ buf["hints"] \in Seq(Piece) /\ file["hints"] \in Seq(Piece)
      /\ 0 \in Nat /\ "hints" \in Files /\ 0 <= Len(buf["hints"]) + Len(Record(given))
      /\ buf["hints"] \o Record(given) \in Seq(Piece)
  <2>1. given \in Nat
    BY RecorderAssumption DEF Types
  <2> QED
    BY <2>1, RecordIsSeq DEF Types, Files
<1>3. buf' \in [Files -> Seq(Piece)] /\ stream("hints")' = stream("hints") \o Record(given) /\ buf'["snapshots"] = buf["snapshots"]
  BY <1>1, <1>2, PutGrows DEF Files
<1> DEFINE b == buf["hints"] \o Record(given)
<1>4. SubSeq(b, 1, 0) = <<>> /\ SubSeq(b, 1, Len(b)) = b /\ file["hints"] \o <<>> = file["hints"]
  <2>1. b \in Seq(Piece)
    BY <1>2
  <2> QED
    BY <1>2, <2>1
<1>5. file' = file /\ buf'["hints"] = b
  BY <1>1, <1>2, <1>4 DEF put, remaining, Types
<1> QED
  BY <1>1, <1>3, <1>5 DEF put, breaks, Types

(* What Kill leaves of the files.                                           *)
LEMMA KillCuts ==
    ASSUME Types, Kill
    PROVE  /\ file' \in [Files -> Seq(Piece)] /\ buf' = Empty
           /\ \A f \in Files : /\ IsStart(file[f], file'[f]) /\ IsStart(file'[f], stream(f))
                               /\ stream(f)' = file'[f]
                               /\ file'[f] # file[f] => f \in writing \ broken
<1>1. \A f \in Files : /\ file[f] \in Seq(Piece) /\ buf[f] \in Seq(Piece)
                       /\ IsStart(file[f], file[f]) /\ IsStart(file[f], stream(f))
  BY DEF Types, IsStart, stream
<1>2. /\ file' \in [Files -> Seq(Piece)]
      /\ \A f \in Files : /\ IsStart(file[f], file'[f]) /\ IsStart(file'[f], stream(f))
                          /\ file'[f] # file[f] => f \in writing \ broken
  <2>1. CASE UNCHANGED file
    BY <1>1, <2>1 DEF Types
  <2>2. CASE \E f \in writing \ broken : \E k \in 1 .. Len(buf[f]) - 1 :
                 file' = [file EXCEPT ![f] = @ \o SubSeq(buf[f], 1, k)]
    <3>1. writing \subseteq Files
      BY DEF writing, flushed, Files
    <3>2. PICK f \in writing \ broken : \E k \in 1 .. Len(buf[f]) - 1 :
                 file' = [file EXCEPT ![f] = @ \o SubSeq(buf[f], 1, k)]
      BY <2>2
    <3>3. f \in Files
      BY <3>1, <3>2
    <3>8. PICK k \in 1 .. Len(buf[f]) - 1 : file' = [file EXCEPT ![f] = @ \o SubSeq(buf[f], 1, k)]
      BY <3>2
    <3> DEFINE s == file[f]  b == buf[f]
    <3>4. s \in Seq(Piece) /\ b \in Seq(Piece)
      BY <1>1, <3>3
    <3>5. file' = [file EXCEPT ![f] = s \o SubSeq(b, 1, k)] /\ k \in 1 .. Len(b) - 1 /\ s \o b = stream(f)
      BY <3>8 DEF stream
    <3> HIDE DEF s, b
    <3>6. k \in 0 .. Len(b)
      BY <3>4, <3>5
    <3>7. /\ s \o SubSeq(b, 1, k) \in Seq(Piece)
          /\ IsStart(s, s \o SubSeq(b, 1, k)) /\ IsStart(s \o SubSeq(b, 1, k), s \o b)
      BY <3>4, <3>6, SplitAt
    <3> QED
      BY <1>1, <3>2, <3>3, <3>5, <3>7 DEF Types, s
  <2> QED
    BY <2>1, <2>2 DEF Kill
<1>3. buf' = Empty /\ \A f \in Files : buf'[f] = <<>> /\ file'[f] \o <<>> = file'[f]
  BY <1>2 DEF Kill, Empty
<1> QED
  BY <1>2, <1>3 DEF stream

(* What PowerLoss leaves of the files.                                      *)
LEMMA PowerCuts ==
    ASSUME Types, PowerLoss
    PROVE  /\ file' \in [Files -> Seq(Piece)] /\ buf' = Empty /\ synced' \in [Files -> Nat]
           /\ \A f \in Files : /\ IsStart(file'[f], file[f]) /\ stream(f)' = file'[f]
                               /\ synced[f] <= synced'[f] /\ synced'[f] = Len(file'[f])
<1>1. PICK kept \in [Files -> 0 .. 2 * MaxSnapshots] :
        /\ \A f \in Files : kept[f] \in synced[f] .. Len(file[f])
        /\ file' = [f \in Files |-> SubSeq(file[f], 1, kept[f])]
        /\ synced' = kept
  BY DEF PowerLoss
<1>2. \A f \in Files : /\ file[f] \in Seq(Piece) /\ synced[f] \in Nat
                       /\ kept[f] \in 0 .. Len(file[f]) /\ synced[f] <= kept[f]
  <2>1. MaxSnapshots \in Nat
    BY RecorderAssumption
  <2> QED
    BY <1>1, <2>1 DEF Types
<1>3. ASSUME NEW f \in Files
      PROVE  /\ file'[f] \in Seq(Piece) /\ IsStart(file'[f], file[f])
             /\ synced'[f] = Len(file'[f]) /\ file'[f] \o <<>> = file'[f]
  <2> DEFINE s == file[f]  n == kept[f]
  <2>1. s \in Seq(Piece) /\ n \in 0 .. Len(s) /\ file'[f] = SubSeq(s, 1, n) /\ synced'[f] = n
    BY <1>1, <1>2, <1>3
  <2> HIDE DEF s, n
  <2>2. SubSeq(s, 1, n) \in Seq(Piece) /\ Len(SubSeq(s, 1, n)) = n /\ \A i \in 1 .. n : SubSeq(s, 1, n)[i] = s[i]
    <3>1. \A i \in 1 .. n : s[i] \in Piece
      BY <2>1, ElementOfSeq
    <3> QED
      BY <2>1, <3>1
  <2>3. SubSeq(s, 1, n) \o <<>> = SubSeq(s, 1, n)
    BY <2>2
  <2>4. IsStart(SubSeq(s, 1, n), s)
    BY <2>1, <2>2 DEF IsStart
  <2> QED
    BY <2>1, <2>2, <2>3, <2>4 DEF s
<1>4. buf' = Empty /\ \A f \in Files : buf'[f] = <<>>
  BY DEF PowerLoss, Empty
<1>5. file' \in [Files -> Seq(Piece)] /\ synced' \in [Files -> Nat]
  <2>1. DOMAIN file' = Files /\ file' = [f \in Files |-> file'[f]]
    BY <1>1
  <2>2. kept \in [Files -> Nat]
    BY <1>1, <1>2
  <2> QED
    BY <1>1, <1>3, <2>1, <2>2
<1> QED
  BY <1>1, <1>2, <1>3, <1>4, <1>5 DEF stream

LEMMA StartLen ==
    ASSUME NEW s \in Seq(Piece), NEW t \in Seq(Piece), IsStart(s, t)
    PROVE  Len(s) \in Nat /\ Len(t) \in Nat /\ Len(s) <= Len(t)
BY DEF IsStart

LEMMA EmptyTyped == Empty \in [Files -> Seq(Piece)]
BY DEF Empty

LEMMA StartTrans ==
    ASSUME NEW s \in Seq(Piece), NEW t \in Seq(Piece), NEW u \in Seq(Piece), IsStart(s, t), IsStart(t, u)
    PROVE  IsStart(s, u)
<1>1. Len(s) \in Nat /\ Len(t) \in Nat /\ Len(u) \in Nat
  OBVIOUS
<1> QED
  BY <1>1 DEF IsStart

LEMMA TypesInit == Init => Types
<1> SUFFICES ASSUME Init PROVE Types
  OBVIOUS
<1>1. \A f \in Files : Len(file[f]) = 0 /\ synced[f] = 0
  BY DEF Init, Empty
<1>2. file \in [Files -> Seq(Piece)] /\ buf \in [Files -> Seq(Piece)] /\ synced \in [Files -> Nat]
  BY EmptyTyped DEF Init
<1>3. given \in 0 .. MaxSnapshots
  BY RecorderAssumption DEF Init
<1>5. op \in Ops /\ op = "idle" /\ damaged \in BOOLEAN
  BY DEF Init, Ops
<1>4. broken \subseteq Files /\ acked \subseteq 1 .. given /\ writes \in Nat /\ reopens \in Nat /\ missed \in Nat
  BY DEF Init
<1> QED
  BY <1>1, <1>2, <1>3, <1>4, <1>5 DEF Types

LEMMA TypesNext == Types /\ [Next]_vars => Types'
<1> SUFFICES ASSUME Types, [Next]_vars PROVE Types'
  OBVIOUS
<1>1. \A f \in Files : file[f] \in Seq(Piece) /\ buf[f] \in Seq(Piece) /\ synced[f] \in Nat /\ Len(file[f]) \in Nat
  BY DEF Types
<1>2. ASSUME NEW hinted \in BOOLEAN, NEW ok \in BOOLEAN, NEW k \in 0 .. 2 * MaxSnapshots,
             EncodeSnapshot(hinted, k, ok)
      PROVE  Types'
  <2>1. given' = given + 1 /\ given' \in 0 .. MaxSnapshots /\ acked' \subseteq 1 .. given' /\ UNCHANGED <<writes, acked, reopens, missed>>
    BY <1>2, RecorderAssumption DEF EncodeSnapshot, Types
  <2>2. CASE "snapshots" \in broken
    BY <1>2, <2>1, <2>2 DEF EncodeSnapshot, Types, disk
  <2>3. CASE "snapshots" \notin broken
    <3>1. k \in Nat
      BY RecorderAssumption
    <3>2. /\ file' \in [Files -> Seq(Piece)] /\ buf' \in [Files -> Seq(Piece)]
          /\ IsStart(file["snapshots"], file'["snapshots"])
          /\ file'["hints"] = file["hints"] /\ synced' = synced /\ damaged' = (damaged \/ ~ok)
          /\ broken' = IF ok THEN broken ELSE broken \union {"snapshots"}
          /\ op' = IF ~ok THEN "idle" ELSE IF hinted THEN "hint" ELSE "flush1"
      BY <1>2, <2>3, <3>1, EncodeGrows
    <3>3. \A f \in Files : synced'[f] <= Len(file'[f])
      <4>1. Len(file["snapshots"]) <= Len(file'["snapshots"]) /\ Len(file'["snapshots"]) \in Nat
        BY <1>1, <3>2, StartLen DEF Files
      <4> QED
        BY <1>1, <3>2, <4>1 DEF Types, Files
    <3>4. broken' \subseteq Files /\ op' \in Ops /\ damaged' \in BOOLEAN
      BY <3>2 DEF Types, Files, Ops
    <3> QED
      BY <2>1, <3>2, <3>3, <3>4 DEF Types
  <2> QED
    BY <2>2, <2>3
<1>3. CASE EncodeHint
  <2>1. CASE "hints" \in broken /\ op' = "idle" /\ UNCHANGED <<disk, damaged>>
    BY <1>3, <2>1 DEF EncodeHint, Types, disk, Ops
  <2>2. CASE "hints" \notin broken
    BY <1>3, <2>2, HintGrows DEF EncodeHint, Types, Ops
  <2> QED
    BY <1>3, <2>1, <2>2 DEF EncodeHint
<1>4. ASSUME NEW f \in Files, NEW next \in Ops \ {"hint", "flush1"}, NEW otherwise \in Ops \ {"hint", "flush1", "flush2", "sync"}, Flush(f, next, otherwise),
             UNCHANGED <<writes, given, acked, reopens, missed>>,
             next \in {"flush2", "sync"} => given > 0
      PROVE  Types'
  <2>1. /\ file' \in [Files -> Seq(Piece)] /\ buf' \in [Files -> Seq(Piece)]
        /\ IsStart(file[f], file'[f]) /\ \A g \in Files \ {f} : file'[g] = file[g]
        /\ synced' = synced /\ damaged' \in BOOLEAN
        /\ broken' \subseteq broken \union {f} /\ op' \in {next, otherwise}
    BY <1>4, FlushGrows
  <2>2. \A g \in Files : Len(file[g]) <= Len(file'[g]) /\ Len(file'[g]) \in Nat
    BY <1>1, <2>1, StartLen
  <2>3. \A g \in Files : synced'[g] <= Len(file'[g])
    BY <1>1, <2>1, <2>2 DEF Types
  <2> QED
    BY <1>4, <2>1, <2>3 DEF Types
<1>5. CASE FlushSnapshot
  BY <1>4, <1>5 DEF FlushSnapshot, flushed, Files, Ops, Types
<1>6. ASSUME NEW done \in SUBSET Files, NEW ok \in BOOLEAN, fsync(done, ok)
      PROVE  /\ UNCHANGED <<file, buf, broken>> /\ damaged' \in BOOLEAN /\ missed' \in Nat
             /\ synced' \in [Files -> Nat] /\ \A f \in Files : synced'[f] <= Len(file'[f])
  BY <1>1, <1>6 DEF fsync, Types
<1>7. CASE FinishWrite
  <2>1. op = "sync" /\ op' = "idle" /\ writes' = writes + 1 /\ UNCHANGED <<given, reopens>>
    BY <1>7 DEF FinishWrite
  <2>2. acked \union {given} \subseteq 1 .. given
    BY <2>1 DEF Types
  <2>3. CASE /\ acked' = acked \union {given} /\ UNCHANGED <<disk, missed, damaged>>
    BY <2>1, <2>2, <2>3 DEF Types, Ops, disk
  <2>4. CASE acked' = acked \union {given} /\ fsync(Files, TRUE)
    <3>1. Files \in SUBSET Files /\ TRUE \in BOOLEAN
      OBVIOUS
    <3>2. /\ UNCHANGED <<file, buf, broken>> /\ damaged' \in BOOLEAN /\ missed' \in Nat
          /\ synced' \in [Files -> Nat] /\ \A f \in Files : synced'[f] <= Len(file'[f])
      BY <1>6, <2>4, <3>1
    <3> QED
      BY <2>1, <2>2, <2>4, <3>2 DEF Types, Ops
  <2>5. CASE UNCHANGED acked /\ \E done \in {{}, {"snapshots"}} : fsync(done, FALSE)
    <3>1. PICK done \in {{}, {"snapshots"}} : fsync(done, FALSE)
      BY <2>5
    <3>2. done \in SUBSET Files /\ FALSE \in BOOLEAN
      BY DEF Files
    <3>3. /\ UNCHANGED <<file, buf, broken>> /\ damaged' \in BOOLEAN /\ missed' \in Nat
          /\ synced' \in [Files -> Nat] /\ \A f \in Files : synced'[f] <= Len(file'[f])
      BY <1>6, <3>1, <3>2
    <3> QED
      BY <2>1, <2>5, <3>3 DEF Types, Ops
  <2> QED
    BY <1>7, <2>3, <2>4, <2>5 DEF FinishWrite
<1>8. CASE Close
  <2>1. CASE \/ op = "idle" /\ Flush(flushed(1), "close2", "close2") /\ UNCHANGED missed
             \/ op = "close2" /\ Flush(flushed(2), "closeSync", "closeSync") /\ UNCHANGED missed
    BY <1>4, <1>8, <2>1 DEF Close, flushed, Files, Ops
  <2>2. CASE \E done \in SUBSET Files :
               /\ fsync(done, done = Files)
               /\ op' = IF closedWell(done) THEN "closed" ELSE "failed"
    BY <1>6, <1>8, <2>2 DEF Close, Types, Ops, Stopped
  <2> QED
    BY <1>8, <2>1, <2>2 DEF Close
<1>9. CASE Kill
  <2>1. /\ file' \in [Files -> Seq(Piece)] /\ buf' \in [Files -> Seq(Piece)]
        /\ \A f \in Files : IsStart(file[f], file'[f])
    BY <1>9, KillCuts, EmptyTyped
  <2>2. \A g \in Files : Len(file[g]) <= Len(file'[g]) /\ Len(file'[g]) \in Nat
    BY <1>1, <2>1, StartLen
  <2>3. \A g \in Files : synced'[g] <= Len(file'[g])
    BY <1>1, <1>9, <2>2 DEF Types, Kill
  <2> QED
    BY <1>9, <2>1, <2>3 DEF Kill, Types, Ops, Stopped
<1>10. CASE PowerLoss
  <2>1. /\ file' \in [Files -> Seq(Piece)] /\ buf' \in [Files -> Seq(Piece)]
        /\ synced' \in [Files -> Nat] /\ \A f \in Files : synced'[f] = Len(file'[f])
    BY <1>10, PowerCuts, EmptyTyped
  <2>2. acked' \subseteq acked /\ missed' = 0 /\ damaged' = TRUE /\ op' = "down" /\ UNCHANGED <<broken, writes, given, reopens>>
    BY <1>10 DEF PowerLoss
  <2>3. \A f \in Files : synced'[f] <= Len(file'[f])
    BY <1>10, PowerCuts
  <2> QED
    BY <2>1, <2>2, <2>3 DEF Types, Ops, Stopped
<1>11. CASE NewRecorder
  BY <1>11 DEF NewRecorder, Types, Ops, Empty
<1>12. CASE UNCHANGED vars
  BY <1>12 DEF vars, disk, Types
<1> QED
  BY <1>2, <1>3, <1>5, <1>7, <1>8, <1>9, <1>10, <1>11, <1>12 DEF Next

(* Every step, seen from the stream of one file: it stays, a record is      *)
(* added, or a kill, a power loss or a restart cuts it.                     *)
Added(f) ==
    /\ stream(f)' = stream(f) \o Record(given') /\ f \notin broken
    /\ \/ f = "snapshots" /\ op = "idle" /\ given' = given + 1
       \/ f = "hints" /\ op = "hint" /\ given' = given

LEMMA Moves ==
    ASSUME Types, [Next]_vars
    PROVE  /\ given' = given \/ given' = given + 1
           /\ \A f \in Files : \/ stream(f)' = stream(f) \/ Added(f)
                               \/ (Kill \/ PowerLoss \/ NewRecorder) /\ IsStart(stream(f)', stream(f))
           /\ op' = "hint" => \/ op = "hint" /\ UNCHANGED <<file, buf, given>>
                              \/ given' = given + 1 /\ file'["hints"] = file["hints"] /\ buf'["hints"] = buf["hints"]
<1>1. \A f \in Files : /\ file[f] \in Seq(Piece) /\ buf[f] \in Seq(Piece) /\ stream(f) \in Seq(Piece)
                       /\ IsStart(file[f], stream(f)) /\ file[f] \o <<>> = file[f]
  BY DEF Types, stream, IsStart
<1>2. ASSUME NEW hinted \in BOOLEAN, NEW ok \in BOOLEAN, NEW k \in 0 .. 2 * MaxSnapshots,
             EncodeSnapshot(hinted, k, ok)
      PROVE  /\ given' = given + 1 /\ file'["hints"] = file["hints"] /\ buf'["hints"] = buf["hints"]
             /\ \A f \in Files : stream(f)' = stream(f) \/ Added(f)
  <2>1. CASE "snapshots" \in broken
    BY <1>2, <2>1 DEF EncodeSnapshot, disk, stream
  <2>2. CASE "snapshots" \notin broken
    <3>1. k \in Nat
      BY RecorderAssumption
    <3>2. /\ stream("snapshots")' = stream("snapshots") \o Record(given')
          /\ file'["hints"] = file["hints"] /\ buf'["hints"] = buf["hints"]
      BY <1>2, <2>2, <3>1, EncodeGrows
    <3>3. op = "idle" /\ given' = given + 1
      BY <1>2 DEF EncodeSnapshot
    <3> QED
      BY <2>2, <3>2, <3>3 DEF Added, stream, Files
  <2> QED
    BY <2>1, <2>2
<1>3. CASE EncodeHint
  <2>1. CASE "hints" \in broken /\ op' = "idle" /\ UNCHANGED <<disk, damaged>>
    BY <1>3, <2>1 DEF EncodeHint, disk, stream
  <2>2. CASE "hints" \notin broken
    <3>1. /\ file' = file /\ buf'["snapshots"] = buf["snapshots"]
          /\ stream("hints")' = stream("hints") \o Record(given)
          /\ op' = "flush1"
      BY <1>3, <2>2, HintGrows
    <3>2. op = "hint" /\ given' = given
      BY <1>3 DEF EncodeHint
    <3> QED
      BY <2>2, <3>1, <3>2 DEF Added, stream, Files
  <2> QED
    BY <1>3, <2>1, <2>2 DEF EncodeHint
<1>4. ASSUME NEW f \in Files, NEW next, NEW otherwise, Flush(f, next, otherwise), given' = given,
             next # "hint", otherwise # "hint"
      PROVE  op' # "hint" /\ given' = given /\ \A g \in Files : stream(g)' = stream(g)
  <2>1. stream(f)' = stream(f) /\ \A g \in Files \ {f} : file'[g] = file[g] /\ buf'[g] = buf[g]
    BY <1>4, FlushGrows
  <2>2. op' # "hint"
    BY <1>4 DEF Flush
  <2> QED
    BY <1>4, <2>1, <2>2 DEF stream
<1>5. CASE FlushSnapshot
  BY <1>4, <1>5 DEF FlushSnapshot, flushed, Files
<1>6. CASE FinishWrite
  BY <1>6 DEF FinishWrite, fsync, disk, stream
<1>7. CASE Close
  <2>1. CASE \/ op = "idle" /\ Flush(flushed(1), "close2", "close2") /\ UNCHANGED missed
             \/ op = "close2" /\ Flush(flushed(2), "closeSync", "closeSync") /\ UNCHANGED missed
    BY <1>4, <1>7, <2>1 DEF Close, flushed, Files
  <2>2. CASE \E done \in SUBSET Files :
               /\ fsync(done, done = Files)
               /\ op' = IF closedWell(done) THEN "closed" ELSE "failed"
    BY <1>7, <2>2 DEF Close, fsync, stream
  <2> QED
    BY <1>7, <2>1, <2>2 DEF Close
<1>8. CASE Kill
  <2>1. \A f \in Files : IsStart(stream(f)', stream(f))
    BY <1>8, KillCuts
  <2> QED
    BY <1>8, <2>1 DEF Kill
<1>9. CASE PowerLoss
  <2>1. ASSUME NEW f \in Files
        PROVE  IsStart(stream(f)', stream(f))
    <3> DEFINE s == file'[f]
    <3>1. IsStart(s, file[f]) /\ stream(f)' = s /\ s \in Seq(Piece)
      BY <1>9, PowerCuts
    <3> HIDE DEF s
    <3> QED
      BY <1>1, <3>1, StartTrans
  <2> QED
    BY <1>9, <2>1 DEF PowerLoss
<1>10. CASE NewRecorder
  <2>1. \A f \in Files : stream(f)' = file[f]
    BY <1>1, <1>10 DEF NewRecorder, Empty, stream
  <2> QED
    BY <1>1, <1>10, <2>1 DEF NewRecorder
<1>11. CASE UNCHANGED vars
  BY <1>11 DEF vars, disk, stream
<1> QED
  BY <1>2, <1>3, <1>5, <1>6, <1>7, <1>8, <1>9, <1>10, <1>11 DEF Next, Files

-----------------------------------------------------------------------------
(* The order of the lines, over all that is written or waits to be: the     *)
(* pieces of a file strictly increase, none is newer than the last snapshot *)
(* handed over, and a hint waits for the hints to be older.                 *)
Before(p, q) == p[1] < q[1] \/ (p = <<q[1], "head">> /\ q[2] = "tail")
Increasing(s) == \A i, j \in 1 .. Len(s) : i < j => Before(s[i], s[j])
Below(s, n) == \A i \in 1 .. Len(s) : s[i][1] < n

Ordered ==
    /\ \A f \in Files : Increasing(stream(f)) /\ Below(stream(f), given + 1)
    /\ op = "hint" => Below(stream("hints"), given)

LEMMA RecordConcat ==
    ASSUME NEW s \in Seq(Piece), NEW n \in Nat
    PROVE  /\ Len(s \o Record(n)) = Len(s) + 2 /\ Len(s) \in Nat
           /\ \A i \in 1 .. Len(s) : (s \o Record(n))[i] = s[i] /\ s[i] \in Piece
           /\ (s \o Record(n))[Len(s) + 1] = <<n, "head">> /\ (s \o Record(n))[Len(s) + 2] = <<n, "tail">>
<1> DEFINE r == Record(n)
<1>1. r \in Seq(Piece) /\ Len(r) = 2 /\ r[1] = <<n, "head">> /\ r[2] = <<n, "tail">>
  BY RecordIsSeq
<1> HIDE DEF r
<1>2. Len(s \o r) = Len(s) + 2 /\ Len(s) \in Nat
  <2>1. r \in Seq(Piece) /\ Len(r) = 2
    BY <1>1
  <2>2. Len(s \o r) = Len(s) + Len(r)
    BY <2>1, ConcatProperties
  <2>3. Len(s) \in Nat
    OBVIOUS
  <2> QED
    BY <2>1, <2>2, <2>3
<1>3. \A i \in 1 .. Len(s) : (s \o r)[i] = s[i] /\ s[i] \in Piece
  BY <1>1
<1>4. Len(s) + 1 \in 1 .. Len(s) + 2 /\ Len(s) + 2 \in 1 .. Len(s) + 2
  BY <1>2
<1>5. (s \o r)[Len(s) + 1] = r[1]
  BY <1>1, <1>2, <1>4
<1>6. (s \o r)[Len(s) + 2] = r[2]
  BY <1>1, <1>2, <1>4
<1> QED
  BY <1>1, <1>2, <1>3, <1>5, <1>6 DEF r

LEMMA RecordAppended ==
    ASSUME NEW s \in Seq(Piece), NEW n \in Nat, Increasing(s), Below(s, n)
    PROVE  Increasing(s \o Record(n)) /\ Below(s \o Record(n), n + 1)
<1>2. /\ Len(s \o Record(n)) = Len(s) + 2 /\ Len(s) \in Nat
      /\ \A i \in 1 .. Len(s) : (s \o Record(n))[i] = s[i] /\ s[i] \in Piece
      /\ (s \o Record(n))[Len(s) + 1] = <<n, "head">> /\ (s \o Record(n))[Len(s) + 2] = <<n, "tail">>
  BY RecordConcat
<1>3. \A i \in 1 .. Len(s) : s[i][1] \in Nat /\ s[i][1] < n
  BY <1>2 DEF Below, Piece
<1>4. \A i \in 1 .. Len(s) + 2 : i \in 1 .. Len(s) \/ i = Len(s) + 1 \/ i = Len(s) + 2
  BY <1>2
<1> DEFINE t == s \o Record(n)
<1> HIDE DEF t
<1>5. /\ Len(t) = Len(s) + 2
      /\ \A i \in 1 .. Len(s) : t[i] = s[i]
      /\ t[Len(s) + 1] = <<n, "head">> /\ t[Len(s) + 2] = <<n, "tail">>
  BY <1>2 DEF t
<1>6. Below(t, n + 1)
  BY <1>2, <1>3, <1>4, <1>5 DEF Below
<1>7. ASSUME NEW i \in 1 .. Len(t), NEW j \in 1 .. Len(t), i < j
      PROVE  Before(t[i], t[j])
  <2>1. CASE j \in 1 .. Len(s)
    BY <1>2, <1>5, <1>7, <2>1 DEF Increasing
  <2>2. CASE j = Len(s) + 1
    <3>1. i \in 1 .. Len(s) /\ t[i] = s[i] /\ t[j] = <<n, "head">>
      BY <1>2, <1>5, <1>7, <2>2
    <3> QED
      <4>1. t[i][1] \in Nat /\ t[i][1] < n /\ t[j][1] = n
        BY <1>3, <3>1
      <4> QED
        BY <4>1 DEF Before
  <2>3. CASE j = Len(s) + 2
    BY <1>2, <1>3, <1>4, <1>5, <1>7, <2>3 DEF Before
  <2> QED
    BY <1>4, <1>5, <2>1, <2>2, <2>3
<1> QED
  BY <1>6, <1>7 DEF Increasing, t

LEMMA ConcatStart ==
    ASSUME NEW s \in Seq(Piece), NEW t \in Seq(Piece)
    PROVE  s \o t \in Seq(Piece) /\ IsStart(s, s \o t)
BY DEF IsStart

LEMMA StreamTyped ==
    ASSUME Types, NEW f \in Files
    PROVE  /\ file[f] \in Seq(Piece) /\ buf[f] \in Seq(Piece) /\ stream(f) \in Seq(Piece)
           /\ IsStart(file[f], stream(f)) /\ IsStart(file[f], file[f])
BY DEF Types, stream, IsStart

LEMMA StartOrdered ==
    ASSUME NEW s \in Seq(Piece), NEW t \in Seq(Piece), IsStart(s, t), NEW n \in Nat, NEW m \in Nat, n <= m
    PROVE  /\ Increasing(t) => Increasing(s)
           /\ Below(t, n) => Below(s, m)
<1>1. Len(s) \in Nat /\ Len(t) \in Nat /\ Len(s) <= Len(t) /\ \A i \in 1 .. Len(s) : i \in 1 .. Len(t) /\ s[i] = t[i] /\ s[i] \in Piece
  BY DEF IsStart
<1>2. \A i \in 1 .. Len(s) : s[i][1] \in Nat
  BY <1>1 DEF Piece
<1>3. Increasing(t) => Increasing(s)
  BY <1>1 DEF Increasing
<1>4. Below(t, n) => Below(s, m)
  BY <1>1, <1>2 DEF Below
<1> QED
  BY <1>3, <1>4

LEMMA OrderedNext == Types /\ Ordered /\ [Next]_vars => Ordered'
<1> SUFFICES ASSUME Types, Ordered, [Next]_vars PROVE Ordered'
  OBVIOUS
<1>1. Types' /\ given \in Nat /\ given' \in Nat /\ given <= given'
  <2>1. Types'
    BY TypesNext
  <2> QED
    BY <2>1, Moves, RecorderAssumption DEF Types
<1>2. ASSUME NEW f \in Files
      PROVE  Increasing(stream(f)') /\ Below(stream(f)', given' + 1)
  <2> DEFINE s == stream(f)  t == stream(f)'
  <2>1. s \in Seq(Piece) /\ t \in Seq(Piece)
    <3>1. s \in Seq(Piece)
      BY StreamTyped
    <3>2. file'[f] \in Seq(Piece) /\ buf'[f] \in Seq(Piece)
      BY <1>1 DEF Types
    <3> QED
      BY <3>1, <3>2 DEF stream
  <2>2. Increasing(s) /\ Below(s, given + 1) /\ (op = "hint" /\ f = "hints" => Below(s, given))
    BY DEF Ordered
  <2>3. \/ t = s
        \/ t = s \o Record(given') /\ (given' = given + 1 \/ (f = "hints" /\ op = "hint" /\ given' = given))
        \/ IsStart(t, s)
    BY <1>2, Moves DEF Added
  <2> HIDE DEF s, t
  <2>4. CASE t = s
    <3>1. IsStart(t, s)
      BY <2>1, <2>4 DEF IsStart
    <3> QED
      BY <1>1, <2>1, <2>2, <3>1, StartOrdered DEF t
  <2>5. CASE t = s \o Record(given') /\ (given' = given + 1 \/ (f = "hints" /\ op = "hint" /\ given' = given))
    BY <1>1, <2>1, <2>2, <2>5, RecordAppended DEF t
  <2>6. CASE IsStart(t, s)
    BY <1>1, <2>1, <2>2, <2>6, StartOrdered DEF t
  <2> QED
    BY <2>3, <2>4, <2>5, <2>6
<1>3. ASSUME op' = "hint"
      PROVE  Below(stream("hints")', given')
  <2>1. CASE op = "hint" /\ UNCHANGED <<file, buf, given>>
    BY <2>1 DEF Ordered, stream
  <2>2. CASE given' = given + 1 /\ file'["hints"] = file["hints"] /\ buf'["hints"] = buf["hints"]
    BY <2>2 DEF Ordered, stream, Files
  <2> QED
    BY <1>3, <2>1, <2>2, Moves
<1> QED
  BY <1>2, <1>3 DEF Ordered

LEMMA OrderedInit == Init => Ordered
<1> SUFFICES ASSUME Init PROVE Ordered
  OBVIOUS
<1>1. \A f \in Files : stream(f) = <<>>
  BY DEF Init, Empty, stream
<1>2. \A f \in Files : Len(stream(f)) = 0
  BY <1>1
<1> QED
  BY <1>2 DEF Init, Ordered, Increasing, Below

LEMMA OrderedIsInOrder == Types /\ Ordered => InOrderOnce
<1> SUFFICES ASSUME Types, Ordered, NEW f \in Files, NEW i \in DOMAIN file[f], NEW j \in DOMAIN file[f], i < j
             PROVE  \/ file[f][i][1] < file[f][j][1]
                    \/ file[f][i] = <<file[f][j][1], "head">> /\ file[f][j][2] = "tail"
  BY DEF InOrderOnce
<1> DEFINE s == file[f]  t == stream(f)
<1>1. s \in Seq(Piece) /\ t \in Seq(Piece) /\ IsStart(s, t) /\ Increasing(t) /\ i \in DOMAIN s /\ j \in DOMAIN s
  BY StreamTyped DEF Ordered
<1> HIDE DEF s, t
<1>2. i \in 1 .. Len(s) /\ j \in 1 .. Len(s) /\ Increasing(s)
  BY <1>1, StartOrdered
<1> QED
  BY <1>2 DEF Increasing, Before, s

(* The type invariant, for every FsyncEvery and every number of snapshots.  *)
THEOREM TypeCorrect == Spec => []TypeOK
<1>1. Types => TypeOK
  <2> SUFFICES ASSUME Types PROVE TypeOK
    OBVIOUS
  <2>1. \A f \in Files : synced[f] \in 0 .. Len(file[f])
    BY StreamTyped DEF Types
  <2> QED
    BY <2>1 DEF Types, TypeOK, Ops
<1> QED
  BY <1>1, TypesInit, TypesNext, PTL DEF Spec

(* Both files hold their lines in the order of the samples, none twice      *)
(* (WriteSnapshot under the mutex, append-only files), whatever fails and   *)
(* however often the recorder is killed and opened again.                   *)
THEOREM LinesInOrder == Spec => []InOrderOnce
BY TypesInit, TypesNext, OrderedInit, OrderedNext, OrderedIsInOrder, PTL DEF Spec

-----------------------------------------------------------------------------
(* Every step, seen from the files: only a power loss shortens one, and one *)
(* grows by a start of its stream, only while a recorder is there and the   *)
(* writer of that file has not failed.                                      *)
Running ==
    \/ \E hinted, ok \in BOOLEAN, k \in 0 .. 2 * MaxSnapshots : EncodeSnapshot(hinted, k, ok)
    \/ EncodeHint \/ FlushSnapshot \/ FinishWrite \/ Close \/ Kill \/ NewRecorder

LEMMA RunningMoves ==
    ASSUME Types, [Running]_vars
    PROVE  /\ \A f \in Files : /\ IsStart(file[f], file'[f])
                               /\ \/ file'[f] = file[f]
                                  \/ op \notin Stopped /\ f \notin broken /\ (IsStart(file'[f], stream(f)) \/ Added(f))
           /\ acked' = acked \/ (op = "sync" /\ acked' = acked \union {given})
           /\ damaged => damaged'
           /\ NewRecorder \/ (broken \subseteq broken' /\ (op \in Stopped => op' \in Stopped) /\ reopens' = reopens)
<1>1. \A f \in Files : /\ file[f] \in Seq(Piece) /\ buf[f] \in Seq(Piece) /\ IsStart(file[f], file[f])
  BY StreamTyped
<1>2. ASSUME NEW hinted \in BOOLEAN, NEW ok \in BOOLEAN, NEW k \in 0 .. 2 * MaxSnapshots,
             EncodeSnapshot(hinted, k, ok)
      PROVE  /\ \A f \in Files : /\ IsStart(file[f], file'[f])
                                 /\ file'[f] = file[f] \/ (op \notin Stopped /\ f \notin broken /\ Added(f))
             /\ damaged => damaged'
             /\ broken \subseteq broken' /\ op \notin Stopped /\ reopens' = reopens /\ acked' = acked
  <2>1. op = "idle" /\ op \notin Stopped /\ reopens' = reopens /\ acked' = acked
    BY <1>2 DEF EncodeSnapshot, Stopped
  <2>2. CASE "snapshots" \in broken
    BY <1>1, <1>2, <2>1, <2>2 DEF EncodeSnapshot, disk
  <2>3. CASE "snapshots" \notin broken
    <3>1. k \in Nat
      BY RecorderAssumption
    <3>2. /\ stream("snapshots")' = stream("snapshots") \o Record(given')
          /\ IsStart(file["snapshots"], file'["snapshots"])
          /\ file'["hints"] = file["hints"]
          /\ damaged' = (damaged \/ ~ok)
          /\ broken' = IF ok THEN broken ELSE broken \union {"snapshots"}
      BY <1>2, <2>3, <3>1, EncodeGrows
    <3>3. given' = given + 1
      BY <1>2 DEF EncodeSnapshot
    <3> QED
      BY <1>1, <2>1, <2>3, <3>2, <3>3 DEF Added, Files
  <2> QED
    BY <2>2, <2>3
<1>3. CASE EncodeHint
  <2>1. op = "hint" /\ op \notin Stopped /\ reopens' = reopens /\ acked' = acked
    BY <1>3 DEF EncodeHint, Stopped
  <2>2. file' = file /\ broken' = broken /\ damaged' = damaged
    BY <1>3, HintGrows DEF EncodeHint, disk
  <2> QED
    BY <1>1, <2>1, <2>2
<1>4. ASSUME NEW f \in Files, NEW next, NEW otherwise, Flush(f, next, otherwise)
      PROVE  /\ \A g \in Files : /\ IsStart(file[g], file'[g])
                                 /\ file'[g] = file[g] \/ (g \notin broken /\ IsStart(file'[g], stream(g)))
             /\ damaged => damaged'
             /\ broken \subseteq broken'
  <2>1. CASE f \in broken
    <3>1. file' = file /\ broken' = broken /\ damaged' = damaged
      BY <1>4, <2>1 DEF Flush, disk
    <3> QED
      BY <1>1, <3>1
  <2>2. CASE f \notin broken
    BY <1>1, <1>4, <2>2, FlushGrows
  <2> QED
    BY <2>1, <2>2
<1>5. CASE FlushSnapshot
  <2>1. op \notin Stopped /\ reopens' = reopens /\ acked' = acked
    BY <1>5 DEF FlushSnapshot, Stopped
  <2> QED
    BY <1>4, <1>5, <2>1 DEF FlushSnapshot, flushed, Files
<1>6. CASE FinishWrite
  <2>1. op = "sync" /\ op \notin Stopped /\ reopens' = reopens /\ file' = file /\ broken' = broken
    BY <1>6 DEF FinishWrite, fsync, disk, Stopped
  <2>2. acked' = acked \/ acked' = acked \union {given}
    BY <1>6 DEF FinishWrite
  <2>3. damaged => damaged'
    BY <1>6 DEF FinishWrite, fsync
  <2> QED
    BY <1>1, <2>1, <2>2, <2>3
<1>7. CASE Close
  <2>1. op \notin Stopped /\ reopens' = reopens /\ acked' = acked
    BY <1>7 DEF Close, Stopped
  <2>2. CASE \/ op = "idle" /\ Flush(flushed(1), "close2", "close2") /\ UNCHANGED missed
             \/ op = "close2" /\ Flush(flushed(2), "closeSync", "closeSync") /\ UNCHANGED missed
    BY <1>4, <2>1, <2>2 DEF flushed, Files
  <2>3. CASE \E done \in SUBSET Files : fsync(done, done = Files)
    BY <1>1, <2>1, <2>3 DEF fsync
  <2> QED
    BY <1>7, <2>2, <2>3 DEF Close
<1>8. CASE Kill
  <2>1. op \notin Stopped /\ UNCHANGED <<broken, reopens, acked, damaged>>
    BY <1>8 DEF Kill
  <2>2. \A f \in Files : /\ IsStart(file[f], file'[f]) /\ IsStart(file'[f], stream(f))
                         /\ file'[f] # file[f] => f \in writing \ broken
    BY <1>8, KillCuts
  <2> QED
    BY <2>1, <2>2
<1>9. CASE NewRecorder
  BY <1>1, <1>9 DEF NewRecorder
<1>10. CASE UNCHANGED vars
  BY <1>1, <1>10 DEF vars, disk
<1> QED
  BY <1>2, <1>3, <1>5, <1>6, <1>7, <1>8, <1>9, <1>10 DEF Running

LEMMA FileMoves ==
    ASSUME Types, [Next]_vars, ~PowerLoss
    PROVE  /\ \A f \in Files : /\ IsStart(file[f], file'[f])
                               /\ \/ file'[f] = file[f]
                                  \/ op \notin Stopped /\ f \notin broken /\ (IsStart(file'[f], stream(f)) \/ Added(f))
           /\ acked' = acked \/ (op = "sync" /\ acked' = acked \union {given})
           /\ damaged => damaged'
           /\ NewRecorder \/ (broken \subseteq broken' /\ (op \in Stopped => op' \in Stopped) /\ reopens' = reopens)
<1>1. [Running]_vars
  BY DEF Next, Running
<1> QED
  BY <1>1, RunningMoves

-----------------------------------------------------------------------------
(* What is acknowledged is in the file: while it is written a snapshot is   *)
(* whole in the stream, and in the file once its flush succeeded.           *)
HasRecord(s, id) == \E i \in 1 .. Len(s) - 1 : s[i] = <<id, "head">> /\ s[i + 1] = <<id, "tail">>

Acks ==
    /\ \A id \in acked : HasRecord(file["snapshots"], id)
    /\ op \in {"hint", "flush1"} => HasRecord(stream("snapshots"), given)
    /\ op \in {"flush2", "sync"} => HasRecord(file["snapshots"], given)

LEMMA StartHasRecord ==
    ASSUME NEW s \in Seq(Piece), NEW t \in Seq(Piece), IsStart(s, t), NEW id, HasRecord(s, id)
    PROVE  HasRecord(t, id)
BY DEF IsStart, HasRecord

LEMMA AppendHasRecord ==
    ASSUME NEW s \in Seq(Piece), NEW n \in Nat
    PROVE  HasRecord(s \o Record(n), n)
<1> DEFINE t == s \o Record(n)
<1>1. /\ Len(t) = Len(s) + 2 /\ Len(s) \in Nat
      /\ t[Len(s) + 1] = <<n, "head">> /\ t[Len(s) + 2] = <<n, "tail">>
  BY RecordConcat
<1> HIDE DEF t
<1>2. Len(s) + 1 \in 1 .. Len(t) - 1 /\ (Len(s) + 1) + 1 = Len(s) + 2
  BY <1>1
<1> QED
  BY <1>1, <1>2 DEF HasRecord, t

WholeIn(s, i) == i < Len(s) /\ s[i][2] = "head" /\ s[i + 1] = <<s[i][1], "tail">>
WrittenIn(s) == {s[i][1] : i \in {j \in DOMAIN s : WholeIn(s, j)}}

LEMMA WrittenIs ==
    ASSUME NEW s \in Seq(Piece)
    PROVE  \A id : id \in WrittenIn(s) <=> HasRecord(s, id)
<1>1. DOMAIN s = 1 .. Len(s) /\ Len(s) \in Nat
  OBVIOUS
<1>2. \A i \in 1 .. Len(s) : s[i] \in Piece /\ s[i] = <<s[i][1], s[i][2]>>
  BY <1>1 DEF Piece
<1>3. ASSUME NEW id, id \in WrittenIn(s)
      PROVE  HasRecord(s, id)
  <2>1. PICK i \in DOMAIN s : WholeIn(s, i) /\ s[i][1] = id
    BY <1>3 DEF WrittenIn
  <2>2. i \in 1 .. Len(s) - 1 /\ s[i][2] = "head" /\ s[i + 1] = <<id, "tail">>
    BY <1>1, <2>1 DEF WholeIn
  <2>3. s[i] = <<id, "head">>
    BY <1>1, <1>2, <2>1, <2>2
  <2> QED
    BY <2>2, <2>3 DEF HasRecord
<1>4. ASSUME NEW id, HasRecord(s, id)
      PROVE  id \in WrittenIn(s)
  <2>1. PICK i \in 1 .. Len(s) - 1 : s[i] = <<id, "head">> /\ s[i + 1] = <<id, "tail">>
    BY <1>4 DEF HasRecord
  <2>2. s[i][1] = id /\ s[i][2] = "head" /\ i < Len(s) /\ i \in DOMAIN s
    BY <1>1, <2>1
  <2> QED
    BY <2>1, <2>2 DEF WrittenIn, WholeIn
<1> QED
  BY <1>3, <1>4

LEMMA AcksNext == Types /\ Acks /\ [Next]_vars => Acks'
<1> SUFFICES ASSUME Types, Acks, [Next]_vars PROVE Acks'
  OBVIOUS
<1> DEFINE S == "snapshots"
<1>1. Types' /\ S \in Files /\ file[S] \in Seq(Piece) /\ file'[S] \in Seq(Piece) /\ stream(S) \in Seq(Piece)
  <2>1. Types'
    BY TypesNext
  <2>2. S \in Files
    BY DEF Files
  <2> QED
    BY <2>1, <2>2, StreamTyped DEF Types
<1>2. CASE PowerLoss
  <2>1. op' = "down" /\ \A id \in acked' : id \in (Written(S))'
    BY <1>2 DEF PowerLoss
  <2>2. \A id : id \in (Written(S))' <=> HasRecord(file'[S], id)
    <3>1. (Written(S))' = WrittenIn(file'[S])
      BY DEF Written, Whole, WrittenIn, WholeIn
    <3> QED
      BY <1>1, <3>1, WrittenIs
  <2> QED
    BY <2>1, <2>2 DEF Acks
<1>3. CASE ~PowerLoss
  <2>1. IsStart(file[S], file'[S])
    BY <1>1, <1>3, FileMoves
  <2>2. \A id : HasRecord(file[S], id) => HasRecord(file'[S], id)
    BY <1>1, <2>1, StartHasRecord
  <2>3. \A id \in acked' : HasRecord(file'[S], id)
    BY <1>1, <1>3, <2>2, FileMoves DEF Acks
  <2>4. ASSUME NEW hinted \in BOOLEAN, NEW ok \in BOOLEAN, NEW k \in 0 .. 2 * MaxSnapshots,
               EncodeSnapshot(hinted, k, ok)
        PROVE  Acks'
    <3>1. CASE S \in broken
      BY <2>3, <2>4, <3>1 DEF EncodeSnapshot, Acks
    <3>2. CASE S \notin broken
      <4>1. k \in Nat /\ given' \in Nat
        BY <1>1, RecorderAssumption DEF Types
      <4>2. /\ stream(S)' = stream(S) \o Record(given')
            /\ op' = IF ~ok THEN "idle" ELSE IF hinted THEN "hint" ELSE "flush1"
        BY <2>4, <3>2, <4>1, EncodeGrows
      <4>3. HasRecord(stream(S)', given')
        BY <1>1, <4>1, <4>2, AppendHasRecord
      <4> QED
        BY <2>3, <4>2, <4>3 DEF Acks
    <3> QED
      BY <3>1, <3>2
  <2>5. CASE EncodeHint
    <3>1. op = "hint" /\ op' \in {"idle", "flush1"} /\ given' = given
      BY <2>5, HintGrows DEF EncodeHint
    <3>2. file'[S] = file[S] /\ buf'[S] = buf[S]
      BY <2>5, HintGrows DEF EncodeHint, disk
    <3> QED
      BY <2>3, <3>1, <3>2 DEF Acks, stream
  <2>6. CASE FlushSnapshot
    <3>1. given' = given
      BY <2>6 DEF FlushSnapshot
    <3>2. CASE op = "flush1" /\ Flush(S, "flush2", "idle")
      <4>1. op' = "idle" \/ (op' = "flush2" /\ file'[S] = stream(S))
        BY <1>1, <3>2, FlushGrows
      <4> QED
        BY <2>3, <3>1, <3>2, <4>1 DEF Acks
    <3>3. CASE op = "flush2" /\ Flush("hints", "sync", "idle")
      <4>1. op' \in {"idle", "sync"}
        BY <3>3 DEF Flush
      <4> QED
        BY <2>2, <2>3, <3>1, <3>3, <4>1 DEF Acks
    <3> QED
      BY <2>6, <3>2, <3>3 DEF FlushSnapshot, flushed
  <2>7. CASE FinishWrite
    BY <2>3, <2>7 DEF FinishWrite, Acks
  <2>8. CASE Close
    <3>1. op' \in {"close2", "closeSync", "closed", "failed"}
      BY <2>8 DEF Close, Flush
    <3> QED
      BY <2>3, <3>1 DEF Acks
  <2>9. CASE Kill
    BY <2>3, <2>9 DEF Kill, Acks
  <2>10. CASE NewRecorder
    BY <2>3, <2>10 DEF NewRecorder, Acks
  <2>11. CASE UNCHANGED vars
    BY <2>11 DEF vars, disk, Acks, stream
  <2> QED
    BY <1>3, <2>4, <2>5, <2>6, <2>7, <2>8, <2>9, <2>10, <2>11 DEF Next
<1> QED
  BY <1>2, <1>3

-----------------------------------------------------------------------------
(* The lines that spoil another one: a beginning that its end does not      *)
(* follow.  One that ends the stream spoils nothing yet, and only a restart *)
(* leaves one there.                                                        *)
Inner(s) == {j \in 1 .. Len(s) - 1 : s[j][2] = "head" /\ s[j + 1] # <<s[j][1], "tail">>}
Breaks(s) == Inner(s) \union {j \in 1 .. Len(s) : j = Len(s) /\ s[j][2] = "head"}

Torn ==
    /\ Cardinality(Inner(file["snapshots"])) <= reopens
    /\ op \notin Stopped /\ "snapshots" \notin broken => Cardinality(Breaks(stream("snapshots"))) <= reopens

LEMMA InnerFinite ==
    ASSUME NEW s \in Seq(Piece)
    PROVE  /\ IsFiniteSet(Inner(s)) /\ IsFiniteSet(Breaks(s))
           /\ Cardinality(Inner(s)) \in Nat /\ Cardinality(Breaks(s)) \in Nat
           /\ Inner(s) \subseteq Breaks(s) /\ Cardinality(Inner(s)) <= Cardinality(Breaks(s))
           /\ Cardinality(Breaks(s)) <= Cardinality(Inner(s)) + 1
<1>1. Len(s) \in Nat /\ IsFiniteSet(1 .. Len(s))
  BY FS_Interval
<1>2. Inner(s) \subseteq Breaks(s) /\ Breaks(s) \subseteq Inner(s) \union {Len(s)}
  BY DEF Breaks
<1>3. Inner(s) \subseteq 1 .. Len(s)
  BY <1>1 DEF Inner
<1>4. IsFiniteSet(Inner(s))
  BY <1>1, <1>3, FS_Subset
<1>5. IsFiniteSet(Inner(s) \union {Len(s)}) /\ Cardinality(Inner(s) \union {Len(s)}) <= Cardinality(Inner(s)) + 1
      /\ Cardinality(Inner(s)) \in Nat
  <2>1. Cardinality(Inner(s)) \in Nat
    BY <1>4, FS_CardinalityType
  <2>2. IsFiniteSet(Inner(s) \union {Len(s)}) /\ Cardinality(Inner(s) \union {Len(s)}) =
            IF Len(s) \in Inner(s) THEN Cardinality(Inner(s)) ELSE Cardinality(Inner(s)) + 1
    BY <1>4, FS_AddElement
  <2> QED
    BY <2>1, <2>2
<1>6. IsFiniteSet(Breaks(s)) /\ Cardinality(Breaks(s)) <= Cardinality(Inner(s) \union {Len(s)})
  BY <1>2, <1>5, FS_Subset
<1>7. Cardinality(Inner(s)) <= Cardinality(Breaks(s))
  BY <1>2, <1>6, FS_Subset
<1>8. Cardinality(Breaks(s)) \in Nat /\ Cardinality(Inner(s) \union {Len(s)}) \in Nat
  BY <1>5, <1>6, FS_CardinalityType
<1> QED
  BY <1>2, <1>4, <1>5, <1>6, <1>7, <1>8

LEMMA InnerOfStart ==
    ASSUME NEW s \in Seq(Piece), NEW t \in Seq(Piece), IsStart(s, t)
    PROVE  Cardinality(Inner(s)) <= Cardinality(Inner(t))
<1>1. Inner(s) \subseteq Inner(t)
  BY DEF IsStart, Inner
<1>2. IsFiniteSet(Inner(t))
  BY InnerFinite
<1> QED
  BY <1>1, <1>2, FS_Subset

LEMMA RecordMends ==
    ASSUME NEW s \in Seq(Piece), NEW n \in Nat
    PROVE  Cardinality(Breaks(s \o Record(n))) <= Cardinality(Breaks(s))
<1> DEFINE t == s \o Record(n)
<1>1. /\ Len(t) = Len(s) + 2 /\ Len(s) \in Nat
      /\ \A i \in 1 .. Len(s) : t[i] = s[i]
      /\ t[Len(s) + 1] = <<n, "head">> /\ t[Len(s) + 2] = <<n, "tail">>
  BY RecordConcat
<1> HIDE DEF t
<1>2. ASSUME NEW j \in Breaks(t)
      PROVE  j \in Breaks(s)
  <2>1. j \in 1 .. Len(t) /\ t[j][2] = "head"
    BY <1>1, <1>2 DEF Breaks, Inner
  <2>2. j # Len(t)
    BY <1>1, <2>1
  <2>3. j \in 1 .. Len(t) - 1 /\ t[j + 1] # <<t[j][1], "tail">>
    BY <1>2, <2>1, <2>2 DEF Breaks, Inner
  <2>4. j # Len(s) + 1
    <3>1. j = Len(s) + 1 => t[j + 1] = <<n, "tail">> /\ t[j][1] = n
      BY <1>1
    <3> QED
      BY <2>3, <3>1
  <2>5. j \in 1 .. Len(s) /\ s[j] = t[j]
    BY <1>1, <2>3, <2>4
  <2>6. CASE j = Len(s)
    BY <2>1, <2>5, <2>6 DEF Breaks
  <2>7. CASE j # Len(s)
    <3>1. j \in 1 .. Len(s) - 1 /\ s[j + 1] = t[j + 1]
      BY <1>1, <2>5, <2>7
    <3> QED
      BY <2>1, <2>3, <2>5, <3>1 DEF Breaks, Inner
  <2> QED
    BY <2>6, <2>7
<1>3. IsFiniteSet(Breaks(s))
  BY InnerFinite
<1> QED
  BY <1>2, <1>3, FS_Subset DEF t

LEMMA TornNext == Types /\ Torn /\ [Next]_vars => Torn'
<1> SUFFICES ASSUME Types, Torn, [Next]_vars PROVE Torn'
  OBVIOUS
<1> DEFINE S == "snapshots"
           s == file[S]  t == stream(S)  ss == file'[S]  tt == stream(S)'
<1>1. /\ s \in Seq(Piece) /\ t \in Seq(Piece) /\ ss \in Seq(Piece) /\ tt \in Seq(Piece)
      /\ IsStart(ss, tt) /\ given' \in Nat /\ reopens \in Nat /\ reopens' \in Nat
  <2>1. Types' /\ S \in Files
    BY TypesNext DEF Files
  <2>2. ss \in Seq(Piece) /\ buf'[S] \in Seq(Piece) /\ given' \in Nat /\ reopens \in Nat /\ reopens' \in Nat
    BY <2>1, RecorderAssumption DEF Types
  <2>3. tt = ss \o buf'[S]
    BY DEF stream
  <2>4. IsStart(ss, tt) /\ tt \in Seq(Piece)
    BY <2>2, <2>3, ConcatStart
  <2> QED
    BY <2>1, <2>2, <2>4, StreamTyped
<1>2. /\ Cardinality(Inner(s)) <= reopens
      /\ op \notin Stopped /\ S \notin broken => Cardinality(Breaks(t)) <= reopens
  BY DEF Torn
<1>3. CASE PowerLoss
  <2>1. IsStart(ss, s) /\ op' = "down" /\ reopens' = reopens
    BY <1>3, PowerCuts DEF PowerLoss, Files
  <2> HIDE DEF s, ss
  <2>2. Cardinality(Inner(ss)) <= Cardinality(Inner(s))
    BY <1>1, <2>1, InnerOfStart
  <2>3. Cardinality(Inner(ss)) <= reopens'
    BY <1>1, <1>2, <2>1, <2>2, InnerFinite
  <2> QED
    BY <2>1, <2>3 DEF Torn, Stopped, ss
<1>4. CASE ~PowerLoss
  <2>1. /\ s = ss \/ (op \notin Stopped /\ S \notin broken /\ (IsStart(ss, t) \/ tt = t \o Record(given')))
        /\ NewRecorder \/ ((op' \notin Stopped /\ S \notin broken' => op \notin Stopped /\ S \notin broken) /\ reopens' = reopens)
    BY <1>4, FileMoves DEF Files, Added
  <2>2. tt = t \/ tt = t \o Record(given') \/ op' = "down" \/ NewRecorder
    BY <1>4, Moves DEF Files, Added, Kill
  <2>3. NewRecorder => reopens' = reopens + 1 /\ tt = s
    <3>1. NewRecorder => tt = s \o <<>> /\ reopens' = reopens + 1
      BY DEF NewRecorder, Empty, stream, Files
    <3>2. s \o <<>> = s
      BY <1>1
    <3> QED
      BY <3>1, <3>2
  <2> HIDE DEF s, t, ss, tt
  <2>4. /\ Cardinality(Inner(ss)) \in Nat /\ Cardinality(Inner(s)) \in Nat
        /\ Cardinality(Inner(t)) \in Nat /\ Cardinality(Breaks(t)) \in Nat
        /\ Cardinality(Inner(tt)) \in Nat /\ Cardinality(Breaks(tt)) \in Nat /\ Cardinality(Breaks(s)) \in Nat
        /\ Cardinality(Inner(t)) <= Cardinality(Breaks(t)) /\ Cardinality(Inner(tt)) <= Cardinality(Breaks(tt))
        /\ Cardinality(Inner(ss)) <= Cardinality(Inner(tt)) /\ Cardinality(Breaks(s)) <= Cardinality(Inner(s)) + 1
    BY <1>1, InnerFinite, InnerOfStart
  <2>5. tt = t \o Record(given') => Cardinality(Breaks(tt)) <= Cardinality(Breaks(t))
    BY <1>1, RecordMends
  <2>6. IsStart(ss, t) => Cardinality(Inner(ss)) <= Cardinality(Inner(t))
    BY <1>1, InnerOfStart
  <2>7. reopens <= reopens'
    BY <1>1, <2>1, <2>3
  <2>8. Cardinality(Inner(ss)) <= reopens'
    <3>1. CASE s = ss
      BY <1>1, <1>2, <2>4, <2>7, <3>1
    <3>2. CASE op \notin Stopped /\ S \notin broken /\ IsStart(ss, t)
      BY <1>1, <1>2, <2>4, <2>6, <2>7, <3>2
    <3>3. CASE op \notin Stopped /\ S \notin broken /\ tt = t \o Record(given')
      BY <1>1, <1>2, <2>4, <2>5, <2>7, <3>3
    <3> QED
      BY <2>1, <3>1, <3>2, <3>3
  <2>9. ASSUME op' \notin Stopped, S \notin broken'
        PROVE  Cardinality(Breaks(tt)) <= reopens'
    <3>1. CASE NewRecorder
      BY <1>1, <1>2, <2>3, <2>4, <3>1
    <3>2. CASE ~NewRecorder
      <4>1. Cardinality(Breaks(t)) <= reopens /\ reopens' = reopens /\ (tt = t \/ tt = t \o Record(given'))
        BY <1>2, <2>1, <2>2, <2>9, <3>2 DEF Stopped
      <4> QED
        BY <1>1, <2>4, <2>5, <4>1
    <3> QED
      BY <3>1, <3>2
  <2> QED
    BY <2>8, <2>9 DEF Torn, ss, tt
<1> QED
  BY <1>3, <1>4

LEMMA AcksInit == Init => Acks /\ Torn
<1> SUFFICES ASSUME Init PROVE Acks /\ Torn
  OBVIOUS
<1>1. file["snapshots"] = <<>> /\ stream("snapshots") = <<>> /\ Len(<<>>) = 0
  BY DEF Init, Empty, stream, Files
<1>2. Inner(<<>>) = {} /\ Breaks(<<>>) = {}
  BY <1>1 DEF Inner, Breaks
<1>3. Cardinality({}) = 0
  BY FS_EmptySet
<1>4. Acks
  BY DEF Init, Acks
<1>5. Torn
  <2>1. Cardinality(Inner(file["snapshots"])) = 0 /\ Cardinality(Breaks(stream("snapshots"))) = 0
    BY <1>1, <1>2, <1>3
  <2>2. reopens = 0
    BY DEF Init
  <2> QED
    BY <2>1, <2>2 DEF Torn
<1> QED
  BY <1>4, <1>5

LEMMA SpoiltLines ==
    ASSUME Types, Acks, Torn
    PROVE  Cardinality(acked \ Readable("snapshots")) <= reopens
<1> DEFINE s == file["snapshots"]
           lost == acked \ Readable("snapshots")
           spoilt == {s[j + 1][1] : j \in Inner(s)}
           g == [j \in Inner(s) |-> s[j + 1][1]]
<1>1. s \in Seq(Piece) /\ Len(s) \in Nat /\ DOMAIN s = 1 .. Len(s) /\ \A i \in 1 .. Len(s) : s[i] \in Piece
  <2>1. s \in Seq(Piece)
    BY StreamTyped DEF Files
  <2> QED
    BY <2>1
<1>2. ASSUME NEW id \in lost
      PROVE  id \in spoilt
  <2>1. PICK i \in 1 .. Len(s) - 1 : s[i] = <<id, "head">> /\ s[i + 1] = <<id, "tail">>
    BY <1>2 DEF Acks, HasRecord
  <2>2. i \in DOMAIN s /\ Whole("snapshots", i) /\ s[i][1] = id
    BY <1>1, <2>1 DEF Whole
  <2>3. i > 1 /\ s[i - 1][2] # "tail"
    BY <1>2, <2>2 DEF Readable
  <2>4. i - 1 \in 1 .. Len(s) - 1 /\ (i - 1) + 1 = i
    BY <1>1, <2>1, <2>3
  <2>5. s[i - 1][2] = "head"
    <3>1. s[i - 1] \in Piece
      BY <1>1, <2>4
    <3> QED
      BY <2>3, <3>1 DEF Piece
  <2>6. s[(i - 1) + 1] # <<s[i - 1][1], "tail">>
    BY <2>1, <2>4
  <2>7. i - 1 \in Inner(s)
    BY <2>4, <2>5, <2>6 DEF Inner
  <2> QED
    BY <2>2, <2>4, <2>7
<1>3. IsFiniteSet(Inner(s)) /\ Cardinality(Inner(s)) \in Nat /\ Cardinality(Inner(s)) <= reopens
  BY <1>1, InnerFinite DEF Torn
<1>4. g \in Surjection(Inner(s), spoilt)
  BY DEF Surjection
<1>5. IsFiniteSet(spoilt) /\ Cardinality(spoilt) <= Cardinality(Inner(s))
  BY <1>3, <1>4, FS_Surjection
<1>6. IsFiniteSet(lost) /\ Cardinality(lost) <= Cardinality(spoilt)
  BY <1>2, <1>5, FS_Subset
<1>7. Cardinality(lost) \in Nat /\ Cardinality(spoilt) \in Nat /\ reopens \in Nat
  BY <1>5, <1>6, FS_CardinalityType DEF Types
<1> QED
  BY <1>3, <1>5, <1>6, <1>7

(* What WriteSnapshot returned nil for is in the file, and at most one of   *)
(* them per restart cannot be read: a torn line spoils the next one only.   *)
THEOREM AcknowledgedIsKept == Spec => []AckedIsRecorded
<1>1. Types /\ Acks /\ Torn => AckedIsRecorded
  <2> SUFFICES ASSUME Types, Acks, Torn PROVE AckedIsRecorded
    OBVIOUS
  <2>1. Written("snapshots") = WrittenIn(file["snapshots"]) /\ file["snapshots"] \in Seq(Piece)
    BY StreamTyped DEF Written, Whole, WrittenIn, WholeIn, Files
  <2>2. acked \subseteq Written("snapshots")
    BY <2>1, WrittenIs DEF Acks
  <2> QED
    BY <2>2, SpoiltLines DEF AckedIsRecorded
<1> QED
  BY <1>1, TypesInit, TypesNext, AcksInit, AcksNext, TornNext, PTL DEF Spec

-----------------------------------------------------------------------------
(* Nothing failed: the hints that wait are of the snapshot being written,   *)
(* those in the file of snapshots that are in theirs.                       *)
Undamaged ==
    ~damaged =>
        /\ broken = {}
        /\ op \notin {"flush1", "flush2"} => buf["hints"] = <<>>
        /\ \A i \in 1 .. Len(buf["hints"]) : buf["hints"][i][1] = given
        /\ \A i \in 1 .. Len(file["hints"]) : HasRecord(file["snapshots"], file["hints"][i][1])

LEMMA StreamElements ==
    ASSUME Types, NEW f \in Files, NEW s \in Seq(Piece), IsStart(s, stream(f)), NEW i \in 1 .. Len(s)
    PROVE  \/ i \in 1 .. Len(file[f]) /\ s[i] = file[f][i]
           \/ \E j \in 1 .. Len(buf[f]) : s[i] = buf[f][j]
<1> DEFINE a == file[f]  b == buf[f]
<1>1. a \in Seq(Piece) /\ b \in Seq(Piece) /\ stream(f) = a \o b
  BY StreamTyped DEF stream
<1> HIDE DEF a, b
<1>2. Len(a \o b) = Len(a) + Len(b) /\ Len(a) \in Nat /\ Len(b) \in Nat
  BY <1>1, ConcatProperties
<1>3. i \in 1 .. Len(a) + Len(b) /\ s[i] = (a \o b)[i]
  BY <1>1, <1>2 DEF IsStart
<1>4. CASE i <= Len(a)
  BY <1>1, <1>2, <1>3, <1>4 DEF a
<1>5. CASE ~(i <= Len(a))
  <2>1. i - Len(a) \in 1 .. Len(b) /\ s[i] = b[i - Len(a)]
    BY <1>1, <1>2, <1>3, <1>5
  <2> QED
    BY <2>1 DEF b
<1> QED
  BY <1>4, <1>5

LEMMA UndamagedNext == Types /\ Acks /\ Undamaged /\ [Next]_vars => Undamaged'
<1> SUFFICES ASSUME Types, Acks, Undamaged, [Next]_vars, ~damaged' PROVE Undamaged'
  BY DEF Undamaged
<1> DEFINE S == "snapshots"  H == "hints"
<1>1. ~PowerLoss /\ S \in Files /\ H \in Files /\ S # H
  BY DEF PowerLoss, Files
<1>2. /\ file[S] \in Seq(Piece) /\ file'[S] \in Seq(Piece) /\ buf[H] \in Seq(Piece)
      /\ file[H] \in Seq(Piece) /\ file'[H] \in Seq(Piece)
      /\ IsStart(file[S], file'[S])
  <2>1. Types'
    BY TypesNext
  <2> QED
    BY <1>1, <2>1, FileMoves, StreamTyped DEF Types
<1>3. /\ ~damaged /\ broken = {} /\ (op \notin {"flush1", "flush2"} => buf[H] = <<>>)
      /\ \A i \in 1 .. Len(buf[H]) : buf[H][i][1] = given
      /\ \A i \in 1 .. Len(file[H]) : HasRecord(file[S], file[H][i][1])
  <2>1. ~damaged
    BY <1>1, FileMoves
  <2> QED
    BY <2>1 DEF Undamaged
<1>4. \A id : HasRecord(file[S], id) => HasRecord(file'[S], id)
  BY <1>2, StartHasRecord
<1>5. file'[H] = file[H] => \A i \in 1 .. Len(file'[H]) : HasRecord(file'[S], file'[H][i][1])
  BY <1>3, <1>4
<1>6. Len(<<>>) = 0 /\ (1 .. 0) = {}
  OBVIOUS
<1>7. ASSUME NEW hinted \in BOOLEAN, NEW ok \in BOOLEAN, NEW k \in 0 .. 2 * MaxSnapshots,
             EncodeSnapshot(hinted, k, ok)
      PROVE  Undamaged'
  <2>1. k \in Nat /\ op = "idle"
    BY <1>7, RecorderAssumption DEF EncodeSnapshot
  <2>2. file'[H] = file[H] /\ buf'[H] = buf[H] /\ damaged' = (damaged \/ ~ok)
        /\ broken' = IF ok THEN broken ELSE broken \union {S}
    BY <1>3, <1>7, <2>1, EncodeGrows
  <2>3. ok /\ broken' = {} /\ buf'[H] = <<>>
    BY <1>3, <2>1, <2>2
  <2> QED
    BY <1>5, <1>6, <2>2, <2>3 DEF Undamaged
<1>8. CASE EncodeHint
  <2>1. op = "hint" /\ given' = given /\ given \in Nat /\ buf[H] = <<>>
    BY <1>3, <1>8, RecorderAssumption DEF EncodeHint, Types
  <2>2. file' = file /\ buf'[H] = buf[H] \o Record(given) /\ broken' = broken /\ op' = "flush1"
    BY <1>3, <1>8, HintGrows
  <2>3. Record(given) \in Seq(Piece) /\ Len(Record(given)) = 2
        /\ Record(given)[1] = <<given, "head">> /\ Record(given)[2] = <<given, "tail">>
    BY <2>1, RecordIsSeq
  <2>4. buf'[H] = Record(given)
    <3>1. <<>> \o Record(given) = Record(given)
      BY <2>3, ConcatEmptySeq
    <3> QED
      BY <2>1, <2>2, <3>1
  <2>5. \A i \in 1 .. Len(buf'[H]) : buf'[H][i][1] = given'
    <3>1. \A i \in 1 .. 2 : i = 1 \/ i = 2
      OBVIOUS
    <3>2. Record(given)[1][1] = given /\ Record(given)[2][1] = given
      BY <2>3
    <3> QED
      BY <2>1, <2>3, <2>4, <3>1, <3>2
  <2> QED
    BY <1>3, <1>5, <2>2, <2>5 DEF Undamaged
<1>9. ASSUME Flush(S, "flush2", "idle"), op = "flush1", given' = given
      PROVE  Undamaged'
  <2>1. op' = "flush2" /\ broken' = broken /\ file'[H] = file[H] /\ buf'[H] = buf[H]
    BY <1>1, <1>3, <1>9, FlushGrows
  <2> QED
    BY <1>3, <1>5, <1>9, <2>1 DEF Undamaged
<1>10. ASSUME Flush(H, "sync", "idle"), op = "flush2", given' = given
      PROVE  Undamaged'
  <2>1. op' = "sync" /\ broken' = broken /\ file'[H] = stream(H) /\ buf'[H] = <<>>
    BY <1>1, <1>3, <1>10, FlushGrows
  <2>2. HasRecord(file[S], given)
    BY <1>10 DEF Acks
  <2>3. ASSUME NEW i \in 1 .. Len(file'[H])
        PROVE  HasRecord(file'[S], file'[H][i][1])
    <3>1. IsStart(file'[H], stream(H))
      BY <1>2, <2>1 DEF IsStart
    <3>2. \/ i \in 1 .. Len(file[H]) /\ file'[H][i] = file[H][i]
          \/ \E j \in 1 .. Len(buf[H]) : file'[H][i] = buf[H][j]
      BY <1>1, <1>2, <3>1, StreamElements
    <3> QED
      BY <1>3, <1>4, <2>2, <3>2
  <2> QED
    BY <1>3, <1>6, <2>1, <2>3 DEF Undamaged
<1>11. CASE FlushSnapshot
  BY <1>9, <1>10, <1>11 DEF FlushSnapshot, flushed
<1>12. CASE FinishWrite
  <2>1. op = "sync" /\ op' = "idle" /\ UNCHANGED <<file, buf, broken, given>>
    BY <1>12 DEF FinishWrite, fsync, disk
  <2> QED
    BY <1>3, <1>5, <2>1 DEF Undamaged
<1>13. CASE Close
  <2>1. op \in {"idle", "close2", "closeSync"} /\ op' \notin {"flush1", "flush2"} /\ given' = given /\ buf[H] = <<>>
    BY <1>3, <1>13 DEF Close, Flush
  <2>2. stream(H) = file[H]
    BY <1>2, <2>1, ConcatEmptySeq DEF stream
  <2>3. broken' = {} /\ file'[H] = file[H] /\ buf'[H] = <<>>
    <3>1. CASE Flush(S, "close2", "close2")
      BY <1>1, <1>3, <2>1, <3>1, FlushGrows
    <3>2. CASE Flush(H, "closeSync", "closeSync")
      BY <1>1, <1>3, <2>1, <2>2, <3>2, FlushGrows
    <3>3. CASE \E done \in SUBSET Files : fsync(done, done = Files)
      BY <1>3, <2>1, <3>3 DEF fsync
    <3> QED
      BY <1>13, <3>1, <3>2, <3>3 DEF Close, flushed
  <2> QED
    BY <1>5, <1>6, <2>1, <2>3 DEF Undamaged
<1>14. CASE Kill
  <2>1. /\ buf' = Empty /\ IsStart(file'[H], stream(H)) /\ (file'[H] # file[H] => H \in writing \ broken)
        /\ op' = "down" /\ broken' = broken
    BY <1>1, <1>14, KillCuts DEF Kill
  <2>2. ASSUME NEW i \in 1 .. Len(file'[H])
        PROVE  HasRecord(file'[S], file'[H][i][1])
    <3>1. CASE file'[H] = file[H]
      BY <1>5, <3>1
    <3>2. CASE H \in writing \ broken
      <4>1. op = "flush2"
        BY <3>2 DEF writing, flushed
      <4>2. HasRecord(file[S], given)
        BY <4>1 DEF Acks
      <4>3. \/ i \in 1 .. Len(file[H]) /\ file'[H][i] = file[H][i]
            \/ \E j \in 1 .. Len(buf[H]) : file'[H][i] = buf[H][j]
        BY <1>1, <1>2, <2>1, StreamElements
      <4> QED
        BY <1>3, <1>4, <4>2, <4>3
    <3> QED
      BY <2>1, <3>1, <3>2
  <2>3. buf'[H] = <<>>
    BY <1>1, <2>1 DEF Empty
  <2> QED
    BY <1>3, <1>6, <2>1, <2>2, <2>3 DEF Undamaged
<1>15. CASE NewRecorder
  <2>1. buf'[H] = <<>> /\ file' = file /\ broken' = {}
    BY <1>1, <1>15 DEF NewRecorder, Empty
  <2> QED
    BY <1>5, <1>6, <2>1 DEF Undamaged
<1>16. CASE UNCHANGED vars
  BY <1>3, <1>16 DEF vars, disk, Undamaged
<1> QED
  BY <1>1, <1>7, <1>8, <1>11, <1>12, <1>13, <1>14, <1>15, <1>16 DEF Next

LEMMA UndamagedInit == Init => Undamaged
<1> SUFFICES ASSUME Init PROVE Undamaged
  OBVIOUS
<1>1. file["hints"] = <<>> /\ buf["hints"] = <<>> /\ Len(<<>>) = 0
  BY DEF Init, Empty, Files
<1> QED
  BY <1>1 DEF Init, Undamaged

(* As long as nothing fails, no hint is in its file before its snapshot is  *)
(* in the other (WriteSnapshot flushes the snapshots first).                *)
THEOREM HintsComeAfterSnapshots == Spec => []HintsHaveSnapshots
<1>1. Types /\ Acks /\ Undamaged => HintsHaveSnapshots
  <2> SUFFICES ASSUME Types, Undamaged, ~damaged, NEW id \in Written("hints")
               PROVE  id \in Written("snapshots")
    BY DEF HintsHaveSnapshots
  <2>1. /\ Written("snapshots") = WrittenIn(file["snapshots"]) /\ file["snapshots"] \in Seq(Piece)
        /\ Written("hints") = WrittenIn(file["hints"]) /\ file["hints"] \in Seq(Piece)
    BY StreamTyped DEF Written, Whole, WrittenIn, WholeIn, Files
  <2>2. PICK i \in 1 .. Len(file["hints"]) : file["hints"][i][1] = id
    BY <2>1 DEF WrittenIn
  <2>3. HasRecord(file["snapshots"], id)
    BY <2>2 DEF Undamaged
  <2> QED
    BY <2>1, <2>3, WrittenIs
<1> QED
  BY <1>1, TypesInit, TypesNext, AcksInit, AcksNext, UndamagedInit, UndamagedNext, PTL DEF Spec

-----------------------------------------------------------------------------
(* What a power loss can take: the acknowledged snapshots that are not      *)
(* whole in the synced part of the file.  A write adds one, the writes      *)
(* since the last fsync that was due are fewer than FsyncEvery, and each    *)
(* failed fsync and each restart starts that count again.                   *)
SafeIn(s, n, id) == \E i \in 1 .. n - 1 : s[i] = <<id, "head">> /\ s[i + 1] = <<id, "tail">>
AtRisk == {id \in acked : ~SafeIn(file["snapshots"], synced["snapshots"], id)}

RiskBounded ==
    FsyncEvery > 0 => Cardinality(AtRisk) <= (writes % FsyncEvery) + (FsyncEvery - 1) * missed

LEMMA SafeKept ==
    ASSUME NEW s \in Seq(Piece), NEW t \in Seq(Piece), IsStart(s, t), NEW n \in Nat, n <= Len(s), NEW id
    PROVE  /\ SafeIn(s, n, id) => SafeIn(t, n, id)
           /\ SafeIn(t, n, id) => HasRecord(s, id)
<1>1. Len(s) \in Nat /\ \A i \in 1 .. Len(s) : s[i] = t[i]
  BY DEF IsStart
<1>2. \A i \in 1 .. n - 1 : i \in 1 .. Len(s) - 1 /\ i \in 1 .. Len(s) /\ i + 1 \in 1 .. Len(s)
  BY <1>1
<1> QED
  BY <1>1, <1>2 DEF SafeIn, HasRecord

LEMMA Times ==
    ASSUME NEW F \in Nat, F > 0, NEW m \in Nat
    PROVE  (F - 1) * m \in Nat /\ (F - 1) * (m + 1) = (F - 1) * m + (F - 1)
OBVIOUS

LEMMA DivMod ==
    ASSUME NEW F \in Nat, F > 0, NEW n \in Nat
    PROVE  n = F * (n \div F) + (n % F) /\ n \div F \in Nat /\ n % F \in 0 .. F - 1
OBVIOUS

LEMMA SameRest ==
    ASSUME NEW F \in Nat, F > 0, NEW a \in Nat, NEW b \in Nat, NEW r \in 0 .. F - 1, NEW s \in 0 .. F - 1,
           F * a + r = F * b + s
    PROVE  r = s
OBVIOUS

LEMMA NextRest ==
    ASSUME NEW F \in Nat, F > 0, NEW n \in Nat
    PROVE  (n + 1) % F = IF n % F = F - 1 THEN 0 ELSE (n % F) + 1
<1> DEFINE a == n \div F  r == n % F  b == (n + 1) \div F  s == (n + 1) % F
<1>1. n = F * a + r /\ a \in Nat /\ r \in 0 .. F - 1
  BY DivMod
<1>2. n + 1 = F * b + s /\ b \in Nat /\ s \in 0 .. F - 1
  BY DivMod
<1> HIDE DEF a, r, b, s
<1>3. CASE r = F - 1
  <2>1. F * (a + 1) + 0 = F * b + s /\ a + 1 \in Nat /\ 0 \in 0 .. F - 1
    BY <1>1, <1>2, <1>3
  <2>2. s = 0
    BY <1>2, <2>1, SameRest
  <2> QED
    BY <1>3, <2>2 DEF s, r
<1>4. CASE r # F - 1
  <2>1. F * a + (r + 1) = F * b + s /\ r + 1 \in 0 .. F - 1
    BY <1>1, <1>2, <1>4
  <2>2. s = r + 1
    BY <1>1, <1>2, <2>1, SameRest
  <2> QED
    BY <1>4, <2>2 DEF s, r
<1> QED
  BY <1>3, <1>4

(* Every step but a power loss, seen from the fsync of the snapshots.       *)
LEMMA SyncMoves ==
    ASSUME Types, [Next]_vars, ~PowerLoss
    PROVE  \/ synced'["snapshots"] = Len(file'["snapshots"])
           \/ /\ synced'["snapshots"] = synced["snapshots"]
              /\ \/ UNCHANGED <<acked, writes, missed>>
                 \/ acked' = acked \union {given} /\ writes' = writes + 1 /\ ~syncIsDue(writes') /\ UNCHANGED missed
                 \/ acked' = acked /\ writes' = writes + 1 /\ syncIsDue(writes') /\ missed' = missed + 1
                 \/ acked' = acked /\ writes' \in {writes, 0} /\ missed' = missed + 1
<1> DEFINE S == "snapshots"
           Quiet == synced'[S] = synced[S] /\ UNCHANGED <<acked, writes, missed>>
<1>0. S \in Files
  BY DEF Files
<1>1. ASSUME NEW hinted \in BOOLEAN, NEW ok \in BOOLEAN, NEW k \in 0 .. 2 * MaxSnapshots,
             EncodeSnapshot(hinted, k, ok)
      PROVE  Quiet
  BY <1>1 DEF EncodeSnapshot, put, disk
<1>2. CASE EncodeHint
  BY <1>2 DEF EncodeHint, put, disk
<1>3. ASSUME NEW f, NEW next, NEW otherwise, Flush(f, next, otherwise)
      PROVE  synced' = synced
  BY <1>3 DEF Flush, put, disk
<1>4. CASE FlushSnapshot
  <2>1. UNCHANGED <<acked, writes, missed>>
    BY <1>4 DEF FlushSnapshot
  <2> QED
    BY <1>3, <1>4, <2>1 DEF FlushSnapshot
<1>5. ASSUME NEW done, NEW ok, fsync(done, ok)
      PROVE  \/ synced'[S] = Len(file'[S])
             \/ synced'[S] = synced[S] /\ missed' = missed + 1
  BY <1>0, <1>5 DEF fsync
<1>6. CASE FinishWrite
  <2>1. CASE ~syncIsDue(writes') /\ acked' = acked \union {given} /\ UNCHANGED <<disk, missed, damaged>>
    BY <1>6, <2>1 DEF FinishWrite, disk
  <2>2. CASE acked' = acked \union {given} /\ fsync(Files, TRUE)
    BY <1>0, <2>2 DEF fsync
  <2>3. CASE syncIsDue(writes') /\ UNCHANGED acked /\ \E done \in {{}, {S}} : fsync(done, FALSE)
    <3>1. writes' = writes + 1
      BY <1>6 DEF FinishWrite
    <3> QED
      BY <1>5, <2>3, <3>1
  <2> QED
    BY <1>6, <2>1, <2>2, <2>3 DEF FinishWrite
<1>7. CASE Close
  <2>1. UNCHANGED <<acked, writes>>
    BY <1>7 DEF Close
  <2>2. CASE \/ op = "idle" /\ Flush(flushed(1), "close2", "close2") /\ UNCHANGED missed
             \/ op = "close2" /\ Flush(flushed(2), "closeSync", "closeSync") /\ UNCHANGED missed
    BY <1>3, <2>1, <2>2
  <2>3. CASE \E done \in SUBSET Files : fsync(done, done = Files)
    BY <1>5, <2>1, <2>3
  <2> QED
    BY <1>7, <2>2, <2>3 DEF Close
<1>8. CASE Kill
  BY <1>8 DEF Kill
<1>9. CASE NewRecorder
  BY <1>9 DEF NewRecorder
<1>10. CASE UNCHANGED vars
  BY <1>10 DEF vars, disk
<1> QED
  BY <1>1, <1>2, <1>4, <1>6, <1>7, <1>8, <1>9, <1>10 DEF Next

LEMMA RiskFinite ==
    ASSUME Types
    PROVE  IsFiniteSet(AtRisk) /\ Cardinality(AtRisk) \in Nat
<1>1. IsFiniteSet(1 .. given)
  BY RecorderAssumption, FS_Interval DEF Types
<1>2. AtRisk \subseteq 1 .. given
  BY DEF Types, AtRisk
<1> QED
  BY <1>1, <1>2, FS_Subset, FS_CardinalityType

(* What the steps do to the set of those at risk.                           *)
LEMMA RiskMoves ==
    ASSUME Types, Acks, [Next]_vars
    PROVE  /\ synced'["snapshots"] = Len(file'["snapshots"]) => AtRisk' = {}
           /\ ~PowerLoss /\ synced'["snapshots"] = synced["snapshots"] =>
                AtRisk' \subseteq AtRisk \union (acked' \ acked)
           /\ PowerLoss => synced'["snapshots"] = Len(file'["snapshots"]) /\ acked \ acked' \subseteq AtRisk
<1> DEFINE S == "snapshots"  s == file[S]  ss == file'[S]
<1>1. Types' /\ Acks' /\ S \in Files
  BY TypesNext, AcksNext DEF Files
<1>2. /\ s \in Seq(Piece) /\ ss \in Seq(Piece) /\ synced[S] \in Nat /\ synced'[S] \in Nat
      /\ synced[S] <= Len(s) /\ synced'[S] <= Len(ss) /\ Len(s) \in Nat /\ Len(ss) \in Nat
  BY <1>1 DEF Types
<1>3. ASSUME synced'[S] = Len(ss)
      PROVE  AtRisk' = {}
  <2>1. \A id \in acked' : HasRecord(ss, id)
    BY <1>1 DEF Acks
  <2>2. AtRisk' = {id \in acked' : ~SafeIn(ss, synced'[S], id)}
    BY DEF AtRisk, SafeIn
  <2>3. \A id \in acked' : SafeIn(ss, synced'[S], id)
    BY <1>3, <2>1 DEF HasRecord, SafeIn
  <2> QED
    BY <2>2, <2>3
<1>4. ASSUME ~PowerLoss, synced'[S] = synced[S]
      PROVE  AtRisk' \subseteq AtRisk \union (acked' \ acked)
  <2>1. IsStart(s, ss)
    BY <1>1, <1>4, FileMoves
  <2>2. \A id : SafeIn(s, synced[S], id) => SafeIn(ss, synced'[S], id)
    <3> HIDE DEF s, ss
    <3> QED
      BY <1>2, <1>4, <2>1, SafeKept
  <2>3. AtRisk' = {id \in acked' : ~SafeIn(ss, synced'[S], id)}
    BY DEF AtRisk, SafeIn
  <2> QED
    BY <2>2, <2>3 DEF AtRisk
<1>5. ASSUME PowerLoss
      PROVE  synced'[S] = Len(ss) /\ acked \ acked' \subseteq AtRisk
  <2>1. IsStart(ss, s) /\ synced[S] <= synced'[S] /\ synced'[S] = Len(ss)
    BY <1>1, <1>5, PowerCuts
  <2>2. acked' = acked \intersect (Written(S))'
    BY <1>5 DEF PowerLoss
  <2>3. (Written(S))' = WrittenIn(ss)
    BY DEF Written, Whole, WrittenIn, WholeIn
  <2>4. \A id : SafeIn(s, synced[S], id) => HasRecord(ss, id)
    <3> HIDE DEF s, ss
    <3>1. \A id : SafeIn(s, synced[S], id) => HasRecord(ss, id)
      <4> SUFFICES ASSUME NEW id, SafeIn(s, synced[S], id) PROVE HasRecord(ss, id)
        OBVIOUS
      <4>1. SafeIn(s, Len(ss), id)
        BY <1>2, <2>1, <1>5 DEF SafeIn
      <4> QED
        BY <1>2, <2>1, <4>1, SafeKept
    <3> QED
      BY <3>1
  <2>5. \A id : SafeIn(s, synced[S], id) => id \in WrittenIn(ss)
    BY <1>2, <2>4, WrittenIs
  <2> QED
    BY <2>1, <2>2, <2>3, <2>5 DEF AtRisk
<1> QED
  BY <1>3, <1>4, <1>5

LEMMA RiskNext == Types /\ Acks /\ RiskBounded /\ [Next]_vars => RiskBounded'
<1> SUFFICES ASSUME Types, Acks, RiskBounded, [Next]_vars, FsyncEvery > 0
             PROVE  Cardinality(AtRisk') <= (writes' % FsyncEvery) + (FsyncEvery - 1) * missed'
  BY DEF RiskBounded
<1> DEFINE S == "snapshots"  F == FsyncEvery
           c == Cardinality(AtRisk)  cc == Cardinality(AtRisk')
           r == writes % F  rr == writes' % F
<1>1. Types' /\ F \in Nat /\ F > 0
  BY TypesNext, RecorderAssumption
<1>2. writes \in Nat /\ writes' \in Nat /\ missed \in Nat /\ missed' \in Nat
  BY <1>1 DEF Types
<1>3. r \in 0 .. F - 1 /\ rr \in 0 .. F - 1
  BY <1>1, <1>2, DivMod
<1>4. (F - 1) * missed \in Nat /\ (F - 1) * missed' \in Nat
  BY <1>1, <1>2, Times
<1>5. c <= r + (F - 1) * missed /\ c \in Nat /\ IsFiniteSet(AtRisk)
  BY RiskFinite DEF RiskBounded
<1>6. CASE synced'[S] = Len(file'[S])
  <2>1. cc = 0
    BY <1>6, RiskMoves, FS_EmptySet
  <2> QED
    BY <1>3, <1>4, <2>1
<1>7. CASE synced'[S] # Len(file'[S])
  <2>1. ~PowerLoss
    BY <1>7, RiskMoves
  <2>2. /\ synced'[S] = synced[S]
        /\ \/ UNCHANGED <<acked, writes, missed>>
           \/ acked' = acked \union {given} /\ writes' = writes + 1 /\ ~syncIsDue(writes') /\ UNCHANGED missed
           \/ acked' = acked /\ writes' = writes + 1 /\ syncIsDue(writes') /\ missed' = missed + 1
           \/ acked' = acked /\ writes' \in {writes, 0} /\ missed' = missed + 1
    BY <1>7, <2>1, SyncMoves
  <2>3. AtRisk' \subseteq AtRisk \union (acked' \ acked)
    BY <2>1, <2>2, RiskMoves
  <2>4. acked' = acked => cc <= c /\ cc \in Nat
    BY <1>5, <2>3, FS_Subset, FS_CardinalityType
  <2>5. missed' = missed + 1 => (F - 1) * missed' = (F - 1) * missed + (F - 1)
    BY <1>1, <1>2
  <2>6. CASE UNCHANGED <<acked, writes, missed>>
    BY <1>3, <1>4, <1>5, <2>4, <2>6
  <2>7. CASE acked' = acked \union {given} /\ writes' = writes + 1 /\ ~syncIsDue(writes') /\ UNCHANGED missed
    <3>1. rr = r + 1
      <4>1. writes' % F # 0
        BY <1>1, <2>7 DEF syncIsDue
      <4> QED
        BY <1>1, <1>2, <2>7, <4>1, NextRest
    <3>2. /\ IsFiniteSet(AtRisk \union {given}) /\ Cardinality(AtRisk \union {given}) <= c + 1
          /\ Cardinality(AtRisk \union {given}) \in Nat
      <4>1. /\ IsFiniteSet(AtRisk \union {given})
            /\ Cardinality(AtRisk \union {given}) = IF given \in AtRisk THEN c ELSE c + 1
        BY <1>5, FS_AddElement
      <4> QED
        BY <1>5, <4>1
    <3>3. AtRisk' \subseteq AtRisk \union {given}
      BY <2>3, <2>7
    <3>4. cc <= Cardinality(AtRisk \union {given}) /\ cc \in Nat
      BY <3>2, <3>3, FS_Subset, FS_CardinalityType
    <3>5. missed' = missed
      BY <2>7
    <3> HIDE DEF c, cc, r, rr, F
    <3> QED
      BY <1>3, <1>4, <1>5, <3>1, <3>2, <3>4, <3>5 DEF F, c, cc, r, rr
  <2>8. CASE acked' = acked /\ missed' = missed + 1
    <3> HIDE DEF c, cc, r, rr
    <3>1. cc <= rr + (F - 1) * missed'
      BY <1>1, <1>3, <1>4, <1>5, <2>4, <2>5, <2>8
    <3> QED
      BY <3>1 DEF cc, rr
  <2> QED
    BY <2>2, <2>6, <2>7, <2>8
<1> QED
  BY <1>6, <1>7

LEMMA RiskInit == Init => RiskBounded
<1> SUFFICES ASSUME Init, FsyncEvery > 0
             PROVE  Cardinality(AtRisk) <= (writes % FsyncEvery) + (FsyncEvery - 1) * missed
  BY DEF RiskBounded
<1>1. AtRisk = {} /\ missed = 0 /\ writes \in Nat /\ FsyncEvery \in Nat
  BY RecorderAssumption DEF Init, AtRisk
<1>2. writes % FsyncEvery \in Nat
  BY <1>1, DivMod
<1> QED
  BY <1>1, <1>2, FS_EmptySet

(* A power loss takes at most FsyncEvery - 1 acknowledged snapshots, and as *)
(* many again per failed fsync and per restart since the last good one.     *)
THEOREM PowerLossCosts == Spec => PowerLossIsBounded
<1> DEFINE Cost == FsyncEvery > 0 => Cardinality(acked \ acked') <= (FsyncEvery - 1) * (1 + missed)
<1>1. Types /\ Acks /\ RiskBounded /\ [Next]_vars => [Cost]_vars
  <2> SUFFICES ASSUME Types, Acks, RiskBounded, [Next]_vars, FsyncEvery > 0
               PROVE  Cardinality(acked \ acked') <= (FsyncEvery - 1) * (1 + missed)
    OBVIOUS
  <2>1. FsyncEvery \in Nat /\ missed \in Nat /\ writes \in Nat
    BY RecorderAssumption DEF Types
  <2>2. (FsyncEvery - 1) * (1 + missed) = (FsyncEvery - 1) + (FsyncEvery - 1) * missed
        /\ (FsyncEvery - 1) * missed \in Nat
    BY <2>1
  <2>3. CASE PowerLoss
    <3>1. acked \ acked' \subseteq AtRisk /\ IsFiniteSet(AtRisk) /\ Cardinality(AtRisk) \in Nat
      BY <2>3, RiskMoves, RiskFinite
    <3>2. Cardinality(acked \ acked') <= Cardinality(AtRisk) /\ Cardinality(acked \ acked') \in Nat
      BY <3>1, FS_Subset, FS_CardinalityType
    <3>3. Cardinality(AtRisk) <= (writes % FsyncEvery) + (FsyncEvery - 1) * missed
      BY DEF RiskBounded
    <3>4. writes % FsyncEvery \in 0 .. FsyncEvery - 1
      BY <2>1, DivMod
    <3> QED
      BY <2>1, <2>2, <3>1, <3>2, <3>3, <3>4
  <2>4. CASE ~PowerLoss
    <3>1. acked \ acked' = {}
      BY <2>4, FileMoves
    <3> QED
      BY <2>1, <2>2, <3>1, FS_EmptySet
  <2> QED
    BY <2>3, <2>4
<1> QED
  BY <1>1, TypesInit, TypesNext, AcksInit, AcksNext, RiskInit, RiskNext, PTL DEF Spec, PowerLossIsBounded
=============================================================================
