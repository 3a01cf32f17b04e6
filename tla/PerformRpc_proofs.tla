-------------------------- MODULE PerformRpc_proofs --------------------------
(***************************************************************************)
(* Proofs about PerformRpc, for every payload, every answer of malloc and  *)
(* any number of requests and restarts: what reaches the robot over the    *)
(* UART are whole commands, in the order in which they were dispatched.    *)
(***************************************************************************)
EXTENDS PerformRpc, PbDecode_proofs

----------------------------------------------------------------------------
(* Sequences, whatever they hold.                                          *)
LEMMA SequenceIs ==
    ASSUME NEW S, NEW s \in Seq(S)
    PROVE  IsSequence(s)
<1>1. s \in [1..Len(s) -> S] /\ Len(s) \in Nat /\ DOMAIN s = 1..Len(s)
  BY LenProperties
<1> DEFINE T == {s[i] : i \in DOMAIN s}
<1>2. s \in [1..Len(s) -> T]
  BY <1>1
<1>3. s \in Seq(T)
  <2> HIDE DEF T
  <2>1. QED
    BY <1>1, <1>2, SeqDef
<1>4. QED
  BY <1>3 DEF IsSequence

LEMMA AppendIsSequence ==
    ASSUME NEW s, IsSequence(s), NEW x
    PROVE  /\ IsSequence(Append(s, x)) /\ Len(s) \in Nat /\ Len(Append(s, x)) = Len(s) + 1
           /\ \A i \in 1..Len(s) : Append(s, x)[i] = s[i]
           /\ Append(s, x)[Len(s) + 1] = x
<1> DEFINE S == {s[i] : i \in DOMAIN s} \cup {x}
<1>1. s \in Seq(S)
  <2>1. s \in Seq({s[i] : i \in DOMAIN s})
    BY DEF IsSequence
  <2> DEFINE T == {s[i] : i \in DOMAIN s}
  <2>2. s \in Seq(T) /\ T \subseteq S
    BY <2>1
  <2> HIDE DEF T, S
  <2>3. QED
    BY <2>2, SeqMonotonic
<1>2. x \in S
  OBVIOUS
<1> HIDE DEF S
<1>3. /\ Append(s, x) \in Seq(S) /\ Len(Append(s, x)) = Len(s) + 1
      /\ \A i \in 1..Len(s) : Append(s, x)[i] = s[i]
      /\ Append(s, x)[Len(s) + 1] = x
  BY <1>1, <1>2, AppendProperties
<1>4. Len(s) \in Nat
  BY <1>1, LenProperties
<1>5. IsSequence(Append(s, x))
  BY <1>3, SequenceIs
<1>6. QED
  BY <1>3, <1>4, <1>5

----------------------------------------------------------------------------
(* send_roomba_cmd is called with as many arguments as the opcode has.     *)
LEMMA OpcodesDiffer ==
    /\ \A op \in DOMAIN Opcode : op \in DOMAIN Nargs /\ Nargs[op] \in Nat
    /\ \A op1, op2 \in DOMAIN Opcode : Opcode[op1] = Opcode[op2] => op1 = op2
BY DEF Opcode, Nargs

LEMMA CommandShape ==
    ASSUME NEW op \in DOMAIN Opcode, NEW args, Len(args) = Nargs[op]
    PROVE  IsResult(SendRoombaCmd(op, args))
<1> DEFINE n == Len(args)
           b == [i \in 1..n |-> args[i] % 256]
           a == <<Opcode[op]>>
           S == {b[i] : i \in 1..n} \cup {Opcode[op]}
           f == a \o b
<1>1. n \in Nat
  BY OpcodesDiffer
<1>2. b \in Seq(S) /\ Len(b) = n
  <2>1. b \in [1..n -> S]
    OBVIOUS
  <2> HIDE DEF b, S
  <2>2. b \in Seq(S)
    BY <1>1, <2>1, SeqDef
  <2>3. DOMAIN b = 1..n /\ DOMAIN b = 1..Len(b) /\ Len(b) \in Nat
    BY <2>1, <2>2, LenProperties
  <2>4. QED
    BY <1>1, <2>2, <2>3
<1>3. a \in Seq(S) /\ Len(a) = 1 /\ a[1] = Opcode[op]
  OBVIOUS
<1>4. SendRoombaCmd(op, args) = <<f>>
  BY DEF SendRoombaCmd
<1> HIDE DEF a, b, S, n
<1>5. /\ f \in Seq(S) /\ Len(f) = 1 + n
      /\ f[1] = Opcode[op]
  <2>1. /\ a \o b \in Seq(S) /\ Len(a \o b) = Len(a) + Len(b)
        /\ \A i \in 1..(Len(a) + Len(b)) : (a \o b)[i] = IF i <= Len(a) THEN a[i] ELSE b[i - Len(a)]
    BY <1>2, <1>3, ConcatProperties
  <2>2. 1 \in 1..(Len(a) + Len(b)) /\ 1 <= Len(a)
    BY <1>1, <1>2, <1>3
  <2>3. QED
    BY <1>2, <1>3, <2>1, <2>2
<1>6. f # <<>>
  BY <1>1, <1>5, EmptySeq
<1>7. IsCommand(f)
  <2> HIDE DEF f
  <2>1. op \in OpOf(f[1]) /\ Len(f) = 1 + Nargs[op]
    BY <1>5 DEF OpOf, n
  <2>2. QED
    BY <1>5, <1>6, <2>1, SequenceIs DEF IsCommand
<1>8. QED
  <2> HIDE DEF f
  <2>1. <<f>>[1] = f
    OBVIOUS
  <2>2. QED
    BY <1>4, <1>7, <2>1 DEF IsResult

(* What is made of a request, whatever was decoded: nothing or one whole   *)
(* command.                                                                *)
LEMMA RequestShape ==
    ASSUME NEW d
    PROVE  IsResult(HandleRequest(d))
<1>0. IsResult(Nothing)
  BY DEF IsResult
<1>1. \A op \in {"START", "SAFE", "FULL", "POWER", "SPOT", "CLEAN", "MAX", "SEEK_DOCK"} :
         op \in DOMAIN Opcode /\ Nargs[op] = 0
  BY DEF Opcode, Nargs
<1>2. \A op \in {"BAUD", "PLAY"} : op \in DOMAIN Opcode /\ Nargs[op] = 1
  BY DEF Opcode, Nargs
<1>3. "DRIVE" \in DOMAIN Opcode /\ Nargs["DRIVE"] = 4
  BY DEF Opcode, Nargs
<1>4. \A op \in {"START", "SAFE", "FULL", "POWER", "SPOT", "CLEAN", "MAX", "SEEK_DOCK"} :
         IsResult(SendRoombaCmd(op, <<>>))
  <2>1. Len(<<>>) = 0
    BY EmptySeq
  <2>2. QED
    BY <1>1, <2>1, CommandShape
<1>5. ASSUME NEW op \in {"BAUD", "PLAY"}, NEW x PROVE IsResult(SendRoombaCmd(op, <<x>>))
  <2>1. Len(<<x>>) = 1
    OBVIOUS
  <2>2. QED
    BY <1>2, <2>1, CommandShape
<1>6. ASSUME NEW x1, NEW x2, NEW x3, NEW x4 PROVE IsResult(SendRoombaCmd("DRIVE", <<x1, x2, x3, x4>>))
  <2>1. Len(<<x1, x2, x3, x4>>) = 4
    OBVIOUS
  <2>2. QED
    BY <1>3, <2>1, CommandShape
<1>7. \A v : IsResult(HandleMode(v)) /\ IsResult(HandleClean(v))
  <2> TAKE v
  <2>1. IsResult(HandleMode(v))
    <3>1. Num(v) + 1 \in 1..2 => Num(v) + 1 = 1 \/ Num(v) + 1 = 2
      OBVIOUS
    <3>2. Len(<<"SAFE", "FULL">>) = 2 /\ <<"SAFE", "FULL">>[1] = "SAFE" /\ <<"SAFE", "FULL">>[2] = "FULL"
      OBVIOUS
    <3>3. QED
      BY <1>0, <1>4, <3>1, <3>2 DEF HandleMode, Switch
  <2>2. IsResult(HandleClean(v))
    <3> DEFINE ops == <<"CLEAN", "MAX", "SPOT", "SEEK_DOCK">>
    <3>1. \A k \in 1..4 : k = 1 \/ k = 2 \/ k = 3 \/ k = 4
      OBVIOUS
    <3>2. Len(ops) = 4 /\ ops[1] = "CLEAN" /\ ops[2] = "MAX" /\ ops[3] = "SPOT" /\ ops[4] = "SEEK_DOCK"
      OBVIOUS
    <3>3. HandleClean(v) = IF Num(v) + 1 \in 1..Len(ops) THEN SendRoombaCmd(ops[Num(v) + 1], <<>>) ELSE Nothing
      BY DEF HandleClean, Switch
    <3> HIDE DEF ops
    <3>4. QED
      BY <1>0, <1>4, <3>1, <3>2, <3>3
  <2>3. QED
    BY <2>1, <2>2
<1>8. \A v : IsResult(HandleBaud(v))
  BY <1>0, <1>5 DEF HandleBaud
<1>9. IsResult(HandleRoomba(d))
  BY <1>0, <1>4, <1>7, <1>8 DEF HandleRoomba
<1>10. IsResult(HandleActuator(d))
  BY <1>0, <1>5, <1>6 DEF HandleActuator
<1>11. QED
  BY <1>0, <1>9, <1>10 DEF HandleRequest

(* The robot knows the opcode of a command from its first byte, and its    *)
(* last byte when it comes.                                                *)
LEMMA CommandReads ==
    ASSUME NEW c, IsCommand(c), NEW g, g[1] = c[1]
    PROVE  /\ OpOf(g[1]) # {}
           /\ Complete(g) <=> Len(g) = Len(c)
<1>1. PICK op \in OpOf(c[1]) : Len(c) = 1 + Nargs[op]
  BY DEF IsCommand
<1>2. \A q \in OpOf(g[1]) : q = op
  BY <1>1, OpcodesDiffer DEF OpOf
<1>3. QED
  BY <1>1, <1>2 DEF Complete
----------------------------------------------------------------------------
(* What is on the way to the robot are bytes of commands, and every        *)
(* command was dispatched.                                                 *)
Results == [i \in 1..Len(handled) |-> handled[i].frames]

LEMMA HandledFacts ==
    ASSUME UartTypeOK, NEW X
    PROVE  \E S : /\ X \subseteq S
                  /\ robot.frame \in Seq(S) /\ fifo \in Seq(S)
                  /\ Results \in Seq(Seq(Seq(S))) /\ Len(Results) = Len(handled)
                  /\ Dispatched \in Seq(Seq(S))
                  /\ \A m \in 1..Len(Dispatched) :
                        /\ IsCommand(Dispatched[m])
                        /\ \E j \in 1..Len(handled) : handled[j].frames = <<Dispatched[m]>>
<1> DEFINE Bytes(s) == {s[i] : i \in DOMAIN s}
           Sent == {j \in 1..Len(handled) : handled[j].frames # Nothing}
           S == X \cup Bytes(robot.frame) \cup Bytes(fifo) \cup UNION {Bytes(handled[j].frames[1]) : j \in Sent}
           Cmd == {c \in Seq(S) : IsCommand(c) /\ \E j \in 1..Len(handled) : handled[j].frames = <<c>>}
<1>1. robot.frame \in Seq(S) /\ fifo \in Seq(S)
  <2>1. robot.frame \in Seq(Bytes(robot.frame)) /\ fifo \in Seq(Bytes(fifo))
    BY DEF UartTypeOK, IsSequence
  <2>2. Bytes(robot.frame) \subseteq S /\ Bytes(fifo) \subseteq S
    OBVIOUS
  <2> HIDE DEF S, Bytes
  <2>3. QED
    BY <2>1, <2>2, SeqMonotonic
<1>2. \A j \in Sent : /\ handled[j].frames = <<handled[j].frames[1]>>
                      /\ handled[j].frames[1] \in Cmd
  <2> TAKE j \in Sent
  <2> DEFINE c == handled[j].frames[1]
  <2>1. handled[j].frames = <<c>> /\ IsCommand(c)
    BY DEF UartTypeOK, IsResult
  <2>2. c \in Seq(Bytes(c)) /\ Bytes(c) \subseteq S
    <3>1. c \in Seq(Bytes(c))
      BY <2>1 DEF IsCommand, IsSequence
    <3> HIDE DEF c
    <3>2. Bytes(c) \subseteq S
      BY DEF c
    <3>3. QED
      BY <3>1, <3>2
  <2>3. c \in Seq(S)
    <3> HIDE DEF S, Bytes, c
    <3>1. QED
      BY <2>2, SeqMonotonic
  <2>4. j \in 1..Len(handled)
    OBVIOUS
  <2>5. c \in Cmd
    <3> HIDE DEF S, c, Sent
    <3>1. QED
      BY <2>1, <2>3, <2>4
  <2>6. QED
    BY <2>1, <2>5
<1>3. Len(handled) \in Nat
  BY LenProperties DEF UartTypeOK, IsSequence
<1>0. X \subseteq S
  <2> HIDE DEF Bytes, Sent
  <2>1. QED
    OBVIOUS
<1> HIDE DEF S
<1>4. \A c \in Cmd : c \in Seq(S) /\ <<c>> \in Seq(Cmd)
  OBVIOUS
<1>5. \A i \in 1..Len(handled) : handled[i].frames \in Seq(Cmd)
  <2> TAKE i \in 1..Len(handled)
  <2>1. CASE i \in Sent
    <3> HIDE DEF Cmd, Sent
    <3>1. QED
      BY <1>2, <1>4, <2>1
  <2>2. CASE i \notin Sent
    <3>1. handled[i].frames = <<>>
      BY <2>2 DEF Nothing
    <3>2. QED
      BY <3>1, EmptySeq
  <2>3. QED
    BY <2>1, <2>2
<1>6. Results \in Seq(Seq(Cmd)) /\ Len(Results) = Len(handled)
  <2> HIDE DEF Cmd
  <2>1. Results \in [1..Len(handled) -> Seq(Cmd)]
    BY <1>5 DEF Results
  <2>2. Results \in Seq(Seq(Cmd))
    <3> DEFINE n == Len(handled)
               C == Seq(Cmd)
    <3>1. n \in Nat /\ Results \in [1..n -> C]
      BY <1>3, <2>1
    <3> HIDE DEF n, C
    <3>2. Results \in Seq(C)
      BY <3>1, SeqDef
    <3>3. QED
      BY <3>2 DEF C
  <2>3. DOMAIN Results = 1..Len(handled) /\ DOMAIN Results = 1..Len(Results) /\ Len(Results) \in Nat
    BY <2>1, <2>2, LenProperties
  <2>4. QED
    BY <1>3, <2>2, <2>3
<1>7. Dispatched \in Seq(Cmd)
  <2>1. Dispatched = FlattenSeq(Results)
    BY DEF Dispatched, Results
  <2>2. <<>> \in Seq(Cmd)
    BY EmptySeq
  <2> HIDE DEF Cmd
  <2>3. QED
    BY <1>6, <2>1, <2>2, FlattenAppend
<1>8. Cmd \subseteq Seq(S)
  OBVIOUS
<1>9. Dispatched \in Seq(Seq(S)) /\ Results \in Seq(Seq(Seq(S)))
  <2> HIDE DEF Cmd
  <2>1. Dispatched \in Seq(Seq(S))
    BY <1>7, <1>8, SeqMonotonic
  <2>2. Seq(Cmd) \subseteq Seq(Seq(S))
    BY <1>8, SeqMonotonic
  <2>3. Results \in Seq(Seq(Seq(S)))
    BY <1>6, <2>2, SeqMonotonic
  <2>4. QED
    BY <2>1, <2>3
<1>10. \A m \in 1..Len(Dispatched) : Dispatched[m] \in Cmd
  <2> HIDE DEF Cmd
  <2>1. QED
    BY <1>7, ElementOfSeq
<1>11. QED
  BY <1>0, <1>1, <1>6, <1>9, <1>10

----------------------------------------------------------------------------
(* A suffix of a sequence: from its front, and when the sequence grows.    *)
LEMMA SuffixFacts ==
    ASSUME NEW S, NEW s \in Seq(S), NEW k \in 0..Len(s)
    PROVE  /\ SubSeq(s, k + 1, Len(s)) \in Seq(S)
           /\ Len(SubSeq(s, k + 1, Len(s))) = Len(s) - k
           /\ k < Len(s) => /\ SubSeq(s, k + 1, Len(s)) # <<>>
                            /\ SubSeq(s, k + 1, Len(s))[1] = s[k + 1]
                            /\ Tail(SubSeq(s, k + 1, Len(s))) = SubSeq(s, (k + 1) + 1, Len(s))
           /\ k = Len(s) => SubSeq(s, k + 1, Len(s)) = <<>>
<1> DEFINE m == k + 1
           n == Len(s)
           p == SubSeq(s, m, n)
<1>1. n \in Nat /\ m \in Nat /\ m >= 1
  BY LenProperties
<1>2. \A i \in m..n : s[i] \in S
  <2> TAKE i \in m..n
  <2>1. i \in 1..Len(s)
    BY <1>1
  <2>2. QED
    BY <2>1, ElementOfSeq
<1>3. /\ p \in Seq(S) /\ Len(p) = IF m <= n THEN n - m + 1 ELSE 0
      /\ \A i \in 1..(n - m + 1) : p[i] = s[m + i - 1]
  <2> HIDE DEF m, n
  <2>1. QED
    BY <1>1, <1>2, SubSeqProperties
<1>4. Len(p) = n - k
  BY <1>1, <1>3
<1>5. ASSUME k < n PROVE p # <<>> /\ p[1] = s[m] /\ Tail(p) = SubSeq(s, m + 1, n)
  <2>1. m \in 1..Len(s) /\ n \in m..Len(s)
    BY <1>1, <1>5
  <2>2. p # <<>>
    <3>1. Len(p) # 0
      BY <1>1, <1>4, <1>5
    <3> HIDE DEF p
    <3>2. QED
      BY <3>1, EmptySeq
  <2>3. Tail(p) = SubSeq(s, m + 1, n)
    <3> HIDE DEF m, n
    <3>1. QED
      BY <2>1, HeadTailOfSubSeq DEF p
  <2>4. p[1] = s[m]
    <3>1. 1 \in 1..(n - m + 1) /\ m + 1 - 1 = m
      BY <1>1, <1>5
    <3>2. QED
      BY <1>3, <3>1
  <2>5. QED
    BY <2>2, <2>3, <2>4
<1>6. ASSUME k = n PROVE p = <<>>
  BY <1>1, <1>6, SubSeqEmpty
<1>7. QED
  BY <1>3, <1>4, <1>5, <1>6

LEMMA SuffixAppend ==
    ASSUME NEW S, NEW s \in Seq(S), NEW x \in S, NEW k \in 0..Len(s)
    PROVE  /\ SubSeq(Append(s, x), k + 1, Len(Append(s, x))) = Append(SubSeq(s, k + 1, Len(s)), x)
           /\ SubSeq(Append(s, x), 1, k) = SubSeq(s, 1, k)
<1> DEFINE t == Append(s, x)
           n == Len(s)
           p == SubSeq(s, k + 1, n)
           q == SubSeq(t, k + 1, n + 1)
<1>1. /\ n \in Nat /\ t \in Seq(S) /\ Len(t) = n + 1 /\ t[n + 1] = x
      /\ \A i \in 1..n : t[i] = s[i]
  BY AppendProperties, LenProperties
<1>2. p \in Seq(S) /\ Len(p) = n - k
  BY SuffixFacts
<1>3. /\ Append(p, x) \in Seq(S) /\ Len(Append(p, x)) = (n - k) + 1
      /\ \A i \in 1..(n - k) : Append(p, x)[i] = p[i]
      /\ Append(p, x)[(n - k) + 1] = x
  <2> HIDE DEF p, n
  <2>1. QED
    BY <1>2, AppendProperties
<1> HIDE DEF t, n
<1>4. q \in Seq(S) /\ Len(q) = (n - k) + 1 /\ \A i \in 1..((n - k) + 1) : q[i] = t[k + i]
  <2> DEFINE a == k + 1
             b == n + 1
  <2>1. a \in Int /\ b \in Int /\ a >= 1 /\ a <= b /\ b = Len(t) /\ k \in Nat /\ k <= n
    BY <1>1 DEF n
  <2>2. \A i \in a..b : t[i] \in S
    <3> TAKE i \in a..b
    <3>1. i \in 1..Len(t)
      BY <2>1
    <3>2. QED
      BY <1>1, <3>1, ElementOfSeq
  <2>3. /\ SubSeq(t, a, b) \in Seq(S) /\ Len(SubSeq(t, a, b)) = IF a <= b THEN b - a + 1 ELSE 0
        /\ \A i \in 1..(b - a + 1) : SubSeq(t, a, b)[i] = t[a + i - 1]
    <3> HIDE DEF a, b
    <3>1. QED
      BY <2>1, <2>2, SubSeqProperties
  <2>4. b - a + 1 = (n - k) + 1 /\ \A i \in Int : a + i - 1 = k + i
    BY <1>1, <2>1
  <2>5. Len(q) = (n - k) + 1
    BY <2>1, <2>3, <2>4
  <2>6. \A i \in 1..((n - k) + 1) : q[i] = t[k + i]
    <3> TAKE i \in 1..((n - k) + 1)
    <3>1. i \in 1..(b - a + 1) /\ a + i - 1 = k + i
      BY <2>1, <2>4
    <3>2. SubSeq(t, a, b)[i] = t[a + i - 1]
      <4> HIDE DEF a, b
      <4>1. QED
        BY <2>3, <3>1
    <3>3. QED
      BY <3>1, <3>2
  <2>7. QED
    BY <2>3, <2>5, <2>6
<1>5. \A i \in 1..(n - k) : p[i] = s[k + i]
  <2> DEFINE a == k + 1
  <2>1. a \in Int /\ n \in Int /\ k \in Nat /\ k <= n
    BY <1>1 DEF n
  <2>2. \A i \in a..n : s[i] \in S
    <3> TAKE i \in a..n
    <3>1. i \in 1..Len(s)
      BY <2>1 DEF n
    <3>2. QED
      BY <3>1, ElementOfSeq
  <2>3. \A i \in 1..(n - a + 1) : SubSeq(s, a, n)[i] = s[a + i - 1]
    <3> HIDE DEF a
    <3>1. QED
      BY <2>1, <2>2, SubSeqProperties
  <2>4. n - a + 1 = n - k /\ \A i \in Int : a + i - 1 = k + i
    BY <2>1
  <2>5. ASSUME NEW i \in 1..(n - k) PROVE p[i] = s[k + i]
    <3>1. i \in 1..(n - a + 1) /\ a + i - 1 = k + i
      BY <2>1, <2>4
    <3>2. SubSeq(s, a, n)[i] = s[a + i - 1]
      <4> HIDE DEF a
      <4>1. QED
        BY <2>3, <3>1
    <3>3. QED
      BY <3>1, <3>2
  <2>6. QED
    BY <2>5
<1>6. q = Append(p, x)
  <2>1. k \in Nat /\ n - k \in Nat
    BY <1>1 DEF n
  <2>2. \A i \in 1..(n - k) : k + i \in 1..n
    BY <1>1, <2>1
  <2>3. \A i \in 1..((n - k) + 1) : q[i] = Append(p, x)[i]
    <3> TAKE i \in 1..((n - k) + 1)
    <3>1. CASE i = (n - k) + 1
      <4>1. k + i = n + 1
        BY <1>1, <2>1, <3>1
      <4>2. QED
        BY <1>1, <1>3, <1>4, <3>1, <4>1
    <3>2. CASE i \in 1..(n - k)
      BY <1>1, <1>3, <1>4, <1>5, <2>2, <3>2
    <3>3. i = (n - k) + 1 \/ i \in 1..(n - k)
      BY <2>1
    <3> HIDE DEF p, q
    <3>4. QED
      BY <3>1, <3>2, <3>3
  <2> HIDE DEF p, q
  <2>4. QED
    BY <1>3, <1>4, <2>3, SeqEqual
<1>7. SubSeq(t, 1, k) = SubSeq(s, 1, k)
  <2>1. k \in Nat /\ k <= n /\ Len(s) \in Nat
    BY <1>1 DEF n
  <2>2. CASE k = 0
    BY <2>2, SubSeqEmpty
  <2>3. CASE k # 0
    <3>1. t = s \o <<x>> /\ <<x>> \in Seq(S)
      BY AppendIsConcat DEF t
    <3>2. 1 \in 1..Len(s) /\ k \in 1..Len(s)
      BY <2>1, <2>3
    <3>3. SubSeq(s \o <<x>>, 1, k) = SubSeq(s, 1, k)
      BY <3>1, <3>2, SubSeqOfConcat1
    <3>4. QED
      BY <3>1, <3>3
  <2>4. QED
    BY <2>2, <2>3
<1>8. QED
  BY <1>1, <1>6, <1>7 DEF t, n

(* A byte that moves from one sequence to the one before it.               *)
LEMMA HeadMoves ==
    ASSUME NEW S, NEW r \in Seq(S), NEW q \in Seq(S), q # <<>>
    PROVE  Append(r, Head(q)) \o Tail(q) = r \o q
<1>1. PICK h, t : h = Head(q) /\ t = Tail(q)
  OBVIOUS
<1>2. h \in S /\ t \in Seq(S) /\ <<h>> \in Seq(S)
  BY <1>1, HeadTailProperties
<1>3. q = <<h>> \o t
  BY <1>1, <1>2, ConcatSimplifications, HeadTailProperties
<1>4. Append(r, h) = r \o <<h>>
  BY <1>2, AppendIsConcat
<1>5. PICK u : u = <<h>>
  OBVIOUS
<1>6. u \in Seq(S)
  BY <1>2, <1>5
<1>7. (r \o u) \o t = r \o (u \o t)
  BY <1>2, <1>6, ConcatAssociative
<1>8. QED
  BY <1>1, <1>3, <1>4, <1>5, <1>7

(* The robot has read r of the commands of D that it is not done with, the *)
(* rest of them is q; and it reads the next byte of q.                     *)
Pending(D, k, r, q) ==
    /\ k \in 0..Len(D)
    /\ r \o q = FlattenSeq(SubSeq(D, k + 1, Len(D)))
    /\ r # <<>> => k < Len(D) /\ Len(r) < Len(D[k + 1])

OneByteMore(D, k, r, q) ==
    LET g == Append(r, Head(q))
    IN  /\ k < Len(D) /\ k + 1 \in 1..Len(D)
        /\ g[1] = D[k + 1][1]
        /\ Len(g) <= Len(D[k + 1])
        /\ g \o Tail(q) = r \o q
        /\ Len(g) = Len(D[k + 1]) =>
              g = D[k + 1] /\ Tail(q) = FlattenSeq(SubSeq(D, (k + 1) + 1, Len(D)))

(* The next byte belongs to the command that the robot is reading, or is   *)
(* the first one of the next.                                              *)
LEMMA NextByte ==
    ASSUME NEW S, NEW D \in Seq(Seq(S)), \A m \in 1..Len(D) : IsCommand(D[m]),
           NEW r \in Seq(S), NEW q \in Seq(S), q # <<>>,
           NEW k, Pending(D, k, r, q)
    PROVE  OneByteMore(D, k, r, q)
<1>0. /\ k \in 0..Len(D)
      /\ r \o q = FlattenSeq(SubSeq(D, k + 1, Len(D)))
      /\ r # <<>> => k < Len(D) /\ Len(r) < Len(D[k + 1])
  BY DEF Pending
<1> DEFINE p == SubSeq(D, k + 1, Len(D))
           c == D[k + 1]
           F == FlattenSeq(Tail(p))
           g == Append(r, Head(q))
           t == Tail(q)
<1>1. Len(D) \in Nat /\ Len(r) \in Nat /\ Len(q) \in Nat \ {0} /\ k \in Nat /\ k <= Len(D)
  BY <1>0, LenProperties, EmptySeq
<1>2. Head(q) \in S /\ t \in Seq(S) /\ Len(t) = Len(q) - 1
  BY HeadTailProperties
<1>3. g \in Seq(S) /\ Len(g) = Len(r) + 1
  <2> DEFINE h == Head(q)
  <2>1. h \in S
    BY <1>2
  <2> HIDE DEF h
  <2>2. Append(r, h) \in Seq(S) /\ Len(Append(r, h)) = Len(r) + 1
    BY <2>1, AppendProperties
  <2>3. QED
    BY <2>2 DEF h
<1>4. g \o t = r \o q
  BY HeadMoves
<1>5. /\ p \in Seq(Seq(S))
      /\ k = Len(D) => p = <<>>
      /\ k < Len(D) => p # <<>> /\ p[1] = c /\ Tail(p) = SubSeq(D, (k + 1) + 1, Len(D))
  <2> DEFINE Y == Seq(S)
  <2>1. D \in Seq(Y)
    OBVIOUS
  <2> HIDE DEF Y
  <2>2. QED
    <3>1. /\ SubSeq(D, k + 1, Len(D)) \in Seq(Y)
          /\ k < Len(D) => /\ SubSeq(D, k + 1, Len(D)) # <<>>
                           /\ SubSeq(D, k + 1, Len(D))[1] = D[k + 1]
                           /\ Tail(SubSeq(D, k + 1, Len(D))) = SubSeq(D, (k + 1) + 1, Len(D))
          /\ k = Len(D) => SubSeq(D, k + 1, Len(D)) = <<>>
      BY <1>0, <2>1, SuffixFacts
    <3>2. QED
      BY <3>1 DEF Y
<1>6. k < Len(D)
  <2> SUFFICES ASSUME k = Len(D) PROVE FALSE
    BY <1>1
  <2>1. p = <<>>
    BY <1>5
  <2>2. FlattenSeq(p) = <<>>
    BY <2>1, EmptySeq DEF FlattenSeq
  <2>3. Len(r \o q) = Len(r) + Len(q)
    BY ConcatProperties
  <2>4. Len(r \o q) = 0
    BY <1>0, <2>2, EmptySeq
  <2>5. QED
    BY <1>1, <2>3, <2>4
<1>7. k + 1 \in 1..Len(D)
  BY <1>1, <1>6
<1>8. c \in Seq(S) /\ IsCommand(c) /\ Len(c) \in Nat \ {0}
  <2>1. c \in Seq(S) /\ IsCommand(c)
    BY <1>7, ElementOfSeq
  <2>2. QED
    BY <2>1, EmptySeq, LenProperties DEF IsCommand
<1>9. r \o q = c \o F /\ F \in Seq(S)
  <2>1. p # <<>> /\ p[1] = c /\ p \in Seq(Seq(S))
    BY <1>5, <1>6
  <2>2. FlattenSeq(p) = p[1] \o FlattenSeq(Tail(p)) /\ FlattenSeq(Tail(p)) \in Seq(S)
    <3> HIDE DEF p
    <3>1. QED
      BY <2>1, FlattenTail
  <2>3. QED
    BY <1>0, <2>1, <2>2
<1>10. F = FlattenSeq(SubSeq(D, (k + 1) + 1, Len(D)))
  BY <1>5, <1>6
<1>11. Len(g) <= Len(c)
  <2>1. CASE r = <<>>
    <3>1. Len(r) = 0
      BY <2>1, EmptySeq
    <3>2. QED
      BY <1>3, <1>8, <3>1
  <2>2. CASE r # <<>>
    BY <1>0, <1>1, <1>3, <1>8, <2>2
  <2>3. QED
    BY <2>1, <2>2
<1> HIDE DEF g, t, c, F, p
<1>12. g \o t = c \o F
  BY <1>4, <1>9
<1>13. \A i \in 1..Len(g) : g[i] = c[i]
  <2>1. \A a, b \in Seq(S) : \A i \in 1..(Len(a) + Len(b)) :
           (a \o b)[i] = IF i <= Len(a) THEN a[i] ELSE b[i - Len(a)]
    BY ConcatProperties
  <2>2. \A a, b \in Seq(S) : \A i \in 1..Len(a) : (a \o b)[i] = a[i]
    <3> TAKE a \in Seq(S), b \in Seq(S)
    <3> TAKE i \in 1..Len(a)
    <3>1. i \in 1..(Len(a) + Len(b)) /\ i <= Len(a)
      BY LenProperties
    <3>2. QED
      BY <2>1, <3>1
  <2> TAKE i \in 1..Len(g)
  <2>3. i \in 1..Len(c)
    BY <1>8, <1>11
  <2>4. QED
    BY <1>2, <1>3, <1>8, <1>9, <1>12, <2>2, <2>3
<1>14. g[1] = c[1]
  <2>1. 1 \in 1..Len(g)
    BY <1>1, <1>3
  <2>2. QED
    BY <1>13, <2>1
<1>15. ASSUME Len(g) = Len(c) PROVE g = c /\ t = F
  <2>1. g = c
    BY <1>3, <1>8, <1>13, <1>15, SeqEqual
  <2>2. c \o t = c \o F
    BY <1>12, <2>1
  <2>3. QED
    BY <1>2, <1>8, <1>9, <2>1, <2>2, ConcatSimplifications
<1>16. QED
  BY <1>4, <1>6, <1>7, <1>10, <1>11, <1>14, <1>15 DEF OneByteMore, g, t, c

----------------------------------------------------------------------------
(* The invariant of the UART, one action after the other.                  *)
uart == <<fifo, robot, handled, executed, crashes, cut>>

LEMMA UartStart == Init => UartInv
<1> SUFFICES ASSUME Init PROVE UartInv
  OBVIOUS
<1>1. /\ fifo = <<>> /\ robot.frame = <<>> /\ robot.deaf = FALSE /\ handled = <<>>
      /\ executed = <<>> /\ crashes = 0 /\ cut = FALSE
      /\ robot = [frame |-> robot.frame, deaf |-> robot.deaf]
  BY DEF Init
<1>2. IsSequence(<<>>) /\ Len(<<>>) = 0
  <2>1. <<>> \in Seq({})
    BY EmptySeq
  <2>2. QED
    BY <2>1, SequenceIs, EmptySeq
<1>3. UartTypeOK
  <2>1. \A i \in 1..Len(handled) : IsResult(handled[i].frames)
    BY <1>1, <1>2
  <2>2. IsSequence(fifo) /\ IsSequence(handled) /\ IsSequence(executed) /\ IsSequence(robot.frame)
    BY <1>1, <1>2
  <2>3. robot.deaf \in BOOLEAN /\ cut \in BOOLEAN /\ crashes \in Nat
    BY <1>1
  <2>4. QED
    BY <1>1, <2>1, <2>2, <2>3 DEF UartTypeOK
<1>4. Dispatched = <<>>
  <2>1. PICK S : Results \in Seq(Seq(Seq(S))) /\ Len(Results) = Len(handled)
    BY <1>3, HandledFacts
  <2>2. Results = <<>>
    BY <1>1, <1>2, <2>1, EmptySeq
  <2>3. FlattenSeq(<<>>) = <<>>
    BY <1>2 DEF FlattenSeq
  <2>4. Dispatched = FlattenSeq(Results)
    BY DEF Dispatched, Results
  <2>5. QED
    BY <2>2, <2>3, <2>4
<1>5. DoneWith(0)
  <2>1. <<>> \in Seq({}) /\ 0 \in 0..Len(<<>>) /\ 0 = Len(<<>>)
    BY <1>2, EmptySeq
  <2>2. SubSeq(<<>>, 0 + 1, Len(<<>>)) = <<>>
    BY <2>1, SuffixFacts
  <2>3. SubSeq(<<>>, 1, 0) = <<>>
    BY <2>1, SubSeqEmpty
  <2>4. <<>> \o <<>> = <<>>
    BY <2>1, ConcatEmptySeq
  <2>5. FlattenSeq(<<>>) = <<>>
    BY <1>2 DEF FlattenSeq
  <2>6. QED
    BY <1>1, <1>4, <2>2, <2>3, <2>4, <2>5 DEF DoneWith
<1>6. NothingInvented
  BY <1>1, <1>2 DEF NothingInvented
<1>7. 0 \in 0..Len(Dispatched)
  BY <1>2, <1>4
<1>8. QED
  BY <1>1, <1>3, <1>5, <1>6, <1>7 DEF UartInv

LEMMA UartUnchanged == UartInv /\ UNCHANGED uart => UartInv'
<1> SUFFICES ASSUME UartInv, UNCHANGED uart PROVE UartInv'
  OBVIOUS
<1>1. /\ fifo' = fifo /\ robot' = robot /\ handled' = handled /\ executed' = executed
      /\ crashes' = crashes /\ cut' = cut
  BY DEF uart
<1>2. Dispatched' = Dispatched
  BY <1>1 DEF Dispatched
<1>3. \A k : DoneWith(k)' = DoneWith(k)
  BY <1>1, <1>2 DEF DoneWith
<1>4. NothingInvented' = NothingInvented
  BY <1>1 DEF NothingInvented
<1>5. UartTypeOK'
  BY <1>1 DEF UartInv, UartTypeOK
<1>6. QED
  BY <1>1, <1>2, <1>3, <1>4, <1>5 DEF UartInv

LEMMA ConcatIsSequence ==
    ASSUME NEW s, IsSequence(s), NEW t, IsSequence(t)
    PROVE  IsSequence(s \o t)
<1> DEFINE A == {s[i] : i \in DOMAIN s}
           B == {t[i] : i \in DOMAIN t}
<1>1. s \in Seq(A) /\ t \in Seq(B)
  BY DEF IsSequence
<1> HIDE DEF A, B
<1>2. s \in Seq(A \cup B) /\ t \in Seq(A \cup B)
  <2>1. A \subseteq A \cup B /\ B \subseteq A \cup B
    OBVIOUS
  <2>2. QED
    BY <1>1, <2>1, SeqMonotonic
<1>3. s \o t \in Seq(A \cup B)
  BY <1>2, ConcatProperties
<1>4. QED
  BY <1>3, SequenceIs

LEMMA UartDispatch == UartInv /\ Dispatch => UartInv'
<1> SUFFICES ASSUME UartInv, Dispatch PROVE UartInv'
  OBVIOUS
<1> DEFINE frames == HandleRequest(dest)
           rec == [data |-> data, behind |-> behind, decoded |-> ret, frames |-> frames]
           n == Len(handled)
<1>1. /\ fifo' = IF frames = Nothing THEN fifo ELSE fifo \o frames[1]
      /\ handled' = Append(handled, rec)
      /\ robot' = robot /\ executed' = executed /\ crashes' = crashes /\ cut' = cut
  BY DEF Dispatch
<1>2. IsResult(frames)
  BY RequestShape
<1>3. rec.frames = frames
  OBVIOUS
<1> HIDE DEF frames, rec
<1>4. UartTypeOK
  BY DEF UartInv
<1>5. /\ IsSequence(handled') /\ n \in Nat /\ Len(handled') = n + 1
      /\ \A i \in 1..n : handled'[i] = handled[i]
      /\ handled'[n + 1] = rec
  BY <1>1, <1>4, AppendIsSequence DEF UartTypeOK
<1>6. \A i \in 1..Len(handled') : handled'[i].frames = IF i = n + 1 THEN frames ELSE handled[i].frames
  <2> TAKE i \in 1..Len(handled')
  <2>1. i = n + 1 \/ (i \in 1..n /\ i # n + 1)
    BY <1>5
  <2>2. QED
    BY <1>3, <1>5, <2>1
<1>7. \A i \in 1..n : i \in 1..Len(handled') /\ handled'[i].frames = handled[i].frames
  BY <1>5
<1>8. frames # Nothing => /\ frames = <<frames[1]>> /\ IsCommand(frames[1]) /\ IsSequence(frames[1])
  BY <1>2 DEF IsResult, IsCommand
<1>9. UartTypeOK'
  <2>1. \A i \in 1..Len(handled') : IsResult(handled'[i].frames)
    <3> TAKE i \in 1..Len(handled')
    <3>1. i = n + 1 \/ (i \in 1..n /\ i # n + 1)
      BY <1>5
    <3>2. QED
      BY <1>2, <1>4, <1>6, <3>1 DEF UartTypeOK
  <2>2. IsSequence(fifo')
    <3>1. IsSequence(fifo)
      BY <1>4 DEF UartTypeOK
    <3>2. QED
      BY <1>1, <1>8, <3>1, ConcatIsSequence
  <2>3. QED
    BY <1>1, <1>4, <1>5, <2>1, <2>2 DEF UartTypeOK
<1>10. NothingInvented => NothingInvented'
  <2> SUFFICES ASSUME NothingInvented, ~cut', NEW i \in 1..Len(executed')
               PROVE  \E j \in 1..Len(handled') : handled'[j].frames = <<executed'[i]>>
    BY DEF NothingInvented
  <2>1. PICK j \in 1..n : handled[j].frames = <<executed[i]>>
    BY <1>1 DEF NothingInvented
  <2>2. QED
    BY <1>1, <1>7, <2>1
<1>11. PICK S : /\ {frames[1][i] : i \in DOMAIN frames[1]} \subseteq S
                /\ robot.frame \in Seq(S) /\ fifo \in Seq(S)
                /\ Results \in Seq(Seq(Seq(S))) /\ Len(Results) = n
                /\ Dispatched \in Seq(Seq(S))
  BY <1>4, HandledFacts
<1> DEFINE Y == Seq(S)
           Z == Seq(Y)
<1>12. frames \in Z
  <2>1. CASE frames = Nothing
    BY <2>1, EmptySeq DEF Nothing
  <2>2. CASE frames # Nothing
    <3> DEFINE f == frames[1]
               X == {f[i] : i \in DOMAIN f}
    <3>1. f \in Seq(X)
      BY <1>8, <2>2 DEF IsSequence
    <3>2. X \subseteq S
      BY <1>11
    <3>3. f \in Y
      <4> HIDE DEF f, X
      <4>1. QED
        BY <3>1, <3>2, SeqMonotonic
    <3>4. <<f>> \in Seq(Y)
      <4> HIDE DEF f, Y
      <4>1. QED
        BY <3>3
    <3>5. QED
      BY <1>8, <2>2, <3>4
  <2>3. QED
    BY <2>1, <2>2
<1>13. Results \in Seq(Z) /\ Dispatched \in Z
  BY <1>11
<1> HIDE DEF Z, n
<1>14. Results' = Append(Results, frames)
  <2>1. /\ Append(Results, frames) \in Seq(Z) /\ Len(Append(Results, frames)) = n + 1
        /\ \A i \in 1..n : Append(Results, frames)[i] = Results[i]
        /\ Append(Results, frames)[n + 1] = frames
    BY <1>11, <1>12, <1>13, AppendProperties
  <2>2. Append(Results, frames) = [i \in 1..(n + 1) |-> Append(Results, frames)[i]]
    <3> DEFINE a == Append(Results, frames)
               m == n + 1
    <3>1. a \in Seq(Z) /\ Len(a) = m
      BY <2>1
    <3> HIDE DEF a, m
    <3>2. a = [i \in 1..m |-> a[i]]
      BY <3>1, LenProperties
    <3>3. QED
      BY <3>2 DEF a, m
  <2>3. \A i \in 1..n : Results[i] = handled[i].frames
    BY DEF Results, n
  <2>4. \A i \in 1..(n + 1) : Append(Results, frames)[i] = handled'[i].frames
    <3> TAKE i \in 1..(n + 1)
    <3>1. i = n + 1 \/ (i \in 1..n /\ i # n + 1)
      BY <1>5
    <3>2. i \in 1..Len(handled')
      BY <1>5
    <3>3. QED
      BY <1>6, <2>1, <2>3, <3>1, <3>2
  <2>5. Results' = [i \in 1..(n + 1) |-> handled'[i].frames]
    BY <1>5 DEF Results
  <2>6. QED
    BY <2>2, <2>4, <2>5
<1>15. Dispatched' = Dispatched \o frames
  <2>1. Dispatched = FlattenSeq(Results) /\ Dispatched' = FlattenSeq(Results')
    BY DEF Dispatched, Results
  <2>2. \A T : \A s \in Seq(Seq(T)), x \in Seq(T) : FlattenSeq(Append(s, x)) = FlattenSeq(s) \o x
    BY FlattenAppend
  <2>3. QED
    BY <1>12, <1>13, <1>14, <2>1, <2>2 DEF Z
<1>16. CASE frames = Nothing
  <2>1. Dispatched' = Dispatched
    <3>1. Dispatched \o <<>> = Dispatched
      BY <1>11, ConcatEmptySeq
    <3>2. QED
      BY <1>15, <1>16, <3>1 DEF Nothing
  <2>2. \A k : DoneWith(k)' = DoneWith(k)
    BY <1>1, <1>16, <2>1 DEF DoneWith
  <2>3. QED
    BY <1>1, <1>9, <1>10, <2>1, <2>2 DEF UartInv
<1>17. CASE frames # Nothing
  <2>1. PICK f : f = frames[1]
    OBVIOUS
  <2>2. frames = <<f>> /\ fifo' = fifo \o f /\ f \in Y
    <3>1. frames = <<f>>
      BY <1>8, <1>17, <2>1
    <3>2. f \in Y
      <4> HIDE DEF Y
      <4>1. QED
        BY <1>12, <3>1 DEF Z
    <3>3. QED
      BY <1>1, <1>17, <2>1, <3>1, <3>2
  <2> DEFINE D == Dispatched
  <2>3. /\ Dispatched' = Append(D, f) /\ D \in Seq(Y) /\ Len(D) \in Nat
        /\ Len(Append(D, f)) = Len(D) + 1 /\ \A m \in 1..Len(D) : Append(D, f)[m] = D[m]
    <3> HIDE DEF D, Y
    <3>1. D \in Seq(Y)
      BY <1>13 DEF Z, D
    <3>2. Append(D, f) = D \o <<f>>
      BY <2>2, <3>1, AppendIsConcat
    <3>3. Dispatched' = Append(D, f)
      BY <1>15, <2>2, <3>2 DEF D
    <3>4. QED
      BY <2>2, <3>1, <3>3, AppendProperties, LenProperties
  <2>4. ASSUME NEW k \in 0..Len(D), DoneWith(k) PROVE k \in 0..Len(Dispatched') /\ DoneWith(k)'
    <3> DEFINE p == SubSeq(D, k + 1, Len(D))
    <3>1. /\ SubSeq(Append(D, f), k + 1, Len(Append(D, f))) = Append(p, f)
          /\ SubSeq(Append(D, f), 1, k) = SubSeq(D, 1, k)
      <4> HIDE DEF D, Y
      <4>1. QED
        BY <2>2, <2>3, SuffixAppend DEF p
    <3>2. p \in Seq(Y)
      <4> HIDE DEF D, Y
      <4>1. QED
        BY <2>3, SuffixFacts DEF p
    <3> HIDE DEF p, D
    <3>3. FlattenSeq(Append(p, f)) = FlattenSeq(p) \o f
      BY <2>2, <3>2, FlattenAppend
    <3>4. FlattenSeq(p) = robot.frame \o fifo
      BY <2>4 DEF DoneWith, p, D
    <3>5. (robot.frame \o fifo) \o f = robot.frame \o (fifo \o f)
      <4>1. \A a, b, c \in Seq(S) : (a \o b) \o c = a \o (b \o c)
        <5> TAKE a \in Seq(S), b \in Seq(S), c \in Seq(S)
        <5>1. QED
          BY ConcatAssociative
      <4>2. QED
        BY <1>11, <2>2, <4>1
    <3>6. (robot.frame \o fifo)' = FlattenSeq(SubSeq(Dispatched', k + 1, Len(Dispatched')))
      BY <1>1, <2>2, <2>3, <3>1, <3>3, <3>4, <3>5
    <3>7. k \in 0..Len(Dispatched')
      BY <2>3
    <3>8. robot.frame # <<>> => k < Len(Dispatched') /\ Len(robot.frame) < Len(Dispatched'[k + 1])
      <4> SUFFICES ASSUME robot.frame # <<>>
                   PROVE  k < Len(Dispatched') /\ Len(robot.frame) < Len(Dispatched'[k + 1])
        OBVIOUS
      <4>1. k < Len(D) /\ Len(robot.frame) < Len(D[k + 1])
        BY <2>4 DEF DoneWith, D
      <4>2. k + 1 \in 1..Len(D) /\ k < Len(D) + 1
        BY <2>3, <4>1
      <4>3. QED
        BY <2>3, <4>1, <4>2
    <3>9. crashes = 0 => executed = SubSeq(Dispatched', 1, k)
      BY <2>3, <2>4, <3>1 DEF DoneWith, D
    <3>10. QED
      BY <1>1, <3>6, <3>7, <3>8, <3>9 DEF DoneWith
  <2>5. QED
    BY <1>1, <1>9, <1>10, <2>4 DEF UartInv
<1>18. QED
  BY <1>16, <1>17

LEMMA PrefixAppend ==
    ASSUME NEW S, NEW s \in Seq(S), NEW k \in 0..Len(s), k < Len(s)
    PROVE  SubSeq(s, 1, k + 1) = Append(SubSeq(s, 1, k), s[k + 1])
<1>1. Len(s) \in Nat /\ k \in Nat /\ k + 1 \in 1..Len(s)
  BY LenProperties
<1>2. s[k + 1] \in S
  BY <1>1, ElementOfSeq
<1> DEFINE m == k + 1
<1>3. SubSeq(s, 1, m) = SubSeq(s, 1, m - 1) \o <<s[m]>>
  <2>1. 1 \in 1..Len(s) /\ m \in 1..Len(s)
    BY <1>1
  <2> HIDE DEF m
  <2>2. QED
    BY <2>1, SubSeqRecursiveSecond
<1>4. m - 1 = k
  BY <1>1
<1>5. SubSeq(s, 1, k) \in Seq(S)
  <2>1. \A i \in 1..k : s[i] \in S
    BY <1>1, ElementOfSeq
  <2>2. QED
    BY <1>1, <2>1, SubSeqProperties
<1>6. QED
  BY <1>2, <1>3, <1>4, <1>5, AppendIsConcat

(* With the FIFO empty the robot waits for an opcode, and it is done with  *)
(* all of the commands.                                                    *)
LEMMA WhenEmpty ==
    ASSUME UartInv, ~cut, fifo = <<>>
    PROVE  /\ robot.frame = <<>>
           /\ ~robot.deaf => DoneWith(Len(Dispatched))
<1>1. CASE robot.deaf
  BY <1>1 DEF UartInv
<1>2. CASE ~robot.deaf
  <2> DEFINE D == Dispatched
             r == robot.frame
  <2>1. PICK S : r \in Seq(S) /\ D \in Seq(Seq(S)) /\ \A m \in 1..Len(D) : IsCommand(D[m])
    BY HandledFacts DEF UartInv
  <2>2. PICK k \in 0..Len(D) : DoneWith(k)
    BY <1>2 DEF UartInv
  <2>3. /\ r \o <<>> = FlattenSeq(SubSeq(D, k + 1, Len(D)))
        /\ r # <<>> => k < Len(D) /\ Len(r) < Len(D[k + 1])
    BY <2>2 DEF DoneWith
  <2>4. r \o <<>> = r
    <3> HIDE DEF r, D
    <3>1. QED
      BY <2>1, ConcatEmptySeq
  <2>5. k \in Nat /\ Len(D) \in Nat /\ k <= Len(D)
    BY <2>1, LenProperties
  <2>6. k = Len(D)
    <3> SUFFICES ASSUME k < Len(D) PROVE FALSE
      BY <2>5
    <3> DEFINE p == SubSeq(D, k + 1, Len(D))
               c == D[k + 1]
               F == FlattenSeq(Tail(p))
               Y == Seq(S)
    <3>1. D \in Seq(Y)
      BY <2>1
    <3>2. p \in Seq(Y) /\ p # <<>> /\ p[1] = c
      <4> HIDE DEF D, Y
      <4>1. QED
        BY <3>1, SuffixFacts
    <3>3. FlattenSeq(p) = c \o F /\ F \in Seq(S)
      <4> HIDE DEF p, D, c
      <4>1. QED
        BY <3>2, FlattenTail
    <3>4. c \in Seq(S) /\ IsCommand(c)
      <4>1. k + 1 \in 1..Len(D)
        BY <2>5
      <4>2. QED
        BY <2>1, <4>1, ElementOfSeq
    <3> HIDE DEF D, r, c, F, p
    <3>5. r = c \o F
      BY <2>3, <2>4, <3>3 DEF p
    <3>6. Len(r) = Len(c) + Len(F) /\ Len(c) \in Nat /\ Len(F) \in Nat
      BY <3>3, <3>4, <3>5, ConcatProperties, LenProperties
    <3>7. Len(c) # 0
      BY <3>4, EmptySeq DEF IsCommand
    <3>8. r # <<>>
      BY <3>6, <3>7, EmptySeq
    <3>9. Len(r) < Len(c)
      BY <2>3, <3>8 DEF c
    <3>10. QED
      BY <3>6, <3>9
  <2>7. QED
    BY <2>2, <2>3, <2>6
<1>3. QED
  BY <1>1, <1>2

LEMMA UartRestart == UartInv /\ Restart => UartInv'
<1> SUFFICES ASSUME UartInv, Restart PROVE UartInv'
  OBVIOUS
<1>1. /\ fifo' = <<>> /\ robot' = robot /\ handled' = handled /\ executed' = executed
      /\ crashes' = crashes + 1 /\ cut' = (cut \/ (fifo # <<>> /\ robot.frame # <<>>))
  BY DEF Restart
<1>2. UartTypeOK
  BY DEF UartInv
<1>3. crashes' \in Nat /\ crashes' > 0 /\ crashes' # 0 /\ cut' \in BOOLEAN
  BY <1>1, <1>2 DEF UartTypeOK
<1>4. UartTypeOK'
  <2>1. <<>> \in Seq({})
    BY EmptySeq
  <2>2. IsSequence(<<>>)
    BY <2>1, SequenceIs
  <2>3. QED
    BY <1>1, <1>2, <1>3, <2>2 DEF UartTypeOK
<1>5. ASSUME ~cut' PROVE ~cut /\ robot.frame = <<>>
  BY <1>1, <1>5, WhenEmpty
<1>6. Dispatched' = Dispatched
  BY <1>1 DEF Dispatched
<1>7. ASSUME ~cut' PROVE NothingInvented'
  BY <1>1, <1>5, <1>7 DEF UartInv, NothingInvented
<1>8. ASSUME robot.frame = <<>> PROVE \E k \in 0..Len(Dispatched') : DoneWith(k)'
  <2>1. PICK n : n = Len(Dispatched)
    OBVIOUS
  <2>2. PICK S : Dispatched \in Seq(S)
    BY <1>2, HandledFacts
  <2>3. n \in Nat /\ SubSeq(Dispatched, n + 1, n) = <<>>
    BY <2>1, <2>2, SuffixFacts, LenProperties
  <2>4. FlattenSeq(<<>>) = <<>> /\ <<>> \o <<>> = <<>>
    <3>1. <<>> \in Seq({}) /\ Len(<<>>) = 0
      BY EmptySeq
    <3>2. QED
      BY <3>1, ConcatEmptySeq DEF FlattenSeq
  <2>5. (robot.frame \o fifo)' = <<>>
    BY <1>1, <1>8, <2>4
  <2>6. FlattenSeq(SubSeq(Dispatched', n + 1, Len(Dispatched'))) = <<>>
    BY <1>6, <2>1, <2>3, <2>4
  <2>7. DoneWith(n)'
    BY <1>1, <1>3, <1>8, <2>5, <2>6 DEF DoneWith
  <2>8. QED
    BY <1>6, <2>1, <2>3, <2>7
<1>9. QED
  BY <1>1, <1>3, <1>4, <1>5, <1>7, <1>8 DEF UartInv

(* The deaf robot hears nothing; otherwise the byte is the next one of the *)
(* command at hand, and the last one of it makes the robot execute it.     *)
LEMMA UartReceives == UartInv /\ RobotReceives => UartInv'
<1> SUFFICES ASSUME UartInv, RobotReceives PROVE UartInv'
  OBVIOUS
<1> DEFINE r == robot.frame
           g == Append(r, Head(fifo))
           t == Tail(fifo)
           D == Dispatched
<1>1. /\ fifo # <<>> /\ fifo' = t /\ handled' = handled /\ crashes' = crashes /\ cut' = cut
      /\ IF robot.deaf \/ OpOf(g[1]) = {}
         THEN UNCHANGED <<robot, executed>>
         ELSE IF Complete(g)
              THEN /\ robot' = [frame |-> <<>>, deaf |-> ChangesRate(g)]
                   /\ executed' = Append(executed, g)
              ELSE robot' = [robot EXCEPT !.frame = g] /\ UNCHANGED executed
  BY DEF RobotReceives
<1>2. UartTypeOK
  BY DEF UartInv
<1>3. PICK S : /\ r \in Seq(S) /\ fifo \in Seq(S) /\ D \in Seq(Seq(S))
               /\ \A m \in 1..Len(D) :
                     /\ IsCommand(D[m])
                     /\ \E j \in 1..Len(handled) : handled[j].frames = <<D[m]>>
  BY <1>2, HandledFacts
<1>4. t \in Seq(S) /\ g \in Seq(S)
  <2>1. PICK h : h = Head(fifo)
    OBVIOUS
  <2>2. h \in S /\ t \in Seq(S)
    BY <1>1, <1>3, <2>1, HeadTailProperties
  <2>3. Append(r, h) \in Seq(S)
    BY <1>3, <2>2, AppendProperties
  <2>4. QED
    BY <2>1, <2>2, <2>3
<1>5. IsSequence(t) /\ IsSequence(g) /\ IsSequence(<<>>)
  <2>1. <<>> \in Seq({})
    BY EmptySeq
  <2> HIDE DEF t, g
  <2>2. QED
    BY <1>4, <2>1, SequenceIs
<1> HIDE DEF t, g
<1>6. robot = [frame |-> r, deaf |-> robot.deaf] /\ robot.deaf \in BOOLEAN /\ ChangesRate(g) \in BOOLEAN
  BY <1>2 DEF UartTypeOK, ChangesRate
<1>7. \/ /\ robot.deaf \/ OpOf(g[1]) = {}
         /\ robot' = robot /\ executed' = executed
      \/ /\ ~robot.deaf /\ Complete(g)
         /\ robot' = [frame |-> <<>>, deaf |-> ChangesRate(g)] /\ executed' = Append(executed, g)
      \/ /\ ~robot.deaf /\ ~Complete(g)
         /\ robot' = [frame |-> g, deaf |-> robot.deaf] /\ executed' = executed
  BY <1>1, <1>6
<1>8. IsSequence(executed) /\ IsSequence(Append(executed, g))
  BY <1>2, AppendIsSequence DEF UartTypeOK
<1>9. UartTypeOK'
  <2>1. /\ IsSequence(fifo') /\ IsSequence(handled') /\ cut' \in BOOLEAN /\ crashes' \in Nat
        /\ \A i \in 1..Len(handled') : IsResult(handled'[i].frames)
    BY <1>1, <1>2, <1>5 DEF UartTypeOK
  <2>2. IsSequence(executed')
    BY <1>7, <1>8
  <2>3. /\ IsSequence(robot'.frame) /\ robot'.deaf \in BOOLEAN
        /\ robot' = [frame |-> robot'.frame, deaf |-> robot'.deaf]
    <3>1. IsSequence(r)
      BY <1>2 DEF UartTypeOK
    <3> HIDE DEF r
    <3>2. QED
      BY <1>5, <1>6, <1>7, <3>1
  <2>4. QED
    BY <2>1, <2>2, <2>3 DEF UartTypeOK
<1>10. Dispatched' = Dispatched
  BY <1>1 DEF Dispatched
<1>11. CASE cut
  BY <1>1, <1>9, <1>11 DEF UartInv
<1>12. CASE ~cut /\ robot.deaf
  <2>1. robot' = robot /\ executed' = executed
    BY <1>7, <1>12
  <2>2. NothingInvented'
    BY <1>1, <1>12, <2>1 DEF UartInv, NothingInvented
  <2>3. QED
    BY <1>1, <1>9, <1>12, <2>1, <2>2 DEF UartInv
<1>13. CASE ~cut /\ ~robot.deaf
  <2>1. PICK k \in 0..Len(D) : DoneWith(k)
    BY <1>13 DEF UartInv
  <2>2. /\ r \o fifo = FlattenSeq(SubSeq(D, k + 1, Len(D)))
        /\ r # <<>> => k < Len(D) /\ Len(r) < Len(D[k + 1])
        /\ crashes = 0 => executed = SubSeq(D, 1, k)
    BY <2>1 DEF DoneWith
  <2> DEFINE c == D[k + 1]
  <2>3. /\ k < Len(D) /\ k + 1 \in 1..Len(D) /\ g[1] = c[1] /\ Len(g) <= Len(c) /\ g \o t = r \o fifo
        /\ Len(g) = Len(c) => g = c /\ t = FlattenSeq(SubSeq(D, (k + 1) + 1, Len(D)))
    <3> HIDE DEF D, r
    <3>1. D \in Seq(Seq(S)) /\ r \in Seq(S) /\ fifo \in Seq(S) /\ fifo # <<>>
      BY <1>1, <1>3
    <3>2. \A m \in 1..Len(D) : IsCommand(D[m])
      BY <1>3
    <3>3. Pending(D, k, r, fifo)
      BY <2>2 DEF Pending
    <3>4. OneByteMore(D, k, r, fifo)
      BY <3>1, <3>2, <3>3, NextByte
    <3>5. QED
      BY <3>4 DEF OneByteMore, g, t
  <2>4. IsCommand(c) /\ \E j \in 1..Len(handled) : handled[j].frames = <<c>>
    BY <1>3, <2>3
  <2>5. OpOf(g[1]) # {} /\ (Complete(g) <=> Len(g) = Len(c))
    <3> HIDE DEF c
    <3>1. QED
      BY <2>3, <2>4, CommandReads
  <2>6. Len(g) \in Nat /\ Len(c) \in Nat /\ Len(D) \in Nat /\ k \in Nat
    BY <1>3, <1>4, <2>3, ElementOfSeq, LenProperties
  <2>7. ~cut' /\ NothingInvented
    BY <1>1, <1>13 DEF UartInv
  <2> HIDE DEF D, r, c
  <2>8. CASE Complete(g)
    <3>1. /\ robot' = [frame |-> <<>>, deaf |-> ChangesRate(g)] /\ executed' = Append(executed, c)
          /\ t = FlattenSeq(SubSeq(D, (k + 1) + 1, Len(D))) /\ g = c
      BY <1>7, <1>13, <2>3, <2>5, <2>8
    <3>2. robot'.frame = <<>>
      BY <3>1
    <3>3. NothingInvented'
      <4>1. /\ Len(executed) \in Nat /\ Len(executed') = Len(executed) + 1
            /\ \A i \in 1..Len(executed) : executed'[i] = executed[i]
            /\ executed'[Len(executed) + 1] = c
        BY <1>8, <3>1, AppendIsSequence
      <4>2. ASSUME NEW i \in 1..Len(executed')
            PROVE  \E j \in 1..Len(handled) : handled[j].frames = <<executed'[i]>>
        <5>1. CASE i \in 1..Len(executed)
          BY <1>13, <2>7, <4>1, <5>1 DEF NothingInvented
        <5>2. CASE i = Len(executed) + 1
          BY <2>4, <4>1, <5>2
        <5>3. QED
          BY <4>1, <5>1, <5>2
      <4>3. QED
        BY <1>1, <4>2 DEF NothingInvented
    <3>4. k + 1 \in 0..Len(D) /\ DoneWith(k + 1)'
      <4>1. <<>> \o t = t
        BY <1>4, ConcatEmptySeq
      <4>2. crashes = 0 => Append(executed, c) = SubSeq(D, 1, k + 1)
        <5>1. SubSeq(D, 1, k + 1) = Append(SubSeq(D, 1, k), D[k + 1])
          BY <1>3, <2>3, PrefixAppend
        <5>2. QED
          BY <2>2, <5>1 DEF c
      <4>3. QED
        BY <1>1, <1>10, <2>3, <3>1, <3>2, <4>1, <4>2 DEF DoneWith, D
    <3>5. QED
      BY <1>9, <1>10, <2>7, <3>2, <3>3, <3>4 DEF UartInv, D
  <2>9. CASE ~Complete(g)
    <3>1. robot' = [frame |-> g, deaf |-> robot.deaf] /\ executed' = executed /\ Len(g) < Len(c)
      BY <1>7, <1>13, <2>3, <2>5, <2>6, <2>9
    <3>2. robot'.frame = g /\ ~robot'.deaf
      BY <1>13, <3>1
    <3>3. NothingInvented'
      BY <1>1, <2>7, <3>1 DEF NothingInvented
    <3>4. DoneWith(k)'
      BY <1>1, <1>10, <2>2, <2>3, <3>1, <3>2 DEF DoneWith, D, c
    <3>5. QED
      BY <1>9, <1>10, <2>7, <3>2, <3>3, <3>4 DEF UartInv, D
  <2>10. QED
    BY <2>8, <2>9
<1>14. QED
  BY <1>11, <1>12, <1>13

(* The robot is aligned with the frames, has read a part of the commands   *)
(* and was sent the rest, as long as no restart cuts a frame in two.       *)
THEOREM UartInvariant == Spec => []UartInv
<1>1. Init => UartInv
  BY UartStart
<1>2. UartInv /\ [Next]_vars => UartInv'
  <2> SUFFICES ASSUME UartInv, [Next]_vars PROVE UartInv'
    OBVIOUS
  <2>1. ASSUME NEW d \in Payloads, NEW tail \in Tails, Post(d, tail) PROVE UartInv'
    BY <2>1, UartUnchanged DEF Post, uart
  <2>2. CASE Decode
    BY <2>2, UartUnchanged DEF Decode, uart
  <2>3. CASE Dispatch
    BY <2>3, UartDispatch
  <2>4. CASE Respond
    BY <2>4, UartUnchanged DEF Respond, uart
  <2>5. CASE Restart
    BY <2>5, UartRestart
  <2>6. CASE RobotReceives
    BY <2>6, UartReceives
  <2>7. CASE UNCHANGED vars
    BY <2>7, UartUnchanged DEF vars, rpcVars, uart
  <2>8. QED
    BY <2>1, <2>2, <2>3, <2>4, <2>5, <2>6, <2>7 DEF Next
<1>3. QED
  BY <1>1, <1>2, PTL DEF Spec

(* With nothing on the line the robot waits for an opcode: every command   *)
(* had as many bytes as the robot reads, whatever was decoded.             *)
THEOREM RobotStaysAligned == Spec => []RobotAligned
<1>1. UartInv => RobotAligned
  BY WhenEmpty DEF RobotAligned
<1>2. QED
  BY <1>1, UartInvariant, PTL

(* What was dispatched is executed, all of it and in order.                *)
THEOREM DispatchedIsExecuted == Spec => []AllExecuted
<1>1. UartInv => AllExecuted
  <2> SUFFICES ASSUME UartInv, fifo = <<>>, crashes = 0, ~robot.deaf PROVE executed = Dispatched
    BY DEF AllExecuted, Dispatched
  <2>1. ~cut /\ UartTypeOK
    BY DEF UartInv, UartTypeOK
  <2>2. executed = SubSeq(Dispatched, 1, Len(Dispatched))
    BY <2>1, WhenEmpty DEF DoneWith
  <2>3. PICK S : Dispatched \in Seq(S)
    BY <2>1, HandledFacts
  <2>4. QED
    BY <2>2, <2>3, SubSeqFull
<1>2. QED
  BY <1>1, UartInvariant, PTL

(* The robot executes only what was dispatched.                            *)
THEOREM OnlyDispatchedIsExecuted == Spec => []NothingInvented
<1>1. UartInv => NothingInvented
  BY DEF UartInv, NothingInvented
<1>2. QED
  BY <1>1, UartInvariant, PTL

----------------------------------------------------------------------------
(* What strlen finds is a sequence of bytes.                               *)
LEMMA CStringType ==
    ASSUME NEW d \in Payloads, NEW tail \in Tails
    PROVE  CString(d \o tail) \in Seq(Byte)
<1>1. PICK s : s = d \o tail
  OBVIOUS
<1>2. d \in Seq(Byte) /\ tail \in Seq(Byte) /\ tail # <<>> /\ tail[Len(tail)] = 0
  BY PayloadsAssumption, TailsAssumption
<1>3. Len(d) \in Nat /\ Len(tail) \in Nat \ {0}
  BY <1>2, LenProperties, EmptySeq
<1>4. s \in Seq(Byte) /\ Len(s) = Len(d) + Len(tail) /\ s[Len(s)] = 0
  BY <1>1, <1>2, <1>3, ConcatProperties
<1> DEFINE zeros == {i \in 1..Len(s) : s[i] = 0}
           k == CHOOSE i \in zeros : \A j \in zeros : i <= j
<1>5. Len(s) \in zeros /\ zeros \in SUBSET Nat
  BY <1>3, <1>4
<1>6. \E i \in zeros : \A j \in zeros : i <= j
  <2> HIDE DEF zeros
  <2> QED BY <1>5, LeastOf
<1>7. k \in 1..Len(s)
  <2>1. k \in zeros
    <3> HIDE DEF zeros
    <3> QED BY <1>6
  <2>2. QED
    BY <2>1
<1>8. CString(s) = SubSeq(s, 1, k - 1)
  BY DEF CString
<1> HIDE DEF k, zeros
<1>9. SubSeq(s, 1, k - 1) \in Seq(Byte)
  BY <1>4, <1>7, SubSeqProperties
<1>10. QED
  BY <1>1, <1>8, <1>9

(* The decoder inside perform_rpc_request is PbDecode, started anew with   *)
(* every POST: its invariants hold through requests, failures, restarts.   *)
THEOREM RequestInvariant == Spec => []StructInv
<1>1. Init => StructInv
  <2>1. <<>> \in Seq(Byte)
    BY EmptySeq
  <2>2. Started(<<>>) => StructInv
    BY <2>1, StartUnions, StartRoot DEF StructInv
  <2>3. QED
    BY <2>2 DEF Init
<1>2. StructInv /\ [Next]_vars => StructInv'
  <2> SUFFICES ASSUME StructInv, [Next]_vars PROVE StructInv'
    OBVIOUS
  <2>1. ASSUME NEW d \in Payloads, NEW tail \in Tails, Post(d, tail) PROVE StructInv'
    <3>1. UNCHANGED pbVars \/ PbStart(CString(d \o tail))
      BY <2>1 DEF Post
    <3>2. CASE UNCHANGED pbVars
      BY <3>2, StructStep
    <3>3. CASE PbStart(CString(d \o tail))
      BY <3>3, CStringType, StartStruct
    <3>4. QED
      BY <3>1, <3>2, <3>3
  <2>2. CASE Decode
    BY <2>2, StructStep DEF Decode
  <2>3. CASE Dispatch
    BY <2>3, StructStep DEF Dispatch
  <2>4. CASE Respond
    BY <2>4, StructStep DEF Respond
  <2>5. CASE Restart
    <3>1. <<>> \in Seq(Byte)
      BY EmptySeq
    <3>2. QED
      BY <2>5, <3>1, StartStruct DEF Restart
  <2>6. CASE RobotReceives
    BY <2>6, StructStep DEF RobotReceives
  <2>7. CASE UNCHANGED vars
    BY <2>7, StructStep DEF vars
  <2>8. QED
    BY <2>1, <2>2, <2>3, <2>4, <2>5, <2>6, <2>7 DEF Next
<1>3. QED
  BY <1>1, <1>2, PTL DEF Spec

(* rpc.c:162 goes on with the structure whatever pb_decode returned: what  *)
(* handle_rpc_request then reads of its unions is what their which_ says,  *)
(* and no size or count in it is too large for its field; and pb_decode    *)
(* has read nothing behind the zero byte strlen found.                     *)
THEOREM RequestAlwaysConsistent ==
    Spec => [](StreamContained /\ CountsInBounds /\ SizesInBounds /\ UnionConsistent)
<1>1. StructInv => StreamContained /\ CountsInBounds /\ SizesInBounds /\ UnionConsistent
  <2>1. StructInv => UnionsInv /\ PlacesInv /\ PbInv
    BY DEF StructInv, UnionsInv, PlacesInv
  <2>2. PbInv => StreamContained
    BY DEF PbInv, StreamInv
  <2>3. QED
    BY <2>1, <2>2, CountsFit, SizesFit, UnionsAgree
<1>2. QED
  BY <1>1, RequestInvariant, PTL

=============================================================================
