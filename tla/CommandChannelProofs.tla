----------------------- MODULE CommandChannelProofs -----------------------
(***************************************************************************)
(* Proofs about CommandChannel: for any number of callers, any capacities  *)
(* and any batch size, no operation is lost, doubled or overtaken on its   *)
(* way from a FUSE call to gossip.                                         *)
(***************************************************************************)
EXTENDS CommandChannel, SequenceTheorems, TLAPS

\* Operations are numbers.
Op == 1..MaxOperations

-----------------------------------------------------------------------------
(***************************************************************************)
(* Types.                                                                  *)
(***************************************************************************)

\* A command appended to the channel is a command of the channel.
LEMMA SendType ==
    ASSUME TypeOK, NEW cmd \in Command, Send(cmd)
    PROVE  commands' \in Seq(Command) /\ Len(commands') <= CommandCapacity
           /\ Len(commands') = Len(commands) + 1
BY ChannelAssumption, AppendProperties, LenProperties, SMTT(30) DEF Send, HasRoom, TypeOK

\* Every step keeps the shape of the state.
LEMMA NextType == TypeOK /\ [Next]_vars => TypeOK'
<1> SUFFICES ASSUME TypeOK, [Next]_vars PROVE TypeOK'
  OBVIOUS
<1>1. ASSUME NEW w \in Writer, Mutate(w) PROVE TypeOK'
  <2>1. made + 1 \in 0..MaxOperations
    BY <1>1, ChannelAssumption DEF Mutate, TypeOK
  <2> QED BY <1>1, <2>1 DEF Mutate, TypeOK, taskVars
<1>2. ASSUME NEW w \in Writer, HandOver(w) PROVE TypeOK'
  <2>1. inHand[w] \in 1..MaxOperations
    BY <1>2, ChannelAssumption, SMTT(30) DEF HandOver, TypeOK
  <2>2. /\ Append(operations, inHand[w]) \in Seq(1..MaxOperations)
        /\ Len(Append(operations, inHand[w])) = Len(operations) + 1
        /\ Append(accepted, inHand[w]) \in Seq(1..MaxOperations)
        /\ Len(operations) \in Nat
    BY <2>1, AppendProperties, LenProperties DEF TypeOK
  <2>3. Len(operations') <= OperationCapacity
    BY <1>2, <2>2, ChannelAssumption DEF HandOver
  <2>4. inHand' \in [Writer -> 0..MaxOperations]
    BY <1>2, ChannelAssumption DEF HandOver, TypeOK
  <2> QED BY <1>2, <2>2, <2>3, <2>4 DEF HandOver, TypeOK
<1>3. ASSUME NEW r \in Reader, AskFetch(r) PROVE TypeOK'
  BY <1>3 DEF AskFetch, TypeOK, taskVars
<1>4. ASSUME NEW r \in Reader, SendFetch(r) PROVE TypeOK'
  <2>1. Fetch(r) \in Command
    BY DEF Fetch, Command
  <2>2. commands' \in Seq(Command) /\ Len(commands') <= CommandCapacity
    BY <1>4, <2>1, SendType DEF SendFetch
  <2> QED BY <1>4, <2>2 DEF SendFetch, TypeOK, taskVars
<1>5. ASSUME Receive PROVE TypeOK'
  <2>1. /\ Head(operations) \in 1..MaxOperations
        /\ Tail(operations) \in Seq(1..MaxOperations)
        /\ Len(Tail(operations)) = Len(operations) - 1
        /\ Len(operations) \in Nat /\ Len(batch) \in Nat
    BY <1>5, HeadTailProperties, LenProperties DEF Receive, TypeOK
  <2>2. /\ Append(batch, Head(operations)) \in Seq(1..MaxOperations)
        /\ Append(batch, Head(operations)) # <<>>
        /\ Len(Append(batch, Head(operations))) = Len(batch) + 1
    <3>1. batch \in Seq(1..MaxOperations)
      BY DEF TypeOK
    <3>2. Head(operations) \in 1..MaxOperations
      BY <2>1
    <3> QED BY <3>1, <3>2, AppendProperties
  <2>3. Len(batch) < MaxBatch
    BY <1>5, ChannelAssumption DEF Receive, TypeOK
  <2>4. Len(operations') <= OperationCapacity /\ Len(batch') <= MaxBatch
    <3>1. OperationCapacity \in Nat /\ MaxBatch \in Nat
      BY ChannelAssumption
    <3>2. operations' = Tail(operations) /\ batch' = Append(batch, Head(operations))
      BY <1>5 DEF Receive
    <3>3. Len(operations) <= OperationCapacity
      BY DEF TypeOK
    <3> QED BY <2>1, <2>2, <2>3, <3>1, <3>2, <3>3
  <2>5. phase' \in {"idle", "filling", "sending"} /\ (phase' = "idle" <=> batch' = <<>>)
    BY <1>5, <2>2 DEF Receive
  <2> QED BY <1>5, <2>1, <2>2, <2>4, <2>5 DEF Receive, TypeOK
<1>6. ASSUME StopFilling PROVE TypeOK'
  BY <1>6 DEF StopFilling, TypeOK
<1>7. ASSUME SendPiece PROVE TypeOK'
  <2> DEFINE count == IF Len(batch) < MaxBatch THEN Len(batch) ELSE MaxBatch
  <2>1. Len(batch) \in Nat /\ count = Len(batch)
    BY ChannelAssumption, LenProperties DEF TypeOK
  <2>2. /\ Send(Broadcast(SubSeq(batch, 1, count)))
        /\ batch' = SubSeq(batch, count + 1, Len(batch))
        /\ phase' = IF batch' = <<>> THEN "idle" ELSE "sending"
    BY <1>7 DEF SendPiece
  <2> HIDE DEF count
  <2>3. SubSeq(batch, 1, count) = batch /\ batch' = <<>>
    BY <2>1, <2>2, SubSeqFull, SubSeqEmpty DEF TypeOK
  <2>4. Broadcast(SubSeq(batch, 1, count)) \in Command
    BY <2>3 DEF Broadcast, Command, TypeOK
  <2>5. commands' \in Seq(Command) /\ Len(commands') <= CommandCapacity
    BY <2>2, <2>4, SendType
  <2>6. batch' \in Seq(1..MaxOperations) /\ Len(batch') <= MaxBatch
    BY <2>3, EmptySeq, ChannelAssumption
  <2> QED BY <1>7, <2>2, <2>3, <2>5, <2>6 DEF SendPiece, TypeOK
<1>8. ASSUME Dispatch PROVE TypeOK'
  <2>1. /\ Head(commands) \in Command /\ Tail(commands) \in Seq(Command)
        /\ Len(Tail(commands)) = Len(commands) - 1 /\ Len(commands) \in Nat
    BY <1>8, HeadTailProperties, LenProperties DEF Dispatch, TypeOK
  <2>2. published' \in Seq(1..MaxOperations)
    BY <1>8, <2>1, ConcatProperties DEF Dispatch, TypeOK, Command
  <2>3. fetching' \in [Reader -> {"no", "wanted", "sent", "done"}]
    BY <1>8 DEF Dispatch, TypeOK
  <2>4. Len(commands') <= CommandCapacity
    BY <1>8, <2>1, ChannelAssumption DEF Dispatch, TypeOK
  <2> QED BY <1>8, <2>1, <2>2, <2>3, <2>4 DEF Dispatch, TypeOK, taskVars
<1>9. ASSUME StartRebalance PROVE TypeOK'
  BY <1>9, ChannelAssumption, SMTT(30) DEF StartRebalance, TypeOK, taskVars
<1>10. ASSUME IssueFetch PROVE TypeOK'
  <2>1. PinFetch \in Command
    BY DEF PinFetch, Command
  <2>2. commands' \in Seq(Command) /\ Len(commands') <= CommandCapacity
    <3>1. CASE HasRoom
      <4>1. Send(PinFetch)
        BY <1>10, <3>1 DEF IssueFetch, TrySend, Send
      <4> QED BY <2>1, <4>1, SendType
    <3>2. CASE ~HasRoom
      BY <1>10, <3>2 DEF IssueFetch, TrySend, TypeOK
    <3> QED BY <3>1, <3>2
  <2>3. pass' \in 0..MaxPins
    BY <1>10, ChannelAssumption DEF IssueFetch, TypeOK
  <2> QED BY <1>10, <2>2, <2>3 DEF IssueFetch, TypeOK, taskVars
<1>11. CASE UNCHANGED vars
  BY <1>11 DEF vars, taskVars, TypeOK
<1> QED BY <1>1, <1>2, <1>3, <1>4, <1>5, <1>6, <1>7, <1>8, <1>9, <1>10, <1>11 DEF Next

\* The node starts well-formed.
LEMMA InitType == Init => TypeOK
<1> SUFFICES ASSUME Init PROVE TypeOK
  OBVIOUS
<1>1. <<>> \in Seq(1..MaxOperations) /\ <<>> \in Seq(Command) /\ Len(<<>>) = 0
  BY EmptySeq
<1> QED BY <1>1, ChannelAssumption DEF Init, TypeOK

-----------------------------------------------------------------------------
(***************************************************************************)
(* Consecutive pieces of a sequence.                                       *)
(***************************************************************************)

\* What stands between two positions.
LEMMA BetweenProperties ==
    ASSUME NEW seq \in Seq(Op), NEW a \in 0..Len(seq), NEW b \in a..Len(seq)
    PROVE  /\ Between(seq, a, b) \in Seq(Op)
           /\ Len(Between(seq, a, b)) = b - a
           /\ \A i \in 1..(b - a) : Between(seq, a, b)[i] = seq[a + i]
<1>1. Len(seq) \in Nat /\ \A i \in 1..Len(seq) : seq[i] \in Op
  BY LenProperties
<1>2. a + 1 \in Int /\ b \in Int /\ a \in Nat /\ b \in Nat /\ a <= b
  BY <1>1
<1>3. \A i \in (a + 1)..b : seq[i] \in Op
  BY <1>1
<1>4. /\ SubSeq(seq, a + 1, b) \in Seq(Op)
      /\ Len(SubSeq(seq, a + 1, b)) = IF a + 1 <= b THEN b - (a + 1) + 1 ELSE 0
      /\ \A i \in 1..(b - (a + 1) + 1) : SubSeq(seq, a + 1, b)[i] = seq[(a + 1) + i - 1]
  BY <1>2, <1>3, SubSeqProperties
<1>5. b - (a + 1) + 1 = b - a /\ \A i \in 1..(b - a) : (a + 1) + i - 1 = a + i
  BY <1>2
<1>6. Len(SubSeq(seq, a + 1, b)) = b - a
  BY <1>2, <1>4
<1> QED BY <1>4, <1>5, <1>6 DEF Between

\* Nothing stands between a position and itself.
LEMMA BetweenSame ==
    ASSUME NEW seq \in Seq(Op), NEW a \in 0..Len(seq)
    PROVE  Between(seq, a, a) = <<>>
<1>1. a + 1 \in Int /\ a \in Int /\ a < a + 1
  OBVIOUS
<1> QED BY <1>1, SubSeqEmpty DEF Between

\* Two pieces that meet are one piece.
LEMMA BetweenJoin ==
    ASSUME NEW seq \in Seq(Op), NEW a \in 0..Len(seq), NEW b \in a..Len(seq),
           NEW c \in b..Len(seq)
    PROVE  Between(seq, a, b) \o Between(seq, b, c) = Between(seq, a, c)
<1> DEFINE s == Between(seq, a, b)
           t == Between(seq, b, c)
           u == Between(seq, a, c)
<1>1. Len(seq) \in Nat /\ a \in Nat /\ b \in 0..Len(seq) /\ b \in Nat /\ c \in Nat
      /\ c \in a..Len(seq) /\ a <= b /\ b <= c
  BY LenProperties
<1>2. s \in Seq(Op) /\ Len(s) = b - a /\ \A i \in 1..(b - a) : s[i] = seq[a + i]
  BY <1>1, BetweenProperties
<1>3. t \in Seq(Op) /\ Len(t) = c - b /\ \A i \in 1..(c - b) : t[i] = seq[b + i]
  BY <1>1, BetweenProperties
<1>4. u \in Seq(Op) /\ Len(u) = c - a /\ \A i \in 1..(c - a) : u[i] = seq[a + i]
  BY <1>1, BetweenProperties
<1> HIDE DEF s, t, u
<1>5. /\ s \o t \in Seq(Op) /\ Len(s \o t) = Len(s) + Len(t)
      /\ \A i \in 1..(Len(s) + Len(t)) : (s \o t)[i] = IF i <= Len(s) THEN s[i] ELSE t[i - Len(s)]
  BY <1>2, <1>3, ConcatProperties
<1>6. Len(s \o t) = Len(u)
  BY <1>1, <1>2, <1>3, <1>4, <1>5
<1>7. ASSUME NEW i \in 1..Len(s \o t) PROVE (s \o t)[i] = u[i]
  <2>1. i \in 1..(c - a) /\ i \in Nat
    BY <1>1, <1>4, <1>6
  <2>2. CASE i <= b - a
    BY <1>1, <1>2, <1>3, <1>4, <1>5, <2>1, <2>2
  <2>3. CASE ~(i <= b - a)
    <3>1. i - (b - a) \in 1..(c - b) /\ b + (i - (b - a)) = a + i
      BY <1>1, <2>1, <2>3
    <3>2. (s \o t)[i] = t[i - (b - a)]
      BY <1>2, <1>5, <1>7, <2>3
    <3> QED BY <1>3, <1>4, <2>1, <3>1, <3>2
  <2> QED BY <2>2, <2>3
<1>8. s \o t = u
  BY <1>4, <1>5, <1>6, <1>7, SeqEqual
<1> QED BY <1>8 DEF s, t, u

\* A piece does not change when the sequence grows.
LEMMA BetweenAppend ==
    ASSUME NEW seq \in Seq(Op), NEW x \in Op, NEW a \in 0..Len(seq), NEW b \in a..Len(seq)
    PROVE  Between(Append(seq, x), a, b) = Between(seq, a, b)
<1> DEFINE more == Append(seq, x)
           s == Between(more, a, b)
           t == Between(seq, a, b)
<1>1. /\ Len(seq) \in Nat /\ more \in Seq(Op) /\ Len(more) = Len(seq) + 1
      /\ \A i \in 1..Len(seq) : more[i] = seq[i]
  BY AppendProperties, LenProperties
<1>2. a \in 0..Len(more) /\ b \in a..Len(more) /\ a \in Nat /\ b \in Nat /\ a <= b /\ b <= Len(seq)
  BY <1>1
<1>3. s \in Seq(Op) /\ Len(s) = b - a /\ \A i \in 1..(b - a) : s[i] = more[a + i]
  BY <1>1, <1>2, BetweenProperties
<1>4. t \in Seq(Op) /\ Len(t) = b - a /\ \A i \in 1..(b - a) : t[i] = seq[a + i]
  BY BetweenProperties
<1> HIDE DEF more, s, t
<1>5. ASSUME NEW i \in 1..Len(s) PROVE s[i] = t[i]
  <2>1. i \in 1..(b - a) /\ a + i \in 1..Len(seq)
    BY <1>1, <1>2, <1>3
  <2> QED BY <1>1, <1>3, <1>4, <2>1
<1>6. s = t
  BY <1>3, <1>4, <1>5, SeqEqual
<1> QED BY <1>6 DEF s, t, more

\* The last piece grows with the sequence.
LEMMA BetweenLast ==
    ASSUME NEW seq \in Seq(Op), NEW x \in Op, NEW a \in 0..Len(seq)
    PROVE  Between(Append(seq, x), a, Len(Append(seq, x)))
                = Append(Between(seq, a, Len(seq)), x)
<1> DEFINE more == Append(seq, x)
           n == Len(seq)
           t == Between(seq, a, n)
           u == Between(more, n, n + 1)
<1>1. /\ n \in Nat /\ more \in Seq(Op) /\ Len(more) = n + 1 /\ more[n + 1] = x
  BY AppendProperties, LenProperties
<1>2. /\ a \in 0..Len(more) /\ n \in a..Len(more) /\ n + 1 \in n..Len(more)
      /\ n \in a..Len(seq) /\ n \in 0..Len(more) /\ (n + 1) - n = 1
  BY <1>1
<1> HIDE DEF n
<1>3. Between(more, a, n) = t
  BY <1>2, BetweenAppend
<1>4. Between(more, a, n) \o u = Between(more, a, n + 1)
  BY <1>1, <1>2, BetweenJoin
<1>5. u \in Seq(Op) /\ Len(u) = 1 /\ u[1] = x
  <2>1. /\ u \in Seq(Op) /\ Len(u) = (n + 1) - n
        /\ \A i \in 1..((n + 1) - n) : u[i] = more[n + i]
    BY <1>1, <1>2, BetweenProperties
  <2>2. 1 \in 1..((n + 1) - n)
    BY <1>2
  <2>3. u[1] = more[n + 1]
    BY <2>1, <2>2
  <2> QED BY <1>1, <1>2, <2>1, <2>3
<1>6. t \in Seq(Op)
  BY <1>2, BetweenProperties
<1> HIDE DEF more, t, u
<1>7. u = <<x>>
  <2>1. <<x>> \in Seq(Op) /\ Len(<<x>>) = 1 /\ <<x>>[1] = x
    OBVIOUS
  <2>2. \A i \in 1..Len(u) : u[i] = <<x>>[i]
    BY <1>5, <2>1
  <2> QED BY <1>5, <2>1, <2>2, SeqEqual
<1>8. Append(t, x) = t \o <<x>>
  BY <1>6, AppendIsConcat
<1> QED BY <1>1, <1>3, <1>4, <1>7, <1>8 DEF more, t, n

-----------------------------------------------------------------------------
(***************************************************************************)
(* The cut that NothingLost asks for, step by step.                        *)
(***************************************************************************)

\* cut divides acc into what was published, what each command carries and the rest.
CutBy(cut, acc, pub, cmds, rest) ==
    /\ cut \in [0..Len(cmds) -> 0..Len(acc)]
    /\ pub = Between(acc, 0, cut[0])
    /\ \A i \in DOMAIN cmds :
        /\ cut[i - 1] <= cut[i]
        /\ OperationsOf(cmds[i]) = Between(acc, cut[i - 1], cut[i])
    /\ rest = Between(acc, cut[Len(cmds)], Len(acc))

\* NothingLost says that there is such a cut.
LEMMA NothingLostIsCut ==
    NothingLost <=> \E cut : CutBy(cut, accepted, published, commands, batch \o operations)
BY Zenon DEF NothingLost, CutBy

\* An operation more at the end leaves all pieces but the last as they are.
LEMMA AcceptCut ==
    ASSUME NEW acc \in Seq(Op), NEW x \in Op, NEW cmds \in Seq(Command), NEW rest,
           NEW pub, NEW cut, CutBy(cut, acc, pub, cmds, rest)
    PROVE  CutBy(cut, Append(acc, x), pub, cmds, Append(rest, x))
<1> DEFINE more == Append(acc, x)
           n == Len(cmds)
<1>1. /\ Len(acc) \in Nat /\ n \in Nat /\ DOMAIN cmds = 1..n
      /\ Len(more) = Len(acc) + 1
  BY AppendProperties, LenProperties
<1>2. /\ cut \in [0..n -> 0..Len(acc)] /\ pub = Between(acc, 0, cut[0])
      /\ \A i \in DOMAIN cmds :
            /\ cut[i - 1] <= cut[i]
            /\ OperationsOf(cmds[i]) = Between(acc, cut[i - 1], cut[i])
      /\ rest = Between(acc, cut[n], Len(acc))
  BY DEF CutBy
<1> HIDE DEF n
<1>3. \A i \in 0..n : cut[i] \in 0..Len(acc)
  BY <1>1, <1>2
<1>4. cut \in [0..n -> 0..Len(more)]
  BY <1>1, <1>2
<1>5. pub = Between(more, 0, cut[0])
  <2>1. 0 \in 0..Len(acc) /\ cut[0] \in 0..Len(acc)
    BY <1>1, <1>3
  <2> QED BY <1>2, <2>1, BetweenAppend
<1>6. ASSUME NEW i \in DOMAIN cmds
      PROVE  OperationsOf(cmds[i]) = Between(more, cut[i - 1], cut[i])
  <2>1. i - 1 \in 0..n /\ i \in 0..n
    BY <1>1
  <2>2. cut[i - 1] \in 0..Len(acc) /\ cut[i] \in 0..Len(acc) /\ cut[i - 1] <= cut[i]
    BY <1>2, <1>3, <2>1
  <2>3. cut[i] \in cut[i - 1]..Len(acc)
    BY <1>1, <2>2
  <2>4. Between(more, cut[i - 1], cut[i]) = Between(acc, cut[i - 1], cut[i])
    BY <2>2, <2>3, BetweenAppend
  <2> QED BY <1>2, <2>4
<1>7. Append(rest, x) = Between(more, cut[n], Len(more))
  <2>1. cut[n] \in 0..Len(acc)
    BY <1>1, <1>3
  <2> QED BY <1>2, <2>1, BetweenLast
<1> HIDE DEF more
<1> QED BY <1>1, <1>2, <1>4, <1>5, <1>6, <1>7 DEF CutBy, more, n

\* A command that takes nothing from the rest, or all of it, is one piece more.
LEMMA SendCut ==
    ASSUME NEW acc \in Seq(Op), NEW cmds \in Seq(Command), NEW cmd \in Command,
           NEW pub, NEW rest, NEW left, NEW cut, CutBy(cut, acc, pub, cmds, rest),
           NEW m \in 0..Len(acc), cut[Len(cmds)] <= m,
           OperationsOf(cmd) = Between(acc, cut[Len(cmds)], m),
           left = Between(acc, m, Len(acc))
    PROVE  \E c : CutBy(c, acc, pub, Append(cmds, cmd), left)
<1> DEFINE n == Len(cmds)
           more == Append(cmds, cmd)
           c == [i \in 0..(n + 1) |-> IF i = n + 1 THEN m ELSE cut[i]]
<1>1. /\ n \in Nat /\ DOMAIN cmds = 1..n /\ Len(more) = n + 1 /\ DOMAIN more = 1..(n + 1)
      /\ \A i \in 1..n : more[i] = cmds[i]
      /\ more[n + 1] = cmd
  BY AppendProperties, LenProperties
<1>2. /\ cut \in [0..n -> 0..Len(acc)] /\ pub = Between(acc, 0, cut[0])
      /\ \A i \in DOMAIN cmds :
            /\ cut[i - 1] <= cut[i]
            /\ OperationsOf(cmds[i]) = Between(acc, cut[i - 1], cut[i])
      /\ OperationsOf(cmd) = Between(acc, cut[n], m) /\ cut[n] <= m
  BY DEF CutBy
<1> HIDE DEF n, more
<1>3. /\ c \in [0..(n + 1) -> 0..Len(acc)] /\ c[0] = cut[0] /\ c[n + 1] = m
      /\ \A i \in 0..n : c[i] = cut[i]
  BY <1>1, <1>2
<1> HIDE DEF c
<1>4. ASSUME NEW i \in 1..(n + 1)
      PROVE  /\ c[i - 1] <= c[i]
             /\ OperationsOf(more[i]) = Between(acc, c[i - 1], c[i])
  <2>1. CASE i = n + 1
    <3>1. i - 1 = n /\ n \in 0..n
      BY <1>1, <2>1
    <3>2. c[i - 1] = cut[n] /\ c[i] = m
      BY <1>3, <2>1, <3>1
    <3> QED BY <1>1, <1>2, <2>1, <3>2
  <2>2. CASE i \in 1..n
    <3>1. i - 1 \in 0..n /\ i \in 0..n
      BY <1>1, <2>2
    <3>2. c[i - 1] = cut[i - 1] /\ c[i] = cut[i]
      BY <1>3, <3>1
    <3> QED BY <1>1, <1>2, <2>2, <3>2
  <2> QED BY <1>1, <2>1, <2>2
<1>5. CutBy(c, acc, pub, more, left)
  BY <1>1, <1>2, <1>3, <1>4 DEF CutBy
<1> QED BY <1>5 DEF more

\* The first command leaves the channel and its piece is published.
LEMMA DispatchCut ==
    ASSUME NEW acc \in Seq(Op), NEW cmds \in Seq(Command), cmds # <<>>,
           NEW pub, NEW rest, NEW cut, CutBy(cut, acc, pub, cmds, rest)
    PROVE  \E c : CutBy(c, acc, pub \o OperationsOf(Head(cmds)), Tail(cmds), rest)
<1> DEFINE n == Len(cmds)
           c == [i \in 0..(n - 1) |-> cut[i + 1]]
           t == Tail(cmds)
<1>1. /\ n \in Nat /\ n >= 1 /\ DOMAIN cmds = 1..n /\ Len(t) = n - 1 /\ DOMAIN t = 1..(n - 1)
      /\ \A i \in 1..(n - 1) : t[i] = cmds[i + 1]
      /\ Head(cmds) = cmds[1]
      /\ Len(acc) \in Nat
  BY HeadTailProperties, LenProperties, EmptySeq
<1>2. /\ cut \in [0..n -> 0..Len(acc)] /\ pub = Between(acc, 0, cut[0])
      /\ \A i \in DOMAIN cmds :
            /\ cut[i - 1] <= cut[i]
            /\ OperationsOf(cmds[i]) = Between(acc, cut[i - 1], cut[i])
      /\ rest = Between(acc, cut[n], Len(acc))
  BY DEF CutBy
<1> HIDE DEF n, t
<1>3. /\ c \in [0..(n - 1) -> 0..Len(acc)] /\ c[0] = cut[1] /\ c[n - 1] = cut[n]
      /\ \A i \in 0..(n - 1) : c[i] = cut[i + 1]
  BY <1>1, <1>2
<1> HIDE DEF c
<1>4. pub \o OperationsOf(Head(cmds)) = Between(acc, 0, c[0])
  <2>1. 1 \in DOMAIN cmds /\ 1 - 1 = 0 /\ 0 \in 0..n /\ 1 \in 0..n
    BY <1>1
  <2>2. cut[0] \in 0..Len(acc) /\ cut[1] \in 0..Len(acc)
    BY <1>2, <2>1
  <2>3. cut[1 - 1] <= cut[1] /\ OperationsOf(cmds[1]) = Between(acc, cut[1 - 1], cut[1])
    BY <1>2, <2>1, Zenon
  <2>4. cut[0] <= cut[1] /\ OperationsOf(cmds[1]) = Between(acc, cut[0], cut[1])
    BY <2>1, <2>3
  <2>5. 0 \in 0..Len(acc) /\ cut[0] \in 0..Len(acc) /\ cut[1] \in cut[0]..Len(acc)
    BY <1>1, <2>2, <2>4
  <2>6. Between(acc, 0, cut[0]) \o Between(acc, cut[0], cut[1]) = Between(acc, 0, cut[1])
    BY <2>5, BetweenJoin
  <2> QED BY <1>1, <1>2, <1>3, <2>4, <2>6
<1>5. ASSUME NEW i \in 1..(n - 1)
      PROVE  /\ c[i - 1] <= c[i]
             /\ OperationsOf(t[i]) = Between(acc, c[i - 1], c[i])
  <2>1. i + 1 \in DOMAIN cmds /\ i - 1 \in 0..(n - 1) /\ i \in 0..(n - 1) /\ (i - 1) + 1 = (i + 1) - 1
    BY <1>1
  <2>2. c[i - 1] = cut[(i + 1) - 1] /\ c[i] = cut[i + 1] /\ t[i] = cmds[i + 1]
    BY <1>1, <1>3, <2>1
  <2> QED BY <1>2, <2>1, <2>2
<1>6. CutBy(c, acc, pub \o OperationsOf(Head(cmds)), t, rest)
  BY <1>1, <1>2, <1>3, <1>4, <1>5 DEF CutBy
<1> QED BY <1>6 DEF t

\* A command without operations takes nothing from what is left.
LEMMA OtherCommand ==
    ASSUME TypeOK, NothingLost, NEW cmd \in Command, cmd.type # "broadcast",
           commands' = Append(commands, cmd),
           UNCHANGED <<accepted, published, batch, operations>>
    PROVE  NothingLost'
<1> DEFINE rest == batch \o operations
<1>1. PICK cut : CutBy(cut, accepted, published, commands, rest)
  BY NothingLostIsCut
<1>2. accepted \in Seq(Op) /\ commands \in Seq(Command)
  BY DEF TypeOK, Op
<1> DEFINE m == cut[Len(commands)]
<1>3. m \in 0..Len(accepted) /\ m <= m /\ rest = Between(accepted, m, Len(accepted))
  <2>1. Len(commands) \in Nat /\ Len(accepted) \in Nat
    BY <1>2, LenProperties
  <2> QED BY <1>1, <2>1 DEF CutBy
<1>4. OperationsOf(cmd) = Between(accepted, m, m)
  BY <1>2, <1>3, BetweenSame DEF OperationsOf
<1> HIDE DEF rest
<1>5. \E c : CutBy(c, accepted, published, Append(commands, cmd), rest)
  BY <1>1, <1>2, <1>3, <1>4, SendCut
<1> QED BY <1>5 DEF NothingLost, CutBy, rest

\* No step loses, doubles or reorders operations.
LEMMA NextNothingLost == TypeOK /\ NothingLost /\ [Next]_vars => NothingLost'
<1> SUFFICES ASSUME TypeOK, NothingLost, [Next]_vars PROVE NothingLost'
  OBVIOUS
<1> DEFINE rest == batch \o operations
<1>1. PICK cut : CutBy(cut, accepted, published, commands, rest)
  BY NothingLostIsCut
<1>2. /\ accepted \in Seq(Op) /\ commands \in Seq(Command)
      /\ batch \in Seq(Op) /\ operations \in Seq(Op)
  BY DEF TypeOK, Op
<1>3. ASSUME UNCHANGED <<accepted, published, commands>>,
             batch' \o operations' = batch \o operations
      PROVE  NothingLost'
  BY <1>1, <1>3 DEF NothingLost, CutBy
<1>4. ASSUME NEW w \in Writer, HandOver(w) PROVE NothingLost'
  <2>1. inHand[w] \in Op
    BY <1>4, ChannelAssumption, SMTT(30) DEF HandOver, TypeOK, Op
  <2>2. /\ accepted' = Append(accepted, inHand[w])
        /\ operations' = Append(operations, inHand[w])
        /\ UNCHANGED <<batch, commands, published>>
    BY <1>4 DEF HandOver
  <2>3. batch \o Append(operations, inHand[w]) = Append(rest, inHand[w])
    <3>1. /\ Append(operations, inHand[w]) = operations \o <<inHand[w]>>
          /\ rest \in Seq(Op) /\ <<inHand[w]>> \in Seq(Op)
      BY <1>2, <2>1, AppendIsConcat, ConcatProperties
    <3>2. Append(rest, inHand[w]) = rest \o <<inHand[w]>>
      BY <2>1, <3>1, AppendIsConcat
    <3>3. (batch \o operations) \o <<inHand[w]>> = batch \o (operations \o <<inHand[w]>>)
      BY <1>2, <3>1, ConcatAssociative, SMTT(30)
    <3> QED BY <3>1, <3>2, <3>3
  <2> HIDE DEF rest
  <2>4. CutBy(cut, Append(accepted, inHand[w]), published, commands, Append(rest, inHand[w]))
    BY <1>1, <1>2, <2>1, AcceptCut
  <2> QED BY <2>2, <2>3, <2>4 DEF NothingLost, CutBy
<1>5. ASSUME NEW r \in Reader, SendFetch(r) PROVE NothingLost'
  <2>1. Fetch(r) \in Command /\ Fetch(r).type # "broadcast"
    BY DEF Fetch, Command
  <2> QED BY <1>5, <2>1, OtherCommand DEF SendFetch, Send, taskVars
<1>6. ASSUME Receive PROVE NothingLost'
  <2>1. /\ batch' = Append(batch, Head(operations)) /\ operations' = Tail(operations)
        /\ operations # <<>>
        /\ UNCHANGED <<accepted, published, commands>>
    BY <1>6 DEF Receive
  <2>2. Head(operations) \in Op /\ Tail(operations) \in Seq(Op)
        /\ <<Head(operations)>> \in Seq(Op)
    BY <1>2, <2>1, HeadTailProperties
  <2>3. Append(batch, Head(operations)) = batch \o <<Head(operations)>>
    BY <1>2, <2>2, AppendIsConcat
  <2>4. operations = <<Head(operations)>> \o Tail(operations)
    <3>1. /\ Len(operations) \in 1..Len(operations) /\ 1 \in 1..Len(operations)
      BY <1>2, <2>1, EmptySeq
    <3>2. SubSeq(operations, 1, Len(operations))
            = <<operations[1]>> \o SubSeq(operations, 1 + 1, Len(operations))
      BY <1>2, <3>1, SubSeqRecursiveFirst
    <3>3. Tail(operations) = SubSeq(operations, 2, Len(operations))
      BY <1>2, <2>1, TailIsSubSeq
    <3> QED BY <1>2, <2>1, <3>2, <3>3, SubSeqFull
  <2>5. (batch \o <<Head(operations)>>) \o Tail(operations)
            = batch \o (<<Head(operations)>> \o Tail(operations))
    BY <1>2, <2>2, ConcatAssociative
  <2> QED BY <1>3, <2>1, <2>3, <2>4, <2>5
<1>7. ASSUME SendPiece PROVE NothingLost'
  <2> DEFINE count == IF Len(batch) < MaxBatch THEN Len(batch) ELSE MaxBatch
             cmd == Broadcast(SubSeq(batch, 1, count))
             a == cut[Len(commands)]
             n == Len(accepted)
             m == a + Len(batch)
  <2>1. Len(batch) \in Nat /\ count = Len(batch) /\ Len(operations) \in Nat
    BY <1>2, ChannelAssumption, LenProperties DEF TypeOK
  <2>2. /\ commands' = Append(commands, cmd)
        /\ batch' = SubSeq(batch, count + 1, Len(batch))
        /\ UNCHANGED <<accepted, published, operations>>
    BY <1>7 DEF SendPiece, Send
  <2> HIDE DEF count
  <2>3. SubSeq(batch, 1, count) = batch /\ batch' = <<>>
    BY <1>2, <2>1, <2>2, SubSeqFull, SubSeqEmpty
  <2>4. cmd \in Command /\ OperationsOf(cmd) = batch
    BY <1>2, <2>3 DEF Broadcast, Command, OperationsOf, Op
  <2>5. a \in 0..n /\ n \in Nat /\ rest = Between(accepted, a, n)
    <3>1. Len(commands) \in 0..Len(commands) /\ n \in Nat
      BY <1>2, LenProperties
    <3>2. cut \in [0..Len(commands) -> 0..n] /\ rest = Between(accepted, a, n)
      BY <1>1, Zenon DEF CutBy
    <3> QED BY <3>1, <3>2
  <2>6. Len(rest) = n - a /\ Len(rest) = Len(batch) + Len(operations)
    <3>1. n \in a..n
      BY <2>5
    <3>2. Len(Between(accepted, a, n)) = n - a
      BY <1>2, <2>5, <3>1, BetweenProperties
    <3>3. Len(batch \o operations) = Len(batch) + Len(operations)
      BY <1>2, ConcatProperties
    <3> QED BY <2>5, <3>2, <3>3
  <2>7. m \in 0..n /\ a <= m /\ m - a = Len(batch) /\ n - m = Len(operations)
    <3>1. n - a = Len(batch) + Len(operations)
      BY <2>6
    <3> HIDE DEF a, n
    <3> QED BY <2>1, <2>5, <3>1
  <2>8. /\ rest \in Seq(Op) /\ Len(rest) = Len(batch) + Len(operations)
        /\ \A i \in 1..(Len(batch) + Len(operations)) :
                rest[i] = IF i <= Len(batch) THEN batch[i] ELSE operations[i - Len(batch)]
    BY <1>2, ConcatProperties
  <2>9. \A i \in 1..(n - a) : rest[i] = accepted[a + i]
    <3>1. a \in 0..Len(accepted) /\ Len(accepted) \in a..Len(accepted)
      BY <2>5
    <3>2. rest = Between(accepted, a, Len(accepted))
      BY <2>5
    <3> HIDE DEF a, rest, cmd
    <3>3. \A i \in 1..(Len(accepted) - a) :
                Between(accepted, a, Len(accepted))[i] = accepted[a + i]
      BY <1>2, <3>1, BetweenProperties
    <3> QED BY <3>2, <3>3
  <2> HIDE DEF m, a, n, rest, cmd
  <2>10. batch = Between(accepted, a, m)
    <3>1. a \in 0..Len(accepted) /\ m \in a..Len(accepted)
      BY <2>5, <2>7 DEF a, n
    <3>2. /\ Between(accepted, a, m) \in Seq(Op) /\ Len(Between(accepted, a, m)) = m - a
          /\ \A i \in 1..(m - a) : Between(accepted, a, m)[i] = accepted[a + i]
      BY <1>2, <3>1, BetweenProperties
    <3>3. ASSUME NEW i \in 1..Len(batch) PROVE batch[i] = Between(accepted, a, m)[i]
      <4>1. i \in 1..(n - a) /\ i \in 1..(m - a) /\ i <= Len(batch)
            /\ i \in 1..(Len(batch) + Len(operations))
        BY <2>1, <2>6, <2>7
      <4> QED BY <2>8, <2>9, <3>2, <4>1
    <3> QED BY <1>2, <2>7, <3>2, <3>3, SeqEqual
  <2>11. operations = Between(accepted, m, n)
    <3>1. m \in 0..Len(accepted) /\ n \in m..Len(accepted)
      BY <2>5, <2>7 DEF n
    <3>2. /\ Between(accepted, m, n) \in Seq(Op) /\ Len(Between(accepted, m, n)) = n - m
          /\ \A i \in 1..(n - m) : Between(accepted, m, n)[i] = accepted[m + i]
      BY <1>2, <3>1, BetweenProperties
    <3>3. ASSUME NEW i \in 1..Len(operations) PROVE operations[i] = Between(accepted, m, n)[i]
      <4> DEFINE j == Len(batch) + i
      <4>1. /\ j \in 1..(n - a) /\ i \in 1..(n - m) /\ ~(j <= Len(batch)) /\ j - Len(batch) = i
            /\ j \in 1..(Len(batch) + Len(operations)) /\ a + j = m + i
        <5>1. i \in Nat /\ m = a + Len(batch) /\ n - a = Len(batch) + Len(operations)
          BY <2>1, <2>6 DEF m
        <5>2. i >= 1 /\ i <= Len(operations) /\ a \in Nat /\ m \in Nat /\ n \in Nat
          BY <2>1, <2>5, <2>7
        <5> QED BY <2>1, <2>7, <5>1, <5>2
      <4> HIDE DEF j
      <4>2. rest[j] = operations[i]
        BY <2>8, <4>1
      <4>3. rest[j] = accepted[m + i]
        BY <2>9, <4>1
      <4> QED BY <3>2, <4>1, <4>2, <4>3
    <3> QED BY <1>2, <2>7, <3>2, <3>3, SeqEqual
  <2>12. batch' \o operations' = Between(accepted, m, Len(accepted))
    BY <1>2, <2>2, <2>3, <2>11, ConcatEmptySeq DEF n
  <2>13. /\ m \in 0..Len(accepted) /\ cut[Len(commands)] <= m
         /\ OperationsOf(cmd) = Between(accepted, cut[Len(commands)], m)
    BY <2>4, <2>7, <2>10 DEF a, n
  <2>14. \E c : CutBy(c, accepted, published, Append(commands, cmd), batch' \o operations')
    BY <1>1, <1>2, <2>4, <2>12, <2>13, SendCut DEF rest
  <2> QED BY <2>2, <2>14 DEF NothingLost, CutBy
<1>8. ASSUME Dispatch PROVE NothingLost'
  <2>1. /\ commands # <<>> /\ commands' = Tail(commands)
        /\ published' = IF Head(commands).type = "broadcast" THEN published \o Head(commands).ops
                                                           ELSE published
        /\ UNCHANGED <<accepted, batch, operations>>
    BY <1>8 DEF Dispatch, taskVars
  <2>2. published \in Seq(Op)
    BY DEF TypeOK, Op
  <2>3. published' = published \o OperationsOf(Head(commands))
    BY <2>1, <2>2, ConcatEmptySeq DEF OperationsOf
  <2> HIDE DEF rest
  <2>4. \E c : CutBy(c, accepted, published \o OperationsOf(Head(commands)), Tail(commands), rest)
    BY <1>1, <1>2, <2>1, DispatchCut
  <2> QED BY <2>1, <2>3, <2>4 DEF NothingLost, CutBy, rest
<1>9. ASSUME IssueFetch PROVE NothingLost'
  <2>1. PinFetch \in Command /\ PinFetch.type # "broadcast"
    BY DEF PinFetch, Command
  <2>2. UNCHANGED <<accepted, published, batch, operations>>
    BY <1>9 DEF IssueFetch, taskVars
  <2>3. CASE HasRoom
    BY <1>9, <2>1, <2>2, <2>3, OtherCommand DEF IssueFetch, TrySend
  <2>4. CASE ~HasRoom
    BY <1>3, <1>9, <2>2, <2>4 DEF IssueFetch, TrySend
  <2> QED BY <2>3, <2>4
<1>10. ASSUME \/ \E w \in Writer : Mutate(w)
              \/ \E r \in Reader : AskFetch(r)
              \/ StopFilling \/ StartRebalance \/ UNCHANGED vars
       PROVE  NothingLost'
  BY <1>3, <1>10 DEF Mutate, AskFetch, StopFilling, StartRebalance, vars, taskVars
<1> QED BY <1>4, <1>5, <1>6, <1>7, <1>8, <1>9, <1>10 DEF Next

\* At the start nothing has been accepted and nothing is on its way.
LEMMA InitNothingLost == Init => NothingLost
<1> SUFFICES ASSUME Init PROVE NothingLost
  OBVIOUS
<1> DEFINE cut == [i \in 0..0 |-> 0]
<1>1. /\ Len(commands) = 0 /\ Len(accepted) = 0 /\ DOMAIN commands = {}
      /\ published = <<>> /\ batch \o operations = <<>>
      /\ accepted \in Seq(Op)
  BY DEF Init
<1>2. cut \in [0..Len(commands) -> 0..Len(accepted)] /\ cut[0] = 0
  BY <1>1
<1>3. Between(accepted, 0, 0) = <<>>
  <2>1. 0 \in 0..Len(accepted)
    BY <1>1
  <2> QED BY <1>1, <2>1, BetweenSame
<1> HIDE DEF cut
<1> QED BY <1>1, <1>2, <1>3 DEF NothingLost

-----------------------------------------------------------------------------
\* The state of the bridge and the dispatcher keeps its shape: no channel and no batch
\* grows beyond its limit.
THEOREM TypeCorrect == Spec => []TypeOK
<1> QED BY InitType, NextType, PTL DEF Spec

\* What NetworkBridge::broadcast accepts reaches gossip in order and once, however full
\* the command channel is (batch_operations, run_dispatcher).
THEOREM OperationsArriveInOrder == Spec => []NothingLost
<1> QED BY InitType, NextType, InitNothingLost, NextNothingLost, PTL DEF Spec
===========================================================================
