----------------------------- MODULE SpmiProofs -----------------------------
(* Proofs about the SPMI arbiter's driver as a part of Platform, whose other *)
(* steps leave it alone: for any number of calls of the two contexts and any *)
(* bytes, through every way in which the key poll can cut in.                *)
EXTENDS Platform, SequenceTheorems, TLAPS

-----------------------------------------------------------------------------
(* Sequences of bytes.                                                       *)

EightBytes == {s \in Seq(Nat) : Len(s) = 8}

\* A function on the first n numbers is a sequence.
LEMMA FunctionIsSeq ==
    ASSUME NEW S, NEW n \in Nat, NEW f \in [1 .. n -> S]
    PROVE  f \in Seq(S) /\ Len(f) = n
OBVIOUS

LEMMA PaddedIs ==
    ASSUME NEW d \in Seq(Nat), Len(d) <= 8
    PROVE  Padded(d) \in EightBytes /\ \A i \in 1 .. Len(d) : Padded(d)[i] = d[i]
<1>1. 8 - Len(d) \in Nat /\ Len(d) \in Nat
  BY LenProperties
<1>2. PICK z : z = [i \in 1 .. 8 - Len(d) |-> 0]
  OBVIOUS
<1>3. z \in [1 .. 8 - Len(d) -> Nat]
  BY <1>2
<1>4. z \in Seq(Nat) /\ Len(z) = 8 - Len(d)
  BY <1>1, <1>3, FunctionIsSeq
<1>5. Padded(d) = d \o z
  BY <1>2 DEF Padded
<1>6. /\ d \o z \in Seq(Nat) /\ Len(d \o z) = Len(d) + Len(z)
      /\ \A i \in 1 .. Len(d) + Len(z) : (d \o z)[i] = IF i <= Len(d) THEN d[i] ELSE z[i - Len(d)]
  BY <1>4, ConcatProperties
<1>7. PICK p : p = d \o z
  OBVIOUS
<1>8. p \in Seq(Nat) /\ Len(p) = Len(d) + Len(z)
  BY ONLY <1>6, <1>7
<1>9. Len(p) = 8
  BY ONLY <1>1, <1>4, <1>8
<1>10. \A i \in 1 .. Len(d) : p[i] = d[i]
  <2>1. TAKE i \in 1 .. Len(d)
  <2>2. i \in 1 .. Len(d) + Len(z) /\ i <= Len(d)
    BY ONLY <1>1, <1>4, i \in 1 .. Len(d)
  <2> QED
    BY ONLY <1>6, <1>7, <2>2
<1>11. p \in EightBytes
  BY ONLY <1>8, <1>9 DEF EightBytes
<1> QED
  BY ONLY <1>5, <1>7, <1>10, <1>11

\* Two sequences of which one follows the other.
LEMMA Joined ==
    ASSUME NEW s \in Seq(Nat), NEW t \in Seq(Nat)
    PROVE  /\ s \o t \in Seq(Nat) /\ Len(s \o t) = Len(s) + Len(t)
           /\ \A i \in 1 .. Len(s) : (s \o t)[i] = s[i]
           /\ \A i \in Len(s) + 1 .. Len(s) + Len(t) : (s \o t)[i] = t[i - Len(s)]
<1>1. PICK z : z = s \o t
  OBVIOUS
<1>2. PICK m \in Nat, n \in Nat : m = Len(s) /\ n = Len(t)
  BY LenProperties
<1>3. /\ s \o t \in Seq(Nat) /\ Len(s \o t) = Len(s) + Len(t)
      /\ \A i \in 1 .. Len(s) + Len(t) : (s \o t)[i] = IF i <= Len(s) THEN s[i] ELSE t[i - Len(s)]
  BY ConcatProperties
<1>4. /\ z \in Seq(Nat) /\ Len(z) = m + n
      /\ \A i \in 1 .. m + n : z[i] = IF i <= m THEN s[i] ELSE t[i - m]
  BY ONLY <1>1, <1>2, <1>3
<1>5. ASSUME NEW i \in 1 .. m PROVE z[i] = s[i]
  <2>1. i \in 1 .. m + n /\ i <= m
    BY ONLY i \in 1 .. m, m \in Nat, n \in Nat
  <2> QED
    BY ONLY <1>4, <2>1
<1>6. ASSUME NEW i \in m + 1 .. m + n PROVE z[i] = t[i - m]
  <2>1. i \in 1 .. m + n /\ ~(i <= m)
    BY ONLY i \in m + 1 .. m + n, m \in Nat, n \in Nat
  <2> QED
    BY ONLY <1>4, <2>1
<1> QED
  BY ONLY <1>1, <1>2, <1>4, <1>5, <1>6

\* A stretch of a sequence.
LEMMA Stretch ==
    ASSUME NEW S, NEW s \in Seq(S), NEW m \in Nat, NEW n \in Nat, m + n <= Len(s)
    PROVE  /\ SubSeq(s, m + 1, m + n) \in Seq(S) /\ Len(SubSeq(s, m + 1, m + n)) = n
           /\ \A i \in 1 .. n : SubSeq(s, m + 1, m + n)[i] = s[m + i]
<1>1. Len(s) \in Nat /\ \A i \in 1 .. Len(s) : s[i] \in S
  BY LenProperties
<1>2. PICK a \in Int, b \in Int : a = m + 1 /\ b = m + n
  OBVIOUS
<1>3. \A i \in a .. b : s[i] \in S
  BY <1>1, <1>2
<1>4. /\ SubSeq(s, a, b) \in Seq(S)
      /\ Len(SubSeq(s, a, b)) = IF a <= b THEN b - a + 1 ELSE 0
      /\ \A i \in 1 .. b - a + 1 : SubSeq(s, a, b)[i] = s[a + i - 1]
  BY ONLY <1>3, SubSeqProperties
<1>5. PICK z : z = SubSeq(s, a, b)
  OBVIOUS
<1>6. b - a + 1 = n /\ (IF a <= b THEN b - a + 1 ELSE 0) = n
  BY ONLY <1>2, m \in Nat, n \in Nat
<1>7. Len(z) = n /\ z \in Seq(S) /\ \A i \in 1 .. n : z[i] = s[a + i - 1]
  BY ONLY <1>4, <1>5, <1>6
<1>8. ASSUME NEW i \in 1 .. n PROVE z[i] = s[m + i]
  <2>1. a + i - 1 = m + i
    BY ONLY <1>2, m \in Nat, i \in 1 .. n
  <2> QED
    BY ONLY <1>7, <2>1
<1> QED
  BY ONLY <1>2, <1>5, <1>7, <1>8

\* The first bytes of a pair of data registers.
LEMMA FirstBytes ==
    ASSUME NEW s \in EightBytes, NEW n \in 1 .. 8
    PROVE  /\ SubSeq(s, 1, n) \in Seq(Nat) /\ Len(SubSeq(s, 1, n)) = n
           /\ \A i \in 1 .. n : SubSeq(s, 1, n)[i] = s[i]
<1>1. \A i \in 1 .. n : s[i] \in Nat
  <2>1. s \in Seq(Nat) /\ Len(s) = 8
    BY DEF EightBytes
  <2>2. \A i \in 1 .. Len(s) : s[i] \in Nat
    BY <2>1, LenProperties
  <2>3. ASSUME NEW i \in 1 .. n PROVE i \in 1 .. Len(s)
    <3>1. i \in 1 .. 8
      BY ONLY n \in 1 .. 8, i \in 1 .. n
    <3> QED
      BY ONLY <2>1, <3>1
  <2> QED
    BY ONLY <2>2, <2>3
<1>2. 1 \in Int /\ n \in Int
  OBVIOUS
<1>3. /\ SubSeq(s, 1, n) \in Seq(Nat)
      /\ Len(SubSeq(s, 1, n)) = IF 1 <= n THEN n - 1 + 1 ELSE 0
      /\ \A i \in 1 .. n - 1 + 1 : SubSeq(s, 1, n)[i] = s[1 + i - 1]
  BY ONLY <1>1, <1>2, SubSeqProperties
<1>4. 1 <= n /\ n - 1 + 1 = n /\ \A i \in 1 .. n : 1 + i - 1 = i
  OBVIOUS
<1> QED
  BY ONLY <1>3, <1>4

\* The four bytes of a data register, and what comes before and after them.
LEMMA WordPut ==
    ASSUME NEW s \in EightBytes, NEW d \in EightBytes, NEW m \in {0, 4}
    PROVE  LET new == SubSeq(s, 1, m) \o SubSeq(d, 1, 4) \o SubSeq(s, m + 5, 8)
           IN /\ new \in EightBytes
              /\ \A i \in 1 .. m : new[i] = s[i]
              /\ \A i \in m + 1 .. m + 4 : new[i] = d[i - m]
              /\ \A i \in m + 5 .. 8 : new[i] = s[i]
<1>1. s \in Seq(Nat) /\ d \in Seq(Nat) /\ Len(s) = 8 /\ Len(d) = 8
  BY DEF EightBytes
<1>2. m \in Nat /\ m + 4 <= 8 /\ 0 + m = m /\ 0 + 1 = 1 /\ 0 + 4 = 4 /\ m + 4 + (4 - m) = 8
      /\ (m + 4) + 1 = m + 5 /\ 0 + m <= 8 /\ 4 - m \in Nat
  OBVIOUS
<1>3. PICK a, b, c : a = SubSeq(s, 1, m) /\ b = SubSeq(d, 1, 4) /\ c = SubSeq(s, m + 5, 8)
  OBVIOUS
<1>4. a \in Seq(Nat) /\ Len(a) = m /\ \A i \in 1 .. m : a[i] = s[i]
  <2>1. /\ SubSeq(s, 0 + 1, 0 + m) \in Seq(Nat) /\ Len(SubSeq(s, 0 + 1, 0 + m)) = m
        /\ \A i \in 1 .. m : SubSeq(s, 0 + 1, 0 + m)[i] = s[0 + i]
    <3>1. 0 + m <= Len(s) /\ 0 \in Nat
      BY <1>1, <1>2
    <3> QED
      BY ONLY <1>1, <1>2, <3>1, Stretch
  <2>2. Len(a) = m /\ a \in Seq(Nat) /\ \A i \in 1 .. m : a[i] = s[0 + i]
    BY ONLY <1>2, <1>3, <2>1
  <2> QED
    BY ONLY <2>2, <1>2
<1>5. b \in Seq(Nat) /\ Len(b) = 4 /\ \A i \in 1 .. 4 : b[i] = d[i]
  <2>1. /\ SubSeq(d, 0 + 1, 0 + 4) \in Seq(Nat) /\ Len(SubSeq(d, 0 + 1, 0 + 4)) = 4
        /\ \A i \in 1 .. 4 : SubSeq(d, 0 + 1, 0 + 4)[i] = d[0 + i]
    <3>1. 0 + 4 <= Len(d) /\ 0 \in Nat /\ 4 \in Nat
      BY <1>1
    <3> QED
      BY ONLY <1>1, <3>1, Stretch
  <2>2. Len(b) = 4 /\ b \in Seq(Nat) /\ \A i \in 1 .. 4 : b[i] = d[0 + i]
    BY ONLY <1>2, <1>3, <2>1
  <2> QED
    BY ONLY <2>2
<1>6. c \in Seq(Nat) /\ Len(c) = 4 - m /\ \A i \in 1 .. 4 - m : c[i] = s[(m + 4) + i]
  <2>1. PICK u \in Nat, v \in Nat : u = m + 4 /\ v = 4 - m /\ u + v = 8 /\ u + 1 = m + 5
    BY <1>2
  <2>2. /\ SubSeq(s, u + 1, u + v) \in Seq(Nat) /\ Len(SubSeq(s, u + 1, u + v)) = v
        /\ \A i \in 1 .. v : SubSeq(s, u + 1, u + v)[i] = s[u + i]
    <3>1. u + v <= Len(s)
      BY <1>1, <2>1
    <3> QED
      BY ONLY <1>1, u \in Nat, v \in Nat, <3>1, Stretch
  <2> QED
    BY ONLY <1>3, <2>1, <2>2
<1>7. PICK z : z = a \o b
  OBVIOUS
<1>8. /\ z \in Seq(Nat) /\ Len(z) = m + 4
      /\ \A i \in 1 .. m : z[i] = a[i]
      /\ \A i \in m + 1 .. m + 4 : z[i] = b[i - m]
  <2>1. /\ a \o b \in Seq(Nat) /\ Len(a \o b) = m + 4
        /\ \A i \in 1 .. m : (a \o b)[i] = a[i]
        /\ \A i \in m + 1 .. m + 4 : (a \o b)[i] = b[i - m]
    <3>1. PICK v \in Nat : v = 4
      OBVIOUS
    <3>2. Len(b) = v /\ Len(a) = m /\ m \in Nat /\ a \in Seq(Nat) /\ b \in Seq(Nat)
      BY ONLY <1>2, <1>4, <1>5, <3>1
    <3>3. /\ a \o b \in Seq(Nat) /\ Len(a \o b) = Len(a) + Len(b)
          /\ \A i \in 1 .. Len(a) : (a \o b)[i] = a[i]
          /\ \A i \in Len(a) + 1 .. Len(a) + Len(b) : (a \o b)[i] = b[i - Len(a)]
      BY ONLY <3>2, Joined
    <3> QED
      BY ONLY <3>1, <3>2, <3>3
  <2> QED
    BY ONLY <1>7, <2>1
<1>9. PICK n : n = z \o c
  OBVIOUS
<1>10. /\ n \in Seq(Nat) /\ Len(n) = 8
       /\ \A i \in 1 .. m + 4 : n[i] = z[i]
       /\ \A i \in m + 5 .. 8 : n[i] = c[i - (m + 4)]
  <2>1. PICK u \in Nat, v \in Nat : u = m + 4 /\ v = 4 - m /\ u + v = 8 /\ u + 1 = m + 5
    BY <1>2
  <2>2. Len(z) = u /\ Len(c) = v /\ z \in Seq(Nat) /\ c \in Seq(Nat)
    BY ONLY <1>8, <1>6, <2>1
  <2>3. /\ z \o c \in Seq(Nat) /\ Len(z \o c) = Len(z) + Len(c)
        /\ \A i \in 1 .. Len(z) : (z \o c)[i] = z[i]
        /\ \A i \in Len(z) + 1 .. Len(z) + Len(c) : (z \o c)[i] = c[i - Len(z)]
    BY ONLY <2>2, Joined
  <2> QED
    BY ONLY <1>9, <2>1, <2>2, <2>3
<1>11. ASSUME NEW i \in 1 .. m PROVE n[i] = s[i]
  <2>1. i \in 1 .. m + 4
    BY ONLY <1>2, i \in 1 .. m
  <2> QED
    BY ONLY <1>4, <1>8, <1>10, <2>1, i \in 1 .. m
<1>12. ASSUME NEW i \in m + 1 .. m + 4 PROVE n[i] = d[i - m]
  <2>1. i \in 1 .. m + 4 /\ i - m \in 1 .. 4
    BY ONLY <1>2, i \in m + 1 .. m + 4
  <2> QED
    BY ONLY <1>5, <1>8, <1>10, <2>1, i \in m + 1 .. m + 4
<1>13. ASSUME NEW i \in m + 5 .. 8 PROVE n[i] = s[i]
  <2>1. i - (m + 4) \in 1 .. 4 - m /\ (m + 4) + (i - (m + 4)) = i
    BY ONLY <1>2, i \in m + 5 .. 8
  <2> QED
    BY ONLY <1>6, <1>10, <2>1, i \in m + 5 .. 8
<1>14. n \in EightBytes
  BY ONLY <1>10 DEF EightBytes
<1>15. n = SubSeq(s, 1, m) \o SubSeq(d, 1, 4) \o SubSeq(s, m + 5, 8)
  BY ONLY <1>3, <1>7, <1>9
<1> QED
  BY ONLY <1>11, <1>12, <1>13, <1>14, <1>15

\* The four bytes, or what is left of them, after the first m.
LEMMA ChunkIs ==
    ASSUME NEW d \in Seq(Nat), Len(d) <= 8, NEW k \in {0, 1}, NEW m \in Nat, m = 4 * k, m < Len(d)
    PROVE  /\ Chunk(d, k) \in Seq(Nat) /\ Len(Chunk(d, k)) = Least(Len(d) - m, 4)
           /\ \A i \in 1 .. Least(Len(d) - m, 4) : Chunk(d, k)[i] = d[m + i]
<1>1. Len(d) \in Nat
  BY LenProperties
<1>2. PICK e \in Nat : e = Len(d)
  BY <1>1
<1>3. PICK n \in Nat : n = Least(e - m, 4)
  <2>1. m < e
    BY ONLY <1>2, m < Len(d)
  <2>2. Least(e - m, 4) \in Nat
    BY ONLY <2>1, e \in Nat, m \in Nat DEF Least
  <2> QED
    BY ONLY <2>2
<1>4. m + n <= e /\ Least(e, m + 4) = m + n
  BY ONLY <1>2, <1>3, e \in Nat, m \in Nat, m < Len(d) DEF Least
<1>5. m + n <= Len(d)
  BY ONLY <1>2, <1>4
<1>6. /\ SubSeq(d, m + 1, m + n) \in Seq(Nat) /\ Len(SubSeq(d, m + 1, m + n)) = n
      /\ \A i \in 1 .. n : SubSeq(d, m + 1, m + n)[i] = d[m + i]
  BY <1>5, Stretch
<1>7. Chunk(d, k) = SubSeq(d, m + 1, m + n)
  BY ONLY <1>2, <1>4, m = 4 * k DEF Chunk
<1> QED
  BY ONLY <1>2, <1>3, <1>6, <1>7

-----------------------------------------------------------------------------
\* What the arbiter, its registers and the calls in progress are made of.
SpmiOps == {"read", "write"}
SpmiBlocks == {"core", "obs"} \X Channels
SpmiCommands == {[op |-> "none"]} \cup [op : SpmiOps, off : {0, 1}, cnt : 0 .. 7, peri : Periph]
SpmiPort == [cmd : SpmiCommands, status : {"none", "done", "failed"}, wdata : EightBytes, rdata : EightBytes]
SpmiCtx == [pc : {"idle", "select", "wdata0", "wdata1", "command", "poll", "rdata"}, op : SpmiOps,
            peri : Periph, off : {0, 1}, data : Seq(Nat), size : 1 .. 8, buf : Seq(Nat),
            ret : {"none", "ok", "error"}, disturbed : BOOLEAN]
SpmiKinds ==
    /\ arb \in {1, 2} /\ (V2 => arb \notin InterruptedOn)
    /\ chnlTbl = <<>> \/ chnlTbl = [p \in Periph |-> IF V2 THEN Wired(p) ELSE 0]
    /\ chnlNum \in Channels /\ (~V2 => chnlNum = 0)
    /\ port \in [SpmiBlocks -> SpmiPort]
    /\ regs \in [Periph \X Offsets -> Nat]
    /\ ctx \in [Contexts -> SpmiCtx]

\* The shape of a call at each of its points.
CallShape(c) ==
    /\ ctx[c].pc # "idle" => chnlTbl # <<>>
    /\ ctx[c].op = "write" => c = "app" /\ Len(ctx[c].data) = ctx[c].size
    /\ ctx[c].pc \in {"wdata0", "wdata1"} => ctx[c].op = "write"
    /\ ctx[c].pc = "wdata1" => ctx[c].size > 4
    /\ ctx[c].pc = "rdata" => ctx[c].op = "read" /\ Len(ctx[c].buf) \in {0, 4} /\ Len(ctx[c].buf) < ctx[c].size
    /\ ctx[c].pc \notin {"idle", "rdata"} => ctx[c].buf = <<>>
\* On version 2 the channel is that of the call's peripheral from its look-up on.
Selected(c) == V2 /\ ctx[c].pc \notin {"idle", "select"} => chnlNum = ctx[c].peri + 1
\* Who may be where while the other is in a call.
Alone ==
    /\ ~ctx["timer"].disturbed
    /\ V2 => ctx["app"].pc = "idle" \/ ctx["timer"].pc = "idle"
    /\ ctx["app"].pc # "idle" /\ ~ctx["app"].disturbed => ctx["timer"].pc = "idle"

\* The registers a call's command goes through, and the command.
Through(c) == IF V2 /\ ctx[c].op = "read" THEN <<"obs", chnlNum>> ELSE <<"core", chnlNum>>
Command(c) == [op |-> ctx[c].op, off |-> ctx[c].off, cnt |-> ctx[c].size - 1, peri |-> ctx[c].peri]
\* A command that waits to be carried out is one a call waits for; the poll has
\* not issued its own since, or the application's would be lost.
Issued(c, b) ==
    /\ ctx[c].pc = "poll" /\ b = Through(c) /\ port[b].cmd = Command(c) /\ port[b].status = "none"
    /\ c = "app" => ctx["timer"].pc \notin {"poll", "rdata"}
CommandsOwned == \A b \in SpmiBlocks : port[b].cmd.op # "none" => \E c \in Contexts : Issued(c, b)
\* The bytes of a write that are in the data registers.
DataIn ==
    ctx["app"].op = "write" =>
        /\ ctx["app"].pc = "wdata1" =>
               \A i \in 1 .. 4 : port[<<"core", chnlNum>>].wdata[i] = ctx["app"].data[i]
        /\ ctx["app"].pc \in {"command", "poll"} =>
               \A i \in 1 .. ctx["app"].size : port[<<"core", chnlNum>>].wdata[i] = ctx["app"].data[i]
\* What has been carried out for a call nobody interrupted.
RegOf(c, i) == regs[<<ctx[c].peri, ctx[c].off + i - 1>>]
Carried(c) == ctx[c].pc = "poll" /\ port[Through(c)].status = "done"
Landed(c) ==
    ~ctx[c].disturbed =>
        /\ ctx[c].op = "read" /\ (ctx[c].pc = "rdata" \/ Carried(c))
              => \A i \in 1 .. ctx[c].size : port[Through(c)].rdata[i] = RegOf(c, i)
        /\ ctx[c].op = "write" /\ Carried(c) => \A i \in 1 .. ctx[c].size : RegOf(c, i) = ctx[c].data[i]
        /\ ctx[c].pc = "rdata" => \A i \in 1 .. Len(ctx[c].buf) : ctx[c].buf[i] = RegOf(c, i)

SpmiInv ==
    /\ SpmiKinds /\ Alone /\ CommandsOwned /\ DataIn
    /\ \A c \in Contexts : CallShape(c) /\ Selected(c) /\ Landed(c)

-----------------------------------------------------------------------------
\* A call's fields, and the registers its command goes through.
LEMMA SpmiParts ==
    ASSUME SpmiKinds, NEW c \in Contexts
    PROVE  /\ ctx[c].op \in SpmiOps /\ ctx[c].peri \in {0, 1} /\ ctx[c].off \in {0, 1}
           /\ ctx[c].data \in Seq(Nat) /\ ctx[c].size \in 1 .. 8 /\ ctx[c].buf \in Seq(Nat)
           /\ ctx[c].disturbed \in BOOLEAN /\ ctx[c] \in SpmiCtx
           /\ Through(c) \in SpmiBlocks /\ Block(ctx[c].op, chnlNum) = Through(c)
<1>1. ctx[c] \in SpmiCtx
  BY DEF SpmiKinds
<1>2. Periph = {0, 1}
  BY SpmiAssumption DEF Periph
<1>3. Through(c) \in SpmiBlocks
  BY DEF SpmiKinds, Through, SpmiBlocks
<1>4. Block(ctx[c].op, chnlNum) = Through(c)
  BY DEF Block, Through
<1> QED
  BY <1>1, <1>2, <1>3, <1>4 DEF SpmiCtx

LEMMA SpmiPortParts ==
    ASSUME SpmiKinds, NEW b \in SpmiBlocks
    PROVE  port[b] \in SpmiPort /\ port[b].wdata \in EightBytes /\ port[b].rdata \in EightBytes
<1>1. port[b] \in SpmiPort
  BY DEF SpmiKinds
<1> QED
  BY <1>1 DEF SpmiPort

\* A step of a call: what it leaves of the other call.
CallGoesOn(c) ==
    /\ Runs(c) /\ ctx[c].pc # "idle" /\ arb' = arb /\ chnlTbl' = chnlTbl
    /\ ctx'[c].disturbed = ctx[c].disturbed
    /\ \A d \in Contexts : d # c => ctx'[d] = ctx[d]
LEMMA CallLeaves ==
    ASSUME SpmiInv, NEW c \in Contexts, CallGoesOn(c)
    PROVE  /\ Alone'
           /\ \A d \in Contexts : d # c =>
                 /\ CallShape(d)' /\ Selected(d)' /\ Landed(d)'
                 /\ V2 => ctx[d].pc = "idle"
                 /\ ctx[d].disturbed \/ ctx[d].pc = "idle"
<1>1. ASSUME NEW d \in Contexts, d # c
      PROVE  (V2 => ctx[d].pc = "idle") /\ (ctx[d].disturbed \/ ctx[d].pc = "idle")
  <2>1. CASE c = "app"
    <3>1. d = "timer" /\ ctx["timer"].pc = "idle"
      BY <1>1, <2>1 DEF CallGoesOn, Runs, Contexts
    <3> QED
      BY <3>1
  <2>2. CASE c = "timer"
    <3>1. d = "app" /\ ctx["timer"].pc # "idle"
      BY <1>1, <2>2 DEF CallGoesOn, Contexts
    <3> QED
      BY <3>1 DEF SpmiInv, Alone
  <2> QED
    BY <2>1, <2>2 DEF Contexts
<1>2. ASSUME NEW d \in Contexts, d # c
      PROVE  CallShape(d)' /\ Selected(d)' /\ Landed(d)'
  <2>1. ctx'[d] = ctx[d] /\ arb' = arb /\ chnlTbl' = chnlTbl
    BY <1>2 DEF CallGoesOn
  <2>2. CallShape(d)'
    BY <2>1 DEF SpmiInv, CallShape
  <2>3. Selected(d)'
    BY <1>1, <1>2, <2>1 DEF Selected, V2
  <2>4. Landed(d)'
    BY <1>1, <1>2, <2>1 DEF Landed, Carried
  <2> QED
    BY <2>2, <2>3, <2>4
<1>3. Alone'
  <2>1. ~ctx'["timer"].disturbed
    BY DEF SpmiInv, Alone, CallGoesOn, Contexts
  <2>2. V2' => ctx'["app"].pc = "idle" \/ ctx'["timer"].pc = "idle"
    <3>1. V2' <=> V2
      BY DEF CallGoesOn, V2
    <3> QED
      BY <1>1, <3>1 DEF CallGoesOn, Contexts
  <2>3. ctx'["app"].pc # "idle" /\ ~ctx'["app"].disturbed => ctx'["timer"].pc = "idle"
    <3>1. CASE c = "app"
      BY <3>1 DEF CallGoesOn, Contexts, Runs
    <3>2. CASE c = "timer"
      <4>1. ctx'["app"] = ctx["app"] /\ (ctx["app"].disturbed \/ ctx["app"].pc = "idle")
        BY <1>1, <3>2 DEF CallGoesOn, Contexts
      <4> QED
        BY <4>1
    <3> QED
      BY <3>1, <3>2 DEF Contexts
  <2> QED
    BY <2>1, <2>2, <2>3 DEF Alone
<1> QED
  BY <1>1, <1>2, <1>3

\* No command waits while the application's call prepares its own, nor once
\* the status a call waits for is there.
LEMMA NoneWaits ==
    ASSUME SpmiInv, NEW c \in Contexts, Runs(c),
           \/ c = "app" /\ ctx[c].pc # "poll"
           \/ ctx[c].pc = "rdata"
           \/ ctx[c].pc = "poll" /\ port[Through(c)].status # "none"
    PROVE  \A b \in SpmiBlocks : port[b].cmd.op = "none"
<1> SUFFICES ASSUME NEW b \in SpmiBlocks, port[b].cmd.op # "none" PROVE FALSE
  OBVIOUS
<1>1. PICK d \in Contexts : Issued(d, b)
  BY DEF SpmiInv, CommandsOwned
<1>2. d # c
  BY <1>1 DEF Issued
<1>3. CASE c = "app"
  BY <1>1, <1>2, <1>3 DEF Issued, Runs, Contexts
<1>4. CASE c = "timer"
  BY <1>1, <1>2, <1>4 DEF Issued, Contexts
<1> QED
  BY <1>3, <1>4 DEF Contexts

\* The parts of the invariant, once what a step leaves of the other call is known.
LEMMA SpmiInvAfter ==
    ASSUME NEW c \in Contexts, SpmiKinds', Alone', CommandsOwned', DataIn',
           CallShape(c)', Selected(c)', Landed(c)',
           \A d \in Contexts : d # c => CallShape(d)' /\ Selected(d)' /\ Landed(d)'
    PROVE  SpmiInv'
<1>1. \A d \in Contexts : CallShape(d)' /\ Selected(d)' /\ Landed(d)'
  OBVIOUS
<1> QED
  BY <1>1 DEF SpmiInv

LEMMA SpmiBegins ==
    ASSUME SpmiInit, 2 \notin InterruptedOn
    PROVE  SpmiInv
<1>1. Padded(<<>>) \in EightBytes
  <2>1. <<>> \in Seq(Nat) /\ Len(<<>>) <= 8
    OBVIOUS
  <2> QED
    BY <2>1, PaddedIs
<1>2. IdlePort \in SpmiPort /\ IdlePort.cmd.op = "none"
  BY <1>1 DEF IdlePort, SpmiPort, SpmiCommands
<1>3. Periph = {0, 1}
  BY SpmiAssumption DEF Periph
<1>4. IdleCtx \in SpmiCtx /\ IdleCtx.pc = "idle" /\ IdleCtx.op = "read" /\ ~IdleCtx.disturbed
  BY <1>3 DEF IdleCtx, SpmiCtx, SpmiOps
<1>5. \A c \in Contexts : ctx[c] = IdleCtx
  BY DEF SpmiInit
<1>6. \A b \in SpmiBlocks : port[b] = IdlePort
  BY DEF SpmiInit, SpmiBlocks
<1>7. SpmiKinds
  <2>1. ctx \in [Contexts -> SpmiCtx]
    BY <1>4 DEF SpmiInit
  <2>2. port \in [SpmiBlocks -> SpmiPort]
    BY <1>2 DEF SpmiInit, SpmiBlocks
  <2>3. regs \in [Periph \X Offsets -> Nat]
    BY DEF SpmiInit
  <2>4. arb \in {1, 2}
    BY SpmiAssumption DEF SpmiInit
  <2>5. V2 => arb \notin InterruptedOn
    BY DEF V2
  <2> QED
    BY <2>1, <2>2, <2>3, <2>4, <2>5 DEF SpmiInit, SpmiKinds, Channels
<1>8. Alone
  BY <1>4, <1>5 DEF Alone, Contexts
<1>9. CommandsOwned
  BY <1>2, <1>6 DEF CommandsOwned
<1>10. DataIn
  BY <1>4, <1>5 DEF DataIn, Contexts
<1>11. ASSUME NEW c \in Contexts PROVE CallShape(c) /\ Selected(c) /\ Landed(c)
  BY <1>4, <1>5 DEF CallShape, Selected, Landed, Carried
<1> QED
  BY <1>7, <1>8, <1>9, <1>10, <1>11 DEF SpmiInv

-----------------------------------------------------------------------------
LEMMA SpmiSetsUp == SpmiInv /\ SpmiSetUp => SpmiInv'
<1> SUFFICES ASSUME SpmiInv, SpmiSetUp PROVE SpmiInv'
  OBVIOUS
<1>1. /\ chnlTbl = <<>> /\ chnlTbl' = [p \in Periph |-> IF V2 THEN Wired(p) ELSE 0]
      /\ arb' = arb /\ chnlNum' = chnlNum /\ port' = port /\ regs' = regs /\ ctx' = ctx
  BY DEF SpmiSetUp
<1>2. \A c \in Contexts : ctx[c].pc = "idle"
  BY <1>1 DEF SpmiInv, CallShape
<1>3. SpmiKinds'
  BY <1>1 DEF SpmiInv, SpmiKinds, V2
<1>4. Alone'
  BY <1>1 DEF SpmiInv, Alone, V2
<1>5. CommandsOwned'
  <2>1. \A b \in SpmiBlocks : port[b].cmd.op = "none"
    BY <1>2 DEF SpmiInv, CommandsOwned, Issued
  <2> QED
    BY <1>1, <2>1 DEF CommandsOwned
<1>6. DataIn'
  BY <1>1, <1>2 DEF DataIn, Contexts
<1>7. ASSUME NEW c \in Contexts PROVE CallShape(c)' /\ Selected(c)' /\ Landed(c)'
  <2>1. ctx'[c] = ctx[c] /\ ctx[c].pc = "idle"
    BY <1>1, <1>2
  <2>2. CallShape(c)'
    BY <2>1 DEF SpmiInv, CallShape
  <2> QED
    BY <2>1, <2>2 DEF Selected, Landed, Carried
<1> QED
  BY <1>3, <1>4, <1>5, <1>6, <1>7 DEF SpmiInv

LEMMA SpmiCalled ==
    ASSUME SpmiInv, 2 \notin InterruptedOn, NEW c \in Contexts, CallSpmi(c)
    PROVE  /\ SpmiInv' /\ regs' = regs
           /\ \A d \in Contexts : ctx'[d].pc = "idle" => ctx[d].pc = "idle"
<1>1. /\ chnlTbl # <<>> /\ ctx[c].pc = "idle" /\ Runs(c)
      /\ c = "timer" => (arb \in InterruptedOn \/ ctx["app"].pc = "idle")
      /\ arb' = arb /\ chnlTbl' = chnlTbl /\ chnlNum' = chnlNum /\ port' = port /\ regs' = regs
  BY DEF CallSpmi
<1>2. PICK op \in SpmiOps, p \in Periph, o \in {0, 1}, size \in Sizes, v \in Values :
          /\ c = "timer" => op = "read" /\ size = 1
          /\ ctx' = [d \in Contexts |->
                IF d = c
                THEN [IdleCtx EXCEPT !.pc = "select", !.op = op, !.peri = p, !.off = o, !.size = size,
                         !.data = IF op = "write" THEN [i \in 1 .. size |-> v + i - 1] ELSE <<>>]
                ELSE [ctx[d] EXCEPT !.disturbed = @ \/ ctx[d].pc # "idle"]]
  BY DEF CallSpmi, SpmiOps
<1>3. PICK data : data = IF op = "write" THEN [i \in 1 .. size |-> v + i - 1] ELSE <<>>
  OBVIOUS
<1>4. size \in 1 .. 8 /\ v \in Nat
  BY SpmiAssumption
<1>5. data \in Seq(Nat) /\ (op = "write" => Len(data) = size)
  <2>1. CASE op = "write"
    <3>1. [i \in 1 .. size |-> v + i - 1] \in [1 .. size -> Nat]
      BY <1>4
    <3>2. size \in Nat
      BY <1>4
    <3>3. data = [i \in 1 .. size |-> v + i - 1]
      BY <1>3, <2>1
    <3>4. data \in [1 .. size -> Nat]
      BY ONLY <3>1, <3>3
    <3> QED
      BY ONLY <3>2, <3>4, FunctionIsSeq
  <2>2. CASE op # "write"
    BY <1>3, <2>2
  <2> QED
    BY <2>1, <2>2
<1>6. PICK r : r = [IdleCtx EXCEPT !.pc = "select", !.op = op, !.peri = p, !.off = o, !.size = size, !.data = data]
  OBVIOUS
<1>7. /\ r \in SpmiCtx
      /\ r.pc = "select" /\ r.op = op /\ r.peri = p /\ r.off = o /\ r.data = data /\ r.size = size
      /\ r.buf = <<>> /\ ~r.disturbed
  <2>1. Periph = {0, 1}
    BY SpmiAssumption DEF Periph
  <2>2. IdleCtx \in SpmiCtx /\ IdleCtx.buf = <<>> /\ ~IdleCtx.disturbed
    BY <2>1 DEF IdleCtx, SpmiCtx, SpmiOps
  <2> QED
    BY <1>4, <1>5, <1>6, <2>2 DEF SpmiCtx
<1>8. ctx' = [d \in Contexts |-> IF d = c THEN r
                                 ELSE [ctx[d] EXCEPT !.disturbed = @ \/ ctx[d].pc # "idle"]]
  BY <1>2, <1>3, <1>6
<1>9. r \in SpmiCtx
  BY <1>7
<1>10. SpmiKinds
  BY DEF SpmiInv
<1>11. ctx'[c] = r
  BY <1>8
<1>12. ASSUME NEW d \in Contexts, d # c
       PROVE  /\ ctx'[d] \in SpmiCtx
              /\ ctx'[d].pc = ctx[d].pc /\ ctx'[d].op = ctx[d].op /\ ctx'[d].data = ctx[d].data
              /\ ctx'[d].peri = ctx[d].peri /\ ctx'[d].off = ctx[d].off /\ ctx'[d].size = ctx[d].size
              /\ ctx'[d].buf = ctx[d].buf
              /\ ctx'[d].disturbed <=> ctx[d].disturbed \/ ctx[d].pc # "idle"
  <2>1. ctx[d] \in SpmiCtx
    BY <1>10, SpmiParts
  <2>2. ctx'[d] = [ctx[d] EXCEPT !.disturbed = @ \/ ctx[d].pc # "idle"]
    BY <1>8, <1>12
  <2> QED
    BY <2>1, <2>2 DEF SpmiCtx
<1>13. SpmiKinds'
  <2>1. ctx' \in [Contexts -> SpmiCtx]
    BY <1>8, <1>9, <1>11, <1>12
  <2> QED
    BY <1>1, <1>10, <2>1 DEF SpmiKinds, V2
<1>14. V2' <=> V2
  BY <1>1 DEF V2
<1>15. c = "timer" /\ V2 => ctx["app"].pc = "idle"
  BY <1>1 DEF V2
<1>16. c = "app" => ctx["timer"].pc = "idle"
  BY <1>1 DEF Runs
<1>17. Alone'
  <2>1. CASE c = "app"
    <3>1. ctx'["timer"].pc = "idle" /\ ~ctx'["timer"].disturbed
      <4>1. "timer" \in Contexts /\ "timer" # c
        BY <2>1 DEF Contexts
      <4>2. ~ctx["timer"].disturbed
        BY DEF SpmiInv, Alone
      <4> QED
        BY <1>12, <1>16, <2>1, <4>1, <4>2
    <3> QED
      BY <3>1 DEF Alone
  <2>2. CASE c = "timer"
    <3>1. "app" \in Contexts /\ "app" # c
      BY <2>2 DEF Contexts
    <3>2. /\ ctx'["app"].pc = ctx["app"].pc
          /\ ctx'["app"].disturbed <=> ctx["app"].disturbed \/ ctx["app"].pc # "idle"
      BY <1>12, <3>1
    <3>3. ~ctx'["timer"].disturbed
      BY <1>7, <1>11, <2>2
    <3> QED
      BY <1>14, <1>15, <2>2, <3>2, <3>3 DEF Alone
  <2> QED
    BY <2>1, <2>2 DEF Contexts
<1>18. CommandsOwned'
  <2> SUFFICES ASSUME NEW b \in SpmiBlocks, port[b].cmd.op # "none"
               PROVE  \E d \in Contexts : Issued(d, b)'
    BY <1>1 DEF CommandsOwned
  <2>1. PICK d \in Contexts : Issued(d, b)
    BY DEF SpmiInv, CommandsOwned
  <2>2. d # c
    BY <1>1, <2>1 DEF Issued
  <2>3. c = "timer" /\ d = "app"
    BY <1>16, <2>1, <2>2 DEF Issued, Contexts
  <2>4. Through(d)' = Through(d) /\ Command(d)' = Command(d)
    BY <1>1, <1>12, <1>14, <2>2 DEF Through, Command
  <2>5. ctx'["timer"].pc = "select"
    BY <1>7, <1>11, <2>3
  <2>6. Issued(d, b)'
    BY <1>1, <1>12, <2>1, <2>2, <2>4, <2>5 DEF Issued
  <2> QED
    BY <2>6
<1>19. DataIn'
  <2>1. CASE c = "app"
    BY <1>7, <1>11, <2>1 DEF DataIn
  <2>2. CASE c = "timer"
    <3>1. "app" \in Contexts /\ "app" # c
      BY <2>2 DEF Contexts
    <3>2. /\ ctx'["app"].pc = ctx["app"].pc /\ ctx'["app"].op = ctx["app"].op
          /\ ctx'["app"].data = ctx["app"].data /\ ctx'["app"].size = ctx["app"].size
      BY <1>12, <3>1
    <3> QED
      BY <1>1, <3>2 DEF SpmiInv, DataIn
  <2> QED
    BY <2>1, <2>2 DEF Contexts
<1>20. CallShape(c)'
  <2>1. op = "write" => c = "app"
    BY <1>2 DEF Contexts
  <2>2. ctx'[c].pc = "select" /\ ctx'[c].op = op /\ ctx'[c].data = data /\ ctx'[c].size = size /\ ctx'[c].buf = <<>>
    BY <1>7, <1>11
  <2> QED
    BY <1>1, <1>5, <2>1, <2>2 DEF CallShape
<1>21. Selected(c)' /\ Landed(c)'
  BY <1>7, <1>11 DEF Selected, Landed, Carried
<1>22. ASSUME NEW d \in Contexts, d # c PROVE CallShape(d)' /\ Selected(d)' /\ Landed(d)'
  <2>1. CallShape(d) /\ Selected(d)
    BY DEF SpmiInv
  <2>2. CallShape(d)'
    BY <1>1, <1>12, <1>22, <2>1 DEF CallShape
  <2>3. Selected(d)'
    BY <1>1, <1>12, <1>14, <1>22, <2>1 DEF Selected
  <2>4. Landed(d)'
    BY <1>12, <1>22 DEF Landed, Carried
  <2> QED
    BY <2>2, <2>3, <2>4
<1>23. SpmiInv'
  BY <1>13, <1>17, <1>18, <1>19, <1>20, <1>21, <1>22, SpmiInvAfter
<1>24. ASSUME NEW d \in Contexts, ctx'[d].pc = "idle" PROVE ctx[d].pc = "idle"
  BY <1>7, <1>11, <1>12, <1>24
<1> QED
  BY <1>1, <1>23, <1>24

LEMMA SpmiSelects ==
    ASSUME SpmiInv, NEW c \in Contexts, SelectChannel(c)
    PROVE  SpmiInv' /\ regs' = regs /\ ctx'[c].pc # "idle" /\ \A d \in Contexts : d # c => ctx'[d] = ctx[d]
<1>1. /\ ctx[c].pc = "select" /\ Runs(c)
      /\ chnlNum' = IF V2 THEN chnlTbl[ctx[c].peri] ELSE chnlNum
      /\ arb' = arb /\ chnlTbl' = chnlTbl /\ port' = port /\ regs' = regs
  BY DEF SelectChannel
<1>2. PICK pc : pc = IF ctx[c].op = "write" THEN "wdata0" ELSE "command"
  OBVIOUS
<1>3. PICK r : r = [ctx[c] EXCEPT !.pc = pc]
  OBVIOUS
<1>4. ctx' = [ctx EXCEPT ![c] = r]
  BY <1>2, <1>3 DEF SelectChannel, Advance
<1>5. SpmiKinds /\ CallShape(c)
  BY DEF SpmiInv
<1>6. ctx[c] \in SpmiCtx /\ ctx[c].peri \in {0, 1}
  BY <1>5, SpmiParts
<1>7. /\ r \in SpmiCtx /\ r.pc = pc /\ r.op = ctx[c].op /\ r.peri = ctx[c].peri /\ r.size = ctx[c].size
      /\ r.data = ctx[c].data /\ r.buf = ctx[c].buf /\ r.disturbed = ctx[c].disturbed
  BY <1>2, <1>3, <1>6 DEF SpmiCtx
<1>8. ctx'[c] = r /\ \A d \in Contexts : d # c => ctx'[d] = ctx[d]
  BY <1>4, <1>5 DEF SpmiKinds
<1>9. V2 => chnlNum' = ctx[c].peri + 1
  <2>1. Periph = {0, 1} /\ chnlTbl # <<>>
    BY <1>1, <1>5, SpmiAssumption DEF Periph, CallShape
  <2>2. chnlTbl = [p \in Periph |-> IF V2 THEN Wired(p) ELSE 0]
    BY <1>5, <2>1 DEF SpmiKinds
  <2> QED
    BY <1>1, <1>6, <2>1, <2>2 DEF Wired
<1>10. SpmiKinds'
  <2>1. ctx' \in [Contexts -> SpmiCtx]
    BY <1>4, <1>5, <1>7 DEF SpmiKinds
  <2>2. chnlNum' \in Channels /\ (~V2 => chnlNum' = 0)
    BY <1>1, <1>5, <1>6, <1>9 DEF SpmiKinds, Channels
  <2> QED
    BY <1>1, <1>5, <2>1, <2>2 DEF SpmiKinds, V2
<1>11. CallGoesOn(c)
  BY <1>1, <1>7, <1>8 DEF CallGoesOn
<1>12. /\ Alone'
       /\ \A d \in Contexts : d # c =>
             /\ CallShape(d)' /\ Selected(d)' /\ Landed(d)'
             /\ V2 => ctx[d].pc = "idle"
             /\ ctx[d].disturbed \/ ctx[d].pc = "idle"
  BY ONLY <1>11, SpmiInv, CallLeaves, c \in Contexts
<1>13. CommandsOwned'
  <2> SUFFICES ASSUME NEW b \in SpmiBlocks, port[b].cmd.op # "none"
               PROVE  \E d \in Contexts : Issued(d, b)'
    BY <1>1 DEF CommandsOwned
  <2>1. PICK d \in Contexts : Issued(d, b)
    BY DEF SpmiInv, CommandsOwned
  <2>2. d # c
    BY <1>1, <2>1 DEF Issued
  <2>3. ~V2 /\ ctx'[d] = ctx[d]
    BY <1>8, <1>12, <2>1, <2>2 DEF Issued
  <2>4. Through(d)' = Through(d) /\ Command(d)' = Command(d)
    BY <1>1, <2>3 DEF Through, Command, V2
  <2>5. d = "app" => c = "timer"
    BY <2>2 DEF Contexts
  <2>6. d = "app" => ctx'["timer"].pc \notin {"poll", "rdata"}
    BY <1>2, <1>7, <1>8, <2>5
  <2>7. Issued(d, b)'
    BY <1>1, <2>1, <2>3, <2>4, <2>6 DEF Issued
  <2> QED
    BY <2>7
<1>14. DataIn'
  <2>1. CASE c = "app"
    BY <1>2, <1>7, <1>8, <2>1 DEF DataIn
  <2>2. CASE c = "timer"
    <3>1. "app" \in Contexts /\ "app" # c
      BY <2>2 DEF Contexts
    <3>2. ctx'["app"] = ctx["app"] /\ (V2 => ctx["app"].pc = "idle")
      BY <1>8, <1>12, <3>1
    <3> QED
      BY <1>1, <3>2 DEF SpmiInv, DataIn
  <2> QED
    BY <2>1, <2>2 DEF Contexts
<1>15. CallShape(c)'
  BY <1>1, <1>2, <1>5, <1>7, <1>8 DEF CallShape
<1>16. Selected(c)'
  BY <1>1, <1>7, <1>8, <1>9 DEF Selected, V2
<1>17. Landed(c)'
  BY <1>2, <1>7, <1>8 DEF Landed, Carried
<1>18. SpmiInv'
  BY <1>10, <1>12, <1>13, <1>14, <1>15, <1>16, <1>17, SpmiInvAfter
<1>19. ctx'[c].pc # "idle"
  BY <1>2, <1>7, <1>8
<1> QED
  BY <1>1, <1>8, <1>18, <1>19

\* The bytes of a pair of data registers once a part of a write is put there.
Filled(s, data, k) == SubSeq(s, 1, 4 * k) \o SubSeq(Padded(Chunk(data, k)), 1, 4) \o SubSeq(s, 4 * k + 5, 8)
LEMMA BytesPut ==
    ASSUME NEW s \in EightBytes, NEW data \in Seq(Nat), Len(data) <= 8,
           NEW k \in {0, 1}, NEW m \in Nat, m = 4 * k, m < Len(data)
    PROVE  /\ Filled(s, data, k) \in EightBytes
           /\ \A i \in 1 .. m : Filled(s, data, k)[i] = s[i]
           /\ \A i \in 1 .. Len(data) : m < i /\ i <= m + 4 => Filled(s, data, k)[i] = data[i]
<1>0. PICK w : w = Filled(s, data, k)
  OBVIOUS
<1>1. PICK l \in Nat : l = Len(data)
  BY LenProperties
<1>2. PICK q : q = Chunk(data, k)
  OBVIOUS
<1>3. PICK n \in Nat : n = Least(l - m, 4) /\ n <= 4 /\ n <= l - m /\ (n = 4 \/ n = l - m)
  <2>1. m < l
    BY ONLY <1>1, m < Len(data)
  <2>2. PICK n : n = Least(l - m, 4)
    OBVIOUS
  <2>3. n \in Nat /\ n <= 4 /\ n <= l - m /\ (n = 4 \/ n = l - m)
    BY ONLY <2>1, <2>2, l \in Nat, m \in Nat DEF Least
  <2> QED
    BY ONLY <2>2, <2>3
<1>4. q \in Seq(Nat) /\ Len(q) = n /\ \A i \in 1 .. n : q[i] = data[m + i]
  <2>1. /\ Chunk(data, k) \in Seq(Nat) /\ Len(Chunk(data, k)) = Least(Len(data) - m, 4)
        /\ \A i \in 1 .. Least(Len(data) - m, 4) : Chunk(data, k)[i] = data[m + i]
    BY ChunkIs
  <2> QED
    BY ONLY <1>1, <1>2, <1>3, <2>1
<1>5. PICK d : d = Padded(q)
  OBVIOUS
<1>6. d \in EightBytes /\ \A i \in 1 .. n : d[i] = q[i]
  <2>1. Len(q) <= 8
    BY ONLY <1>3, <1>4, n \in Nat
  <2>2. Padded(q) \in EightBytes /\ \A i \in 1 .. Len(q) : Padded(q)[i] = q[i]
    BY ONLY <1>4, <2>1, PaddedIs
  <2> QED
    BY ONLY <1>4, <1>5, <2>2
<1>7. m \in {0, 4}
  OBVIOUS
<1>8. w = SubSeq(s, 1, m) \o SubSeq(d, 1, 4) \o SubSeq(s, m + 5, 8)
  BY ONLY <1>0, <1>2, <1>5, m = 4 * k DEF Filled
<1>9. /\ w \in EightBytes
      /\ \A i \in 1 .. m : w[i] = s[i]
      /\ \A i \in m + 1 .. m + 4 : w[i] = d[i - m]
  <2>1. d \in EightBytes
    BY <1>6
  <2>2. /\ SubSeq(s, 1, m) \o SubSeq(d, 1, 4) \o SubSeq(s, m + 5, 8) \in EightBytes
        /\ \A i \in 1 .. m : (SubSeq(s, 1, m) \o SubSeq(d, 1, 4) \o SubSeq(s, m + 5, 8))[i] = s[i]
        /\ \A i \in m + 1 .. m + 4 : (SubSeq(s, 1, m) \o SubSeq(d, 1, 4) \o SubSeq(s, m + 5, 8))[i] = d[i - m]
    BY ONLY <1>7, <2>1, s \in EightBytes, WordPut
  <2> QED
    BY ONLY <1>8, <2>2
<1>10. ASSUME NEW i \in 1 .. Len(data), m < i, i <= m + 4 PROVE w[i] = data[i]
  <2>1. i \in 1 .. l
    BY ONLY <1>1, i \in 1 .. Len(data)
  <2>2. PICK j \in 1 .. n : j = i - m /\ m + j = i
    BY ONLY <1>3, <1>10, <2>1, l \in Nat, m \in Nat, n \in Nat
  <2>3. i \in m + 1 .. m + 4
    BY ONLY <1>10, <2>1, l \in Nat, m \in Nat
  <2>4. w[i] = d[j] /\ d[j] = q[j] /\ q[j] = data[m + j]
    BY ONLY <1>4, <1>6, <1>9, <2>2, <2>3
  <2> QED
    BY ONLY <2>2, <2>4
<1> QED
  BY ONLY <1>0, <1>9, <1>10

LEMMA SpmiPutsData ==
    ASSUME SpmiInv, NEW c \in Contexts, WriteData(c)
    PROVE  SpmiInv' /\ regs' = regs /\ ctx'[c].pc # "idle" /\ \A d \in Contexts : d # c => ctx'[d] = ctx[d]
<1>1. PICK k \in {0, 1} :
          /\ ctx[c].pc = <<"wdata0", "wdata1">>[k + 1] /\ Runs(c)
          /\ port' = [port EXCEPT ![Block("write", chnlNum)].wdata =
                         SubSeq(@, 1, 4 * k) \o SubSeq(Padded(Chunk(ctx[c].data, k)), 1, 4)
                             \o SubSeq(@, 4 * k + 5, 8)]
          /\ Advance(c, [ctx[c] EXCEPT !.pc = IF k = 0 /\ ctx[c].size > 4 THEN "wdata1" ELSE "command"])
          /\ UNCHANGED <<arb, chnlTbl, chnlNum, regs, spmiLeft>>
  BY DEF WriteData
<1>2. ctx[c].pc = IF k = 0 THEN "wdata0" ELSE "wdata1"
  BY <1>1
<1>3. SpmiKinds /\ CallShape(c) /\ Selected(c)
  BY DEF SpmiInv
<1>4. ctx[c].op = "write" /\ c = "app" /\ Len(ctx[c].data) = ctx[c].size /\ (k = 1 => ctx[c].size > 4) /\ ctx[c].buf = <<>>
  BY <1>2, <1>3 DEF CallShape
<1>5. /\ ctx[c] \in SpmiCtx /\ ctx[c].data \in Seq(Nat) /\ ctx[c].size \in 1 .. 8
  BY <1>3, SpmiParts
<1>6. PICK core \in SpmiBlocks : core = <<"core", chnlNum>>
  BY <1>3 DEF SpmiKinds, SpmiBlocks
<1>7. Block("write", chnlNum) = core
  BY <1>6 DEF Block
<1>8. PICK s \in EightBytes, data \in Seq(Nat), size \in 1 .. 8 :
          s = port[core].wdata /\ data = ctx[c].data /\ size = ctx[c].size
  BY <1>3, <1>5, SpmiPortParts
<1>9. PICK w : w = Filled(s, data, k)
  OBVIOUS
<1>10. PICK m \in Nat : m = 4 * k
  OBVIOUS
<1>11. Len(data) = size /\ Len(data) <= 8 /\ m < Len(data)
  <2>1. Len(data) = size /\ (k = 1 => size > 4)
    BY ONLY <1>4, <1>8
  <2>2. size <= 8 /\ m < size
    BY ONLY <1>10, <2>1, size \in 1 .. 8, k \in {0, 1}
  <2> QED
    BY ONLY <2>1, <2>2
<1>12. /\ w \in EightBytes
       /\ \A i \in 1 .. m : w[i] = s[i]
       /\ \A i \in 1 .. Len(data) : m < i /\ i <= m + 4 => w[i] = data[i]
  <2>1. /\ Filled(s, data, k) \in EightBytes
        /\ \A i \in 1 .. m : Filled(s, data, k)[i] = s[i]
        /\ \A i \in 1 .. Len(data) : m < i /\ i <= m + 4 => Filled(s, data, k)[i] = data[i]
    BY ONLY <1>10, <1>11, BytesPut, s \in EightBytes, data \in Seq(Nat), k \in {0, 1}, m \in Nat
  <2> QED
    BY ONLY <1>9, <2>1
<1>13. port' = [port EXCEPT ![core].wdata = w]
  BY <1>1, <1>7, <1>8, <1>9 DEF Filled
<1>14. PICK pc : pc = IF k = 0 /\ size > 4 THEN "wdata1" ELSE "command"
  OBVIOUS
<1>15. PICK r : r = [ctx[c] EXCEPT !.pc = pc]
  OBVIOUS
<1>16. ctx' = [ctx EXCEPT ![c] = r] /\ arb' = arb /\ chnlTbl' = chnlTbl /\ chnlNum' = chnlNum /\ regs' = regs
  BY <1>1, <1>8, <1>14, <1>15 DEF Advance
<1>17. /\ r \in SpmiCtx /\ r.pc = pc /\ r.op = ctx[c].op /\ r.peri = ctx[c].peri /\ r.size = ctx[c].size
       /\ r.data = ctx[c].data /\ r.buf = ctx[c].buf /\ r.disturbed = ctx[c].disturbed
  BY <1>5, <1>14, <1>15 DEF SpmiCtx
<1>18. ctx'[c] = r /\ \A d \in Contexts : d # c => ctx'[d] = ctx[d]
  BY <1>3, <1>16 DEF SpmiKinds
<1>19. /\ port' \in [SpmiBlocks -> SpmiPort] /\ port'[core].wdata = w
       /\ \A b \in SpmiBlocks : port'[b].cmd = port[b].cmd
  BY <1>3, <1>12, <1>13 DEF SpmiKinds, SpmiPort
<1>20. SpmiKinds'
  <2>1. ctx' \in [Contexts -> SpmiCtx]
    BY <1>3, <1>16, <1>17 DEF SpmiKinds
  <2> QED
    BY <1>3, <1>16, <1>19, <2>1 DEF SpmiKinds, V2
<1>21. CallGoesOn(c)
  BY <1>1, <1>2, <1>16, <1>17, <1>18 DEF CallGoesOn
<1>22. /\ Alone'
       /\ \A d \in Contexts : d # c =>
             /\ CallShape(d)' /\ Selected(d)' /\ Landed(d)'
             /\ V2 => ctx[d].pc = "idle"
             /\ ctx[d].disturbed \/ ctx[d].pc = "idle"
  BY ONLY <1>21, SpmiInv, CallLeaves, c \in Contexts
<1>23. CommandsOwned'
  <2>1. c = "app" /\ ctx[c].pc # "poll" /\ Runs(c)
    BY <1>1, <1>2, <1>4
  <2>2. \A b \in SpmiBlocks : port[b].cmd.op = "none"
    BY <2>1, NoneWaits
  <2> QED
    BY <1>19, <2>2 DEF CommandsOwned
<1>24. DataIn'
  <2>1. /\ ctx'["app"].pc = pc /\ ctx'["app"].data = data /\ ctx'["app"].size = size
        /\ port'[<<"core", chnlNum>>].wdata = w
    BY <1>4, <1>6, <1>8, <1>17, <1>18, <1>19
  <2>2. CASE k = 0
    <3>1. ASSUME pc = "wdata1", NEW i \in 1 .. 4 PROVE w[i] = data[i]
      <4>1. i \in 1 .. Len(data) /\ m < i /\ i <= m + 4
        BY <1>10, <1>11, <1>14, <2>2, <3>1
      <4> QED
        BY ONLY <1>12, <4>1
    <3>2. ASSUME pc = "command", NEW i \in 1 .. size PROVE w[i] = data[i]
      <4>1. i \in 1 .. Len(data) /\ m < i /\ i <= m + 4
        BY <1>10, <1>11, <1>14, <2>2, <3>2
      <4> QED
        BY ONLY <1>12, <4>1
    <3> QED
      BY <1>14, <1>16, <2>1, <3>1, <3>2 DEF DataIn
  <2>3. CASE k = 1
    <3>1. pc = "command" /\ m = 4
      BY <1>10, <1>14, <2>3
    <3>2. \A i \in 1 .. 4 : s[i] = data[i]
      <4>1. ctx["app"].op = "write" /\ ctx["app"].pc = "wdata1"
        BY <1>2, <1>4, <2>3
      <4>2. \A i \in 1 .. 4 : port[<<"core", chnlNum>>].wdata[i] = ctx["app"].data[i]
        BY <4>1 DEF SpmiInv, DataIn
      <4>3. s = port[<<"core", chnlNum>>].wdata /\ data = ctx["app"].data
        BY <1>4, <1>6, <1>8
      <4> QED
        BY ONLY <4>2, <4>3
    <3>3. ASSUME NEW i \in 1 .. size PROVE w[i] = data[i]
      <4>1. i \in 1 .. Len(data)
        BY <1>11
      <4>2. CASE i <= 4
        BY <1>12, <3>1, <3>2, <4>2
      <4>3. CASE i > 4
        <5>1. m < i /\ i <= m + 4
          BY <3>1, <4>3
        <5> QED
          BY ONLY <1>12, <4>1, <5>1
      <4> QED
        BY <4>2, <4>3
    <3> QED
      BY <1>16, <2>1, <3>1, <3>3 DEF DataIn
  <2> QED
    BY <2>2, <2>3
<1>25. CallShape(c)'
  <2>1. ctx'[c].op = "write" /\ Len(ctx'[c].data) = ctx'[c].size /\ ctx'[c].buf = <<>>
    BY <1>4, <1>17, <1>18
  <2>2. ctx'[c].pc \in {"wdata1", "command"} /\ (ctx'[c].pc = "wdata1" => ctx'[c].size > 4)
    BY <1>8, <1>14, <1>17, <1>18
  <2>3. chnlTbl' # <<>>
    BY <1>2, <1>3, <1>16 DEF CallShape
  <2> QED
    BY <1>4, <2>1, <2>2, <2>3 DEF CallShape
<1>26. Selected(c)'
  BY <1>2, <1>3, <1>16, <1>17, <1>18 DEF Selected, V2
<1>27. Landed(c)'
  BY <1>14, <1>17, <1>18 DEF Landed, Carried
<1>28. SpmiInv'
  BY <1>20, <1>22, <1>23, <1>24, <1>25, <1>26, <1>27, SpmiInvAfter
<1>29. ctx'[c].pc # "idle"
  BY <1>14, <1>17, <1>18
<1> QED
  BY <1>16, <1>18, <1>28, <1>29

LEMMA SpmiStarts ==
    ASSUME SpmiInv, NEW c \in Contexts, WriteCommand(c)
    PROVE  SpmiInv' /\ regs' = regs /\ ctx'[c].pc # "idle" /\ \A d \in Contexts : d # c => ctx'[d] = ctx[d]
<1>1. SpmiKinds /\ CallShape(c) /\ Selected(c)
  BY DEF SpmiInv
<1>2. ctx[c].pc = "command" /\ Runs(c) /\ ctx[c].buf = <<>>
  BY <1>1 DEF WriteCommand, CallShape
<1>3. PICK b \in SpmiBlocks : b = Through(c) /\ b = Block(ctx[c].op, chnlNum)
  BY <1>1, SpmiParts
<1>4. /\ ctx[c] \in SpmiCtx /\ ctx[c].op \in SpmiOps /\ ctx[c].peri \in {0, 1} /\ ctx[c].off \in {0, 1}
      /\ ctx[c].size \in 1 .. 8
  BY <1>1, SpmiParts
<1>5. PICK cmd : cmd = Command(c)
  OBVIOUS
<1>6. [op |-> ctx[c].op, off |-> ctx[c].off, cnt |-> ByteCount(ctx[c].size),
       peri |-> IF V2 THEN PeriphOf(chnlNum) ELSE ctx[c].peri] = cmd
  <2>1. V2 => PeriphOf(chnlNum) = ctx[c].peri
    BY <1>1, <1>2, <1>4 DEF Selected, PeriphOf
  <2>2. (IF V2 THEN PeriphOf(chnlNum) ELSE ctx[c].peri) = ctx[c].peri
    BY <2>1
  <2> QED
    BY <1>5, <2>2 DEF Command, ByteCount
<1>7. PICK p : p = [port[b] EXCEPT !.status = "none", !.cmd = cmd]
  OBVIOUS
<1>8. port' = [port EXCEPT ![b] = p]
  BY <1>3, <1>6, <1>7 DEF WriteCommand
<1>9. cmd \in SpmiCommands
  <2>1. ctx[c].size - 1 \in 0 .. 7
    BY <1>4
  <2>2. Periph = {0, 1}
    BY SpmiAssumption DEF Periph
  <2> QED
    BY <1>4, <1>5, <2>1, <2>2 DEF Command, SpmiCommands
<1>10. p \in SpmiPort /\ p.status = "none" /\ p.cmd = cmd /\ p.wdata = port[b].wdata
  <2>1. port[b] \in SpmiPort
    BY <1>1 DEF SpmiKinds
  <2> QED
    BY <1>7, <1>9, <2>1 DEF SpmiPort
<1>11. /\ port' \in [SpmiBlocks -> SpmiPort] /\ port'[b] = p
       /\ \A e \in SpmiBlocks : e # b => port'[e] = port[e]
  BY <1>1, <1>8, <1>10 DEF SpmiKinds
<1>12. PICK r : r = [ctx[c] EXCEPT !.pc = "poll"]
  OBVIOUS
<1>13. ctx' = [ctx EXCEPT ![c] = r] /\ arb' = arb /\ chnlTbl' = chnlTbl /\ chnlNum' = chnlNum /\ regs' = regs
  BY <1>12 DEF WriteCommand, Advance
<1>14. /\ r \in SpmiCtx /\ r.pc = "poll" /\ r.op = ctx[c].op /\ r.peri = ctx[c].peri /\ r.size = ctx[c].size
       /\ r.data = ctx[c].data /\ r.buf = ctx[c].buf /\ r.disturbed = ctx[c].disturbed /\ r.off = ctx[c].off
  BY <1>4, <1>12 DEF SpmiCtx
<1>15. ctx'[c] = r /\ \A d \in Contexts : d # c => ctx'[d] = ctx[d]
  BY <1>1, <1>13 DEF SpmiKinds
<1>16. SpmiKinds'
  <2>1. ctx' \in [Contexts -> SpmiCtx]
    BY <1>1, <1>13, <1>14 DEF SpmiKinds
  <2> QED
    BY <1>1, <1>11, <1>13, <2>1 DEF SpmiKinds, V2
<1>17. CallGoesOn(c)
  BY <1>2, <1>13, <1>14, <1>15 DEF CallGoesOn
<1>18. /\ Alone'
       /\ \A d \in Contexts : d # c =>
             /\ CallShape(d)' /\ Selected(d)' /\ Landed(d)'
             /\ V2 => ctx[d].pc = "idle"
             /\ ctx[d].disturbed \/ ctx[d].pc = "idle"
  BY ONLY <1>17, SpmiInv, CallLeaves, c \in Contexts
<1>19. Through(c)' = b /\ Command(c)' = cmd
  BY <1>3, <1>5, <1>13, <1>14, <1>15 DEF Through, Command, V2
<1>20. Issued(c, b)'
  <2>1. c = "app" => ctx'["timer"].pc = "idle"
    BY <1>2, <1>15 DEF Runs, Contexts
  <2> QED
    BY <1>10, <1>11, <1>14, <1>15, <1>19, <2>1 DEF Issued
<1>21. ASSUME NEW e \in SpmiBlocks, e # b PROVE port'[e].cmd.op = "none"
  <2> SUFFICES ASSUME port[e].cmd.op # "none" PROVE FALSE
    BY <1>11, <1>21
  <2>1. PICK d \in Contexts : Issued(d, e)
    BY DEF SpmiInv, CommandsOwned
  <2>2. d # c /\ ctx[d].pc = "poll" /\ e = Through(d)
    BY <1>2, <2>1 DEF Issued
  <2>3. ~V2
    BY <1>18, <2>2
  <2>4. e = b
    BY <1>3, <2>2, <2>3 DEF Through
  <2> QED
    BY <1>21, <2>4
<1>22. CommandsOwned'
  BY <1>20, <1>21 DEF CommandsOwned
<1>23. \A e \in SpmiBlocks : port'[e].wdata = port[e].wdata
  BY <1>10, <1>11
<1>24. DataIn'
  <2>1. PICK core \in SpmiBlocks : core = <<"core", chnlNum>> /\ core = <<"core", chnlNum>>'
    BY <1>1, <1>13 DEF SpmiKinds, SpmiBlocks
  <2>2. port'[core].wdata = port[core].wdata
    BY <1>23
  <2>3. /\ ctx'["app"].op = ctx["app"].op /\ ctx'["app"].data = ctx["app"].data
        /\ ctx'["app"].size = ctx["app"].size
        /\ ctx'["app"].pc = ctx["app"].pc \/ (ctx'["app"].pc = "poll" /\ ctx["app"].pc = "command")
    <3>1. CASE c = "app"
      BY <1>2, <1>14, <1>15, <3>1
    <3>2. CASE c # "app"
      <4>1. ctx'["app"] = ctx["app"]
        BY <1>15, <3>2 DEF Contexts
      <4> QED
        BY <4>1
    <3> QED
      BY <3>1, <3>2
  <2> QED
    BY <2>1, <2>2, <2>3 DEF SpmiInv, DataIn
<1>25. CallShape(c)'
  BY <1>1, <1>2, <1>13, <1>14, <1>15 DEF CallShape
<1>26. Selected(c)'
  BY <1>1, <1>2, <1>13, <1>14, <1>15 DEF Selected, V2
<1>27. Landed(c)'
  BY <1>10, <1>11, <1>14, <1>15, <1>19 DEF Landed, Carried
<1>28. SpmiInv'
  BY <1>16, <1>18, <1>22, <1>24, <1>25, <1>26, <1>27, SpmiInvAfter
<1> QED
  BY <1>13, <1>14, <1>15, <1>28

\* The bytes a call names are registers of its peripheral.
LEMMA SliceIs ==
    ASSUME SpmiKinds, NEW p \in Periph, NEW o \in {0, 1}, NEW size \in 1 .. 8
    PROVE  /\ Slice(p, o, size) \in Seq(Nat) /\ Len(Slice(p, o, size)) = size
           /\ \A i \in 1 .. size : Slice(p, o, size)[i] = regs[<<p, o + i - 1>>]
<1>1. PICK z : z = [i \in 1 .. size |-> regs[<<p, o + i - 1>>]]
  OBVIOUS
<1>2. \A i \in 1 .. size : z[i] = regs[<<p, o + i - 1>>]
  BY <1>1
<1>3. ASSUME NEW i \in 1 .. size PROVE z[i] \in Nat
  <2>1. o + i - 1 \in Offsets
    BY DEF Offsets
  <2>2. <<p, o + i - 1>> \in Periph \X Offsets
    BY <2>1
  <2>3. regs[<<p, o + i - 1>>] \in Nat
    BY <2>2 DEF SpmiKinds
  <2> QED
    BY <1>2, <2>3
<1>4. z \in [1 .. size -> Nat]
  BY <1>1, <1>3
<1>5. size \in Nat
  OBVIOUS
<1>6. z \in Seq(Nat) /\ Len(z) = size
  BY ONLY <1>4, <1>5, FunctionIsSeq
<1>7. Slice(p, o, size) = z
  BY <1>1 DEF Slice
<1> QED
  BY ONLY <1>2, <1>6, <1>7

\* What carries a command out: the call that waits for it.
LEMMA SpmiExecutes ==
    ASSUME SpmiInv, Execute
    PROVE  SpmiInv' /\ ctx' = ctx /\ WritesAsAsked
<1>1. /\ arb' = arb /\ chnlTbl' = chnlTbl /\ chnlNum' = chnlNum /\ ctx' = ctx
  BY DEF Execute
<1>2. SpmiKinds
  BY DEF SpmiInv
<1>3. DOMAIN port = SpmiBlocks
  BY <1>2 DEF SpmiKinds
<1>4. PICK b \in SpmiBlocks :
          /\ port[b].cmd.op # "none"
          /\ \/ /\ port' = [port EXCEPT ![b] =
                      [port[b] EXCEPT !.cmd = IdlePort.cmd, !.status = "done",
                                !.rdata = IF port[b].cmd.op = "read"
                                          THEN Padded(Slice(port[b].cmd.peri, port[b].cmd.off, port[b].cmd.cnt + 1))
                                          ELSE port[b].rdata]]
                /\ regs' = IF port[b].cmd.op = "write"
                           THEN Written(port[b].cmd.peri, port[b].cmd.off,
                                        SubSeq(port[b].wdata, 1, port[b].cmd.cnt + 1)) ELSE regs
             \/ /\ port' = [port EXCEPT ![b] = [@ EXCEPT !.cmd = IdlePort.cmd, !.status = "failed"]]
                /\ UNCHANGED regs
  BY <1>3 DEF Execute
<1>5. PICK c \in Contexts : Issued(c, b)
  BY <1>4 DEF SpmiInv, CommandsOwned
<1>6. /\ ctx[c].pc = "poll" /\ b = Through(c) /\ port[b].cmd = Command(c)
      /\ c = "app" => ctx["timer"].pc \notin {"poll", "rdata"}
  BY <1>5 DEF Issued
<1>7. PICK op \in SpmiOps, p \in Periph, o \in {0, 1}, size \in 1 .. 8, data \in Seq(Nat) :
          op = ctx[c].op /\ p = ctx[c].peri /\ o = ctx[c].off /\ size = ctx[c].size /\ data = ctx[c].data
  <2>1. Periph = {0, 1}
    BY SpmiAssumption DEF Periph
  <2> QED
    BY <1>2, <2>1, SpmiParts
<1>8. port[b].cmd.op = op /\ port[b].cmd.peri = p /\ port[b].cmd.off = o /\ port[b].cmd.cnt + 1 = size
  <2>1. Command(c) = [op |-> op, off |-> o, cnt |-> size - 1, peri |-> p]
    BY <1>7 DEF Command
  <2>2. port[b].cmd = [op |-> op, off |-> o, cnt |-> size - 1, peri |-> p]
    BY <1>6, <2>1
  <2>3. size - 1 + 1 = size
    OBVIOUS
  <2> QED
    BY <2>2, <2>3
<1>9. PICK held : held = Slice(p, o, size)
  OBVIOUS
<1>10. held \in Seq(Nat) /\ Len(held) = size /\ \A i \in 1 .. size : held[i] = regs[<<p, o + i - 1>>]
  <2>1. /\ Slice(p, o, size) \in Seq(Nat) /\ Len(Slice(p, o, size)) = size
        /\ \A i \in 1 .. size : Slice(p, o, size)[i] = regs[<<p, o + i - 1>>]
    BY ONLY <1>2, SliceIs, p \in Periph, o \in {0, 1}, size \in 1 .. 8
  <2> QED
    BY ONLY <1>9, <2>1
<1>11. PICK answer : answer = Padded(held)
  OBVIOUS
<1>12. answer \in EightBytes /\ \A i \in 1 .. size : answer[i] = regs[<<p, o + i - 1>>]
  <2>1. Len(held) <= 8
    BY <1>10
  <2>2. Padded(held) \in EightBytes /\ \A i \in 1 .. Len(held) : Padded(held)[i] = held[i]
    BY ONLY <1>10, <2>1, PaddedIs
  <2> QED
    BY ONLY <1>10, <1>11, <2>2
<1>13. op = "write" => c = "app" /\ SubSeq(port[b].wdata, 1, size) = data /\ Len(data) = size
  <2> SUFFICES ASSUME op = "write" PROVE c = "app" /\ SubSeq(port[b].wdata, 1, size) = data /\ Len(data) = size
    OBVIOUS
  <2>1. c = "app" /\ Len(data) = size
    BY <1>7 DEF SpmiInv, CallShape
  <2>2. b = <<"core", chnlNum>>
    BY <1>6, <1>7 DEF Through
  <2>3. PICK wd \in EightBytes : wd = port[b].wdata
    BY <1>2, SpmiPortParts
  <2>4. \A i \in 1 .. size : wd[i] = data[i]
    BY <1>6, <1>7, <2>1, <2>2, <2>3 DEF SpmiInv, DataIn
  <2>5. wd \in Seq(Nat) /\ Len(wd) = 8
    BY ONLY wd \in EightBytes DEF EightBytes
  <2>6. PICK z : z = SubSeq(wd, 1, size)
    OBVIOUS
  <2>7. z \in Seq(Nat) /\ Len(z) = size /\ \A i \in 1 .. size : z[i] = wd[i]
    <3>1. /\ SubSeq(wd, 1, size) \in Seq(Nat) /\ Len(SubSeq(wd, 1, size)) = size
          /\ \A i \in 1 .. size : SubSeq(wd, 1, size)[i] = wd[i]
      BY ONLY FirstBytes, wd \in EightBytes, size \in 1 .. 8
    <3> QED
      BY ONLY <2>6, <3>1
  <2>8. \A i \in 1 .. Len(z) : z[i] = data[i]
    BY ONLY <2>4, <2>7
  <2>9. z = data
    BY ONLY <2>1, <2>7, <2>8, SeqEqual, data \in Seq(Nat)
  <2> QED
    BY ONLY <2>1, <2>3, <2>6, <2>9
<1>14. PICK w : w = Written(p, o, data)
  OBVIOUS
<1>15. op = "write" => /\ w \in [Periph \X Offsets -> Nat]
                       /\ \A i \in 1 .. size : w[<<p, o + i - 1>>] = data[i]
  <2> SUFFICES ASSUME op = "write"
               PROVE  w \in [Periph \X Offsets -> Nat] /\ \A i \in 1 .. size : w[<<p, o + i - 1>>] = data[i]
    OBVIOUS
  <2>1. Len(data) = size /\ \A i \in 1 .. size : data[i] \in Nat
    BY <1>13
  <2>2. w = [r \in Periph \X Offsets |->
                IF r[1] = p /\ r[2] - o \in 0 .. size - 1 THEN data[r[2] - o + 1] ELSE regs[r]]
    BY <1>14, <2>1 DEF Written
  <2>3. ASSUME NEW r \in Periph \X Offsets PROVE w[r] \in Nat
    <3>1. regs[r] \in Nat
      BY <1>2 DEF SpmiKinds
    <3>2. r[2] \in Offsets
      OBVIOUS
    <3>3. r[2] - o \in 0 .. size - 1 => r[2] - o + 1 \in 1 .. size
      BY <3>2 DEF Offsets
    <3> QED
      BY <2>1, <2>2, <3>1, <3>3
  <2>4. w \in [Periph \X Offsets -> Nat]
    BY <2>2, <2>3
  <2>5. ASSUME NEW i \in 1 .. size PROVE w[<<p, o + i - 1>>] = data[i]
    <3>1. o + i - 1 \in Offsets /\ (o + i - 1) - o \in 0 .. size - 1 /\ (o + i - 1) - o + 1 = i
      BY DEF Offsets
    <3>2. <<p, o + i - 1>> \in Periph \X Offsets
      BY <3>1
    <3> QED
      BY <2>2, <3>1, <3>2
  <2> QED
    BY <2>4, <2>5
<1>16. PICK st \in {"done", "failed"}, q \in SpmiPort :
          /\ q.cmd = IdlePort.cmd /\ q.status = st /\ q.wdata = port[b].wdata
          /\ port' = [port EXCEPT ![b] = q]
          /\ st = "done" /\ op = "read" => q.rdata = answer
          /\ regs' = IF st = "done" /\ op = "write" THEN w ELSE regs
  <2>1. port[b] \in SpmiPort /\ IdlePort.cmd \in SpmiCommands
    BY <1>2 DEF SpmiKinds, IdlePort, SpmiCommands
  <2>2. CASE /\ port' = [port EXCEPT ![b] =
                      [port[b] EXCEPT !.cmd = IdlePort.cmd, !.status = "done",
                                !.rdata = IF port[b].cmd.op = "read"
                                          THEN Padded(Slice(port[b].cmd.peri, port[b].cmd.off, port[b].cmd.cnt + 1))
                                          ELSE port[b].rdata]]
             /\ regs' = IF port[b].cmd.op = "write"
                        THEN Written(port[b].cmd.peri, port[b].cmd.off,
                                     SubSeq(port[b].wdata, 1, port[b].cmd.cnt + 1)) ELSE regs
    <3>1. PICK rdata : rdata = IF op = "read" THEN answer ELSE port[b].rdata
      OBVIOUS
    <3>2. rdata \in EightBytes
      BY <1>2, <1>12, <3>1, SpmiPortParts
    <3>3. PICK q : q = [port[b] EXCEPT !.cmd = IdlePort.cmd, !.status = "done", !.rdata = rdata]
      OBVIOUS
    <3>4. /\ q \in SpmiPort /\ q.cmd = IdlePort.cmd /\ q.status = "done" /\ q.wdata = port[b].wdata
          /\ q.rdata = rdata
      BY <2>1, <3>2, <3>3 DEF SpmiPort
    <3>5. port' = [port EXCEPT ![b] = q]
      <4>1. Padded(Slice(port[b].cmd.peri, port[b].cmd.off, port[b].cmd.cnt + 1)) = answer
        BY ONLY <1>8, <1>9, <1>11
      <4>2. rdata = IF port[b].cmd.op = "read"
                    THEN Padded(Slice(port[b].cmd.peri, port[b].cmd.off, port[b].cmd.cnt + 1))
                    ELSE port[b].rdata
        BY ONLY <1>8, <3>1, <4>1
      <4>3. port' = [port EXCEPT ![b] =
                        [port[b] EXCEPT !.cmd = IdlePort.cmd, !.status = "done",
                                !.rdata = IF port[b].cmd.op = "read"
                                          THEN Padded(Slice(port[b].cmd.peri, port[b].cmd.off, port[b].cmd.cnt + 1))
                                          ELSE port[b].rdata]]
        BY ONLY <2>2, Zenon
      <4>4. [port[b] EXCEPT !.cmd = IdlePort.cmd, !.status = "done",
                            !.rdata = IF port[b].cmd.op = "read"
                                      THEN Padded(Slice(port[b].cmd.peri, port[b].cmd.off, port[b].cmd.cnt + 1))
                                      ELSE port[b].rdata] = q
        BY ONLY <3>3, <4>2, Zenon
      <4> QED
        BY ONLY <4>3, <4>4, Zenon
    <3>6. regs' = IF op = "write" THEN w ELSE regs
      BY <1>8, <1>13, <1>14, <2>2
    <3> QED
      BY <3>1, <3>4, <3>5, <3>6
  <2>3. CASE /\ port' = [port EXCEPT ![b] = [@ EXCEPT !.cmd = IdlePort.cmd, !.status = "failed"]]
             /\ UNCHANGED regs
    <3>1. PICK q : q = [port[b] EXCEPT !.cmd = IdlePort.cmd, !.status = "failed"]
      OBVIOUS
    <3>2. q \in SpmiPort /\ q.cmd = IdlePort.cmd /\ q.status = "failed" /\ q.wdata = port[b].wdata
      BY <2>1, <3>1 DEF SpmiPort
    <3>3. port' = [port EXCEPT ![b] = q] /\ regs' = regs
      BY <2>3, <3>1
    <3> QED
      BY <3>2, <3>3
  <2> QED
    BY <1>4, <2>2, <2>3
<1>17. /\ port' \in [SpmiBlocks -> SpmiPort] /\ port'[b] = q
       /\ \A e \in SpmiBlocks : e # b => port'[e] = port[e]
  BY <1>2, <1>16 DEF SpmiKinds
<1>18. IdlePort.cmd.op = "none"
  BY DEF IdlePort
<1>19. SpmiKinds'
  <2>1. regs' \in [Periph \X Offsets -> Nat]
    BY <1>2, <1>15, <1>16 DEF SpmiKinds
  <2> QED
    BY <1>1, <1>2, <1>17, <2>1 DEF SpmiKinds, V2
<1>20. V2' <=> V2
  BY <1>1 DEF V2
<1>21. Alone'
  BY <1>1, <1>20 DEF SpmiInv, Alone
<1>22. \A d \in Contexts : Through(d)' = Through(d) /\ Command(d)' = Command(d)
  BY <1>1, <1>20 DEF Through, Command
<1>23. CommandsOwned'
  <2> SUFFICES ASSUME NEW e \in SpmiBlocks, port'[e].cmd.op # "none"
               PROVE  \E d \in Contexts : Issued(d, e)'
    BY DEF CommandsOwned
  <2>1. e # b
    BY <1>16, <1>17, <1>18
  <2>2. port'[e] = port[e]
    BY <1>17, <2>1
  <2>3. PICK d \in Contexts : Issued(d, e)
    BY <2>2 DEF SpmiInv, CommandsOwned
  <2>4. Issued(d, e)'
    BY <1>1, <1>22, <2>2, <2>3 DEF Issued
  <2> QED
    BY <2>4
<1>24. DataIn'
  <2>1. PICK core \in SpmiBlocks : core = <<"core", chnlNum>> /\ core = <<"core", chnlNum>>'
    BY <1>1, <1>2 DEF SpmiKinds, SpmiBlocks
  <2>2. port'[core].wdata = port[core].wdata
    BY <1>16, <1>17
  <2> QED
    BY <1>1, <2>1, <2>2 DEF SpmiInv, DataIn
<1>25. ASSUME NEW d \in Contexts PROVE CallShape(d)' /\ Selected(d)'
  BY <1>1, <1>20 DEF SpmiInv, CallShape, Selected
<1>26. ASSUME NEW d \in Contexts PROVE Landed(d)'
  <2>1. CASE d # c
    <3>1. ctx[d].disturbed \/ ctx[d].pc \notin {"poll", "rdata"}
      <4>1. CASE c = "app"
        BY <1>6, <2>1, <4>1 DEF Contexts
      <4>2. CASE c = "timer"
        BY <1>6, <2>1, <4>2 DEF Contexts, SpmiInv, Alone
      <4> QED
        BY <4>1, <4>2 DEF Contexts
    <3> QED
      BY <1>1, <3>1 DEF Landed, Carried
  <2>2. CASE d = c
    <3>1. /\ Through(d)' = b /\ port'[b].status = st /\ ctx'[d].pc = "poll" /\ ctx'[d].op = op
          /\ ctx'[d].size = size /\ ctx'[d].data = data
      BY <1>1, <1>6, <1>7, <1>16, <1>17, <1>22, <2>2
    <3>2. \A i \in 1 .. size : RegOf(d, i)' = regs'[<<p, o + i - 1>>]
      BY <1>1, <1>7, <2>2 DEF RegOf
    <3>3. st = "done" /\ op = "read" => \A i \in 1 .. size : port'[b].rdata[i] = RegOf(d, i)'
      BY <1>12, <1>16, <1>17, <3>2
    <3>4. st = "done" /\ op = "write" => \A i \in 1 .. size : RegOf(d, i)' = data[i]
      BY <1>15, <1>16, <3>2
    <3>5. Carried(d)' <=> st = "done"
      BY <3>1 DEF Carried
    <3> QED
      BY <3>1, <3>3, <3>4, <3>5 DEF Landed
  <2> QED
    BY <2>1, <2>2
<1>27. WritesAsAsked
  <2> SUFFICES ASSUME regs' # regs
               PROVE  /\ ctx["app"].op = "write"
                      /\ regs' = Written(ctx["app"].peri, ctx["app"].off, ctx["app"].data)
    BY DEF WritesAsAsked
  <2>1. op = "write" /\ regs' = w
    BY <1>16
  <2>2. c = "app"
    BY <1>13, <2>1
  <2> QED
    BY <1>7, <1>14, <2>1, <2>2
<1>28. SpmiInv'
  BY <1>19, <1>21, <1>23, <1>24, <1>25, <1>26 DEF SpmiInv
<1> QED
  BY <1>1, <1>27, <1>28

\* The end of the wait for a status.
LEMMA SpmiPolls ==
    ASSUME SpmiInv, NEW c \in Contexts, PollStatus(c)
    PROVE  /\ SpmiInv' /\ regs' = regs /\ \A d \in Contexts : d # c => ctx'[d] = ctx[d]
           /\ Returning(c) /\ ~ctx[c].disturbed => AnswerIsTrue(c)
<1>1. SpmiKinds /\ CallShape(c) /\ Selected(c) /\ Landed(c)
  BY DEF SpmiInv
<1>2. PICK b \in SpmiBlocks : b = Through(c) /\ b = Block(ctx[c].op, chnlNum)
  BY <1>1, SpmiParts
<1>3. PICK st, more : st = port[b].status /\ more = (st = "done" /\ ctx[c].op = "read")
  OBVIOUS
<1>4. PICK pc, ret : /\ pc = IF more THEN "rdata" ELSE "idle"
                     /\ ret = CASE st # "done" -> "error" [] more -> ctx[c].ret [] OTHER -> "ok"
  OBVIOUS
<1>5. PICK r : r = [ctx[c] EXCEPT !.pc = pc, !.ret = ret]
  OBVIOUS
<1>6. /\ ctx[c].pc = "poll" /\ Runs(c) /\ st # "none" /\ ctx[c].buf = <<>>
      /\ arb' = arb /\ chnlTbl' = chnlTbl /\ chnlNum' = chnlNum /\ port' = port /\ regs' = regs
  BY <1>1, <1>2, <1>3 DEF PollStatus, CallShape
<1>7. ctx' = [ctx EXCEPT ![c] = r]
  BY <1>2, <1>3, <1>4, <1>5 DEF PollStatus, Advance
<1>8. /\ ctx[c] \in SpmiCtx /\ ctx[c].op \in SpmiOps /\ ctx[c].peri \in {0, 1} /\ ctx[c].off \in {0, 1}
      /\ ctx[c].size \in 1 .. 8 /\ ctx[c].data \in Seq(Nat)
  BY <1>1, SpmiParts
<1>9. pc \in {"rdata", "idle"} /\ (pc = "rdata" <=> more)
  BY <1>4
<1>10. /\ ret \in {"none", "ok", "error"}
       /\ pc = "idle" /\ ret = "ok" => st = "done" /\ ctx[c].op = "write"
  <2>1. CASE more
    <3>1. ret = ctx[c].ret /\ pc = "rdata"
      <4>1. st = "done"
        BY <1>3, <2>1
      <4> QED
        BY <1>4, <2>1, <4>1
    <3>2. ctx[c].ret \in {"none", "ok", "error"}
      BY <1>8 DEF SpmiCtx
    <3> QED
      BY <3>1, <3>2
  <2>2. CASE ~more /\ st = "done"
    <3>1. ret = "ok"
      BY <1>4, <2>2
    <3>2. ctx[c].op = "write"
      BY <1>3, <1>8, <2>2 DEF SpmiOps
    <3> QED
      BY <2>2, <3>1, <3>2
  <2>3. CASE ~more /\ st # "done"
    <3>1. ret = "error"
      BY <1>4, <2>3
    <3> QED
      BY <3>1
  <2> QED
    BY <2>1, <2>2, <2>3
<1>11. /\ r \in SpmiCtx /\ r.pc = pc /\ r.ret = ret /\ r.op = ctx[c].op /\ r.peri = ctx[c].peri
       /\ r.size = ctx[c].size /\ r.data = ctx[c].data /\ r.buf = ctx[c].buf /\ r.off = ctx[c].off
       /\ r.disturbed = ctx[c].disturbed
  BY <1>5, <1>8, <1>9, <1>10 DEF SpmiCtx
<1>12. ctx'[c] = r /\ \A d \in Contexts : d # c => ctx'[d] = ctx[d]
  BY <1>1, <1>7 DEF SpmiKinds
<1>13. SpmiKinds'
  <2>1. ctx' \in [Contexts -> SpmiCtx]
    BY <1>1, <1>7, <1>11 DEF SpmiKinds
  <2> QED
    BY <1>1, <1>6, <2>1 DEF SpmiKinds, V2
<1>14. CallGoesOn(c)
  BY <1>6, <1>11, <1>12 DEF CallGoesOn
<1>15. /\ Alone'
       /\ \A d \in Contexts : d # c =>
             /\ CallShape(d)' /\ Selected(d)' /\ Landed(d)'
             /\ V2 => ctx[d].pc = "idle"
             /\ ctx[d].disturbed \/ ctx[d].pc = "idle"
  BY ONLY <1>14, SpmiInv, CallLeaves, c \in Contexts
<1>16. CommandsOwned'
  <2>1. \A e \in SpmiBlocks : port[e].cmd.op = "none"
    BY <1>2, <1>3, <1>6, NoneWaits
  <2> QED
    BY <1>6, <2>1 DEF CommandsOwned
<1>17. DataIn'
  <2>1. CASE c = "app"
    BY <1>9, <1>11, <1>12, <2>1 DEF DataIn
  <2>2. CASE c # "app"
    <3>1. ctx'["app"] = ctx["app"]
      BY <1>12, <2>2 DEF Contexts
    <3> QED
      BY <1>6, <3>1 DEF SpmiInv, DataIn
  <2> QED
    BY <2>1, <2>2
<1>18. pc = "rdata" => ctx[c].op = "read" /\ st = "done"
  BY <1>3, <1>9
<1>19. CallShape(c)'
  <2>1. Len(<<>>) = 0
    OBVIOUS
  <2>2. /\ ctx'[c].buf = <<>> /\ ctx'[c].op = ctx[c].op /\ ctx'[c].size = ctx[c].size
        /\ ctx'[c].data = ctx[c].data /\ ctx'[c].pc = pc /\ chnlTbl' # <<>> /\ ctx[c].size > 0
    BY <1>1, <1>6, <1>8, <1>11, <1>12 DEF CallShape
  <2> QED
    BY <1>1, <1>9, <1>18, <2>1, <2>2 DEF CallShape
<1>20. Selected(c)'
  BY <1>1, <1>6, <1>11, <1>12 DEF Selected, V2
<1>21. Through(c)' = b
  BY <1>2, <1>6, <1>11, <1>12 DEF Through, V2
<1>22. \A i : RegOf(c, i)' = RegOf(c, i)
  BY <1>6, <1>11, <1>12 DEF RegOf
<1>23. Landed(c)'
  <2> SUFFICES ASSUME ~ctx[c].disturbed, pc = "rdata"
               PROVE  /\ \A i \in 1 .. ctx[c].size : port[b].rdata[i] = RegOf(c, i)
                      /\ \A i \in 1 .. Len(<<>>) : <<>>[i] = RegOf(c, i)
    BY <1>6, <1>9, <1>11, <1>12, <1>21, <1>22 DEF Landed, Carried
  <2>1. Carried(c) /\ ctx[c].op = "read"
    BY <1>2, <1>3, <1>6, <1>18 DEF Carried
  <2>2. \A i \in 1 .. ctx[c].size : port[b].rdata[i] = RegOf(c, i)
    BY <1>1, <1>2, <2>1 DEF Landed
  <2>3. 1 .. Len(<<>>) = {}
    OBVIOUS
  <2> QED
    BY <2>2, <2>3
<1>24. SpmiInv'
  BY <1>13, <1>15, <1>16, <1>17, <1>19, <1>20, <1>23, SpmiInvAfter
<1>25. ASSUME Returning(c), ~ctx[c].disturbed PROVE AnswerIsTrue(c)
  <2>1. st = "done" /\ ctx[c].op = "write"
    BY <1>10, <1>11, <1>12, <1>25 DEF Returning
  <2>2. PICK p \in Periph, o \in {0, 1}, size \in 1 .. 8, data \in Seq(Nat) :
            p = ctx[c].peri /\ o = ctx[c].off /\ size = ctx[c].size /\ data = ctx[c].data
    <3>1. Periph = {0, 1}
      BY SpmiAssumption DEF Periph
    <3> QED
      BY <1>8, <3>1
  <2>3. Len(data) = size
    BY <1>1, <2>1, <2>2 DEF CallShape
  <2>4. \A i \in 1 .. size : regs[<<p, o + i - 1>>] = data[i]
    <3>1. Carried(c)
      BY <1>2, <1>3, <1>6, <2>1 DEF Carried
    <3> QED
      BY <1>1, <1>25, <2>1, <2>2, <3>1 DEF Landed, RegOf
  <2>5. /\ Slice(p, o, size) \in Seq(Nat) /\ Len(Slice(p, o, size)) = size
        /\ \A i \in 1 .. size : Slice(p, o, size)[i] = regs[<<p, o + i - 1>>]
    BY ONLY <1>1, SliceIs, p \in Periph, o \in {0, 1}, size \in 1 .. 8
  <2>6. PICK z : z = Slice(p, o, size)
    OBVIOUS
  <2>7. z \in Seq(Nat) /\ Len(z) = Len(data) /\ \A i \in 1 .. Len(z) : z[i] = data[i]
    BY ONLY <2>3, <2>4, <2>5, <2>6
  <2>8. z = data
    BY ONLY <2>7, SeqEqual, data \in Seq(Nat)
  <2> QED
    BY <2>1, <2>2, <2>6, <2>8 DEF AnswerIsTrue
<1> QED
  BY <1>6, <1>12, <1>24, <1>25

\* One data register of an answer is fetched.
LEMMA SpmiFetches ==
    ASSUME SpmiInv, NEW c \in Contexts, ReadData(c)
    PROVE  /\ SpmiInv' /\ regs' = regs /\ \A d \in Contexts : d # c => ctx'[d] = ctx[d]
           /\ Returning(c) /\ ~ctx[c].disturbed => AnswerIsTrue(c)
<1>1. SpmiKinds /\ CallShape(c) /\ Selected(c) /\ Landed(c)
  BY DEF SpmiInv
<1>2. /\ ctx[c].pc = "rdata" /\ Runs(c)
      /\ arb' = arb /\ chnlTbl' = chnlTbl /\ chnlNum' = chnlNum /\ port' = port /\ regs' = regs
  BY DEF ReadData
<1>3. ctx[c].op = "read" /\ Len(ctx[c].buf) \in {0, 4} /\ Len(ctx[c].buf) < ctx[c].size
  BY <1>1, <1>2 DEF CallShape
<1>4. PICK p \in Periph, o \in {0, 1}, size \in 1 .. 8, buf \in Seq(Nat) :
          p = ctx[c].peri /\ o = ctx[c].off /\ size = ctx[c].size /\ buf = ctx[c].buf
  <2>1. Periph = {0, 1}
    BY SpmiAssumption DEF Periph
  <2> QED
    BY <1>1, <2>1, SpmiParts
<1>5. PICK b \in SpmiBlocks : b = Through(c) /\ b = Block(ctx[c].op, chnlNum)
  BY <1>1, SpmiParts
<1>6. PICK answer \in EightBytes : answer = port[b].rdata
  BY <1>1, SpmiPortParts
<1>7. answer \in Seq(Nat) /\ Len(answer) = 8
  BY DEF EightBytes
<1>8. PICK m \in {0, 4} : m = Len(buf) /\ m < size
  BY <1>3, <1>4
<1>9. PICK k \in {0, 1} : k = (Len(buf) + 3) \div 4 /\ m = 4 * k
  <2>1. (0 + 3) \div 4 = 0 /\ (4 + 3) \div 4 = 1
    OBVIOUS
  <2>2. CASE m = 0
    BY <1>8, <2>1, <2>2
  <2>3. CASE m = 4
    BY <1>8, <2>1, <2>3
  <2> QED
    BY <2>2, <2>3
<1>10. PICK word : word = Chunk(answer, k)
  OBVIOUS
<1>11. word \in Seq(Nat) /\ Len(word) = 4 /\ \A i \in 1 .. 4 : word[i] = answer[m + i]
  <2>1. Len(answer) <= 8 /\ m < Len(answer) /\ m \in Nat /\ m = 4 * k
    BY <1>7, <1>9
  <2>2. /\ Chunk(answer, k) \in Seq(Nat) /\ Len(Chunk(answer, k)) = Least(Len(answer) - m, 4)
        /\ \A i \in 1 .. Least(Len(answer) - m, 4) : Chunk(answer, k)[i] = answer[m + i]
    BY ONLY <1>7, <2>1, ChunkIs, k \in {0, 1}
  <2>3. Least(Len(answer) - m, 4) = 4
    BY ONLY <1>7, m \in {0, 4} DEF Least
  <2> QED
    BY ONLY <1>10, <2>2, <2>3
<1>12. PICK w \in 1 .. 4 : w = Least(4, size - 4 * k) /\ m + w <= size /\ (w = 4 \/ m + w = size)
  <2>1. size - 4 * k = size - m
    BY ONLY <1>9
  <2>2. CASE 4 < size - m
    BY <2>1, <2>2 DEF Least
  <2>3. CASE ~(4 < size - m)
    <3>1. Least(4, size - 4 * k) = size - m
      BY ONLY <2>1, <2>3 DEF Least
    <3>2. size - m \in 1 .. 4 /\ m + (size - m) = size
      BY <1>8, <2>3
    <3> QED
      BY <3>1, <3>2
  <2> QED
    BY <2>2, <2>3
<1>13. PICK part : part = SubSeq(word, 1, w)
  OBVIOUS
<1>14. part \in Seq(Nat) /\ Len(part) = w /\ \A i \in 1 .. w : part[i] = answer[m + i]
  <2>1. \A i \in 1 .. w : word[i] \in Nat
    <3>1. \A i \in 1 .. Len(word) : word[i] \in Nat
      BY <1>11, LenProperties
    <3> QED
      BY ONLY <1>11, <3>1, w \in 1 .. 4
  <2>2. 1 \in Int /\ w \in Int
    OBVIOUS
  <2>3. /\ SubSeq(word, 1, w) \in Seq(Nat)
        /\ Len(SubSeq(word, 1, w)) = IF 1 <= w THEN w - 1 + 1 ELSE 0
        /\ \A i \in 1 .. w - 1 + 1 : SubSeq(word, 1, w)[i] = word[1 + i - 1]
    BY ONLY <2>1, <2>2, SubSeqProperties
  <2>4. 1 <= w /\ w - 1 + 1 = w /\ \A i \in 1 .. w : 1 + i - 1 = i /\ i \in 1 .. 4
    OBVIOUS
  <2> QED
    BY ONLY <1>11, <1>13, <2>3, <2>4
<1>15. PICK new : new = buf \o part
  OBVIOUS
<1>16. /\ new \in Seq(Nat) /\ Len(new) = m + w
       /\ \A i \in 1 .. m : new[i] = buf[i]
       /\ \A i \in m + 1 .. m + w : new[i] = answer[i]
  <2>1. /\ buf \o part \in Seq(Nat) /\ Len(buf \o part) = Len(buf) + Len(part)
        /\ \A i \in 1 .. Len(buf) : (buf \o part)[i] = buf[i]
        /\ \A i \in Len(buf) + 1 .. Len(buf) + Len(part) : (buf \o part)[i] = part[i - Len(buf)]
    BY ONLY <1>14, Joined, buf \in Seq(Nat)
  <2>2. /\ new \in Seq(Nat) /\ Len(new) = m + w
        /\ \A i \in 1 .. m : new[i] = buf[i]
        /\ \A i \in m + 1 .. m + w : new[i] = part[i - m]
    BY ONLY <1>8, <1>14, <1>15, <2>1
  <2>3. ASSUME NEW i \in m + 1 .. m + w PROVE new[i] = answer[i]
    <3>1. i - m \in 1 .. w /\ m + (i - m) = i
      BY ONLY m \in {0, 4}, w \in 1 .. 4, i \in m + 1 .. m + w
    <3> QED
      BY ONLY <1>14, <2>2, <3>1, i \in m + 1 .. m + w
  <2> QED
    BY ONLY <2>2, <2>3
<1>17. PICK last \in BOOLEAN : last = (k + 1 = ReadWords(size))
  OBVIOUS
<1>18. IF last THEN m + w = size ELSE m = 0 /\ w = 4 /\ m + w < size
  <2>1. ReadWords(size) = IF size <= 4 THEN 1 ELSE 2
    BY DEF ReadWords
  <2>2. CASE k = 0
    <3>1. k + 1 = ReadWords(size) <=> size <= 4
      BY <2>1, <2>2
    <3>2. last <=> size <= 4
      BY <1>17, <3>1
    <3> QED
      BY <1>9, <1>12, <2>2, <3>2
  <2>3. CASE k = 1
    <3>1. last
      <4>1. k + 1 = ReadWords(size)
        BY <1>8, <1>9, <2>1, <2>3
      <4> QED
        BY <1>17, <4>1
    <3>2. m + w = size
      BY <1>8, <1>9, <1>12, <2>3
    <3> QED
      BY <3>1, <3>2
  <2> QED
    BY <2>2, <2>3
<1>19. PICK pc, ret : pc = (IF last THEN "idle" ELSE ctx[c].pc) /\ ret = (IF last THEN "ok" ELSE ctx[c].ret)
  OBVIOUS
<1>20. PICK r : r = [ctx[c] EXCEPT !.buf = new, !.pc = pc, !.ret = ret]
  OBVIOUS
<1>21. ctx' = [ctx EXCEPT ![c] = r]
  <2>1. Block("read", chnlNum) = b
    BY <1>3, <1>5
  <2>2. Chunk(port[Block("read", chnlNum)].rdata, (Len(ctx[c].buf) + 3) \div 4) = word
    BY ONLY <1>4, <1>6, <1>9, <1>10, <2>1
  <2>3. (Len(ctx[c].buf) + 3) \div 4 = k
    BY ONLY <1>4, <1>9
  <2>4. ctx' = [ctx EXCEPT ![c] = [ctx[c] EXCEPT !.buf = ctx[c].buf \o SubSeq(word, 1, Least(4, ctx[c].size - 4 * k)),
                                    !.pc = IF k + 1 = ReadWords(ctx[c].size) THEN "idle" ELSE ctx[c].pc,
                                    !.ret = IF k + 1 = ReadWords(ctx[c].size) THEN "ok" ELSE ctx[c].ret]]
    BY <2>2, <2>3 DEF ReadData, Advance
  <2>5. ctx[c].buf \o SubSeq(word, 1, Least(4, ctx[c].size - 4 * k)) = new
    BY ONLY <1>4, <1>12, <1>13, <1>15
  <2>6. /\ (IF k + 1 = ReadWords(ctx[c].size) THEN "idle" ELSE ctx[c].pc) = pc
        /\ (IF k + 1 = ReadWords(ctx[c].size) THEN "ok" ELSE ctx[c].ret) = ret
    BY ONLY <1>4, <1>17, <1>19
  <2> QED
    BY ONLY <1>20, <2>4, <2>5, <2>6
<1>22. ctx[c] \in SpmiCtx
  BY <1>1, SpmiParts
<1>23. pc \in {"idle", "rdata"} /\ ret \in {"none", "ok", "error"} /\ (pc = "idle" <=> last)
  <2>1. ctx[c].ret \in {"none", "ok", "error"}
    BY <1>22 DEF SpmiCtx
  <2> QED
    BY <1>2, <1>19, <2>1
<1>24. /\ r \in SpmiCtx /\ r.pc = pc /\ r.ret = ret /\ r.op = ctx[c].op /\ r.peri = ctx[c].peri
       /\ r.size = ctx[c].size /\ r.data = ctx[c].data /\ r.buf = new /\ r.off = ctx[c].off
       /\ r.disturbed = ctx[c].disturbed
  <2>1. new \in Seq(Nat)
    BY <1>16
  <2> QED
    BY <1>20, <1>22, <1>23, <2>1 DEF SpmiCtx
<1>25. ctx'[c] = r /\ \A d \in Contexts : d # c => ctx'[d] = ctx[d]
  BY <1>1, <1>21 DEF SpmiKinds
<1>26. SpmiKinds'
  <2>1. ctx' \in [Contexts -> SpmiCtx]
    BY <1>1, <1>21, <1>24 DEF SpmiKinds
  <2> QED
    BY <1>1, <1>2, <2>1 DEF SpmiKinds, V2
<1>27. CallGoesOn(c)
  BY <1>2, <1>24, <1>25 DEF CallGoesOn
<1>28. /\ Alone'
       /\ \A d \in Contexts : d # c =>
             /\ CallShape(d)' /\ Selected(d)' /\ Landed(d)'
             /\ V2 => ctx[d].pc = "idle"
             /\ ctx[d].disturbed \/ ctx[d].pc = "idle"
  BY ONLY <1>27, SpmiInv, CallLeaves, c \in Contexts
<1>29. CommandsOwned'
  <2>1. \A e \in SpmiBlocks : port[e].cmd.op = "none"
    BY <1>2, NoneWaits
  <2> QED
    BY <1>2, <2>1 DEF CommandsOwned
<1>30. DataIn'
  <2>1. CASE c = "app"
    BY <1>23, <1>24, <1>25, <2>1 DEF DataIn
  <2>2. CASE c # "app"
    <3>1. ctx'["app"] = ctx["app"]
      BY <1>25, <2>2 DEF Contexts
    <3> QED
      BY <1>2, <3>1 DEF SpmiInv, DataIn
  <2> QED
    BY <2>1, <2>2
<1>31. CallShape(c)'
  <2>1. pc = "rdata" => Len(new) = 4 /\ Len(new) < size
    BY <1>16, <1>18, <1>23
  <2>2. /\ ctx'[c].buf = new /\ ctx'[c].op = "read" /\ ctx'[c].size = size /\ ctx'[c].pc = pc
        /\ chnlTbl' # <<>>
    BY <1>1, <1>2, <1>3, <1>4, <1>24, <1>25 DEF CallShape
  <2> QED
    BY <1>23, <2>1, <2>2 DEF CallShape
<1>32. Selected(c)'
  BY <1>1, <1>2, <1>24, <1>25 DEF Selected, V2
<1>33. Through(c)' = b
  BY <1>2, <1>5, <1>24, <1>25 DEF Through, V2
<1>34. \A i : RegOf(c, i)' = RegOf(c, i)
  BY <1>2, <1>24, <1>25 DEF RegOf
<1>35. ~ctx[c].disturbed => \A i \in 1 .. size : answer[i] = RegOf(c, i)
  BY <1>1, <1>2, <1>3, <1>4, <1>5, <1>6 DEF Landed
<1>36. ~ctx[c].disturbed => \A i \in 1 .. m + w : new[i] = RegOf(c, i)
  <2> SUFFICES ASSUME ~ctx[c].disturbed, NEW i \in 1 .. m + w PROVE new[i] = RegOf(c, i)
    OBVIOUS
  <2>1. CASE i <= m
    <3>1. i \in 1 .. Len(buf)
      BY ONLY <1>8, <2>1, m \in {0, 4}, w \in 1 .. 4, i \in 1 .. m + w
    <3>2. buf[i] = RegOf(c, i)
      BY <1>1, <1>2, <1>4, <3>1 DEF Landed
    <3> QED
      BY ONLY <1>8, <1>16, <3>1, <3>2
  <2>2. CASE ~(i <= m)
    <3>1. i \in m + 1 .. m + w /\ i \in 1 .. size
      BY ONLY <1>12, <2>2, m \in {0, 4}, w \in 1 .. 4, i \in 1 .. m + w, size \in 1 .. 8
    <3> QED
      BY <1>16, <1>35, <3>1
  <2> QED
    BY <2>1, <2>2
<1>37. Landed(c)'
  <2>1. /\ ctx'[c].pc = pc /\ ctx'[c].size = size /\ ctx'[c].buf = new
        /\ ctx'[c].disturbed = ctx[c].disturbed /\ port'[b].rdata = answer
    BY <1>2, <1>4, <1>6, <1>24, <1>25
  <2>2. pc # "poll" /\ Len(new) = m + w
    BY <1>16, <1>23
  <2> QED
    BY <1>33, <1>34, <1>35, <1>36, <2>1, <2>2 DEF Landed, Carried
<1>38. SpmiInv'
  BY <1>26, <1>28, <1>29, <1>30, <1>31, <1>32, <1>37, SpmiInvAfter
<1>39. ASSUME Returning(c), ~ctx[c].disturbed PROVE AnswerIsTrue(c)
  <2>1. m + w = size
    BY <1>18, <1>23, <1>24, <1>25, <1>39 DEF Returning
  <2>2. \A i \in 1 .. size : new[i] = regs[<<p, o + i - 1>>]
    BY <1>4, <1>36, <1>39, <2>1 DEF RegOf
  <2>3. /\ Slice(p, o, size) \in Seq(Nat) /\ Len(Slice(p, o, size)) = size
        /\ \A i \in 1 .. size : Slice(p, o, size)[i] = regs[<<p, o + i - 1>>]
    BY ONLY <1>1, SliceIs, p \in Periph, o \in {0, 1}, size \in 1 .. 8
  <2>4. PICK z : z = Slice(p, o, size)
    OBVIOUS
  <2>5. /\ z \in Seq(Nat) /\ new \in Seq(Nat) /\ Len(new) = Len(z)
        /\ \A i \in 1 .. Len(new) : new[i] = z[i]
    BY ONLY <1>16, <2>1, <2>2, <2>3, <2>4
  <2>6. new = z
    BY ONLY <2>5, SeqEqual
  <2> QED
    BY <1>3, <1>4, <1>24, <1>25, <2>4, <2>6 DEF AnswerIsTrue
<1> QED
  BY <1>2, <1>25, <1>38, <1>39

\* Every step of the arbiter keeps the invariant and serves as asked.
LEMMA SpmiKept ==
    ASSUME SpmiInv, 2 \notin InterruptedOn, [SpmiNext]_spmiVars
    PROVE  SpmiInv' /\ AnswersTrue /\ (WritesAsAsked \/ UNCHANGED spmiVars)
<1>1. CASE SpmiSetUp
  <2>1. regs' = regs /\ ctx' = ctx
    BY <1>1 DEF SpmiSetUp
  <2> QED
    BY <1>1, <2>1, SpmiSetsUp DEF AnswersTrue, Returning, WritesAsAsked
<1>2. CASE Execute
  <2>1. SpmiInv' /\ ctx' = ctx /\ WritesAsAsked
    BY <1>2, SpmiExecutes
  <2> QED
    BY <2>1 DEF AnswersTrue, Returning
<1>3. ASSUME NEW c \in Contexts, CallSpmi(c) PROVE SpmiInv' /\ AnswersTrue /\ WritesAsAsked
  <2>1. SpmiInv' /\ regs' = regs /\ \A d \in Contexts : ctx'[d].pc = "idle" => ctx[d].pc = "idle"
    BY <1>3, SpmiCalled
  <2> QED
    BY <2>1 DEF AnswersTrue, Returning, WritesAsAsked
<1>4. ASSUME NEW c \in Contexts, SpmiStep(c) PROVE SpmiInv' /\ AnswersTrue /\ WritesAsAsked
  <2>1. /\ SpmiInv' /\ regs' = regs /\ \A d \in Contexts : d # c => ctx'[d] = ctx[d]
        /\ Returning(c) /\ ~ctx[c].disturbed => AnswerIsTrue(c)
    <3>1. CASE SelectChannel(c)
      BY <3>1, SpmiSelects DEF Returning
    <3>2. CASE WriteData(c)
      BY <3>2, SpmiPutsData DEF Returning
    <3>3. CASE WriteCommand(c)
      BY <3>3, SpmiStarts DEF Returning
    <3>4. CASE PollStatus(c)
      BY ONLY <3>4, SpmiInv, c \in Contexts, SpmiPolls
    <3>5. CASE ReadData(c)
      BY ONLY <3>5, SpmiInv, c \in Contexts, SpmiFetches
    <3> QED
      BY <1>4, <3>1, <3>2, <3>3, <3>4, <3>5 DEF SpmiStep
  <2>2. AnswersTrue
    <3> SUFFICES ASSUME NEW d \in Contexts, Returning(d), ~ctx[d].disturbed PROVE AnswerIsTrue(d)
      BY DEF AnswersTrue
    <3>1. d = c
      BY <2>1 DEF Returning
    <3> QED
      BY <2>1, <3>1
  <2> QED
    BY <2>1, <2>2 DEF WritesAsAsked
<1>5. CASE UNCHANGED spmiVars
  <2>1. /\ arb' = arb /\ chnlTbl' = chnlTbl /\ chnlNum' = chnlNum /\ port' = port /\ regs' = regs /\ ctx' = ctx
    BY <1>5 DEF spmiVars
  <2>2. SpmiKinds'
    BY <2>1 DEF SpmiInv, SpmiKinds, V2
  <2>3. (V2' <=> V2) /\ \A c \in Contexts : Through(c)' = Through(c) /\ Command(c)' = Command(c)
    BY <2>1 DEF V2, Through, Command
  <2>4. Alone' /\ DataIn'
    BY <2>1, <2>3 DEF SpmiInv, Alone, DataIn
  <2>5. \A c \in Contexts, b \in SpmiBlocks : Issued(c, b) => Issued(c, b)'
    BY <2>1, <2>3 DEF Issued
  <2>6. CommandsOwned'
    BY <2>1, <2>5 DEF SpmiInv, CommandsOwned
  <2>7. ASSUME NEW c \in Contexts PROVE CallShape(c)' /\ Selected(c)' /\ Landed(c)'
    <3>1. CallShape(c) /\ Selected(c) /\ Landed(c)
      BY DEF SpmiInv
    <3>2. \A i : RegOf(c, i)' = RegOf(c, i)
      BY <2>1 DEF RegOf
    <3>3. Carried(c)' <=> Carried(c)
      BY <2>1, <2>3 DEF Carried
    <3>4. Through(c)' = Through(c)
      BY <2>3
    <3>5. Landed(c)'
      BY <2>1, <3>1, <3>2, <3>3, <3>4 DEF Landed
    <3> QED
      BY <2>1, <2>3, <3>1, <3>5 DEF CallShape, Selected
  <2>8. AnswersTrue
    BY <2>1 DEF AnswersTrue, Returning
  <2> QED
    BY <1>5, <2>2, <2>4, <2>6, <2>7, <2>8 DEF SpmiInv
<1> QED
  BY <1>1, <1>2, <1>3, <1>4, <1>5 DEF SpmiNext

LEMMA SpmiStepOrRest == [PlatformNext]_platformVars => [SpmiNext]_spmiVars
BY DEF PlatformNext, platformVars, SpmiRests, BusesRest

\* On an arbiter of version 1, where the key poll cuts into other calls, and on
\* one of version 2 where it does not: a call that was not cut into returns
\* what the registers it named hold, or has written what it was given, and
\* registers change only as the write in progress says
\* (SpmiDxe, pmic_arb_read_cmd and pmic_arb_write_cmd).
THEOREM SpmiServesHolds ==
    ASSUME 2 \notin InterruptedOn
    PROVE  PlatformSpec => SpmiServes
<1>1. PlatformInit => SpmiInv
  BY SpmiBegins DEF PlatformInit
<1>2. SpmiInv /\ [PlatformNext]_platformVars => SpmiInv'
  BY SpmiStepOrRest, SpmiKept
<1>3. SpmiInv /\ [PlatformNext]_platformVars => [AnswersTrue /\ WritesAsAsked]_spmiVars
  BY SpmiStepOrRest, SpmiKept
<1> QED
  BY <1>1, <1>2, <1>3, PTL DEF PlatformSpec, SpmiServes
=============================================================================
