-------------------------- MODULE EditHistory_proofs --------------------------
(***************************************************************************)
(* Theorems about EditHistory, for any texts and any limit of the stack.   *)
(*                                                                         *)
(* The pair of a state names its text: there is a function from pairs to   *)
(* texts that agrees with every batch of both stacks, with the state the   *)
(* document is in and with the saved one.  It stays one because a recorded *)
(* edit gets a pair that nothing remembers: the tip of the newest branch   *)
(* is the youngest pair on it, and a new branch has a number of its own.   *)
(***************************************************************************)
EXTENDS EditHistory, SequenceTheorems, TLAPS

Pairs == Nat \X Nat

HistoryRecord ==
  [undo : Seq(Batch), redo : Seq(Batch), at : Pairs, next : Nat, saved : Pairs,
   ended : BOOLEAN]

Elements(stack) == {stack[i] : i \in 1 .. Len(stack)}

\* Undoing one batch after the other, or redoing them, is seamless.
UndoChain(stack) ==
  \A i \in 1 .. Len(stack) - 1 : stack[i].after = stack[i + 1].before

RedoChain(stack) ==
  \A i \in 1 .. Len(stack) - 1 : stack[i].before = stack[i + 1].after

\* The youngest state on its branch.
Tip(h) == IF h.redo = <<>> THEN h.at ELSE h.redo[1].after

Older(pair, h) ==
  pair[2] < h.next /\ (pair[2] = Tip(h)[2] => pair[1] <= Tip(h)[1])

Names(f, batch) == f[batch.before] = batch.from /\ f[batch.after] = batch.to

Known(h, f, batch) ==
  Names(f, batch) /\ Older(batch.before, h) /\ Older(batch.after, h)

Linked(h) ==
  /\ UndoChain(h.undo) /\ RedoChain(h.redo)
  /\ h.undo # <<>> => Top(h.undo).after = h.at
  /\ h.redo # <<>> => Top(h.redo).before = h.at

Sound(h, f) ==
  /\ h \in HistoryRecord
  /\ Linked(h)
  /\ \A batch \in Elements(h.undo) \cup Elements(h.redo) : Known(h, f, batch)
  /\ Older(h.at, h) /\ Older(h.saved, h)

PairsNameTexts ==
  \E f \in [Pairs -> Texts] :
    Sound(hist, f) /\ f[hist.at] = text /\ f[hist.saved] = savedText

-------------------------------------------------------------------------------
\* The stacks.

LEMMA TopType ==
  ASSUME NEW s \in Seq(Batch), s # <<>>
  PROVE  Top(s) \in Batch /\ Top(s) \in Elements(s) /\ Len(s) \in Nat /\ Len(s) >= 1
BY DEF Top, Elements

LEMMA PoppedStack ==
  ASSUME NEW s \in Seq(Batch), s # <<>>
  PROVE  /\ Popped(s) \in Seq(Batch)
         /\ Elements(Popped(s)) \subseteq Elements(s)
         /\ Popped(s) # <<>> => Popped(s)[1] = s[1]
         /\ Popped(s) = <<>> => Top(s) = s[1]
         /\ UndoChain(s) => /\ UndoChain(Popped(s))
                            /\ Popped(s) # <<>> => Top(Popped(s)).after = Top(s).before
         /\ RedoChain(s) => /\ RedoChain(Popped(s))
                            /\ Popped(s) # <<>> => Top(Popped(s)).before = Top(s).after
<1> DEFINE p == Popped(s)
<1>1. Len(s) \in Nat /\ Len(s) >= 1 BY DEF Top
<1>2. p \in Seq(Batch) /\ Len(p) = Len(s) - 1 /\ \A i \in 1 .. Len(p) : p[i] = s[i]
  <2>1. \A i \in 1 .. Len(s) - 1 : s[i] \in Batch BY <1>1
  <2>2. p = SubSeq(s, 1, Len(s) - 1) BY DEF Popped
  <2> HIDE DEF p
  <2>3. /\ p \in Seq(Batch)
        /\ Len(p) = IF 1 <= Len(s) - 1 THEN Len(s) - 1 - 1 + 1 ELSE 0
        /\ \A i \in 1 .. Len(s) - 1 - 1 + 1 : p[i] = s[1 + i - 1]
    <3> DEFINE n == Len(s) - 1
    <3>1. n \in Int /\ 1 \in Int /\ \A i \in 1 .. n : s[i] \in Batch BY <1>1, <2>1
    <3> HIDE DEF n
    <3>2. /\ SubSeq(s, 1, n) \in Seq(Batch)
          /\ Len(SubSeq(s, 1, n)) = IF 1 <= n THEN n - 1 + 1 ELSE 0
          /\ \A i \in 1 .. n - 1 + 1 : SubSeq(s, 1, n)[i] = s[1 + i - 1]
      BY <3>1, SubSeqProperties
    <3> QED BY <2>2, <3>2 DEF n
  <2>4. Len(p) = Len(s) - 1
    <3> DEFINE n == Len(s)
           k == Len(p)
    <3>1. n \in Nat /\ n >= 1 /\ k = IF 1 <= n - 1 THEN n - 1 - 1 + 1 ELSE 0
      BY <1>1, <2>3
    <3> HIDE DEF n, k
    <3>2. k = n - 1 BY <3>1
    <3> QED BY <3>2 DEF n, k
  <2>5. ASSUME NEW i \in 1 .. Len(p) PROVE p[i] = s[i]
    <3>1. i \in 1 .. Len(s) - 1 - 1 + 1 /\ 1 + i - 1 = i BY <1>1, <2>4
    <3> QED BY <2>3, <3>1
  <2> QED BY <2>3, <2>4, <2>5
<1>3. p # <<>> => Len(p) >= 1 BY <1>1, <1>2
<1>4. p = <<>> => Len(s) = 1 BY <1>1, <1>2
<1> HIDE DEF p
<1>5. Elements(p) \subseteq Elements(s) BY <1>1, <1>2 DEF Elements
<1>6. UndoChain(s) => UndoChain(p) BY <1>1, <1>2 DEF UndoChain
<1>7. RedoChain(s) => RedoChain(p) BY <1>1, <1>2 DEF RedoChain
<1>8. p # <<>> => Top(p) = s[Len(s) - 1] /\ Len(s) - 1 \in 1 .. Len(s) - 1
  BY <1>1, <1>2, <1>3 DEF Top
<1>9. UndoChain(s) /\ p # <<>> => Top(p).after = Top(s).before
  BY <1>1, <1>8 DEF UndoChain, Top
<1>10. RedoChain(s) /\ p # <<>> => Top(p).before = Top(s).after
  BY <1>1, <1>8 DEF RedoChain, Top
<1> QED BY <1>2, <1>3, <1>4, <1>5, <1>6, <1>7, <1>9, <1>10 DEF p, Top

LEMMA AppendedStack ==
  ASSUME NEW s \in Seq(Batch), NEW b \in Batch
  PROVE  /\ Append(s, b) \in Seq(Batch) /\ Append(s, b) # <<>>
         /\ Top(Append(s, b)) = b
         /\ Popped(Append(s, b)) = s
         /\ Elements(Append(s, b)) = Elements(s) \cup {b}
         /\ Append(s, b)[1] = IF s = <<>> THEN b ELSE s[1]
         /\ UndoChain(s) /\ (s # <<>> => Top(s).after = b.before)
              => UndoChain(Append(s, b))
         /\ RedoChain(s) /\ (s # <<>> => Top(s).before = b.after)
              => RedoChain(Append(s, b))
<1> DEFINE a == Append(s, b)
<1>1. Len(s) \in Nat /\ (s # <<>> <=> Len(s) >= 1) OBVIOUS
<1>2. /\ a \in Seq(Batch) /\ Len(a) = Len(s) + 1 /\ a[Len(s) + 1] = b
      /\ \A i \in 1 .. Len(s) : a[i] = s[i]
  OBVIOUS
<1>3. a # <<>> BY AppendProperties
<1>4. Popped(a) = s BY <1>1, <1>2 DEF Popped
<1> HIDE DEF a
<1>5. Top(a) = b BY <1>1, <1>2 DEF Top
<1>6. Elements(a) = Elements(s) \cup {b} BY <1>1, <1>2 DEF Elements
<1>7. a[1] = IF s = <<>> THEN b ELSE s[1] BY <1>1, <1>2
<1>8. ASSUME UndoChain(s), s # <<>> => Top(s).after = b.before PROVE UndoChain(a)
  <2> SUFFICES ASSUME NEW i \in 1 .. Len(a) - 1 PROVE a[i].after = a[i + 1].before
    BY DEF UndoChain
  <2>1. CASE i = Len(s) BY <1>1, <1>2, <1>8, <2>1 DEF Top
  <2>2. CASE i < Len(s) BY <1>1, <1>2, <1>8, <2>2 DEF UndoChain
  <2> QED BY <1>1, <1>2, <2>1, <2>2
<1>9. ASSUME RedoChain(s), s # <<>> => Top(s).before = b.after PROVE RedoChain(a)
  <2> SUFFICES ASSUME NEW i \in 1 .. Len(a) - 1 PROVE a[i].before = a[i + 1].after
    BY DEF RedoChain
  <2>1. CASE i = Len(s) BY <1>1, <1>2, <1>9, <2>1 DEF Top
  <2>2. CASE i < Len(s) BY <1>1, <1>2, <1>9, <2>2 DEF RedoChain
  <2> QED BY <1>1, <1>2, <2>1, <2>2
<1> QED BY <1>2, <1>3, <1>4, <1>5, <1>6, <1>7, <1>8, <1>9 DEF a

LEMMA DroppedStack ==
  ASSUME NEW s \in Seq(Batch), s # <<>>
  PROVE  /\ Tail(s) \in Seq(Batch)
         /\ Elements(Tail(s)) \subseteq Elements(s)
         /\ Tail(s) # <<>> => Top(Tail(s)) = Top(s)
         /\ UndoChain(s) => UndoChain(Tail(s))
<1> DEFINE d == Tail(s)
<1>1. Len(s) \in Nat /\ Len(s) >= 1 OBVIOUS
<1>2. d \in Seq(Batch) /\ Len(d) = Len(s) - 1 /\ \A i \in 1 .. Len(d) : d[i] = s[i + 1]
  BY <1>1
<1>3. d # <<>> => Len(d) >= 1 BY <1>1, <1>2
<1> HIDE DEF d
<1>4. Elements(d) \subseteq Elements(s) BY <1>1, <1>2 DEF Elements
<1>5. d # <<>> => Top(d) = Top(s) BY <1>1, <1>2, <1>3 DEF Top
<1>6. UndoChain(s) => UndoChain(d) BY <1>1, <1>2 DEF UndoChain
<1> QED BY <1>2, <1>4, <1>5, <1>6 DEF d

\* The undo stack forgets at most its oldest batch.
LEMMA PushedStack ==
  ASSUME NEW s \in Seq(Batch), NEW b \in Batch, UndoChain(s),
         s # <<>> => Top(s).after = b.before
  PROVE  /\ PushUndo(s, b) \in Seq(Batch) /\ PushUndo(s, b) # <<>>
         /\ Top(PushUndo(s, b)) = b
         /\ Elements(PushUndo(s, b)) \subseteq Elements(s) \cup {b}
         /\ UndoChain(PushUndo(s, b))
<1>1. CASE Len(s) < MaxCheckpoints BY <1>1, AppendedStack DEF PushUndo
<1>2. CASE ~(Len(s) < MaxCheckpoints)
  <2>1. s # <<>>
    <3>1. Len(<<>>) = 0 OBVIOUS
    <3>2. MaxCheckpoints > 0 BY CheckpointsAssumption
    <3> QED BY <1>2, <3>1, <3>2
  <2>2. PushUndo(s, b) = Append(Tail(s), b) BY <1>2 DEF PushUndo
  <2> DEFINE d == Tail(s)
  <2>3. /\ d \in Seq(Batch) /\ Elements(d) \subseteq Elements(s) /\ UndoChain(d)
        /\ d # <<>> => Top(d).after = b.before
    BY <2>1, DroppedStack
  <2> HIDE DEF d
  <2>4. PushUndo(s, b) = Append(d, b) BY <2>2 DEF d
  <2>5. /\ Append(d, b) \in Seq(Batch) /\ Append(d, b) # <<>>
        /\ Top(Append(d, b)) = b
        /\ Elements(Append(d, b)) = Elements(d) \cup {b}
        /\ UndoChain(Append(d, b))
    BY <2>3, AppendedStack
  <2> QED BY <2>3, <2>4, <2>5
<1> QED BY <1>1, <1>2

-------------------------------------------------------------------------------
\* Moving a batch from one stack to the other.

LEMMA OlderSame ==
  ASSUME NEW h, NEW g, g.next = h.next, Tip(g) = Tip(h), NEW pair, Older(pair, h)
  PROVE  Older(pair, g)
BY DEF Older

LEMMA BatchPairs ==
  ASSUME NEW b \in Batch
  PROVE  b.before \in Pairs /\ b.after \in Pairs /\ b.from \in Texts /\ b.to \in Texts
BY DEF Batch, Pairs

\* _pop_undo() and _restore_redo()
LEMMA MovedToRedo ==
  ASSUME NEW f, NEW h, NEW g, Sound(h, f), h.undo # <<>>,
         g.undo = Popped(h.undo), g.redo = Append(h.redo, Top(h.undo)),
         g.at = Top(h.undo).before, g.next = h.next, g.saved = h.saved,
         g \in [undo : {g.undo}, redo : {g.redo}, at : {g.at}, next : {g.next},
                saved : {g.saved}, ended : BOOLEAN]
  PROVE  Sound(g, f)
<1> DEFINE b == Top(h.undo)
<1>1. h.undo \in Seq(Batch) /\ h.redo \in Seq(Batch) /\ Linked(h)
  BY DEF Sound, HistoryRecord
<1>2. b \in Batch /\ b \in Elements(h.undo) /\ b.after = h.at
  BY <1>1, TopType DEF Linked
<1>3. g \in HistoryRecord
  <2>1. g.undo \in Seq(Batch) BY <1>1, PoppedStack
  <2>2. g.redo \in Seq(Batch) BY <1>1, <1>2, AppendedStack
  <2>3. g.at \in Pairs BY <1>2, BatchPairs
  <2>4. g.next \in Nat /\ g.saved \in Pairs BY DEF Sound, HistoryRecord
  <2> QED BY <2>1, <2>2, <2>3, <2>4 DEF HistoryRecord
<1>4. Linked(g)
  <2>1. UndoChain(g.undo) /\ (g.undo # <<>> => Top(g.undo).after = g.at)
    BY <1>1, PoppedStack DEF Linked
  <2>2. h.redo # <<>> => Top(h.redo).before = b.after BY <1>1, <1>2 DEF Linked
  <2>3. RedoChain(g.redo) /\ Top(g.redo) = b
    BY <1>1, <1>2, <2>2, AppendedStack DEF Linked
  <2> QED BY <2>1, <2>3 DEF Linked
<1>5. Tip(g) = Tip(h)
  <2>1. g.redo # <<>> /\ g.redo[1] = IF h.redo = <<>> THEN b ELSE h.redo[1]
    BY <1>1, <1>2, AppendedStack
  <2> QED BY <1>2, <2>1 DEF Tip
<1>6. Elements(g.undo) \cup Elements(g.redo) \subseteq Elements(h.undo) \cup Elements(h.redo)
  BY <1>1, <1>2, PoppedStack, AppendedStack
<1>7. \A c \in Elements(g.undo) \cup Elements(g.redo) : Known(g, f, c)
  BY <1>5, <1>6, OlderSame DEF Sound, Known
<1>8. Older(g.at, g) /\ Older(g.saved, g)
  BY <1>2, <1>5, OlderSame DEF Sound, Known
<1> QED BY <1>3, <1>4, <1>7, <1>8 DEF Sound

\* _pop_redo() and _restore_undo()
LEMMA MovedToUndo ==
  ASSUME NEW f, NEW h, NEW g, Sound(h, f), h.redo # <<>>,
         g.redo = Popped(h.redo), g.undo = PushUndo(h.undo, Top(h.redo)),
         g.at = Top(h.redo).after, g.next = h.next, g.saved = h.saved,
         g \in [undo : {g.undo}, redo : {g.redo}, at : {g.at}, next : {g.next},
                saved : {g.saved}, ended : BOOLEAN]
  PROVE  Sound(g, f)
<1> DEFINE b == Top(h.redo)
<1>1. h.undo \in Seq(Batch) /\ h.redo \in Seq(Batch) /\ Linked(h)
  BY DEF Sound, HistoryRecord
<1>2. b \in Batch /\ b \in Elements(h.redo) /\ b.before = h.at
  BY <1>1, TopType DEF Linked
<1>3. /\ g.undo \in Seq(Batch) /\ g.undo # <<>> /\ Top(g.undo) = b
      /\ Elements(g.undo) \subseteq Elements(h.undo) \cup {b}
      /\ UndoChain(g.undo)
  BY <1>1, <1>2, PushedStack DEF Linked
<1>4. g \in HistoryRecord
  BY <1>1, <1>2, <1>3, PoppedStack, BatchPairs DEF Sound, HistoryRecord
<1>5. Linked(g)
  <2>1. RedoChain(g.redo) /\ (g.redo # <<>> => Top(g.redo).before = g.at)
    BY <1>1, PoppedStack DEF Linked
  <2> QED BY <1>3, <2>1 DEF Linked
<1>6. Tip(g) = Tip(h)
  BY <1>1, PoppedStack DEF Tip
<1>7. Elements(g.undo) \cup Elements(g.redo) \subseteq Elements(h.undo) \cup Elements(h.redo)
  BY <1>1, <1>2, <1>3, PoppedStack
<1>8. \A c \in Elements(g.undo) \cup Elements(g.redo) : Known(g, f, c)
  BY <1>6, <1>7, OlderSame DEF Sound, Known
<1>9. Older(g.at, g) /\ Older(g.saved, g)
  BY <1>2, <1>6, OlderSame DEF Sound, Known
<1> QED BY <1>4, <1>5, <1>8, <1>9 DEF Sound

-------------------------------------------------------------------------------
\* A recorded edit.

LEMMA PairOf ==
  ASSUME NEW pair \in Pairs
  PROVE  pair[1] \in Nat /\ pair[2] \in Nat /\ pair = <<pair[1], pair[2]>>
BY DEF Pairs

After(h) == <<h.at[1] + 1, BranchOfRecord(h)>>

\* Its pair is remembered nowhere, and is the new tip.
LEMMA AfterIsNew ==
  ASSUME NEW h \in HistoryRecord, Older(h.at, h), NEW g, g.redo = <<>>,
         g.at = After(h), g.next = NextOfRecord(h)
  PROVE  /\ After(h) \in Pairs /\ Older(After(h), g)
         /\ \A pair \in Pairs : Older(pair, h) => pair # After(h) /\ Older(pair, g)
<1>1. h.at \in Pairs /\ h.next \in Nat BY DEF HistoryRecord
<1>2. h.at[1] \in Nat /\ h.at[2] \in Nat BY <1>1, PairOf
<1>3. Tip(g) = After(h) BY DEF Tip
<1>4. BranchOfRecord(h) \in Nat /\ NextOfRecord(h) \in Nat
  BY <1>1, <1>2 DEF BranchOfRecord, NextOfRecord
<1>5. After(h) \in Pairs /\ After(h)[1] = h.at[1] + 1 /\ After(h)[2] = BranchOfRecord(h)
  BY <1>2, <1>4 DEF After, Pairs
<1>6. BranchOfRecord(h) < g.next
  BY <1>1, <1>2 DEF BranchOfRecord, NextOfRecord, Older
<1>7. Older(After(h), g)
  <2>1. After(h)[1] \in Nat BY <1>2, <1>5
  <2> QED BY <1>3, <1>5, <1>6, <2>1 DEF Older
<1>8. ASSUME NEW pair \in Pairs, Older(pair, h) PROVE pair # After(h) /\ Older(pair, g)
  <2>1. pair[1] \in Nat /\ pair[2] \in Nat BY PairOf
  <2>2. CASE h.redo = <<>>
    <3>1. Tip(h) = h.at /\ BranchOfRecord(h) = h.at[2] /\ g.next = h.next
      BY <2>2 DEF Tip, BranchOfRecord, NextOfRecord
    <3>2. pair[2] < h.next /\ (pair[2] = h.at[2] => pair[1] <= h.at[1])
      BY <1>8, <3>1 DEF Older
    <3>3. pair[2] = After(h)[2] => pair[1] < After(h)[1]
      BY <1>2, <1>5, <2>1, <3>1, <3>2
    <3> QED BY <1>2, <1>3, <1>5, <2>1, <3>1, <3>2, <3>3 DEF Older
  <2>3. CASE h.redo # <<>>
    <3>1. BranchOfRecord(h) = h.next /\ g.next = h.next + 1
      BY <2>3 DEF BranchOfRecord, NextOfRecord
    <3>2. pair[2] < h.next BY <1>8 DEF Older
    <3> QED BY <1>1, <1>3, <1>5, <2>1, <3>1, <3>2 DEF Older
  <2> QED BY <2>2, <2>3
<1> QED BY <1>5, <1>7, <1>8

\* What it leaves on the undo stack, when it joins the batch at the top or not.
LEMMA RecordedBatch ==
  ASSUME NEW f \in [Pairs -> Texts], NEW h, Sound(h, f), NEW t \in Texts,
         NEW size \in Sizes, After(h) \in Pairs,
         NEW undo, undo = Record(h, f[h.at], t, size).undo
  PROVE  /\ undo \in Seq(Batch) /\ undo # <<>> /\ UndoChain(undo)
         /\ Top(undo).after = After(h) /\ Top(undo).to = t
         /\ Older(Top(undo).before, h) /\ f[Top(undo).before] = Top(undo).from
         /\ Elements(undo) \subseteq Elements(h.undo) \cup {Top(undo)}
<1>1. h \in HistoryRecord /\ h.undo \in Seq(Batch) /\ h.at \in Pairs /\ Linked(h)
  BY DEF Sound, HistoryRecord
<1>2. CASE Joins(h, size)
  <2> DEFINE b == [Top(h.undo) EXCEPT !.after = After(h), !.to = t]
             p == Popped(h.undo)
  <2>1. undo = Append(p, b) BY <1>1, <1>2 DEF Record, After, HistoryRecord
  <2>2. h.undo # <<>> BY <1>2 DEF Joins
  <2>3. Top(h.undo) \in Batch /\ Top(h.undo) \in Elements(h.undo)
    BY <1>1, <2>2, TopType
  <2>4. /\ b \in Batch /\ b.after = After(h) /\ b.to = t
        /\ b.before = Top(h.undo).before /\ b.from = Top(h.undo).from
    BY <2>3 DEF Batch, Pairs
  <2>5. /\ p \in Seq(Batch) /\ Elements(p) \subseteq Elements(h.undo) /\ UndoChain(p)
        /\ p # <<>> => Top(p).after = Top(h.undo).before
    BY <1>1, <2>2, PoppedStack DEF Linked
  <2>6. Older(b.before, h) /\ f[b.before] = b.from
    BY <2>3, <2>4 DEF Sound, Known, Names
  <2> HIDE DEF b, p
  <2>7. /\ undo \in Seq(Batch) /\ undo # <<>> /\ Top(undo) = b /\ UndoChain(undo)
        /\ Elements(undo) = Elements(p) \cup {b}
    BY <2>1, <2>4, <2>5, AppendedStack
  <2>8. Elements(undo) \subseteq Elements(h.undo) \cup {Top(undo)} BY <2>5, <2>7
  <2>9. /\ Top(undo).after = After(h) /\ Top(undo).to = t
        /\ Older(Top(undo).before, h) /\ f[Top(undo).before] = Top(undo).from
    BY <2>4, <2>6, <2>7
  <2> QED BY <2>7, <2>8, <2>9
<1>3. CASE ~Joins(h, size)
  <2> DEFINE b == [before |-> h.at, after |-> After(h), from |-> f[h.at], to |-> t]
  <2>1. undo = PushUndo(h.undo, b) BY <1>1, <1>3 DEF Record, After, HistoryRecord
  <2>2. b \in Batch BY <1>1 DEF Batch, Pairs
  <2>3. h.undo # <<>> => Top(h.undo).after = b.before BY <1>1 DEF Linked
  <2>4. b.before = h.at /\ b.after = After(h) /\ b.from = f[h.at] /\ b.to = t OBVIOUS
  <2>5. UndoChain(h.undo) BY <1>1 DEF Linked
  <2> HIDE DEF b
  <2>6. /\ undo \in Seq(Batch) /\ undo # <<>> /\ Top(undo) = b /\ UndoChain(undo)
        /\ Elements(undo) \subseteq Elements(h.undo) \cup {b}
    BY <1>1, <2>1, <2>2, <2>3, <2>5, PushedStack
  <2>7. /\ Top(undo).after = After(h) /\ Top(undo).to = t
        /\ Older(Top(undo).before, h) /\ f[Top(undo).before] = Top(undo).from
    BY <2>4, <2>6 DEF Sound
  <2> QED BY <2>6, <2>7
<1> QED BY <1>2, <1>3

LEMMA RecordFields ==
  ASSUME NEW h \in HistoryRecord, NEW from, NEW t, NEW size \in Sizes
  PROVE  LET g == Record(h, from, t, size)
         IN  /\ g.redo = <<>> /\ g.at = After(h) /\ g.next = NextOfRecord(h)
             /\ g.saved = h.saved
             /\ g \in [undo : {g.undo}, redo : {g.redo}, at : {g.at}, next : {g.next},
                       saved : {g.saved}, ended : BOOLEAN]
<1> DEFINE g == Record(h, from, t, size)
<1>1. \E u, e : /\ e \in BOOLEAN
                /\ g = [h EXCEPT !.undo = u, !.redo = <<>>, !.at = After(h),
                                 !.next = NextOfRecord(h), !.ended = e]
  BY DEF Record, After
<1> QED BY <1>1 DEF HistoryRecord

\* With the pair of the edit naming its text, the history is sound again.
LEMMA RecordKeeps ==
  ASSUME NEW f \in [Pairs -> Texts], NEW h, Sound(h, f), NEW t \in Texts,
         NEW size \in Sizes, NEW g, g = Record(h, f[h.at], t, size)
  PROVE  \E e \in [Pairs -> Texts] :
           Sound(g, e) /\ e[g.at] = t /\ e[g.saved] = f[h.saved]
<1> DEFINE e == [f EXCEPT ![After(h)] = t]
           u == Top(g.undo)
<1>1. /\ h \in HistoryRecord /\ h.undo \in Seq(Batch) /\ h.redo \in Seq(Batch)
      /\ h.saved \in Pairs /\ h.at \in Pairs /\ h.next \in Nat /\ Older(h.at, h)
  BY DEF Sound, HistoryRecord
<1>2. /\ g.redo = <<>> /\ g.at = After(h) /\ g.next = NextOfRecord(h)
      /\ g.saved = h.saved
      /\ g \in [undo : {g.undo}, redo : {g.redo}, at : {g.at}, next : {g.next},
                saved : {g.saved}, ended : BOOLEAN]
  BY <1>1, RecordFields
<1>3. /\ After(h) \in Pairs /\ Older(After(h), g)
      /\ \A pair \in Pairs : Older(pair, h) => pair # After(h) /\ Older(pair, g)
  BY <1>1, <1>2, AfterIsNew
<1>4. /\ g.undo \in Seq(Batch) /\ g.undo # <<>> /\ UndoChain(g.undo)
      /\ u.after = After(h) /\ u.to = t
      /\ Older(u.before, h) /\ f[u.before] = u.from
      /\ Elements(g.undo) \subseteq Elements(h.undo) \cup {u}
  BY <1>3, RecordedBatch
<1> HIDE DEF e, u
<1>5. /\ e \in [Pairs -> Texts] /\ e[After(h)] = t
      /\ \A pair \in Pairs : Older(pair, h) => e[pair] = f[pair]
  BY <1>3 DEF e
<1>6. g \in HistoryRecord
  <2>1. NextOfRecord(h) \in Nat BY <1>1 DEF NextOfRecord
  <2>2. <<>> \in Seq(Batch) OBVIOUS
  <2> QED BY <1>1, <1>2, <1>3, <1>4, <2>1, <2>2 DEF HistoryRecord
<1>7. Linked(g)
  <2>1. RedoChain(<<>>) BY DEF RedoChain
  <2> QED BY <1>2, <1>4, <2>1 DEF Linked, u
<1>8. ASSUME NEW b \in Elements(g.undo) \cup Elements(g.redo) PROVE Known(g, e, b)
  <2>1. Elements(<<>>) = {} BY DEF Elements
  <2>2. b \in Elements(h.undo) \/ b = u BY <1>2, <1>4, <2>1
  <2>3. b \in Batch /\ b.before \in Pairs /\ b.after \in Pairs
    <3>1. b \in Elements(g.undo) BY <1>2, <2>1
    <3>2. b \in Batch BY <1>4, <3>1 DEF Elements
    <3> QED BY <3>2, BatchPairs
  <2>4. CASE b \in Elements(h.undo)
    <3>1. Known(h, f, b) BY <2>4 DEF Sound
    <3> QED BY <1>3, <1>5, <2>3, <3>1 DEF Known, Names
  <2>5. CASE b = u
    <3>1. e[b.before] = b.from /\ e[b.after] = b.to BY <1>4, <1>5, <2>3, <2>5
    <3>2. Older(b.before, g) /\ Older(b.after, g) BY <1>3, <1>4, <2>3, <2>5
    <3> QED BY <3>1, <3>2 DEF Known, Names
  <2> QED BY <2>2, <2>4, <2>5
<1>9. Older(g.at, g) /\ Older(g.saved, g)
  BY <1>1, <1>2, <1>3 DEF Sound
<1>10. Sound(g, e) BY <1>6, <1>7, <1>8, <1>9 DEF Sound
<1>11. e[g.at] = t /\ e[g.saved] = f[h.saved]
  BY <1>1, <1>2, <1>5 DEF Sound
<1> QED BY <1>5, <1>10, <1>11

-------------------------------------------------------------------------------
\* The steps.

LEMMA SoundStacks ==
  ASSUME NEW h, NEW f, Sound(h, f)
  PROVE  /\ h \in HistoryRecord /\ h.undo \in Seq(Batch) /\ h.redo \in Seq(Batch)
         /\ h.undo # <<>> =>
              /\ Top(h.undo).after = h.at /\ Top(h.undo) \in Batch
              /\ Names(f, Top(h.undo))
         /\ h.redo # <<>> =>
              /\ Top(h.redo).before = h.at /\ Top(h.redo) \in Batch
              /\ Names(f, Top(h.redo))
<1>1. h \in HistoryRecord /\ h.undo \in Seq(Batch) /\ h.redo \in Seq(Batch) /\ Linked(h)
  BY DEF Sound, HistoryRecord
<1> QED BY <1>1, TopType DEF Linked, Sound, Known

LEMMA PopUndoKeeps ==
  ASSUME NEW h, NEW f, Sound(h, f), h.undo # <<>>
  PROVE  /\ Sound(PopUndo(h), f) /\ Sound(RestoreUndo(PopUndo(h)), f)
         /\ PopUndo(h).at = Top(h.undo).before /\ PopUndo(h).saved = h.saved
         /\ RestoreUndo(PopUndo(h)).at = h.at /\ RestoreUndo(PopUndo(h)).saved = h.saved
<1>1. /\ h \in HistoryRecord /\ h.undo \in Seq(Batch) /\ h.redo \in Seq(Batch)
      /\ Top(h.undo).after = h.at /\ Top(h.undo) \in Batch
  BY SoundStacks
<1> DEFINE g == PopUndo(h)
           r == RestoreUndo(g)
<1>2. /\ g.undo = Popped(h.undo) /\ g.redo = Append(h.redo, Top(h.undo))
      /\ g.at = Top(h.undo).before /\ g.next = h.next /\ g.saved = h.saved
      /\ g \in [undo : {g.undo}, redo : {g.redo}, at : {g.at}, next : {g.next},
                saved : {g.saved}, ended : BOOLEAN]
  BY <1>1 DEF PopUndo, HistoryRecord
<1> HIDE DEF g
<1>3. Sound(g, f) BY <1>2, MovedToRedo
<1>4. g.redo # <<>> /\ Top(g.redo) = Top(h.undo) BY <1>1, <1>2, AppendedStack
<1>5. g \in HistoryRecord BY <1>3 DEF Sound
<1>6. /\ r.redo = Popped(g.redo) /\ r.undo = PushUndo(g.undo, Top(g.redo))
      /\ r.at = Top(g.redo).after /\ r.next = g.next /\ r.saved = g.saved
      /\ r \in [undo : {r.undo}, redo : {r.redo}, at : {r.at}, next : {r.next},
                saved : {r.saved}, ended : BOOLEAN]
  BY <1>5 DEF RestoreUndo, HistoryRecord
<1> HIDE DEF r
<1>7. Sound(r, f) BY <1>3, <1>4, <1>6, MovedToUndo
<1> QED BY <1>1, <1>2, <1>3, <1>4, <1>6, <1>7 DEF g, r

LEMMA PopRedoKeeps ==
  ASSUME NEW h, NEW f, Sound(h, f), h.redo # <<>>
  PROVE  /\ Sound(PopRedo(h), f) /\ Sound(RestoreRedo(PopRedo(h)), f)
         /\ PopRedo(h).at = Top(h.redo).after /\ PopRedo(h).saved = h.saved
         /\ RestoreRedo(PopRedo(h)).at = h.at /\ RestoreRedo(PopRedo(h)).saved = h.saved
<1>1. /\ h \in HistoryRecord /\ h.undo \in Seq(Batch) /\ h.redo \in Seq(Batch)
      /\ Top(h.redo).before = h.at /\ Top(h.redo) \in Batch /\ Linked(h)
  BY SoundStacks DEF Sound
<1> DEFINE g == PopRedo(h)
           r == RestoreRedo(g)
<1>2. /\ g.undo = PushUndo(h.undo, Top(h.redo)) /\ g.redo = Popped(h.redo)
      /\ g.at = Top(h.redo).after /\ g.next = h.next /\ g.saved = h.saved
      /\ g \in [undo : {g.undo}, redo : {g.redo}, at : {g.at}, next : {g.next},
                saved : {g.saved}, ended : BOOLEAN]
  BY <1>1 DEF PopRedo, HistoryRecord
<1> HIDE DEF g
<1>3. Sound(g, f) BY <1>2, MovedToUndo
<1>4. g.undo # <<>> /\ Top(g.undo) = Top(h.redo)
  BY <1>1, <1>2, PushedStack DEF Linked
<1>5. g \in HistoryRecord BY <1>3 DEF Sound
<1>6. /\ r.undo = Popped(g.undo) /\ r.redo = Append(g.redo, Top(g.undo))
      /\ r.at = Top(g.undo).before /\ r.next = g.next /\ r.saved = g.saved
      /\ r \in [undo : {r.undo}, redo : {r.redo}, at : {r.at}, next : {r.next},
                saved : {r.saved}, ended : BOOLEAN]
  BY <1>5 DEF RestoreRedo, HistoryRecord
<1> HIDE DEF r
<1>7. Sound(r, f) BY <1>3, <1>4, <1>6, MovedToRedo
<1> QED BY <1>1, <1>2, <1>3, <1>4, <1>6, <1>7 DEF g, r

LEMMA NewHistorySound ==
  ASSUME NEW f PROVE Sound(NewHistory, f) /\ NewHistory.at = <<0, 0>>
                     /\ NewHistory.saved = <<0, 0>>
<1>1. NewHistory \in HistoryRecord BY DEF NewHistory, HistoryRecord, Pairs
<1>2. Linked(NewHistory) BY DEF Linked, NewHistory, UndoChain, RedoChain
<1>3. Elements(<<>>) = {} BY DEF Elements
<1>4. Older(<<0, 0>>, NewHistory) BY DEF Older, Tip, NewHistory
<1> QED BY <1>1, <1>2, <1>3, <1>4 DEF Sound, NewHistory

LEMMA InitNames == HistoryInit => PairsNameTexts
<1> SUFFICES ASSUME HistoryInit PROVE PairsNameTexts OBVIOUS
<1> DEFINE f == [pair \in Pairs |-> text]
<1>1. text \in Texts /\ savedText = text /\ hist = NewHistory BY DEF HistoryInit
<1>2. f \in [Pairs -> Texts] /\ f[<<0, 0>>] = text BY <1>1 DEF Pairs
<1> HIDE DEF f
<1> QED BY <1>1, <1>2, NewHistorySound DEF PairsNameTexts

\* Every step of the history keeps the pairs naming the texts.
LEMMA NextNames == PairsNameTexts /\ [HistoryNext]_historyVars => PairsNameTexts'
<1> SUFFICES ASSUME PairsNameTexts, [HistoryNext]_historyVars PROVE PairsNameTexts'
  OBVIOUS
<1>1. PICK f \in [Pairs -> Texts] :
        Sound(hist, f) /\ f[hist.at] = text /\ f[hist.saved] = savedText
  BY DEF PairsNameTexts
<1>2. hist \in HistoryRecord /\ hist.at \in Pairs /\ hist.saved \in Pairs
  BY <1>1 DEF Sound, HistoryRecord
<1>3. ASSUME NEW t \in Texts, NEW size \in Sizes, Edit(t, size) PROVE PairsNameTexts'
  <2>1. hist' = Record(hist, f[hist.at], t, size) /\ text' = t /\ savedText' = savedText
    BY <1>1, <1>3 DEF Edit
  <2>2. PICK g : g = Record(hist, f[hist.at], t, size) OBVIOUS
  <2>3. PICK e \in [Pairs -> Texts] :
          Sound(g, e) /\ e[g.at] = t /\ e[g.saved] = f[hist.saved]
    BY <1>1, <2>2, RecordKeeps
  <2> QED BY <1>1, <2>1, <2>2, <2>3 DEF PairsNameTexts
<1>4. CASE Undo \/ UndoRefused
  <2>1. hist.undo # <<>> BY <1>4 DEF Undo, UndoRefused
  <2>2. /\ Sound(PopUndo(hist), f) /\ Sound(RestoreUndo(PopUndo(hist)), f)
        /\ PopUndo(hist).at = Top(hist.undo).before /\ PopUndo(hist).saved = hist.saved
        /\ RestoreUndo(PopUndo(hist)).at = hist.at
        /\ RestoreUndo(PopUndo(hist)).saved = hist.saved
    BY <1>1, <2>1, PopUndoKeeps
  <2>3. Top(hist.undo).after = hist.at /\ Names(f, Top(hist.undo))
    BY <1>1, <2>1, SoundStacks
  <2>4. Reverted(text, Top(hist.undo)) = f[Top(hist.undo).before]
    BY <1>1, <2>3 DEF Reverted, Names
  <2>5. CASE Undo BY <1>1, <2>2, <2>4, <2>5 DEF Undo, PairsNameTexts
  <2>6. CASE UndoRefused BY <1>1, <2>2, <2>6 DEF UndoRefused, PairsNameTexts
  <2> QED BY <1>4, <2>5, <2>6
<1>5. CASE Redo \/ RedoRefused
  <2>1. hist.redo # <<>> BY <1>5 DEF Redo, RedoRefused
  <2>2. /\ Sound(PopRedo(hist), f) /\ Sound(RestoreRedo(PopRedo(hist)), f)
        /\ PopRedo(hist).at = Top(hist.redo).after /\ PopRedo(hist).saved = hist.saved
        /\ RestoreRedo(PopRedo(hist)).at = hist.at
        /\ RestoreRedo(PopRedo(hist)).saved = hist.saved
    BY <1>1, <2>1, PopRedoKeeps
  <2>3. Top(hist.redo).before = hist.at /\ Names(f, Top(hist.redo))
    BY <1>1, <2>1, SoundStacks
  <2>4. Repeated(text, Top(hist.redo)) = f[Top(hist.redo).after]
    BY <1>1, <2>3 DEF Repeated, Names
  <2>5. CASE Redo BY <1>1, <2>2, <2>4, <2>5 DEF Redo, PairsNameTexts
  <2>6. CASE RedoRefused BY <1>1, <2>2, <2>6 DEF RedoRefused, PairsNameTexts
  <2> QED BY <1>5, <2>5, <2>6
<1>6. CASE EndBatch
  <2>1. Sound(Checkpoint(hist), f)
    <3>1. /\ Checkpoint(hist) \in HistoryRecord
          /\ Checkpoint(hist).undo = hist.undo /\ Checkpoint(hist).redo = hist.redo
          /\ Checkpoint(hist).at = hist.at /\ Checkpoint(hist).next = hist.next
          /\ Checkpoint(hist).saved = hist.saved
      BY <1>2 DEF Checkpoint, HistoryRecord
    <3> QED BY <1>1, <3>1 DEF Sound, Linked, Known, Older, Tip
  <2>2. Checkpoint(hist).at = hist.at /\ Checkpoint(hist).saved = hist.saved
    BY <1>2 DEF Checkpoint, HistoryRecord
  <2> QED BY <1>1, <1>6, <2>1, <2>2 DEF EndBatch, PairsNameTexts
<1>7. CASE Saved
  <2>1. /\ MarkSaved(hist) \in HistoryRecord
        /\ MarkSaved(hist).undo = hist.undo /\ MarkSaved(hist).redo = hist.redo
        /\ MarkSaved(hist).at = hist.at /\ MarkSaved(hist).next = hist.next
        /\ MarkSaved(hist).saved = hist.at
    BY <1>2 DEF MarkSaved, HistoryRecord
  <2>2. Sound(MarkSaved(hist), f)
    BY <1>1, <2>1 DEF Sound, Linked, Known, Older, Tip
  <2> QED BY <1>1, <1>7, <2>1, <2>2 DEF Saved, PairsNameTexts
<1>8. ASSUME NEW t \in Texts, Loaded(t) PROVE PairsNameTexts'
  <2> DEFINE e == [pair \in Pairs |-> t]
  <2>1. e \in [Pairs -> Texts] /\ e[<<0, 0>>] = t BY DEF Pairs
  <2> HIDE DEF e
  <2> QED BY <1>8, <2>1, NewHistorySound DEF Loaded, PairsNameTexts
<1>9. CASE UNCHANGED historyVars
  BY <1>9 DEF historyVars, PairsNameTexts
<1> QED BY <1>3, <1>4, <1>5, <1>6, <1>7, <1>8, <1>9 DEF HistoryNext

THEOREM PairsAlwaysNameTexts == HistorySpec => []PairsNameTexts
BY InitNames, NextNames, PTL DEF HistorySpec

\* Undo and redo are applied only to the text their batch belongs to, whatever
\* was edited, joined, refused or dropped for lack of room (EditHistory.record,
\* _pop_undo, _pop_redo, _restore_undo, _restore_redo).
THEOREM UndoIsExactAlways == HistorySpec => []UndoIsExact
<1>1. PairsNameTexts => UndoIsExact
  BY TextsAssumption DEF PairsNameTexts, UndoIsExact, Sound, HistoryRecord
<1> QED BY <1>1, PairsAlwaysNameTexts, PTL

\* A document that counts as unmodified has the text that was saved or loaded
\* last (EditHistory.modified, mark_saved).
THEOREM UnmodifiedIsSavedAlways == HistorySpec => []UnmodifiedIsSaved
<1>1. PairsNameTexts => UnmodifiedIsSaved
  BY DEF PairsNameTexts, UnmodifiedIsSaved, Modified
<1> QED BY <1>1, PairsAlwaysNameTexts, PTL

===============================================================================
