----------------------- MODULE StreamTranslatorProofs -----------------------
(***************************************************************************)
(* What the legacy translator sends, for any chunks, tools, budgets and    *)
(* limits: a legal Anthropic stream that neither loses nor doubles text,   *)
(* reasoning or tool calls.                                                *)
(*                                                                         *)
(* feed() composes its parts, so each part is shown to do one thing for    *)
(* any translator it may come to, and these facts are composed like the    *)
(* calls (Speaks, Emits, Scans, Reads, Thinks, Quietly, Tooled, Flushes,   *)
(* Carries, Feeds, Ends).  All are about the client as it will be when it  *)
(* has everything that is on its way (After, Shows): the part leaves the   *)
(* client behind the translator in agreement with it (Ready), and what the *)
(* client has then differs from what it had by so much text, in order, and *)
(* these calls.  So the events the client receives later change nothing,   *)
(* and the invariant is about Told, the client that has heard everything.  *)
(*                                                                         *)
(* A tag is not text, so texts are compared apart from their tags (Same);  *)
(* what holds of them all is then additive: the text told, and held back,  *)
(* is the text that came, whatever the cuts (TextMore).                    *)
(*                                                                         *)
(* The model's loops are recursive functions.  That there are such         *)
(* functions, and what they have at each point, is shown once and for all  *)
(* by least counterexample (Recursion, Climb, OneRun).                     *)
(***************************************************************************)
EXTENDS StreamTranslator, FiniteSetTheorems, SequenceTheorems, NaturalsInduction,
        WellFoundedInduction, TLAPS

\* A set of natural numbers that is not empty has a least element.
LEMMA Least ==
  ASSUME NEW T, T \subseteq Nat, T # {}
  PROVE  \E x \in T : \A y \in T : x <= y
<1>. DEFINE R == {p \in Nat \X Nat : p[1] < p[2]}
<1>1. IsWellFoundedOn(R, Nat) BY NatLessThanWellFounded DEF OpToRel
<1>2. \A x, y \in T : ~ (<<y, x>> \in R) => x <= y OBVIOUS
<1>3. \E x \in T : \A y \in T : ~ (<<y, x>> \in R)
  <2>. HIDE DEF R
  <2>. QED BY <1>1, WFMin
<1>. HIDE DEF R
<1>. QED BY <1>2, <1>3

\* Induction up to n, for a set of good numbers.
LEMMA Climb ==
  ASSUME NEW n \in Nat, NEW T, 0 \in T, \A k \in 1..n : k - 1 \in T => k \in T
  PROVE  \A k \in 0..n : k \in T
<1>. DEFINE bad == (0..n) \ T
<1>. SUFFICES ASSUME bad # {} PROVE FALSE OBVIOUS
<1>1. PICK k \in bad : \A j \in bad : k <= j
  <2>1. bad \subseteq Nat OBVIOUS
  <2>. QED BY <2>1, Least
<1>2. k \in 1..n /\ k - 1 \in 0..n /\ ~(k <= k - 1) BY <1>1
<1>3. k - 1 \in T BY <1>1, <1>2
<1>. QED BY <1>1, <1>2, <1>3

\* The values of a function on 0..n, each the next step from the one before it.
IsRun(f, n, first, step) ==
  f[0] = first /\ \A k \in 1..n : f[k] = step[k][f[k - 1]]

\* A function may be defined step after step from a first value.
LEMMA Recursion ==
  ASSUME NEW n \in Nat, NEW A, NEW first \in A, NEW step \in [1..n -> [A -> A]]
  PROVE  \E f \in [0..n -> A] : IsRun(f, n, first, step)
<1>. DEFINE Upto(m) ==
       \E f \in [0..n -> A] : f[0] = first /\ \A k \in 1..m : f[k] = step[k][f[k - 1]]
<1>1. Upto(0)
  <2>. DEFINE f == [k \in 0..n |-> first]
  <2>1. f \in [0..n -> A] /\ f[0] = first OBVIOUS
  <2>2. \A k \in 1..0 : f[k] = step[k][f[k - 1]] OBVIOUS
  <2>. HIDE DEF f
  <2>. QED BY <2>1, <2>2
<1>2. ASSUME NEW k \in 1..n, Upto(k - 1) PROVE Upto(k)
  <2>1. PICK f \in [0..n -> A] :
          f[0] = first /\ \A j \in 1..(k - 1) : f[j] = step[j][f[j - 1]]
    BY <1>2
  <2>. DEFINE g == [f EXCEPT ![k] = step[k][f[k - 1]]]
  <2>2. k - 1 \in 0..n /\ f[k - 1] \in A OBVIOUS
  <2>3. step[k][f[k - 1]] \in A BY <2>2
  <2>4. g \in [0..n -> A] /\ g[k] = step[k][f[k - 1]] /\ \A j \in 0..n : j # k => g[j] = f[j]
    BY <2>3
  <2>. HIDE DEF g
  <2>5. g[0] = first BY <2>1, <2>4
  <2>6. ASSUME NEW j \in 1..k PROVE g[j] = step[j][g[j - 1]]
    <3>1. j - 1 \in 0..n /\ j - 1 # k /\ j \in 0..n OBVIOUS
    <3>2. g[j - 1] = f[j - 1] BY <2>4, <3>1
    <3>3. CASE j = k BY <2>4, <3>2, <3>3
    <3>4. CASE j # k
      <4>1. j \in 1..(k - 1) BY <3>4
      <4>. QED BY <2>1, <2>4, <3>1, <3>2, <3>4, <4>1
    <3>. QED BY <3>3, <3>4
  <2>. QED BY <2>4, <2>5, <2>6
<1>. DEFINE good == {m \in 0..n : Upto(m)}
<1>3. \A k \in 1..n : k - 1 \in good => k \in good
  <2>. HIDE DEF Upto
  <2>. QED BY <1>2
<1>4. 0 \in good
  <2>. HIDE DEF Upto
  <2>. QED BY <1>1
<1>5. n \in good
  <2>. HIDE DEF good
  <2>1. \A k \in 0..n : k \in good BY <1>3, <1>4, Climb
  <2>. QED BY <2>1
<1>. QED BY <1>5 DEF IsRun
-----------------------------------------------------------------------------
(***************************************************************************)
(* Functions that are built step after step, and the pieces of text that   *)
(* Only keeps.                                                             *)
(***************************************************************************)
\* A function that is built so as long as its values are of the right type.
Follows(g, n, A, first, step) ==
  g[0] = first /\ \A k \in 1..n : g[k - 1] \in A => g[k] = step[k][g[k - 1]]

\* There is one function that is built step after step in one way.
LEMMA OneRun ==
  ASSUME NEW n \in Nat, NEW A, NEW first, NEW step, NEW f \in [0..n -> A], NEW g,
         IsRun(f, n, first, step), Follows(g, n, A, first, step)
  PROVE  \A k \in 0..n : g[k] = f[k]
<1>. DEFINE same == {k \in 0..n : g[k] = f[k]}
<1>1. 0 \in same BY DEF IsRun, Follows
<1>2. ASSUME NEW k \in 1..n, k - 1 \in same PROVE k \in same
  <2>1. k - 1 \in 0..n /\ k \in 0..n OBVIOUS
  <2>2. g[k - 1] = f[k - 1] /\ g[k - 1] \in A BY <1>2, <2>1
  <2>. QED BY <2>1, <2>2 DEF IsRun, Follows
<1>3. \A k \in 0..n : k \in same
  <2>. HIDE DEF same
  <2>. QED BY <1>1, <1>2, Climb
<1>. QED BY <1>3

\* A piece of text or of arguments, or a name; the provers do not know that
\* a literal is a string.
Literals ==
  {"none", "streaming", "closing", "stopped", "message_start", "content_block_start",
   "content_block_delta", "content_block_stop", "message_delta", "message_stop",
   "text_delta", "thinking_delta", "signature_delta", "input_json_delta", "text",
   "thinking", "tool_use", "image", "notice", "r", "end_turn", "max_tokens", "refusal",
   "pause_turn", "{", "}"}
Word == STRING \cup Literals \cup TextPieces \cup {NoName}
Pieces == Seq(Word)

\* The pieces kept of a sequence, by the recursive function of Only.
IsKeeping(f, s, pieces) ==
  f = [n \in 0..Len(s) |->
         IF n = 0 THEN <<>>
         ELSE IF s[n] \in pieces THEN Append(f[n - 1], s[n])
         ELSE f[n - 1]]

Kept(s, pieces) == CHOOSE f : IsKeeping(f, s, pieces)

\* What is kept, piece after piece.
LEMMA KeptIs ==
  ASSUME NEW s \in Pieces, NEW pieces
  PROVE  /\ Kept(s, pieces) \in [0..Len(s) -> Pieces]
         /\ Kept(s, pieces)[0] = <<>>
         /\ \A k \in 1..Len(s) :
              Kept(s, pieces)[k] = IF s[k] \in pieces THEN Append(Kept(s, pieces)[k - 1], s[k])
                                   ELSE Kept(s, pieces)[k - 1]
         /\ Only(s, pieces) = Kept(s, pieces)[Len(s)]
<1>. DEFINE n == Len(s)
            step == [k \in 1..n |-> [a \in Pieces |-> IF s[k] \in pieces THEN Append(a, s[k]) ELSE a]]
            g == Kept(s, pieces)
<1>1. n \in Nat /\ \A k \in 1..n : s[k] \in Word BY DEF Pieces
<1>2. step \in [1..n -> [Pieces -> Pieces]]
  <2>1. \A k \in 1..n, a \in Pieces : Append(a, s[k]) \in Pieces BY <1>1 DEF Pieces
  <2>. QED BY <2>1
<1>3. PICK f \in [0..n -> Pieces] : IsRun(f, n, <<>>, step)
  <2>1. <<>> \in Pieces BY DEF Pieces
  <2>. HIDE DEF step, n
  <2>. QED BY <1>1, <1>2, <2>1, Recursion
<1>4. \A k \in 1..n : \A a \in Pieces :
        step[k][a] = IF s[k] \in pieces THEN Append(a, s[k]) ELSE a
  OBVIOUS
<1>. HIDE DEF step
<1>5. IsKeeping(f, s, pieces)
  <2>1. ASSUME NEW k \in 0..n
        PROVE  f[k] = IF k = 0 THEN <<>>
                      ELSE IF s[k] \in pieces THEN Append(f[k - 1], s[k]) ELSE f[k - 1]
    <3>1. k = 0 \/ (k \in 1..n /\ k - 1 \in 0..n) BY <1>1
    <3>. QED BY <1>3, <1>4, <3>1 DEF IsRun
  <2>. QED BY <1>3, <2>1 DEF IsKeeping
<1>6. IsKeeping(g, s, pieces) BY <1>5 DEF Kept
<1>. HIDE DEF g
<1>7. g = [k \in 0..n |-> IF k = 0 THEN <<>>
                          ELSE IF s[k] \in pieces THEN Append(g[k - 1], s[k]) ELSE g[k - 1]]
  BY <1>6 DEF IsKeeping
<1>8. g[0] = <<>> /\ \A k \in 1..n : g[k] = IF s[k] \in pieces THEN Append(g[k - 1], s[k])
                                            ELSE g[k - 1]
  <2>. HIDE DEF n
  <2>1. 0 \in 0..n /\ \A k \in 1..n : k \in 0..n /\ k # 0 BY <1>1
  <2>. QED BY <1>7, <2>1
<1>9. \A k \in 0..n : g[k] = f[k]
  <2>. HIDE DEF n
  <2>1. Follows(g, n, Pieces, <<>>, step) BY <1>4, <1>8 DEF Follows
  <2>. QED BY <1>1, <1>3, <2>1, OneRun
<1>10. g \in [0..n -> Pieces] BY <1>3, <1>7, <1>9
<1>11. Only(s, pieces) = g[n] BY DEF Only, g, Kept, IsKeeping
<1>. QED BY <1>8, <1>10, <1>11 DEF g

\* Joining and appending, in either order.
LEMMA AppendToConcat ==
  ASSUME NEW a \in Pieces, NEW b \in Pieces, NEW x \in Word
  PROVE  Append(a \o b, x) = a \o Append(b, x)
<1>. DEFINE S == Word
<1>0. a \in Seq(S) /\ b \in Seq(S) /\ x \in S BY DEF Pieces
<1>. HIDE DEF S
<1>. DEFINE p == Append(a \o b, x)
            q == a \o Append(b, x)
<1>1. /\ a \o b \in Seq(S) /\ Len(a \o b) = Len(a) + Len(b)
      /\ \A i \in 1..(Len(a) + Len(b)) : (a \o b)[i] = IF i <= Len(a) THEN a[i] ELSE b[i - Len(a)]
  BY <1>0, ConcatProperties
<1>2. /\ Append(b, x) \in Seq(S) /\ Len(Append(b, x)) = Len(b) + 1 /\ Append(b, x)[Len(b) + 1] = x
      /\ \A i \in 1..Len(b) : Append(b, x)[i] = b[i]
  BY <1>0, AppendProperties
<1>3. /\ p \in Seq(S) /\ Len(p) = Len(a) + Len(b) + 1 /\ p[Len(a) + Len(b) + 1] = x
      /\ \A i \in 1..(Len(a) + Len(b)) : p[i] = (a \o b)[i]
  BY <1>0, <1>1, AppendProperties
<1>4. /\ q \in Seq(S) /\ Len(q) = Len(a) + Len(b) + 1
      /\ \A i \in 1..(Len(a) + Len(b) + 1) :
           q[i] = IF i <= Len(a) THEN a[i] ELSE Append(b, x)[i - Len(a)]
  BY <1>0, <1>2, ConcatProperties
<1>5. Len(a) \in Nat /\ Len(b) \in Nat BY <1>0
<1>. HIDE DEF p, q
<1>6. ASSUME NEW i \in 1..(Len(a) + Len(b) + 1) PROVE p[i] = q[i]
  <2>1. CASE i = Len(a) + Len(b) + 1
    <3>1. i - Len(a) = Len(b) + 1 /\ ~(i <= Len(a)) BY <2>1, <1>5
    <3>. QED BY <1>2, <1>3, <1>4, <2>1, <3>1
  <2>2. CASE i # Len(a) + Len(b) + 1
    <3>1. i \in 1..(Len(a) + Len(b)) /\ (~(i <= Len(a)) => i - Len(a) \in 1..Len(b))
      BY <2>2, <1>5
    <3>. QED BY <1>1, <1>2, <1>3, <1>4, <3>1
  <2>. QED BY <2>1, <2>2
<1>7. p = q BY <1>3, <1>4, <1>6, SeqEqual
<1>. QED BY <1>7 DEF p, q

LEMMA OnlyType ==
  ASSUME NEW s \in Pieces, NEW pieces
  PROVE  Only(s, pieces) \in Pieces /\ Len(Only(s, pieces)) \in Nat
BY KeptIs DEF Pieces

LEMMA OnlyNothing ==
  ASSUME NEW pieces
  PROVE  Only(<<>>, pieces) = <<>>
<1>1. <<>> \in Pieces /\ Len(<<>>) = 0 BY DEF Pieces
<1>. QED BY <1>1, KeptIs

LEMMA OnlyOne ==
  ASSUME NEW x \in Word, NEW pieces
  PROVE  Only(<<x>>, pieces) = IF x \in pieces THEN <<x>> ELSE <<>>
<1>. DEFINE s == <<x>>
<1>1. s \in Seq(Word) /\ Len(s) = 1 /\ s[1] = x OBVIOUS
<1>2. Append(<<>>, x) = s OBVIOUS
<1>. HIDE DEF s
<1>3. s \in Pieces /\ 1 \in 1..Len(s) /\ 1 - 1 = 0 BY <1>1 DEF Pieces
<1>4. Only(s, pieces) = Kept(s, pieces)[1] /\ Kept(s, pieces)[0] = <<>> BY <1>1, <1>3, KeptIs
<1>5. Kept(s, pieces)[1] = IF s[1] \in pieces THEN Append(Kept(s, pieces)[1 - 1], s[1])
                           ELSE Kept(s, pieces)[1 - 1]
  BY <1>3, KeptIs
<1>6. Only(s, pieces) = IF x \in pieces THEN s ELSE <<>> BY <1>1, <1>2, <1>3, <1>4, <1>5
<1>. QED BY <1>6 DEF s

\* What is kept of two sequences.
LEMMA OnlyConcat ==
  ASSUME NEW a \in Pieces, NEW b \in Pieces, NEW pieces
  PROVE  /\ a \o b \in Pieces
         /\ Only(a \o b, pieces) = Only(a, pieces) \o Only(b, pieces)
<1>. DEFINE m == Len(a)
            n == Len(b)
            c == a \o b
            f == Kept(c, pieces)
            g == Kept(a, pieces)
            h == Kept(b, pieces)
<1>1. /\ m \in Nat /\ n \in Nat /\ c \in Pieces /\ Len(c) = m + n
      /\ \A i \in 1..m : c[i] = a[i]
      /\ \A i \in 1..n : c[m + i] = b[i]
      /\ \A i \in 1..(m + n) : c[i] \in Word
  <2>1. m \in Nat /\ n \in Nat /\ c \in Pieces /\ Len(c) = m + n BY ConcatProperties DEF Pieces
  <2>2. \A i \in 1..(m + n) : c[i] = IF i <= m THEN a[i] ELSE b[i - m]
    BY ConcatProperties DEF Pieces
  <2>3. \A i \in 1..(m + n) : c[i] \in Word BY <2>1, ElementOfSeq DEF Pieces
  <2>. HIDE DEF m, n, c
  <2>4. \A i \in 1..m : c[i] = a[i] BY <2>1, <2>2
  <2>5. \A i \in 1..n : c[m + i] = b[i]
    <3>. SUFFICES ASSUME NEW i \in 1..n PROVE c[m + i] = b[i] OBVIOUS
    <3>1. m + i \in 1..(m + n) /\ ~(m + i <= m) /\ (m + i) - m = i BY <2>1
    <3>. QED BY <2>2, <3>1
  <2>. QED BY <2>1, <2>3, <2>4, <2>5
<1>2. /\ g \in [0..m -> Pieces] /\ g[0] = <<>> /\ Only(a, pieces) = g[m]
      /\ \A k \in 1..m : g[k] = IF a[k] \in pieces THEN Append(g[k - 1], a[k]) ELSE g[k - 1]
  BY KeptIs
<1>3. /\ h \in [0..n -> Pieces] /\ h[0] = <<>> /\ Only(b, pieces) = h[n]
      /\ \A k \in 1..n : h[k] = IF b[k] \in pieces THEN Append(h[k - 1], b[k]) ELSE h[k - 1]
  BY KeptIs
<1>4. /\ f[0] = <<>> /\ Only(c, pieces) = f[m + n]
      /\ \A k \in 1..(m + n) : f[k] = IF c[k] \in pieces THEN Append(f[k - 1], c[k]) ELSE f[k - 1]
  <2>. HIDE DEF c
  <2>. QED BY SMTT(30), <1>1, KeptIs DEF f
<1>. HIDE DEF m, n, c, f, g, h
<1>. DEFINE first == {k \in 0..m : f[k] = g[k]}
            second == {k \in 0..n : f[m + k] = g[m] \o h[k]}
<1>5. \A k \in 0..m : k \in first
  <2>1. 0 \in first BY <1>1, <1>2, <1>4
  <2>2. ASSUME NEW k \in 1..m, k - 1 \in first PROVE k \in first
    <3>1. k \in 0..m /\ k \in 1..(m + n) BY <1>1
    <3>2. f[k - 1] = g[k - 1] BY <2>2
    <3>. QED BY <1>1, <1>2, <1>4, <3>1, <3>2
  <2>. HIDE DEF first
  <2>. QED BY <1>1, <2>1, <2>2, Climb
<1>6. g[m] \in Pieces /\ f[m] = g[m] BY <1>1, <1>2, <1>5
<1>7. \A k \in 0..n : k \in second
  <2>1. 0 \in second
    <3>1. g[m] \o <<>> = g[m] BY <1>6, ConcatEmptySeq DEF Pieces
    <3>2. 0 \in 0..n /\ m + 0 = m BY <1>1
    <3>. QED BY <1>3, <1>6, <3>1, <3>2
  <2>2. ASSUME NEW k \in 1..n, k - 1 \in second PROVE k \in second
    <3>1. /\ k \in 0..n /\ k - 1 \in 0..n /\ m + k \in 1..(m + n) /\ (m + k) - 1 = m + (k - 1)
          /\ c[m + k] = b[k] /\ c[m + k] \in Word
      BY <1>1
    <3>2. f[m + (k - 1)] = g[m] \o h[k - 1] /\ h[k - 1] \in Pieces BY <1>3, <2>2, <3>1
    <3>3. Append(g[m] \o h[k - 1], b[k]) = g[m] \o Append(h[k - 1], b[k])
      <4>1. g[m] \in Pieces /\ h[k - 1] \in Pieces /\ b[k] \in Word BY <1>6, <3>1, <3>2
      <4>. HIDE DEF first, second
      <4>. QED BY <4>1, AppendToConcat
    <3>4. f[m + k] = IF b[k] \in pieces THEN Append(f[m + (k - 1)], b[k]) ELSE f[m + (k - 1)]
      BY <1>4, <3>1
    <3>5. h[k] = IF b[k] \in pieces THEN Append(h[k - 1], b[k]) ELSE h[k - 1] BY <1>3
    <3>6. f[m + k] = g[m] \o h[k] BY <3>2, <3>3, <3>4, <3>5
    <3>. QED BY <3>1, <3>6
  <2>. HIDE DEF second
  <2>. QED BY <1>1, <2>1, <2>2, Climb
<1>8. f[m + n] = g[m] \o h[n]
  <2>1. n \in 0..n BY <1>1
  <2>. QED BY <1>7, <2>1
<1>. QED BY <1>1, <1>2, <1>3, <1>4, <1>8 DEF c

\* Pieces none of which is wanted, and pieces all of which are.
LEMMA OnlyRejects ==
  ASSUME NEW s \in Pieces, NEW pieces, \A i \in 1..Len(s) : s[i] \notin pieces
  PROVE  Only(s, pieces) = <<>>
<1>. DEFINE f == Kept(s, pieces)
            n == Len(s)
            good == {k \in 0..n : f[k] = <<>>}
<1>1. n \in Nat BY DEF Pieces
<1>2. /\ f[0] = <<>> /\ Only(s, pieces) = f[n]
      /\ \A k \in 1..n : f[k] = IF s[k] \in pieces THEN Append(f[k - 1], s[k]) ELSE f[k - 1]
  BY KeptIs
<1>. HIDE DEF f, n
<1>3. 0 \in good BY <1>1, <1>2
<1>4. ASSUME NEW k \in 1..n, k - 1 \in good PROVE k \in good
  <2>1. k \in 0..n /\ s[k] \notin pieces BY DEF n
  <2>. QED BY <1>2, <1>4, <2>1
<1>5. n \in good
  <2>. HIDE DEF good
  <2>1. \A k \in 0..n : k \in good BY <1>1, <1>3, <1>4, Climb
  <2>. QED BY <1>1, <2>1
<1>. QED BY <1>2, <1>5

LEMMA OnlyAccepts ==
  ASSUME NEW s \in Pieces, NEW pieces, \A i \in 1..Len(s) : s[i] \in pieces
  PROVE  Len(Only(s, pieces)) = Len(s)
<1>. DEFINE f == Kept(s, pieces)
            n == Len(s)
            good == {k \in 0..n : Len(f[k]) = k}
<1>1. n \in Nat /\ \A k \in 1..n : s[k] \in Word BY DEF Pieces
<1>2. /\ f \in [0..n -> Pieces] /\ f[0] = <<>> /\ Only(s, pieces) = f[n]
      /\ \A k \in 1..n : f[k] = IF s[k] \in pieces THEN Append(f[k - 1], s[k]) ELSE f[k - 1]
  BY KeptIs
<1>. HIDE DEF f
<1>3. 0 \in good
  <2>1. Len(<<>>) = 0 OBVIOUS
  <2>. QED BY <1>1, <1>2, <2>1
<1>4. ASSUME NEW k \in 1..n, k - 1 \in good PROVE k \in good
  <2>1. k \in 0..n /\ k - 1 \in 0..n /\ s[k] \in pieces BY <1>1
  <2>2. f[k - 1] \in Pieces /\ Len(f[k - 1]) = k - 1 BY <1>2, <1>4, <2>1
  <2>3. Len(Append(f[k - 1], s[k])) = k BY <1>1, <2>2 DEF Pieces
  <2>4. f[k] = Append(f[k - 1], s[k]) BY <1>2, <2>1
  <2>. QED BY <2>1, <2>3, <2>4
<1>5. n \in good
  <2>. HIDE DEF good
  <2>1. \A k \in 0..n : k \in good BY <1>1, <1>3, <1>4, Climb
  <2>. QED BY <1>1, <2>1
<1>. QED BY <1>2, <1>5
-----------------------------------------------------------------------------
(***************************************************************************)
(* What a client has, and what the events make of it.                      *)
(***************************************************************************)
\* What the client is sent, and what it has built.
Kinds == {"text", "thinking", "tool_use", "image"}
Spoken == {"text", "thinking"}
BlockType == [kind : Kinds, closed : BOOLEAN, tool : Tools \cup {NoTool}, body : Pieces]
EventType ==
  [event : Word, index : Nat, kind : Word, tool : Tools \cup {NoTool}, body : Pieces]
LastType == [event : Word, index : Nat, kind : Word]
Clients == [phase : Word, content : Seq(BlockType), last : LastType]

\* The text of a message block after block, by the recursive function of Said.
IsSaying(f, content) ==
  f = [n \in 0..Len(content) |->
         IF n = 0 THEN <<>>
         ELSE IF content[n].kind \in {"text", "thinking"} THEN f[n - 1] \o content[n].body
         ELSE f[n - 1]]

Saying(content) == CHOOSE f : IsSaying(f, content)

\* What one block adds.
SaidBy(block) == IF block.kind \in Spoken THEN block.body ELSE <<>>

LEMMA ConcatPieces ==
  ASSUME NEW a \in Pieces, NEW b \in Pieces
  PROVE  /\ a \o b \in Pieces /\ Len(a \o b) = Len(a) + Len(b)
         /\ a \o <<>> = a /\ <<>> \o a = a /\ <<>> \in Pieces
<1>. DEFINE S == Word
<1>1. a \in Seq(S) /\ b \in Seq(S) BY DEF Pieces
<1>2. Pieces = Seq(S) BY DEF Pieces
<1>. HIDE DEF S
<1>3. a \o b \in Seq(S) /\ Len(a \o b) = Len(a) + Len(b) BY <1>1, ConcatProperties
<1>4. a \o <<>> = a /\ <<>> \o a = a BY <1>1, ConcatEmptySeq
<1>. QED BY <1>2, <1>3, <1>4

LEMMA PiecesAssociate ==
  ASSUME NEW a \in Pieces, NEW b \in Pieces, NEW c \in Pieces
  PROVE  (a \o b) \o c = a \o (b \o c)
<1>. DEFINE S == Word
<1>1. a \in Seq(S) /\ b \in Seq(S) /\ c \in Seq(S) BY DEF Pieces
<1>. HIDE DEF S
<1>. QED BY <1>1, ConcatAssociative

LEMMA SayingIs ==
  ASSUME NEW content \in Seq(BlockType)
  PROVE  /\ Saying(content) \in [0..Len(content) -> Pieces]
         /\ Saying(content)[0] = <<>>
         /\ \A k \in 1..Len(content) :
              Saying(content)[k] = Saying(content)[k - 1] \o SaidBy(content[k])
         /\ Said(content) = Saying(content)[Len(content)]
<1>. DEFINE n == Len(content)
            step == [k \in 1..n |-> [a \in Pieces |-> a \o SaidBy(content[k])]]
            g == Saying(content)
<1>0. n \in Nat OBVIOUS
<1>1. \A k \in 1..n : content[k].body \in Pieces /\ SaidBy(content[k]) \in Pieces
  <2>. SUFFICES ASSUME NEW k \in 1..n
                PROVE  content[k].body \in Pieces /\ SaidBy(content[k]) \in Pieces
    OBVIOUS
  <2>1. content[k] \in BlockType OBVIOUS
  <2>2. <<>> \in Pieces BY DEF Pieces
  <2>. QED BY <2>1, <2>2 DEF BlockType, SaidBy
<1>2. step \in [1..n -> [Pieces -> Pieces]]
  <2>1. \A k \in 1..n, a \in Pieces : a \o SaidBy(content[k]) \in Pieces BY <1>1, ConcatPieces
  <2>. QED BY <2>1
<1>3. PICK f \in [0..n -> Pieces] : IsRun(f, n, <<>>, step)
  <2>1. <<>> \in Pieces BY DEF Pieces
  <2>. HIDE DEF step, n
  <2>. QED BY <1>0, <1>2, <2>1, Recursion
<1>4. \A k \in 1..n : \A a \in Pieces :
        /\ step[k][a] = a \o SaidBy(content[k])
        /\ step[k][a] = IF content[k].kind \in {"text", "thinking"} THEN a \o content[k].body ELSE a
  <2>1. \A k \in 1..n : \A a \in Pieces : step[k][a] = a \o SaidBy(content[k]) OBVIOUS
  <2>2. \A a \in Pieces : a \o <<>> = a BY ConcatPieces
  <2>. QED BY <2>1, <2>2 DEF SaidBy, Spoken
<1>. HIDE DEF step
<1>5. IsSaying(f, content)
  <2>1. ASSUME NEW k \in 0..n
        PROVE  f[k] = IF k = 0 THEN <<>>
                      ELSE IF content[k].kind \in {"text", "thinking"}
                           THEN f[k - 1] \o content[k].body
                      ELSE f[k - 1]
    <3>1. CASE k = 0 BY <1>3, <3>1 DEF IsRun
    <3>2. CASE k # 0
      <4>1. k \in 1..n /\ k - 1 \in 0..n BY <1>0, <3>2
      <4>2. f[k - 1] \in Pieces BY <1>3, <4>1
      <4>3. f[k] = step[k][f[k - 1]] BY <1>3, <4>1 DEF IsRun
      <4>. QED BY <1>4, <3>2, <4>1, <4>2, <4>3
    <3>. QED BY <3>1, <3>2
  <2>. QED BY <1>3, <2>1 DEF IsSaying
<1>6. IsSaying(g, content) BY <1>5 DEF Saying
<1>. HIDE DEF g
<1>7. g = [k \in 0..n |-> IF k = 0 THEN <<>>
                          ELSE IF content[k].kind \in {"text", "thinking"}
                               THEN g[k - 1] \o content[k].body
                          ELSE g[k - 1]]
  BY <1>6 DEF IsSaying
<1>8. g[0] = <<>> /\ \A k \in 1..n : g[k] = IF content[k].kind \in {"text", "thinking"}
                                            THEN g[k - 1] \o content[k].body ELSE g[k - 1]
  <2>. HIDE DEF n
  <2>1. 0 \in 0..n /\ \A k \in 1..n : k \in 0..n /\ k # 0 BY <1>0
  <2>. QED BY <1>7, <2>1
<1>9. \A k \in 0..n : g[k] = f[k]
  <2>. HIDE DEF n
  <2>1. Follows(g, n, Pieces, <<>>, step) BY <1>4, <1>8 DEF Follows
  <2>2. n \in Nat /\ f \in [0..n -> Pieces] /\ IsRun(f, n, <<>>, step) BY <1>0, <1>3
  <2>. QED BY <2>1, <2>2, OneRun
<1>10. g \in [0..n -> Pieces] BY <1>3, <1>7, <1>9
<1>11. \A k \in 1..n : g[k] = g[k - 1] \o SaidBy(content[k])
  <2>. SUFFICES ASSUME NEW k \in 1..n PROVE g[k] = g[k - 1] \o SaidBy(content[k]) OBVIOUS
  <2>1. k - 1 \in 0..n BY <1>0
  <2>2. g[k - 1] \in Pieces BY <1>10, <2>1
  <2>3. g[k - 1] \o <<>> = g[k - 1] BY <2>2, ConcatPieces
  <2>. QED BY <1>8, <2>3 DEF SaidBy, Spoken
<1>12. Said(content) = g[n] BY DEF Said, g, Saying, IsSaying
<1>. QED BY <1>8, <1>10, <1>11, <1>12 DEF g

LEMMA SaidType ==
  ASSUME NEW content \in Seq(BlockType)
  PROVE  Said(content) \in Pieces
<1>1. Len(content) \in 0..Len(content) OBVIOUS
<1>. QED BY <1>1, SayingIs

\* Blocks that say the same leave the text the same.
LEMMA SayingPrefix ==
  ASSUME NEW c \in Seq(BlockType), NEW d \in Seq(BlockType), NEW n \in 0..Len(c), n <= Len(d),
         \A i \in 1..n : SaidBy(c[i]) = SaidBy(d[i])
  PROVE  Saying(c)[n] = Saying(d)[n]
<1>. DEFINE f == Saying(c)
            g == Saying(d)
            good == {k \in 0..n : f[k] = g[k]}
<1>1. n \in Nat /\ Len(c) \in Nat /\ Len(d) \in Nat OBVIOUS
<1>2. f[0] = <<>> /\ \A k \in 1..Len(c) : f[k] = f[k - 1] \o SaidBy(c[k]) BY SayingIs
<1>3. g[0] = <<>> /\ \A k \in 1..Len(d) : g[k] = g[k - 1] \o SaidBy(d[k]) BY SayingIs
<1>. HIDE DEF f, g
<1>4. 0 \in good BY <1>1, <1>2, <1>3
<1>5. ASSUME NEW k \in 1..n, k - 1 \in good PROVE k \in good
  <2>1. k \in 0..n /\ k \in 1..Len(c) /\ k \in 1..Len(d) BY <1>1
  <2>. QED BY <1>2, <1>3, <1>5, <2>1
<1>6. n \in good
  <2>. HIDE DEF good
  <2>1. \A k \in 0..n : k \in good BY <1>1, <1>4, <1>5, Climb
  <2>. QED BY <1>1, <2>1
<1>. QED BY <1>6 DEF f, g

LEMMA SaidSame ==
  ASSUME NEW c \in Seq(BlockType), NEW d \in Seq(BlockType), Len(c) = Len(d),
         \A i \in 1..Len(c) : SaidBy(c[i]) = SaidBy(d[i])
  PROVE  Said(d) = Said(c)
<1>1. Len(c) \in 0..Len(c) /\ Len(c) <= Len(d) OBVIOUS
<1>2. Saying(c)[Len(c)] = Saying(d)[Len(c)] BY <1>1, SayingPrefix
<1>. QED BY <1>2, SayingIs

\* A block more.
LEMMA SaidAppend ==
  ASSUME NEW c \in Seq(BlockType), NEW b \in BlockType
  PROVE  Said(Append(c, b)) = Said(c) \o SaidBy(b)
<1>. DEFINE d == Append(c, b)
            n == Len(c)
<1>1. /\ d \in Seq(BlockType) /\ Len(d) = n + 1 /\ d[n + 1] = b
      /\ \A i \in 1..n : d[i] = c[i]
  BY AppendProperties
<1>2. n \in Nat OBVIOUS
<1>. HIDE DEF d
<1>3. Saying(c)[n] = Saying(d)[n] BY <1>1, <1>2, SayingPrefix
<1>4. n + 1 \in 1..Len(d) /\ (n + 1) - 1 = n BY <1>1, <1>2
<1>5. Saying(d)[n + 1] = Saying(d)[n] \o SaidBy(d[n + 1]) BY <1>1, <1>4, SayingIs
<1>6. Said(d) = Saying(d)[n + 1] /\ Said(c) = Saying(c)[n] BY <1>1, SayingIs
<1>. QED BY <1>1, <1>3, <1>5, <1>6 DEF d

\* The last block goes on.
LEMMA SaidLast ==
  ASSUME NEW c \in Seq(BlockType), NEW d \in Seq(BlockType), Len(c) = Len(d), c # <<>>,
         \A i \in 1..(Len(c) - 1) : SaidBy(c[i]) = SaidBy(d[i]),
         NEW body \in Pieces, SaidBy(d[Len(c)]) = SaidBy(c[Len(c)]) \o body
  PROVE  Said(d) = Said(c) \o body
<1>. DEFINE n == Len(c)
<1>1. n \in Nat /\ n > 0 /\ n - 1 \in 0..n /\ n - 1 <= Len(d) /\ n \in 1..n
  <2>1. n \in Nat /\ n # 0 OBVIOUS
  <2>. QED BY <2>1
<1>2. c[n] \in BlockType BY <1>1
<1>. HIDE DEF n
<1>3. Saying(c)[n - 1] = Saying(d)[n - 1] BY <1>1, SayingPrefix DEF n
<1>4. /\ Saying(c)[n] = Saying(c)[n - 1] \o SaidBy(c[n])
      /\ Saying(d)[n] = Saying(d)[n - 1] \o SaidBy(d[n])
      /\ Said(c) = Saying(c)[n] /\ Said(d) = Saying(d)[n]
      /\ Saying(c)[n - 1] \in Pieces
  BY <1>1, SayingIs DEF n
<1>5. SaidBy(c[n]) \in Pieces
  <2>1. <<>> \in Pieces BY DEF Pieces
  <2>. QED BY <1>2, <2>1 DEF SaidBy, BlockType
<1>6. SaidBy(d[n]) = SaidBy(c[n]) \o body BY DEF n
<1>7. Saying(c)[n - 1] \o (SaidBy(c[n]) \o body) = (Saying(c)[n - 1] \o SaidBy(c[n])) \o body
  <2>. DEFINE a == Saying(c)[n - 1]
              b == SaidBy(c[n])
  <2>1. a \in Pieces /\ b \in Pieces BY <1>4, <1>5
  <2>2. a \o (b \o body) = (a \o b) \o body
    <3>. HIDE DEF a, b
    <3>. QED BY <2>1, PiecesAssociate
  <2>. QED BY <2>2
<1>. QED BY <1>3, <1>4, <1>6, <1>7

\* The kinds of delta a block takes.
DeltasOf(kind) ==
  CASE kind = "text" -> {"text_delta"}
    [] kind = "thinking" -> {"thinking_delta", "signature_delta"}
    [] kind = "tool_use" -> {"input_json_delta"}
    [] OTHER -> {}

Top(c) == c.content[Len(c.content)]
HasOpen(c) == c.content # <<>> /\ Top(c).closed = FALSE
Signed(c) == /\ c.last.event = "content_block_delta"
             /\ c.last.index = Len(c.content) - 1
             /\ c.last.kind = "signature_delta"

\* May client c receive event e next?
Legal(c, e) ==
  \/ e.event = "message_start" /\ e.index = 0 /\ e.kind = "none" /\ c.phase = "none"
  \/ /\ e.event = "content_block_start" /\ e.index = Len(c.content) /\ e.kind \in Kinds
     /\ c.phase = "streaming" /\ ~HasOpen(c)
  \/ /\ e.event = "content_block_delta" /\ e.index = Len(c.content) - 1
     /\ c.phase = "streaming" /\ HasOpen(c) /\ e.kind \in DeltasOf(Top(c).kind) /\ ~Signed(c)
  \/ /\ e.event = "content_block_stop" /\ e.index = Len(c.content) - 1 /\ e.kind = "none"
     /\ c.phase = "streaming" /\ HasOpen(c) /\ (Top(c).kind = "thinking" => Signed(c))
  \/ e.event = "message_delta" /\ e.index = 0 /\ c.phase = "streaming" /\ ~HasOpen(c)
  \/ e.event = "message_stop" /\ e.index = 0 /\ e.kind = "none" /\ c.phase = "closing"

\* The names in use are words.
LEMMA Words ==
  /\ {"none", "streaming", "closing", "stopped", "message_start", "content_block_start",
      "content_block_delta", "content_block_stop", "message_delta", "message_stop",
      "text_delta", "thinking_delta", "signature_delta", "input_json_delta", "text",
      "thinking", "tool_use", "image", "notice", "r", "end_turn", "max_tokens", "refusal",
      "pause_turn"} \subseteq Word
  /\ TextPieces \subseteq Word /\ Declared \subseteq Word /\ NoName \in Word
<1>1. Declared \subseteq Word BY TranslatorAssumption DEF Word
<1>. QED BY <1>1 DEF Word, Literals

\* What a client makes of a legal event.
LEMMA ReceivedIs ==
  ASSUME NEW c \in Clients, NEW e \in EventType, Legal(c, e)
  PROVE  /\ Received(c, e) \in Clients
         /\ Received(c, e).last = [event |-> e.event, index |-> e.index,
                                   kind |-> IF e.event = "message_delta" THEN "none" ELSE e.kind]
         /\ e.event = "message_start" =>
              Received(c, e).phase = "streaming" /\ Received(c, e).content = c.content
         /\ e.event = "content_block_start" =>
              /\ Received(c, e).phase = c.phase
              /\ Received(c, e).content =
                   Append(c.content, [kind |-> e.kind, closed |-> FALSE, tool |-> e.tool,
                                      body |-> <<>>])
         /\ e.event = "content_block_delta" =>
              /\ Received(c, e).phase = c.phase
              /\ Received(c, e).content =
                   [c.content EXCEPT ![Len(c.content)].body = @ \o e.body]
         /\ e.event = "content_block_stop" =>
              /\ Received(c, e).phase = c.phase
              /\ Received(c, e).content = [c.content EXCEPT ![Len(c.content)].closed = TRUE]
         /\ e.event = "message_delta" =>
              Received(c, e).phase = "closing" /\ Received(c, e).content = c.content
         /\ e.event = "message_stop" =>
              Received(c, e).phase = "stopped" /\ Received(c, e).content = c.content
<1>. DEFINE last == [event |-> e.event, index |-> e.index,
                     kind |-> IF e.event = "message_delta" THEN "none" ELSE e.kind]
            seen == [c EXCEPT !.last = last]
            n == Len(c.content)
<1>1. /\ c.phase \in Word /\ c.content \in Seq(BlockType) /\ n \in Nat
      /\ c = [phase |-> c.phase, content |-> c.content, last |-> c.last]
  BY DEF Clients
<1>2. e.tool \in Tools \cup {NoTool} /\ e.body \in Pieces /\ e.event \in Word /\ e.kind \in Word
  BY DEF EventType
<1>3. last \in LastType
  <2>1. e.index \in Nat BY DEF EventType
  <2>. QED BY <1>2, <2>1, Words DEF LastType
<1>. HIDE DEF last
<1>4. seen = [phase |-> c.phase, content |-> c.content, last |-> last] BY <1>1
<1>. HIDE DEF seen
<1>5. Received(c, e) =
        CASE e.event = "message_start" -> [seen EXCEPT !.phase = "streaming"]
          [] e.event = "content_block_start" ->
               [seen EXCEPT !.content =
                  Append(@, [kind |-> e.kind, closed |-> FALSE, tool |-> e.tool, body |-> <<>>])]
          [] e.event = "content_block_delta" ->
               [seen EXCEPT !.content[e.index + 1].body = @ \o e.body]
          [] e.event = "content_block_stop" -> [seen EXCEPT !.content[e.index + 1].closed = TRUE]
          [] e.event = "message_delta" -> [seen EXCEPT !.phase = "closing"]
          [] e.event = "message_stop" -> [seen EXCEPT !.phase = "stopped"]
  BY DEF Received, seen, last
<1>6. CASE e.event = "message_start"
  <2>1. Received(c, e) = [phase |-> "streaming", content |-> c.content, last |-> last]
    BY <1>4, <1>5, <1>6
  <2>. QED BY <1>1, <1>3, <1>6, <2>1, Words DEF Clients, last
<1>7. CASE e.event = "content_block_start"
  <2>. DEFINE b == [kind |-> e.kind, closed |-> FALSE, tool |-> e.tool, body |-> <<>>]
  <2>1. b \in BlockType
    <3>1. e.kind \in Kinds BY <1>7 DEF Legal
    <3>2. <<>> \in Pieces BY DEF Pieces
    <3>. QED BY <1>2, <3>1, <3>2 DEF BlockType
  <2>2. Received(c, e) = [phase |-> c.phase, content |-> Append(c.content, b), last |-> last]
    BY <1>4, <1>5, <1>7
  <2>. HIDE DEF b
  <2>3. Append(c.content, b) \in Seq(BlockType) BY <1>1, <2>1
  <2>4. Received(c, e) \in Clients BY <1>1, <1>3, <2>2, <2>3 DEF Clients
  <2>. QED BY <1>7, <2>2, <2>4 DEF last, b
<1>8. ASSUME e.event = "content_block_delta" \/ e.event = "content_block_stop"
      PROVE  e.index + 1 = n /\ n \in 1..n /\ c.content[n] \in BlockType
  <2>1. e.index = n - 1 /\ c.content # <<>> BY <1>8 DEF Legal, HasOpen
  <2>2. n # 0 BY <1>1, <2>1
  <2>. QED BY <1>1, <2>1, <2>2
<1>9. CASE e.event = "content_block_delta"
  <2>. DEFINE b == [c.content[n] EXCEPT !.body = @ \o e.body]
              d == [c.content EXCEPT ![n].body = @ \o e.body]
  <2>1. d = [c.content EXCEPT ![n] = b] OBVIOUS
  <2>2. b \in BlockType
    <3>1. c.content[n].body \in Pieces BY <1>8, <1>9 DEF BlockType
    <3>2. c.content[n].body \o e.body \in Pieces BY <1>2, <3>1, ConcatPieces
    <3>. QED BY <1>8, <1>9, <3>2 DEF BlockType
  <2>3. d \in Seq(BlockType)
    <3>. HIDE DEF b
    <3>. QED BY <1>1, <1>8, <1>9, <2>1, <2>2, ExceptSeq
  <2>4. Received(c, e) = [phase |-> c.phase, content |-> d, last |-> last]
    BY <1>4, <1>5, <1>8, <1>9
  <2>. HIDE DEF d, b
  <2>5. Received(c, e) \in Clients BY <1>1, <1>3, <2>3, <2>4 DEF Clients
  <2>. QED BY <1>9, <2>4, <2>5 DEF last, d
<1>10. CASE e.event = "content_block_stop"
  <2>. DEFINE b == [c.content[n] EXCEPT !.closed = TRUE]
              d == [c.content EXCEPT ![n].closed = TRUE]
  <2>1. d = [c.content EXCEPT ![n] = b] OBVIOUS
  <2>2. b \in BlockType BY <1>8, <1>10 DEF BlockType
  <2>3. d \in Seq(BlockType)
    <3>. HIDE DEF b
    <3>. QED BY <1>1, <1>8, <1>10, <2>1, <2>2, ExceptSeq
  <2>4. Received(c, e) = [phase |-> c.phase, content |-> d, last |-> last]
    BY <1>4, <1>5, <1>8, <1>10
  <2>. HIDE DEF d, b
  <2>5. Received(c, e) \in Clients BY <1>1, <1>3, <2>3, <2>4 DEF Clients
  <2>. QED BY <1>10, <2>4, <2>5 DEF last, d
<1>11. CASE e.event = "message_delta"
  <2>1. Received(c, e) = [phase |-> "closing", content |-> c.content, last |-> last]
    BY <1>4, <1>5, <1>11
  <2>. QED BY <1>1, <1>3, <1>11, <2>1, Words DEF Clients, last
<1>12. CASE e.event = "message_stop"
  <2>1. Received(c, e) = [phase |-> "stopped", content |-> c.content, last |-> last]
    BY <1>4, <1>5, <1>12
  <2>. QED BY <1>1, <1>3, <1>12, <2>1, Words DEF Clients, last
<1>. QED BY <1>6, <1>7, <1>9, <1>10, <1>11, <1>12 DEF Legal

\* A client that would not take an illegal event.
Hears(c, e) == IF Legal(c, e) THEN Received(c, e) ELSE c

\* What events make of a client, one after another.
IsHearing(f, c, events) ==
  f = [n \in 0..Len(events) |-> IF n = 0 THEN c ELSE Hears(f[n - 1], events[n])]

Hearing(c, events) == CHOOSE f : IsHearing(f, c, events)
After(c, events) == Hearing(c, events)[Len(events)]

\* Every event is legal when it comes.
Lawful(c, events) ==
  \A k \in 1..Len(events) : Legal(Hearing(c, events)[k - 1], events[k])

LEMMA HearingIs ==
  ASSUME NEW c \in Clients, NEW events \in Seq(EventType)
  PROVE  /\ Hearing(c, events) \in [0..Len(events) -> Clients]
         /\ Hearing(c, events)[0] = c
         /\ \A k \in 1..Len(events) :
              Hearing(c, events)[k] = Hears(Hearing(c, events)[k - 1], events[k])
<1>. DEFINE n == Len(events)
            step == [k \in 1..n |-> [d \in Clients |-> Hears(d, events[k])]]
            g == Hearing(c, events)
<1>1. n \in Nat /\ \A k \in 1..n : events[k] \in EventType OBVIOUS
<1>2. step \in [1..n -> [Clients -> Clients]]
  <2>1. \A k \in 1..n, d \in Clients : Hears(d, events[k]) \in Clients
    BY <1>1, ReceivedIs DEF Hears
  <2>. QED BY <2>1
<1>3. PICK f \in [0..n -> Clients] : IsRun(f, n, c, step)
  <2>. HIDE DEF step, n
  <2>. QED BY <1>1, <1>2, Recursion
<1>4. \A k \in 1..n : \A d \in Clients : step[k][d] = Hears(d, events[k]) OBVIOUS
<1>. HIDE DEF step
<1>5. IsHearing(f, c, events)
  <2>1. ASSUME NEW k \in 0..n PROVE f[k] = IF k = 0 THEN c ELSE Hears(f[k - 1], events[k])
    <3>1. k = 0 \/ (k \in 1..n /\ k - 1 \in 0..n) BY <1>1
    <3>. QED BY <1>3, <1>4, <3>1 DEF IsRun
  <2>. QED BY <1>3, <2>1 DEF IsHearing
<1>6. IsHearing(g, c, events) BY <1>5 DEF Hearing
<1>. HIDE DEF g
<1>7. g = [k \in 0..n |-> IF k = 0 THEN c ELSE Hears(g[k - 1], events[k])]
  BY <1>6 DEF IsHearing
<1>8. g[0] = c /\ \A k \in 1..n : g[k] = Hears(g[k - 1], events[k])
  <2>. HIDE DEF n
  <2>1. 0 \in 0..n /\ \A k \in 1..n : k \in 0..n /\ k # 0 BY <1>1
  <2>. QED BY <1>7, <2>1
<1>9. \A k \in 0..n : g[k] = f[k]
  <2>. HIDE DEF n
  <2>1. Follows(g, n, Clients, c, step) BY <1>4, <1>8 DEF Follows
  <2>2. n \in Nat /\ f \in [0..n -> Clients] /\ IsRun(f, n, c, step) BY <1>1, <1>3
  <2>. QED BY <2>1, <2>2, OneRun
<1>10. g \in [0..n -> Clients] BY <1>3, <1>7, <1>9
<1>. QED BY <1>8, <1>10 DEF g

\* No event, one event more, and one event taken.
LEMMA HearNothing ==
  ASSUME NEW c \in Clients
  PROVE  After(c, <<>>) = c /\ Lawful(c, <<>>)
<1>1. <<>> \in Seq(EventType) /\ Len(<<>>) = 0 /\ 1..0 = {} OBVIOUS
<1>. QED BY <1>1, HearingIs DEF After, Lawful

LEMMA AfterType ==
  ASSUME NEW c \in Clients, NEW events \in Seq(EventType)
  PROVE  After(c, events) \in Clients
<1>1. Len(events) \in 0..Len(events) OBVIOUS
<1>. QED BY <1>1, HearingIs DEF After

LEMMA HearMore ==
  ASSUME NEW c \in Clients, NEW events \in Seq(EventType), NEW e \in EventType,
         Lawful(c, events), Legal(After(c, events), e)
  PROVE  /\ events \o <<e>> \in Seq(EventType)
         /\ Lawful(c, events \o <<e>>)
         /\ After(c, events \o <<e>>) = Received(After(c, events), e)
<1>. DEFINE n == Len(events)
            more == Append(events, e)
            f == Hearing(c, events)
            g == Hearing(c, more)
            same == {k \in 0..n : f[k] = g[k]}
<1>1. /\ more \in Seq(EventType) /\ Len(more) = n + 1 /\ more[n + 1] = e
      /\ \A i \in 1..n : more[i] = events[i]
  BY AppendProperties
<1>2. n \in Nat /\ events \o <<e>> = more BY AppendIsConcat
<1>3. f[0] = c /\ \A k \in 1..n : f[k] = Hears(f[k - 1], events[k]) BY HearingIs
<1>4. g[0] = c /\ \A k \in 1..(n + 1) : g[k] = Hears(g[k - 1], more[k])
  <2>. HIDE DEF more
  <2>. QED BY <1>1, HearingIs
<1>5. \A k \in 1..n : Legal(f[k - 1], events[k]) BY DEF Lawful
<1>6. After(c, events) = f[n] /\ After(c, more) = g[n + 1] BY <1>1 DEF After
<1>. HIDE DEF n, f, g, more
<1>7. \A k \in 0..n : k \in same
  <2>1. 0 \in same BY <1>2, <1>3, <1>4
  <2>2. ASSUME NEW k \in 1..n, k - 1 \in same PROVE k \in same
    <3>1. k \in 0..n /\ k \in 1..(n + 1) BY <1>2
    <3>. QED BY <1>1, <1>3, <1>4, <2>2, <3>1
  <2>. HIDE DEF same
  <2>. QED BY <1>2, <2>1, <2>2, Climb
<1>8. \A k \in 1..(n + 1) : Legal(g[k - 1], more[k])
  <2>. SUFFICES ASSUME NEW k \in 1..(n + 1) PROVE Legal(g[k - 1], more[k]) OBVIOUS
  <2>1. k - 1 \in 0..n /\ g[k - 1] = f[k - 1] BY <1>2, <1>7
  <2>2. CASE k = n + 1
    <3>1. k - 1 = n BY <1>2, <2>2
    <3>. QED BY <1>1, <1>6, <2>1, <2>2, <3>1
  <2>3. CASE k # n + 1
    <3>1. k \in 1..n BY <1>2, <2>3
    <3>. QED BY <1>1, <1>5, <2>1, <3>1
  <2>. QED BY <2>2, <2>3
<1>9. Lawful(c, more) BY <1>1, <1>8 DEF Lawful, g
<1>10. g[n + 1] = Received(f[n], e)
  <2>1. n + 1 \in 1..(n + 1) /\ (n + 1) - 1 = n /\ n \in 0..n BY <1>2
  <2>2. g[n] = f[n] BY <1>7, <2>1
  <2>. QED BY <1>1, <1>4, <1>6, <2>1, <2>2 DEF Hears
<1>. QED BY <1>1, <1>2, <1>6, <1>9, <1>10

LEMMA HearFirst ==
  ASSUME NEW c \in Clients, NEW events \in Seq(EventType), events # <<>>, Lawful(c, events)
  PROVE  /\ Head(events) \in EventType /\ Tail(events) \in Seq(EventType)
         /\ Legal(c, Head(events)) /\ Received(c, Head(events)) \in Clients
         /\ Lawful(Received(c, Head(events)), Tail(events))
         /\ After(Received(c, Head(events)), Tail(events)) = After(c, events)
<1>. DEFINE n == Len(events)
            rest == Tail(events)
            e == Head(events)
            d == Received(c, e)
            f == Hearing(c, events)
            g == Hearing(d, rest)
            same == {k \in 0..(n - 1) : g[k] = f[k + 1]}
<1>1. n \in Nat /\ n > 0
  <2>1. n \in Nat /\ n # 0 BY EmptySeq
  <2>. QED BY <2>1
<1>2. /\ e = events[1] /\ e \in EventType /\ rest \in Seq(EventType) /\ Len(rest) = n - 1
      /\ \A i \in 1..(n - 1) : rest[i] = events[i + 1]
  BY <1>1, HeadTailProperties
<1>3. /\ f[0] = c /\ \A k \in 1..n : f[k] = Hears(f[k - 1], events[k])
      /\ \A k \in 1..n : Legal(f[k - 1], events[k])
  BY HearingIs DEF Lawful
<1>4. Legal(c, e) /\ d \in Clients /\ f[1] = d
  <2>. HIDE DEF f, n
  <2>1. 1 \in 1..n /\ 1 - 1 = 0 BY <1>1
  <2>2. Legal(c, e) /\ f[1] = Hears(c, e) BY <1>2, <1>3, <2>1
  <2>3. d \in Clients
    <3>. HIDE DEF e
    <3>. QED BY <1>2, <2>2, ReceivedIs
  <2>. QED BY <2>2, <2>3 DEF Hears
<1>5. g[0] = d /\ \A k \in 1..(n - 1) : g[k] = Hears(g[k - 1], rest[k])
  <2>. HIDE DEF d, rest
  <2>. QED BY <1>2, <1>4, HearingIs
<1>6. After(c, events) = f[n] /\ After(d, rest) = g[n - 1] BY <1>2 DEF After
<1>. HIDE DEF n, f, g, rest, d, e
<1>7. \A k \in 0..(n - 1) : k \in same
  <2>1. 0 \in same BY <1>1, <1>4, <1>5
  <2>2. ASSUME NEW k \in 1..(n - 1), k - 1 \in same PROVE k \in same
    <3>1. k \in 0..(n - 1) /\ k + 1 \in 1..n /\ (k + 1) - 1 = k /\ (k - 1) + 1 = k BY <1>1
    <3>2. g[k - 1] = f[k] BY <2>2, <3>1
    <3>. QED BY <1>2, <1>3, <1>5, <3>1, <3>2
  <2>3. n - 1 \in Nat BY <1>1
  <2>. HIDE DEF same
  <2>. QED BY <2>1, <2>2, <2>3, Climb
<1>8. \A k \in 1..(n - 1) : Legal(g[k - 1], rest[k])
  <2>. SUFFICES ASSUME NEW k \in 1..(n - 1) PROVE Legal(g[k - 1], rest[k]) OBVIOUS
  <2>1. k - 1 \in 0..(n - 1) /\ (k - 1) + 1 = k /\ k + 1 \in 1..n /\ (k + 1) - 1 = k BY <1>1
  <2>2. g[k - 1] = f[k] BY <1>7, <2>1
  <2>. QED BY <1>2, <1>3, <2>1, <2>2
<1>9. Lawful(d, rest) BY <1>2, <1>8 DEF Lawful, g
<1>10. g[n - 1] = f[n]
  <2>1. n - 1 \in 0..(n - 1) /\ (n - 1) + 1 = n BY <1>1
  <2>. QED BY <1>7, <2>1
<1>. QED BY <1>2, <1>4, <1>6, <1>9, <1>10 DEF rest, d, e
-----------------------------------------------------------------------------
(***************************************************************************)
(* The translator, and the client behind it.  Ready(c, u): the events on   *)
(* their way take client c to one whose blocks are those u has sent.       *)
(***************************************************************************)
\* Text as the upstream sends it.
Plain == {s \in Pieces : \A i \in 1..Len(s) : s[i] \in TextPieces}

BufType == [id : BOOLEAN, name : Word, args : Pieces, at : Nat \cup {NoTool},
            started : BOOLEAN, closed : BOOLEAN]

Translators ==
  [started : BOOLEAN, finished : BOOLEAN, next : Nat, open : Kinds \cup {"none"},
   byReasoning : BOOLEAN, hold : Plain, stop : Word, budget : Nat \cup {NoBudget},
   thought : Nat, budgetHit : BOOLEAN, tools : [Tools -> BufType],
   streaming : Tools \cup {NoTool}, names : Pieces, repeated : Nat, hallucinated : Nat,
   out : Seq(EventType)]

\* Client d has the blocks that translator u has sent, of which the last is
\* open if u's is.
Agrees(d, u) ==
  /\ d \in Clients
  /\ d.phase = IF u.started THEN "streaming" ELSE "none"
  /\ Len(d.content) = u.next
  /\ \A i \in 1..u.next : d.content[i].closed = (u.open = "none" \/ i # u.next)
  /\ u.open # "none" => u.next > 0 /\ d.content[u.next].kind = u.open /\ ~Signed(d)

\* A tool that still streams is the one whose block is open.
OpenTools(u) ==
  \A i \in Tools : u.tools[i].started = TRUE /\ u.tools[i].closed = FALSE =>
                    u.open = "tool_use" /\ u.tools[i].at = u.next - 1

\* The events of u on their way take client c to one that agrees with u.
Ready(c, u) ==
  /\ c \in Clients /\ u \in Translators /\ OpenTools(u)
  /\ Lawful(c, u.out)
  /\ Agrees(After(c, u.out), u)

\* The blocks of the client when it has everything.
Shows(c, u) == After(c, u.out).content

LEMMA ReadyType ==
  ASSUME NEW c, NEW u, Ready(c, u)
  PROVE  /\ u.out \in Seq(EventType) /\ u.next \in Nat /\ u.open \in Kinds \cup {"none"}
         /\ After(c, u.out) \in Clients
         /\ Shows(c, u) \in Seq(BlockType) /\ Len(Shows(c, u)) = u.next
BY DEF Ready, Translators, Agrees, Shows, Clients

\* An event is sent.
LEMMA EmitOne ==
  ASSUME NEW c \in Clients, NEW out \in Seq(EventType), NEW e \in EventType, NEW d,
         Lawful(c, out), d = After(c, out), Legal(d, e)
  PROVE  /\ out \o <<e>> \in Seq(EventType) /\ Lawful(c, out \o <<e>>)
         /\ After(c, out \o <<e>>) = Received(d, e) /\ Received(d, e) \in Clients
<1>1. d \in Clients BY AfterType
<1>2. Legal(After(c, out), e) OBVIOUS
<1>3. /\ out \o <<e>> \in Seq(EventType) /\ Lawful(c, out \o <<e>>)
      /\ After(c, out \o <<e>>) = Received(After(c, out), e)
  BY <1>2, HearMore
<1>4. Received(d, e) \in Clients BY <1>1, ReceivedIs
<1>. QED BY <1>3, <1>4

LEMMA EventIs ==
  ASSUME NEW event \in Word, NEW index \in Nat, NEW kind \in Word,
         NEW tool \in Tools \cup {NoTool}, NEW body \in Pieces
  PROVE  /\ Event(event, index, kind, tool, body) \in EventType
         /\ Event(event, index, kind, tool, body).event = event
         /\ Event(event, index, kind, tool, body).index = index
         /\ Event(event, index, kind, tool, body).kind = kind
         /\ Event(event, index, kind, tool, body).tool = tool
         /\ Event(event, index, kind, tool, body).body = body
BY DEF Event, EventType

LEMMA DeltaKinds ==
  ASSUME NEW kind
  PROVE  /\ DeltasOf(kind) \subseteq Word
         /\ kind \in Kinds => kind \in Word
         /\ DeltasOf("none") = {}
BY Words DEF DeltasOf, Kinds

\* Block n goes on with body.
Longer(content, n, body) == [content EXCEPT ![n].body = @ \o body]

\* v is u with more events sent, and perhaps another block open.
Moves(u, v, open, next, tools) ==
  v = [u EXCEPT !.out = v.out, !.open = open, !.next = next, !.tools = tools]

LEMMA MovesIs ==
  ASSUME NEW u \in Translators, NEW v, NEW open, NEW next, NEW tools,
         Moves(u, v, open, next, tools)
  PROVE  /\ v.open = open /\ v.next = next /\ v.tools = tools
         /\ v.started = u.started /\ v.budget = u.budget /\ v.streaming = u.streaming
         /\ v.hold = u.hold /\ v.thought = u.thought /\ v.budgetHit = u.budgetHit
         /\ v.finished = u.finished
<1>1. PICK o : o = v.out OBVIOUS
<1>2. v = [u EXCEPT !.out = o, !.open = open, !.next = next, !.tools = tools]
  BY <1>1 DEF Moves
<1>. QED BY <1>2 DEF Translators

\* A delta for the block that is open.
LEMMA DeltaReady ==
  ASSUME NEW c, NEW u, Ready(c, u), u.started = TRUE, NEW kind, kind \in DeltasOf(u.open),
         kind # "signature_delta", NEW body \in Pieces
  PROVE  /\ Ready(c, Delta(u, kind, body))
         /\ Moves(u, Delta(u, kind, body), u.open, u.next, u.tools)
         /\ u.next \in 1..Len(Shows(c, u)) /\ Shows(c, u)[u.next].kind = u.open
         /\ Shows(c, Delta(u, kind, body)) = Longer(Shows(c, u), u.next, body)
<1>. DEFINE n == u.next
            d == After(c, u.out)
            e == Event("content_block_delta", n - 1, kind, NoTool, body)
            v == Delta(u, kind, body)
<1>1. /\ c \in Clients /\ u \in Translators /\ u.out \in Seq(EventType) /\ n \in Nat
      /\ Lawful(c, u.out) /\ d \in Clients /\ Agrees(d, u)
  BY ReadyType DEF Ready
<1>2. u.open # "none" BY DeltaKinds
<1>3. /\ d.phase = "streaming" /\ Len(d.content) = n /\ n > 0 /\ d.content[n].kind = u.open
      /\ ~Signed(d) /\ \A i \in 1..n : d.content[i].closed = (i # n)
  BY <1>1, <1>2 DEF Agrees
<1>4. d.content \in Seq(BlockType) /\ n \in 1..n BY <1>1, <1>3 DEF Clients
<1>5. /\ e \in EventType /\ e.event = "content_block_delta" /\ e.index = n - 1 /\ e.kind = kind
      /\ e.body = body
  <2>1. n - 1 \in Nat /\ kind \in Word /\ "content_block_delta" \in Word
        /\ NoTool \in Tools \cup {NoTool}
    BY <1>1, <1>3, DeltaKinds, Words
  <2>2. e = [event |-> "content_block_delta", index |-> n - 1, kind |-> kind, tool |-> NoTool,
               body |-> body]
    BY DEF Event
  <2>. HIDE DEF e, n
  <2>. QED BY <2>1, <2>2 DEF EventType
<1>6. v = [u EXCEPT !.out = u.out \o <<e>>] BY DEF Delta, Emitted
<1>. HIDE DEF e, d, v
<1>7. Legal(d, e)
  <2>1. Top(d) = d.content[n] /\ d.content # <<>> BY <1>3 DEF Top
  <2>2. HasOpen(d) /\ Top(d).kind = u.open BY <1>3, <1>4, <2>1 DEF HasOpen
  <2>. QED BY <1>3, <1>5, <2>2 DEF Legal
<1>8. /\ u.out \o <<e>> \in Seq(EventType) /\ Lawful(c, u.out \o <<e>>)
      /\ After(c, u.out \o <<e>>) = Received(d, e) /\ Received(d, e) \in Clients
  <2>1. d = After(c, u.out) BY DEF d
  <2>. QED BY <1>1, <1>5, <1>7, <2>1, EmitOne
<1>9. /\ v \in Translators /\ v.out = u.out \o <<e>> /\ v.started = u.started
      /\ v.next = n /\ v.open = u.open /\ v.tools = u.tools
  BY <1>1, <1>6, <1>8 DEF Translators
<1>. DEFINE g == Received(d, e)
<1>10. /\ g.phase = "streaming"
       /\ g.content = [d.content EXCEPT ![n].body = @ \o body]
       /\ g.last.kind = kind
  <2>1. /\ g.phase = d.phase
        /\ g.content = [d.content EXCEPT ![Len(d.content)].body = @ \o e.body]
        /\ g.last = [event |-> e.event, index |-> e.index,
                     kind |-> IF e.event = "message_delta" THEN "none" ELSE e.kind]
    BY <1>1, <1>5, <1>7, ReceivedIs
  <2>. HIDE DEF g, n
  <2>. QED BY <1>3, <1>5, <2>1
<1>11. Agrees(g, v)
  <2>. HIDE DEF g, n
  <2>1. /\ Len(g.content) = n
        /\ \A i \in 1..n : g.content[i].closed = d.content[i].closed
        /\ g.content[n].kind = d.content[n].kind
    <3>1. \A i \in 1..n : d.content[i] \in BlockType BY <1>3, <1>4
    <3>. QED BY <1>1, <1>3, <1>4, <1>10, <3>1 DEF BlockType
  <2>2. ~Signed(g) BY <1>10 DEF Signed
  <2>3. g \in Clients BY <1>8 DEF g
  <2>. QED BY <1>1, <1>2, <1>3, <1>9, <1>10, <2>1, <2>2, <2>3 DEF Agrees
<1>12. Ready(c, v)
  <2>1. OpenTools(v)
    <3>. HIDE DEF n
    <3>. QED BY <1>9 DEF Ready, OpenTools, n
  <2>. QED BY <1>1, <1>8, <1>9, <1>11, <2>1 DEF Ready
<1>13. Shows(c, v) = Longer(Shows(c, u), n, body)
  BY <1>8, <1>9, <1>10 DEF Shows, d, Longer
<1>14. n \in 1..Len(Shows(c, u)) /\ Shows(c, u)[n].kind = u.open
  BY <1>3, <1>4 DEF Shows, d
<1>15. Moves(u, v, u.open, u.next, u.tools) BY <1>1, <1>6, <1>9 DEF Moves, Translators
<1>. QED BY <1>12, <1>13, <1>14, <1>15 DEF v

\* Blocks that differ at most in being closed.
SameBlocks(a, b) ==
  /\ Len(a) = Len(b)
  /\ \A i \in 1..Len(a) : a[i].kind = b[i].kind /\ a[i].tool = b[i].tool /\ a[i].body = b[i].body

\* The tool calls that have arrived are the same.
SameCalls(a, b) ==
  \A i \in Tools :
    /\ BlocksOf(a, i) = BlocksOf(b, i)
    /\ \A n \in BlocksOf(a, i) : a[n].body = b[n].body

LEMMA SameBlocksSame ==
  ASSUME NEW a \in Seq(BlockType), NEW b \in Seq(BlockType), SameBlocks(a, b)
  PROVE  Said(b) = Said(a) /\ SameCalls(a, b)
<1>1. \A i \in 1..Len(a) : SaidBy(a[i]) = SaidBy(b[i]) BY DEF SameBlocks, SaidBy
<1>2. Said(b) = Said(a) BY <1>1, SaidSame DEF SameBlocks
<1>3. DOMAIN a = 1..Len(a) /\ DOMAIN b = 1..Len(a) BY DEF SameBlocks
<1>4. \A i \in Tools : BlocksOf(a, i) = BlocksOf(b, i) BY <1>3 DEF SameBlocks, BlocksOf
<1>5. \A i \in Tools : BlocksOf(a, i) \subseteq 1..Len(a) BY <1>3 DEF BlocksOf
<1>6. SameCalls(a, b) BY <1>4, <1>5 DEF SameCalls, SameBlocks
<1>. QED BY <1>2, <1>6

\* An empty delta leaves a block as it was.
LEMMA EmptyDelta ==
  ASSUME NEW s \in Seq(BlockType), NEW n \in 1..Len(s)
  PROVE  [s EXCEPT ![n].body = @ \o <<>>] = s
<1>. DEFINE b == [s[n] EXCEPT !.body = @ \o <<>>]
<1>1. s[n] \in BlockType OBVIOUS
<1>2. s[n].body \in Pieces BY <1>1 DEF BlockType
<1>3. s[n].body \o <<>> = s[n].body BY <1>2, ConcatPieces
<1>4. b = s[n] BY <1>1, <1>3 DEF BlockType
<1>5. [s EXCEPT ![n].body = @ \o <<>>] = [s EXCEPT ![n] = b] OBVIOUS
<1>. HIDE DEF b
<1>6. [s EXCEPT ![n] = b] = s BY <1>4
<1>. QED BY <1>5, <1>6

\* What matters of u to the client is what it has sent and what is open.
LEMMA ReadySame ==
  ASSUME NEW c, NEW u, Ready(c, u), NEW v \in Translators,
         v.out = u.out, v.started = u.started, v.next = u.next, v.open = u.open,
         v.tools = u.tools
  PROVE  Ready(c, v) /\ Shows(c, v) = Shows(c, u)
BY DEF Ready, OpenTools, Agrees, Shows

\* What a thinking block gets before it is closed.
LEMMA SignatureReady ==
  ASSUME NEW c, NEW u, Ready(c, u), u.started = TRUE, u.open # "none", NEW d,
         d = After(c, u.out)
  PROVE  /\ u.out \o Signature(u) \in Seq(EventType)
         /\ Lawful(c, u.out \o Signature(u))
         /\ After(c, u.out \o Signature(u)) \in Clients
         /\ After(c, u.out \o Signature(u)).phase = d.phase
         /\ After(c, u.out \o Signature(u)).content = d.content
         /\ u.open = "thinking" => Signed(After(c, u.out \o Signature(u)))
<1>. DEFINE n == u.next
            e == Event("content_block_delta", n - 1, "signature_delta", NoTool, <<>>)
<1>1. /\ c \in Clients /\ u.out \in Seq(EventType) /\ n \in Nat
      /\ Lawful(c, u.out) /\ d \in Clients /\ Agrees(d, u)
  BY ReadyType DEF Ready
<1>2. CASE u.open # "thinking"
  <2>1. Signature(u) = <<>> BY <1>2 DEF Signature
  <2>2. u.out \o <<>> = u.out BY <1>1
  <2>. QED BY <1>1, <1>2, <2>1, <2>2
<1>3. CASE u.open = "thinking"
  <2>0. /\ d.phase = "streaming" /\ Len(d.content) = n /\ n > 0 /\ d.content[n].kind = u.open
        /\ ~Signed(d) /\ \A i \in 1..n : d.content[i].closed = (i # n)
    BY <1>1, <1>3 DEF Agrees
  <2>1. /\ d.phase = "streaming" /\ Len(d.content) = n /\ n > 0 /\ d.content[n].kind = "thinking"
        /\ ~Signed(d) /\ d.content[n].closed = FALSE
    <3>1. n \in 1..n BY <1>1, <2>0
    <3>. QED BY <1>3, <2>0, <3>1
  <2>2. d.content \in Seq(BlockType) /\ n \in 1..n BY <1>1, <2>1 DEF Clients
  <2>3. /\ e \in EventType /\ e.event = "content_block_delta" /\ e.index = n - 1
        /\ e.kind = "signature_delta" /\ e.body = <<>>
    <3>1. /\ n - 1 \in Nat /\ "signature_delta" \in Word /\ "content_block_delta" \in Word
          /\ NoTool \in Tools \cup {NoTool} /\ <<>> \in Pieces
      BY <1>1, <2>1, Words DEF Pieces
    <3>2. e = [event |-> "content_block_delta", index |-> n - 1, kind |-> "signature_delta",
               tool |-> NoTool, body |-> <<>>]
      BY DEF Event
    <3>. HIDE DEF e, n
    <3>. QED BY <3>1, <3>2 DEF EventType
  <2>4. Signature(u) = <<e>> BY <1>3 DEF Signature
  <2>. HIDE DEF e
  <2>5. Legal(d, e)
    <3>1. Top(d) = d.content[n] /\ d.content # <<>> BY <2>1 DEF Top
    <3>2. HasOpen(d) /\ Top(d).kind = "thinking" BY <2>1, <2>2, <3>1 DEF HasOpen
    <3>3. "signature_delta" \in DeltasOf("thinking") BY DEF DeltasOf
    <3>. QED BY <2>1, <2>3, <3>2, <3>3 DEF Legal
  <2>6. /\ u.out \o <<e>> \in Seq(EventType) /\ Lawful(c, u.out \o <<e>>)
        /\ After(c, u.out \o <<e>>) = Received(d, e) /\ Received(d, e) \in Clients
    BY <1>1, <2>3, <2>5, EmitOne
  <2>. DEFINE g == Received(d, e)
  <2>7. /\ g.phase = d.phase /\ g.content = [d.content EXCEPT ![n].body = @ \o <<>>]
        /\ g.last = [event |-> "content_block_delta", index |-> n - 1,
                     kind |-> "signature_delta"]
    <3>1. d \in Clients /\ e \in EventType /\ Legal(d, e) BY <1>1, <2>3, <2>5
    <3>. HIDE DEF n
    <3>2. e.event = "content_block_delta" BY <2>3
    <3>3. /\ g.phase = d.phase
          /\ g.content = [d.content EXCEPT ![Len(d.content)].body = @ \o e.body]
      BY <3>1, <3>2, ReceivedIs
    <3>4. g.last = [event |-> e.event, index |-> e.index,
                    kind |-> IF e.event = "message_delta" THEN "none" ELSE e.kind]
      BY <3>1, ReceivedIs
    <3>. HIDE DEF g
    <3>. QED BY <2>1, <2>3, <3>2, <3>3, <3>4
  <2>. HIDE DEF g, n
  <2>8. g.content = d.content
    <3>1. n \in 1..Len(d.content) BY <2>1, <2>2
    <3>2. [d.content EXCEPT ![n].body = @ \o <<>>] = d.content BY <2>2, <3>1, EmptyDelta
    <3>. QED BY <2>7, <3>2
  <2>9. Signed(g) BY <2>1, <2>3, <2>7, <2>8 DEF Signed
  <2>. QED BY <2>4, <2>6, <2>7, <2>8, <2>9 DEF g
<1>. QED BY <1>2, <1>3

\* Joining events.
LEMMA JoinEvents ==
  ASSUME NEW a \in Seq(EventType), NEW b \in Seq(EventType), NEW e \in EventType
  PROVE  a \o (b \o <<e>>) = (a \o b) \o <<e>>
<1>. DEFINE S == EventType
            r == <<e>>
<1>1. a \in Seq(S) /\ b \in Seq(S) /\ r \in Seq(S) OBVIOUS
<1>. HIDE DEF S, r
<1>2. a \o (b \o r) = (a \o b) \o r BY <1>1, ConcatAssociative
<1>. QED BY <1>2 DEF r

LEMMA OneEvent ==
  ASSUME NEW s, NEW f \in EventType, s = <<>> \/ s = <<f>>
  PROVE  s \in Seq(EventType)
<1>1. <<f>> \in Seq(EventType) OBVIOUS
<1>2. <<>> \in Seq(EventType) OBVIOUS
<1>. QED BY <1>1, <1>2

LEMMA ToolsClosedType ==
  ASSUME NEW u \in Translators
  PROVE  /\ ToolsClosed(u) \in [Tools -> BufType]
         /\ \A i \in Tools : ToolsClosed(u)[i] = [u.tools[i] EXCEPT !.closed = ToolsClosed(u)[i].closed]
         /\ u.open # "tool_use" => ToolsClosed(u) = u.tools
<1>1. \A i \in Tools : u.tools[i] \in BufType /\ u.tools[i].closed \in BOOLEAN
  BY DEF Translators, BufType
<1>2. ASSUME NEW i \in Tools PROVE ToolsClosed(u)[i] \in BufType
  <2>. DEFINE x == u.tools[i].closed \/ (u.open = "tool_use" /\ u.tools[i].at = u.next - 1)
  <2>1. x \in BOOLEAN BY <1>1
  <2>2. ToolsClosed(u)[i] = [u.tools[i] EXCEPT !.closed = x] BY DEF ToolsClosed
  <2>. HIDE DEF x
  <2>. QED BY <1>1, <2>1, <2>2 DEF BufType
<1>3. ToolsClosed(u) = [i \in Tools |-> ToolsClosed(u)[i]] BY DEF ToolsClosed
<1>4. ToolsClosed(u) \in [Tools -> BufType] BY <1>2, <1>3
<1>5. ASSUME NEW i \in Tools
      PROVE  ToolsClosed(u)[i] = [u.tools[i] EXCEPT !.closed = ToolsClosed(u)[i].closed]
  <2>. DEFINE x == u.tools[i].closed \/ (u.open = "tool_use" /\ u.tools[i].at = u.next - 1)
  <2>1. ToolsClosed(u)[i] = [u.tools[i] EXCEPT !.closed = x] BY DEF ToolsClosed
  <2>. HIDE DEF x
  <2>2. ToolsClosed(u)[i].closed = x BY <1>1, <2>1 DEF BufType
  <2>. QED BY <2>1, <2>2
<1>6. ASSUME u.open # "tool_use" PROVE ToolsClosed(u) = u.tools
  <2>1. ASSUME NEW i \in Tools PROVE ToolsClosed(u)[i] = u.tools[i]
    <3>1. ToolsClosed(u)[i] = [u.tools[i] EXCEPT !.closed = u.tools[i].closed]
      <4>1. (u.tools[i].closed \/ (u.open = "tool_use" /\ u.tools[i].at = u.next - 1))
              = u.tools[i].closed
        BY <1>1, <1>6
      <4>. QED BY <4>1 DEF ToolsClosed
    <3>. QED BY <1>1, <3>1 DEF BufType
  <2>2. u.tools = [i \in Tools |-> u.tools[i]] BY DEF Translators
  <2>. QED BY <1>3, <2>1, <2>2
<1>. QED BY <1>4, <1>5, <1>6

\* No tool streams when no block is open.
NoneStreams(tools) ==
  \A i \in Tools : ~(tools[i].started = TRUE /\ tools[i].closed = FALSE)

LEMMA ClosedTools ==
  ASSUME NEW u \in Translators, OpenTools(u)
  PROVE  /\ NoneStreams(ToolsClosed(u))
         /\ u.open # "tool_use" => NoneStreams(u.tools)
<1>1. ASSUME NEW i \in Tools, ToolsClosed(u)[i].started = TRUE, ToolsClosed(u)[i].closed = FALSE
      PROVE  FALSE
  <2>. DEFINE x == u.tools[i].closed \/ (u.open = "tool_use" /\ u.tools[i].at = u.next - 1)
  <2>1. u.tools[i] \in BufType BY DEF Translators
  <2>2. ToolsClosed(u)[i] = [u.tools[i] EXCEPT !.closed = x] BY DEF ToolsClosed
  <2>. HIDE DEF x
  <2>3. u.tools[i].started = TRUE /\ x = FALSE BY <1>1, <2>1, <2>2 DEF BufType
  <2>4. u.tools[i].closed = FALSE /\ ~(u.open = "tool_use" /\ u.tools[i].at = u.next - 1)
    <3>1. u.tools[i].closed \in BOOLEAN BY <2>1 DEF BufType
    <3>. QED BY <2>3, <3>1 DEF x
  <2>. QED BY <2>3, <2>4 DEF OpenTools
<1>. QED BY <1>1 DEF NoneStreams, OpenTools

\* The open block is closed.
LEMMA ClosedReady ==
  ASSUME NEW c, NEW u, Ready(c, u), u.started = TRUE
  PROVE  /\ Ready(c, Closed(u))
         /\ Moves(u, Closed(u), "none", u.next, Closed(u).tools)
         /\ Closed(u).tools = IF u.open = "none" THEN u.tools ELSE ToolsClosed(u)
         /\ SameBlocks(Shows(c, u), Shows(c, Closed(u)))
<1>. DEFINE n == u.next
            s == Signature(u)
            e == Event("content_block_stop", n - 1, "none", NoTool, <<>>)
            o == u.out \o (s \o <<e>>)
            v == [u EXCEPT !.out = o, !.open = "none", !.tools = ToolsClosed(u)]
            d == After(c, u.out)
            d1 == After(c, u.out \o s)
<1>1. /\ c \in Clients /\ u \in Translators /\ u.out \in Seq(EventType) /\ n \in Nat
      /\ Lawful(c, u.out) /\ d \in Clients /\ Agrees(d, u)
  BY ReadyType DEF Ready
<1>2. CASE u.open = "none"
  <2>1. Closed(u) = u BY <1>2 DEF Closed
  <2>2. Moves(u, u, "none", u.next, u.tools)
    BY <1>1, <1>2 DEF Translators, Moves
  <2>. QED BY <1>2, <2>1, <2>2 DEF SameBlocks
<1>3. CASE u.open # "none"
  <2>1. /\ d.phase = "streaming" /\ Len(d.content) = n /\ n > 0 /\ d.content[n].kind = u.open
        /\ \A i \in 1..n : d.content[i].closed = (i # n)
    BY <1>1, <1>3 DEF Agrees
  <2>2. d.content \in Seq(BlockType) /\ n \in 1..n BY <1>1, <2>1 DEF Clients
  <2>3. /\ u.out \o s \in Seq(EventType) /\ Lawful(c, u.out \o s) /\ d1 \in Clients
        /\ d1.phase = "streaming" /\ d1.content = d.content
        /\ u.open = "thinking" => Signed(d1)
    <3>1. d = After(c, u.out) OBVIOUS
    <3>. HIDE DEF d, n
    <3>2. /\ u.out \o Signature(u) \in Seq(EventType)
          /\ Lawful(c, u.out \o Signature(u))
          /\ After(c, u.out \o Signature(u)) \in Clients
          /\ After(c, u.out \o Signature(u)).phase = d.phase
          /\ After(c, u.out \o Signature(u)).content = d.content
          /\ u.open = "thinking" => Signed(After(c, u.out \o Signature(u)))
      BY <1>3, <3>1, SignatureReady
    <3>. QED BY <2>1, <3>2
  <2>4. /\ e \in EventType /\ e.event = "content_block_stop" /\ e.index = n - 1
        /\ e.kind = "none"
    <3>1. /\ n - 1 \in Nat /\ "none" \in Word /\ "content_block_stop" \in Word
          /\ NoTool \in Tools \cup {NoTool} /\ <<>> \in Pieces
      BY <1>1, <2>1, Words DEF Pieces
    <3>2. e = [event |-> "content_block_stop", index |-> n - 1, kind |-> "none",
               tool |-> NoTool, body |-> <<>>]
      BY DEF Event
    <3>. HIDE DEF e, n
    <3>. QED BY <3>1, <3>2 DEF EventType
  <2>5. Closed(u) = v
    <3>1. v = [[u EXCEPT !.out = o] EXCEPT !.open = "none", !.tools = ToolsClosed(u)]
      <4>. HIDE DEF o
      <4>. QED BY <1>1 DEF Translators
    <3>. QED BY <1>3, <3>1 DEF Closed, Emitted
  <2>6. o = (u.out \o s) \o <<e>>
    <3>. DEFINE f == Event("content_block_delta", n - 1, "signature_delta", NoTool, <<>>)
    <3>1. s = <<>> \/ s = <<f>> BY DEF Signature
    <3>2. f \in EventType
      <4>1. /\ n - 1 \in Nat /\ "signature_delta" \in Word /\ "content_block_delta" \in Word
            /\ NoTool \in Tools \cup {NoTool} /\ <<>> \in Pieces
        BY <1>1, <2>1, Words DEF Pieces
      <4>. HIDE DEF n
      <4>. QED BY <4>1 DEF EventType, Event
    <3>. HIDE DEF f, s, e
    <3>3. s \in Seq(EventType) BY <3>1, <3>2, OneEvent
    <3>. QED BY <1>1, <2>4, <3>3, JoinEvents
  <2>. HIDE DEF s, e, d, d1
  <2>7. Legal(d1, e)
    <3>1. Top(d1) = d.content[n] /\ d1.content # <<>> BY <2>1, <2>3 DEF Top
    <3>2. HasOpen(d1) /\ Top(d1).kind = u.open BY <2>1, <2>2, <2>3, <3>1 DEF HasOpen
    <3>. QED BY <2>1, <2>3, <2>4, <3>2 DEF Legal
  <2>8. /\ (u.out \o s) \o <<e>> \in Seq(EventType) /\ Lawful(c, (u.out \o s) \o <<e>>)
        /\ After(c, (u.out \o s) \o <<e>>) = Received(d1, e) /\ Received(d1, e) \in Clients
    <3>. DEFINE p == u.out \o s
    <3>1. d1 = After(c, p) /\ p \in Seq(EventType) /\ Lawful(c, p) BY <2>3 DEF d1
    <3>. HIDE DEF p
    <3>2. /\ p \o <<e>> \in Seq(EventType) /\ Lawful(c, p \o <<e>>)
          /\ After(c, p \o <<e>>) = Received(d1, e) /\ Received(d1, e) \in Clients
      BY <1>1, <2>4, <2>7, <3>1, EmitOne
    <3>. QED BY <3>2 DEF p
  <2>9. /\ o \in Seq(EventType) /\ Lawful(c, o) /\ After(c, o) = Received(d1, e)
    BY <2>6, <2>8
  <2>. DEFINE g == Received(d1, e)
  <2>10. /\ g.phase = "streaming" /\ g.content = [d.content EXCEPT ![n].closed = TRUE]
    <3>1. /\ g.phase = d1.phase
          /\ g.content = [d1.content EXCEPT ![Len(d1.content)].closed = TRUE]
      BY <2>3, <2>4, <2>7, ReceivedIs
    <3>. HIDE DEF g
    <3>. QED BY <2>1, <2>3, <3>1
  <2>. HIDE DEF o
  <2>11. /\ v \in Translators /\ v.out = o /\ v.started = u.started /\ v.next = n
         /\ v.open = "none" /\ v.tools = ToolsClosed(u)
    BY <1>1, <2>9, ToolsClosedType DEF Translators
  <2>12. Moves(u, v, "none", u.next, v.tools)
    <3>1. v = [u EXCEPT !.out = v.out, !.open = "none", !.tools = v.tools] BY <2>11
    <3>. HIDE DEF v
    <3>. QED BY <1>1, <2>11, <3>1 DEF Moves, Translators
  <2>. HIDE DEF v, n
  <2>13. /\ Len(g.content) = n
         /\ \A i \in 1..n : g.content[i].closed = TRUE
         /\ \A i \in 1..n : /\ g.content[i].kind = d.content[i].kind
                            /\ g.content[i].tool = d.content[i].tool
                            /\ g.content[i].body = d.content[i].body
    <3>1. \A i \in 1..n : d.content[i] \in BlockType BY <2>1, <2>2
    <3>. HIDE DEF g
    <3>. QED BY <1>1, <2>1, <2>2, <2>10, <3>1 DEF BlockType
  <2>14. g \in Clients BY <2>8 DEF g
  <2>15. Agrees(g, v) BY <2>10, <2>11, <2>13, <2>14 DEF Agrees
  <2>16. Ready(c, v)
    <3>1. NoneStreams(v.tools) BY <1>1, <2>11, ClosedTools DEF Ready
    <3>2. OpenTools(v) BY <3>1 DEF OpenTools, NoneStreams
    <3>. QED BY <1>1, <2>9, <2>11, <2>15, <3>2 DEF Ready
  <2>17. Shows(c, v) = g.content /\ Shows(c, u) = d.content
    BY <2>9, <2>11 DEF Shows, d
  <2>18. SameBlocks(Shows(c, u), Shows(c, v)) BY <2>1, <2>13, <2>17 DEF SameBlocks
  <2>. QED BY <1>3, <2>5, <2>11, <2>12, <2>16, <2>18
<1>. QED BY <1>2, <1>3

NewBlock(kind, tool) == [kind |-> kind, closed |-> FALSE, tool |-> tool, body |-> <<>>]

\* The client that has seen a sees the block next.
Adds(a, d, block) ==
  \E b \in Seq(BlockType) : SameBlocks(a, b) /\ d = Append(b, block)

\* The open block is closed and another one opened.
LEMMA OpenedReady ==
  ASSUME NEW c, NEW u, Ready(c, u), u.started = TRUE, NEW kind \in Kinds,
         NEW tool \in Tools \cup {NoTool}
  PROVE  /\ Ready(c, Opened(u, kind, tool))
         /\ Moves(u, Opened(u, kind, tool), kind, u.next + 1, Closed(u).tools)
         /\ Adds(Shows(c, u), Shows(c, Opened(u, kind, tool)), NewBlock(kind, tool))
<1>. DEFINE w == Closed(u)
            n == w.next
            e == Event("content_block_start", n, kind, tool, <<>>)
            o == w.out \o <<e>>
            v == [w EXCEPT !.out = o, !.open = kind, !.next = n + 1]
            d == After(c, w.out)
            b == NewBlock(kind, tool)
<1>1. /\ Ready(c, w) /\ w = [u EXCEPT !.out = w.out, !.open = "none", !.tools = w.tools]
      /\ SameBlocks(Shows(c, u), Shows(c, w))
  <2>1. Ready(c, w) /\ Moves(u, w, "none", u.next, w.tools) /\ SameBlocks(Shows(c, u), Shows(c, w))
    BY ClosedReady
  <2>2. u \in Translators BY DEF Ready
  <2>. HIDE DEF w
  <2>3. \A out, tools : [u EXCEPT !.out = out, !.open = "none", !.next = u.next, !.tools = tools]
                          = [u EXCEPT !.out = out, !.open = "none", !.tools = tools]
    BY <2>2 DEF Translators
  <2>4. w = [u EXCEPT !.out = w.out, !.open = "none", !.next = u.next, !.tools = w.tools]
    BY <2>1 DEF Moves
  <2>5. w = [u EXCEPT !.out = w.out, !.open = "none", !.tools = w.tools]
    BY <2>3, <2>4
  <2>. QED BY <2>1, <2>5
<1>2. u \in Translators BY DEF Ready
<1>3. /\ w.started = TRUE /\ w.open = "none" /\ n = u.next /\ n \in Nat
  <2>. HIDE DEF w
  <2>1. w \in Translators BY <1>1 DEF Ready
  <2>. QED BY <1>1, <1>2, <2>1 DEF Translators
<1>4. Opened(u, kind, tool) = v
  <2>1. Opened(u, kind, tool) = [[w EXCEPT !.out = o] EXCEPT !.open = kind, !.next = @ + 1]
    BY DEF Opened, Emitted
  <2>2. [w EXCEPT !.out = o].next = n
    <3>. HIDE DEF w, o
    <3>1. w \in Translators BY <1>1 DEF Ready
    <3>. QED BY <3>1 DEF Translators
  <2>. HIDE DEF o, w
  <2>3. w \in Translators BY <1>1 DEF Ready
  <2>. QED BY <2>1, <2>2, <2>3 DEF Translators
<1>. HIDE DEF w
<1>5. /\ c \in Clients /\ w \in Translators /\ w.out \in Seq(EventType)
      /\ Lawful(c, w.out) /\ d \in Clients /\ Agrees(d, w)
  BY <1>1, ReadyType DEF Ready
<1>6. /\ d.phase = "streaming" /\ Len(d.content) = n
      /\ \A i \in 1..n : d.content[i].closed = TRUE
  BY <1>3, <1>5 DEF Agrees
<1>7. d.content \in Seq(BlockType) BY <1>5 DEF Clients
<1>8. /\ e \in EventType /\ e.event = "content_block_start" /\ e.index = n
      /\ e.kind = kind /\ e.tool = tool
  <2>1. kind \in Word /\ "content_block_start" \in Word /\ <<>> \in Pieces
    BY Words DEF Kinds, Pieces
  <2>2. e = [event |-> "content_block_start", index |-> n, kind |-> kind, tool |-> tool,
             body |-> <<>>]
    BY DEF Event
  <2>. HIDE DEF e, n
  <2>. QED BY <1>3, <2>1, <2>2 DEF EventType
<1>9. b \in BlockType
  <2>1. <<>> \in Pieces BY DEF Pieces
  <2>. QED BY <2>1 DEF BlockType, NewBlock
<1>. HIDE DEF e, d
<1>10. Legal(d, e)
  <2>1. ~HasOpen(d)
    <3>1. CASE n = 0
      <4>1. d.content = <<>> BY <1>6, <1>7, <3>1, EmptySeq
      <4>. QED BY <4>1 DEF HasOpen
    <3>2. CASE n # 0
      <4>1. n \in 1..n BY <1>3, <3>2
      <4>2. Top(d) = d.content[n] BY <1>6 DEF Top
      <4>. QED BY <1>6, <4>1, <4>2 DEF HasOpen
    <3>. QED BY <3>1, <3>2
  <2>. QED BY <1>6, <1>8, <2>1 DEF Legal
<1>11. /\ o \in Seq(EventType) /\ Lawful(c, o) /\ After(c, o) = Received(d, e)
       /\ Received(d, e) \in Clients
  <2>1. d = After(c, w.out) BY DEF d
  <2>. QED BY <1>5, <1>8, <1>10, <2>1, EmitOne
<1>. DEFINE g == Received(d, e)
<1>12. /\ g.phase = "streaming" /\ g.content = Append(d.content, b)
       /\ g.last.event = "content_block_start"
  <2>1. /\ g.phase = d.phase
        /\ g.content = Append(d.content, [kind |-> e.kind, closed |-> FALSE, tool |-> e.tool,
                                          body |-> <<>>])
        /\ g.last = [event |-> e.event, index |-> e.index,
                     kind |-> IF e.event = "message_delta" THEN "none" ELSE e.kind]
    BY <1>5, <1>8, <1>10, ReceivedIs
  <2>. HIDE DEF g
  <2>. QED BY <1>6, <1>8, <2>1 DEF NewBlock
<1>. HIDE DEF o
<1>13. /\ v \in Translators /\ v.out = o /\ v.started = TRUE /\ v.next = n + 1
       /\ v.open = kind /\ v.tools = w.tools
  <2>. DEFINE x == n + 1
  <2>1. x \in Nat /\ kind \in Kinds \cup {"none"} BY <1>3
  <2>2. o \in Seq(EventType) BY <1>11
  <2>. HIDE DEF x
  <2>3. v = [w EXCEPT !.out = o, !.open = kind, !.next = x] BY DEF x
  <2>4. /\ v \in Translators /\ v.out = o /\ v.started = w.started /\ v.next = x /\ v.open = kind
        /\ v.tools = w.tools
    <3>. HIDE DEF v
    <3>. QED BY <1>5, <2>1, <2>2, <2>3 DEF Translators
  <2>. QED BY <1>3, <2>4 DEF x
<1>14. Moves(u, v, kind, u.next + 1, w.tools)
  <2>1. v.out = o BY <1>13
  <2>2. w.tools \in [Tools -> BufType] BY <1>5 DEF Translators
  <2>3. v = [u EXCEPT !.out = v.out, !.open = kind, !.next = u.next + 1, !.tools = w.tools]
    BY <1>1, <1>2, <1>3, <2>1, <2>2 DEF Translators
  <2>. HIDE DEF v, n
  <2>. QED BY <2>3 DEF Moves
<1>. HIDE DEF g, v, n
<1>15. Agrees(g, v)
  <2>. DEFINE x == n + 1
  <2>1. /\ Len(g.content) = x /\ g.content[x] = b
        /\ \A i \in 1..n : g.content[i] = d.content[i]
    <3>. HIDE DEF b
    <3>. QED BY <1>6, <1>7, <1>9, <1>12, AppendProperties
  <2>2. x \in Nat /\ x > 0 /\ \A i \in 1..x : i = x \/ (i \in 1..n /\ i # x) BY <1>3
  <2>3. v.next = x /\ kind # "none" BY <1>13 DEF Kinds
  <2>4. b.closed = FALSE /\ b.kind = kind BY DEF NewBlock
  <2>. HIDE DEF x, b
  <2>5. \A i \in 1..x : g.content[i].closed = (i # x)
    <3>. SUFFICES ASSUME NEW i \in 1..x PROVE g.content[i].closed = (i # x) OBVIOUS
    <3>1. CASE i = x BY <2>1, <2>4, <3>1
    <3>2. CASE i # x BY <1>6, <2>1, <2>2, <3>2
    <3>. QED BY <3>1, <3>2
  <2>6. ~Signed(g) BY <1>12 DEF Signed
  <2>7. g \in Clients BY <1>11 DEF g
  <2>. QED BY <1>12, <1>13, <2>1, <2>2, <2>3, <2>4, <2>5, <2>6, <2>7 DEF Agrees
<1>16. Ready(c, v)
  <2>1. OpenTools(w) BY <1>1 DEF Ready
  <2>2. OpenTools(v) BY <1>3, <1>13, <2>1 DEF OpenTools
  <2>. QED BY <1>5, <1>11, <1>13, <1>15, <2>2 DEF Ready, g
<1>17. Shows(c, v) = Append(Shows(c, w), b) /\ Shows(c, w) \in Seq(BlockType)
  BY <1>7, <1>11, <1>12, <1>13 DEF Shows, d, g
<1>18. Adds(Shows(c, u), Shows(c, v), b) BY <1>1, <1>17 DEF Adds
<1>. QED BY <1>4, <1>14, <1>16, <1>18 DEF w
-----------------------------------------------------------------------------
(***************************************************************************)
(* Saying something.  Speaks(c, u, v, body): from u to v the client is     *)
(* told body, in blocks of text or thinking, and no tool call.             *)
(***************************************************************************)
SameTools(u, v) ==
  \A i \in Tools : /\ v.tools[i].id = u.tools[i].id /\ v.tools[i].name = u.tools[i].name
                   /\ v.tools[i].args = u.tools[i].args
                   /\ v.tools[i].started = u.tools[i].started

\* From u to v body is said, and no tool called.
Speaks(c, u, v, body) ==
  /\ Ready(c, v)
  /\ v.started = u.started /\ v.budget = u.budget /\ v.streaming = u.streaming
  /\ body \in Pieces
  /\ Said(Shows(c, v)) = Said(Shows(c, u)) \o body
  /\ SameCalls(Shows(c, u), Shows(c, v))
  /\ SameTools(u, v)
  /\ u.open # "tool_use" => v.open # "tool_use" /\ v.tools = u.tools

\* What no event changes.
Leaves(u, v) ==
  /\ v.hold = u.hold /\ v.thought = u.thought /\ v.budgetHit = u.budgetHit
  /\ v.finished = u.finished

LEMMA SpeaksThen ==
  ASSUME NEW c, NEW u, NEW v, NEW w, NEW a, NEW b, Ready(c, u),
         Speaks(c, u, v, a), Speaks(c, v, w, b)
  PROVE  Speaks(c, u, w, a \o b)
<1>1. a \in Pieces /\ b \in Pieces /\ Said(Shows(c, u)) \in Pieces
  BY ReadyType, SaidType DEF Speaks
<1>2. (Said(Shows(c, u)) \o a) \o b = Said(Shows(c, u)) \o (a \o b) /\ a \o b \in Pieces
  <2>. DEFINE s == Said(Shows(c, u))
  <2>. HIDE DEF s
  <2>. QED BY <1>1, PiecesAssociate, ConcatPieces DEF s
<1>3. SameCalls(Shows(c, u), Shows(c, w)) BY DEF Speaks, SameCalls
<1>4. SameTools(u, w) BY DEF Speaks, SameTools
<1>. QED BY <1>2, <1>3, <1>4 DEF Speaks

LEMMA SpeaksNothing ==
  ASSUME NEW c, NEW u, Ready(c, u)
  PROVE  Speaks(c, u, u, <<>>) /\ Leaves(u, u)
<1>1. Said(Shows(c, u)) \in Pieces BY ReadyType, SaidType
<1>2. Said(Shows(c, u)) \o <<>> = Said(Shows(c, u)) /\ <<>> \in Pieces BY <1>1, ConcatPieces
<1>. QED BY <1>2 DEF Speaks, Leaves, SameCalls, SameTools

\* Other fields may change.
LEMMA SpeaksBesides ==
  ASSUME NEW c, NEW u, NEW v, NEW w, NEW body, Speaks(c, u, v, body), w \in Translators,
         w.out = v.out, w.started = v.started, w.next = v.next, w.open = v.open,
         w.budget = v.budget, w.streaming = v.streaming, w.tools = v.tools
  PROVE  Speaks(c, u, w, body)
<1>1. Ready(c, w) /\ Shows(c, w) = Shows(c, v) BY ReadySame DEF Speaks
<1>. QED BY <1>1 DEF Speaks, SameTools

LEMMA ClosedSpeaks ==
  ASSUME NEW c, NEW u, Ready(c, u), u.started = TRUE
  PROVE  Speaks(c, u, Closed(u), <<>>) /\ Leaves(u, Closed(u)) /\ Closed(u).open = "none"
<1>. DEFINE v == Closed(u)
<1>1. /\ Ready(c, v) /\ Moves(u, v, "none", u.next, v.tools)
      /\ v.tools = IF u.open = "none" THEN u.tools ELSE ToolsClosed(u)
      /\ SameBlocks(Shows(c, u), Shows(c, v))
  BY ClosedReady
<1>. HIDE DEF v
<1>2. u \in Translators /\ v \in Translators BY <1>1 DEF Ready
<1>3. v.open = "none" /\ Leaves(u, v) /\ v.started = u.started /\ v.budget = u.budget
      /\ v.streaming = u.streaming
  <2>1. Moves(u, v, "none", u.next, v.tools) BY <1>1
  <2>. QED BY <1>2, <2>1, MovesIs DEF Leaves
<1>4. Said(Shows(c, v)) = Said(Shows(c, u)) /\ SameCalls(Shows(c, u), Shows(c, v))
  BY <1>1, ReadyType, SameBlocksSame
<1>5. Said(Shows(c, u)) \o <<>> = Said(Shows(c, u)) /\ <<>> \in Pieces
  <2>1. Said(Shows(c, u)) \in Pieces BY ReadyType, SaidType
  <2>. QED BY <2>1, ConcatPieces
<1>6. SameTools(u, v)
  <2>1. ASSUME NEW i \in Tools
        PROVE  /\ v.tools[i].id = u.tools[i].id /\ v.tools[i].name = u.tools[i].name
               /\ v.tools[i].args = u.tools[i].args
               /\ v.tools[i].started = u.tools[i].started
    <3>1. v.tools[i] = u.tools[i] \/ v.tools[i] = [u.tools[i] EXCEPT !.closed = v.tools[i].closed]
      <4>1. CASE u.open = "none" BY <1>1, <4>1
      <4>2. CASE u.open # "none"
        <5>1. v.tools = ToolsClosed(u) BY <1>1, <4>2
        <5>. QED BY <1>2, <5>1, ToolsClosedType
      <4>. QED BY <4>1, <4>2
    <3>2. u.tools[i] \in BufType BY <1>2 DEF Translators
    <3>. QED BY <3>1, <3>2 DEF BufType
  <2>. QED BY <2>1 DEF SameTools
<1>7. u.open # "tool_use" => v.open # "tool_use" /\ v.tools = u.tools
  BY <1>1, <1>2, <1>3, ToolsClosedType
<1>. QED BY <1>1, <1>3, <1>4, <1>5, <1>6, <1>7 DEF Speaks, v

\* A block that is no tool call.
LEMMA SameCallsAppend ==
  ASSUME NEW a \in Seq(BlockType), NEW b \in BlockType, b.kind # "tool_use"
  PROVE  SameCalls(a, Append(a, b))
<1>. DEFINE d == Append(a, b)
            n == Len(a)
<1>1. /\ d \in Seq(BlockType) /\ Len(d) = n + 1 /\ d[n + 1] = b
      /\ \A i \in 1..n : d[i] = a[i]
  BY AppendProperties
<1>2. n \in Nat /\ DOMAIN a = 1..n OBVIOUS
<1>. HIDE DEF d, n
<1>3. DOMAIN d = 1..(n + 1) BY <1>1
<1>4. \A i \in 1..(n + 1) : i \in 1..n \/ i = n + 1 BY <1>2
<1>5. \A i \in 1..n : i \in 1..(n + 1) BY <1>2
<1>6. ASSUME NEW i \in Tools PROVE BlocksOf(a, i) = BlocksOf(d, i)
  BY <1>1, <1>2, <1>3, <1>4, <1>5 DEF BlocksOf
<1>7. \A i \in Tools : BlocksOf(a, i) \subseteq 1..n BY <1>2 DEF BlocksOf
<1>8. SameCalls(a, d) BY <1>1, <1>6, <1>7 DEF SameCalls
<1>. QED BY <1>8 DEF d

LEMMA OpenedSpeaks ==
  ASSUME NEW c, NEW u, Ready(c, u), u.started = TRUE, NEW kind \in Kinds, kind # "tool_use"
  PROVE  /\ Speaks(c, u, Opened(u, kind, NoTool), <<>>) /\ Leaves(u, Opened(u, kind, NoTool))
         /\ Opened(u, kind, NoTool).open = kind
<1>. DEFINE v == Opened(u, kind, NoTool)
            w == Closed(u)
            b == NewBlock(kind, NoTool)
<1>1. /\ Ready(c, v)
      /\ Moves(u, v, kind, u.next + 1, w.tools)
      /\ \E a \in Seq(BlockType) :
           SameBlocks(Shows(c, u), a) /\ Shows(c, v) = Append(a, b)
  <2>1. NoTool \in Tools \cup {NoTool} OBVIOUS
  <2>2. /\ Ready(c, Opened(u, kind, NoTool))
        /\ Moves(u, Opened(u, kind, NoTool), kind, u.next + 1, Closed(u).tools)
        /\ Adds(Shows(c, u), Shows(c, Opened(u, kind, NoTool)), NewBlock(kind, NoTool))
    <3>. HIDE DEF v, w, b
    <3>. QED BY <2>1, OpenedReady
  <2>. QED BY <2>2 DEF Adds
<1>2. PICK a \in Seq(BlockType) : SameBlocks(Shows(c, u), a) /\ Shows(c, v) = Append(a, b)
  BY <1>1
<1>3. /\ SameTools(u, w) /\ (u.open # "tool_use" => w.tools = u.tools)
  BY ClosedSpeaks DEF Speaks
<1>. HIDE DEF v, w
<1>4. u \in Translators /\ v \in Translators BY <1>1 DEF Ready
<1>5. /\ v.open = kind /\ Leaves(u, v) /\ v.started = u.started /\ v.budget = u.budget
      /\ v.streaming = u.streaming /\ v.tools = w.tools
  BY <1>1, <1>4 DEF Translators, Leaves, Moves
<1>6. b \in BlockType /\ b.kind # "tool_use" /\ SaidBy(b) = <<>>
  <2>1. <<>> \in Pieces BY DEF Pieces
  <2>. QED BY <2>1 DEF BlockType, SaidBy, NewBlock
<1>. HIDE DEF b
<1>7. Said(a) = Said(Shows(c, u)) /\ SameCalls(Shows(c, u), a) /\ Said(a) \in Pieces
  BY <1>2, ReadyType, SameBlocksSame, SaidType
<1>8. Said(Shows(c, v)) = Said(a) \o <<>> BY <1>2, <1>6, SaidAppend
<1>9. SameCalls(Shows(c, u), Shows(c, v))
  <2>1. SameCalls(a, Append(a, b)) BY <1>6, SameCallsAppend
  <2>. QED BY <1>2, <1>7, <2>1 DEF SameCalls
<1>10. SameTools(u, v) BY <1>3, <1>5 DEF SameTools
<1>11. <<>> \in Pieces BY DEF Pieces
<1>. QED BY <1>1, <1>3, <1>5, <1>7, <1>8, <1>9, <1>10, <1>11 DEF Speaks, v

\* Text or thinking for the open block.
LEMMA DeltaSpeaks ==
  ASSUME NEW c, NEW u, Ready(c, u), u.started = TRUE, u.open \in Spoken, NEW kind,
         kind = (IF u.open = "text" THEN "text_delta" ELSE "thinking_delta"),
         NEW body \in Pieces
  PROVE  /\ Speaks(c, u, Delta(u, kind, body), body) /\ Leaves(u, Delta(u, kind, body))
         /\ Delta(u, kind, body).open = u.open
<1>. DEFINE v == Delta(u, kind, body)
            s == Shows(c, u)
            r == Shows(c, v)
            n == u.next
<1>1. kind \in DeltasOf(u.open) /\ kind # "signature_delta" BY DEF DeltasOf, Spoken
<1>2. /\ Ready(c, v) /\ Moves(u, v, u.open, u.next, u.tools)
      /\ n \in 1..Len(s) /\ s[n].kind = u.open
      /\ r = Longer(s, n, body)
  <2>1. /\ Ready(c, Delta(u, kind, body))
        /\ Moves(u, Delta(u, kind, body), u.open, u.next, u.tools)
        /\ u.next \in 1..Len(Shows(c, u)) /\ Shows(c, u)[u.next].kind = u.open
        /\ Shows(c, Delta(u, kind, body)) = Longer(Shows(c, u), u.next, body)
    <3>. HIDE DEF v, s, r, n
    <3>. QED BY <1>1, DeltaReady
  <2>. QED BY <2>1
<1>3. s \in Seq(BlockType) /\ r \in Seq(BlockType) /\ Len(s) = n BY <1>2, ReadyType
<1>. HIDE DEF v, s, r, n
<1>4. u \in Translators /\ v \in Translators BY <1>2 DEF Ready
<1>5. /\ Leaves(u, v) /\ v.started = u.started /\ v.budget = u.budget
      /\ v.streaming = u.streaming /\ v.tools = u.tools /\ v.open = u.open
  BY <1>2, <1>4, MovesIs DEF Leaves
<1>6. \A i \in 1..n : s[i] \in BlockType BY <1>3
<1>7. /\ Len(r) = n /\ (\A i \in 1..n : i # n => r[i] = s[i])
      /\ r[n].kind = s[n].kind /\ r[n].body = s[n].body \o body /\ s[n].kind \in Spoken
  BY <1>2, <1>3, <1>6 DEF BlockType, Longer
<1>8. Said(r) = Said(s) \o body
  <2>1. \A i \in 1..(Len(s) - 1) : SaidBy(s[i]) = SaidBy(r[i])
    <3>1. \A i \in 1..(Len(s) - 1) : i \in 1..n /\ i # n BY <1>2, <1>3
    <3>. QED BY <1>7, <3>1
  <2>2. SaidBy(r[Len(s)]) = SaidBy(s[Len(s)]) \o body BY <1>3, <1>7 DEF SaidBy
  <2>3. s # <<>> /\ Len(s) = Len(r) BY <1>2, <1>3, <1>7
  <2>. QED BY <1>3, <2>1, <2>2, <2>3, SaidLast
<1>9. SameCalls(s, r)
  <2>1. DOMAIN s = 1..n /\ DOMAIN r = 1..n BY <1>3, <1>7
  <2>2. \A i \in Tools : BlocksOf(s, i) = BlocksOf(r, i) /\ n \notin BlocksOf(s, i)
    BY <1>7, <2>1 DEF BlocksOf, Spoken
  <2>3. \A i \in Tools : BlocksOf(s, i) \subseteq 1..n BY <2>1 DEF BlocksOf
  <2>. QED BY <1>7, <2>2, <2>3 DEF SameCalls
<1>10. SameTools(u, v) BY <1>5 DEF SameTools
<1>. QED BY <1>2, <1>5, <1>8, <1>9, <1>10 DEF Speaks, v, s, r

\* Text goes out, in a block of its own if it must.
LEMMA TextIntoSpeaks ==
  ASSUME NEW c, NEW u, Ready(c, u), u.started = TRUE, NEW body \in Pieces
  PROVE  /\ Speaks(c, u, TextInto(u, body), body) /\ Leaves(u, TextInto(u, body))
         /\ TextInto(u, body).open = "text"
<1>. DEFINE v == IF u.open = "text" THEN u ELSE Opened(u, "text", NoTool)
            w == Delta(v, "text_delta", body)
<1>1. Speaks(c, u, v, <<>>) /\ Leaves(u, v) /\ v.open = "text"
  <2>1. "text" \in Kinds /\ "text" # "tool_use" BY DEF Kinds
  <2>. QED BY <2>1, OpenedSpeaks, SpeaksNothing
<1>2. TextInto(u, body) = w BY DEF TextInto
<1>. HIDE DEF v
<1>3. Ready(c, v) /\ v.started = TRUE BY <1>1 DEF Speaks
<1>4. Speaks(c, v, w, body) /\ Leaves(v, w) /\ w.open = "text"
  <2>1. v.open \in Spoken BY <1>1 DEF Spoken
  <2>. QED BY <1>1, <1>3, <2>1, DeltaSpeaks
<1>. HIDE DEF w
<1>5. <<>> \o body = body BY ConcatPieces
<1>6. Speaks(c, u, w, body) BY <1>1, <1>4, <1>5, SpeaksThen
<1>. QED BY <1>1, <1>2, <1>4, <1>6 DEF Leaves
-----------------------------------------------------------------------------
(***************************************************************************)
(* Text is compared apart from its tags (Marks, Tags), and reasoning by    *)
(* the character (Thoughts).                                               *)
(***************************************************************************)
\* Text apart from its tags, how many more "<" than "think>" are in it, and how
\* many characters of reasoning.
Plaintext == {"a", "markup"}
Marks(s) == Only(s, Plaintext)
Tags(s) == CountOf(s, "<") - CountOf(s, "think>")
Thoughts(s) == CountOf(s, "r")

\* s is text b, but for whole tags and notices; or the beginning of it.
Same(s, b) == Marks(s) = Marks(b) /\ Tags(s) = Tags(b)
Begins(x, y) == \E rest \in Pieces : x \o rest = y
Part(s, b) == Begins(Marks(s), Marks(b))

LEMMA MeasureType ==
  ASSUME NEW s \in Pieces
  PROVE  Marks(s) \in Pieces /\ Tags(s) \in Int /\ Thoughts(s) \in Nat
<1>1. Marks(s) \in Pieces BY OnlyType DEF Marks
<1>2. CountOf(s, "<") \in Nat /\ CountOf(s, "think>") \in Nat /\ CountOf(s, "r") \in Nat
  BY OnlyType DEF CountOf
<1>. QED BY <1>1, <1>2 DEF Tags, Thoughts

LEMMA MeasureConcat ==
  ASSUME NEW a \in Pieces, NEW b \in Pieces
  PROVE  /\ Marks(a \o b) = Marks(a) \o Marks(b)
         /\ Tags(a \o b) = Tags(a) + Tags(b)
         /\ Thoughts(a \o b) = Thoughts(a) + Thoughts(b)
<1>1. Marks(a \o b) = Marks(a) \o Marks(b) BY OnlyConcat DEF Marks
<1>2. ASSUME NEW p
      PROVE  /\ CountOf(a \o b, p) = CountOf(a, p) + CountOf(b, p)
             /\ CountOf(a, p) \in Nat /\ CountOf(b, p) \in Nat
  <2>. DEFINE x == Only(a, {p})
              y == Only(b, {p})
  <2>1. Only(a \o b, {p}) = x \o y BY OnlyConcat
  <2>2. x \in Pieces /\ y \in Pieces /\ Len(x) \in Nat /\ Len(y) \in Nat BY OnlyType
  <2>. HIDE DEF x, y
  <2>3. Len(x \o y) = Len(x) + Len(y) BY <2>2, ConcatPieces
  <2>. QED BY <2>1, <2>2, <2>3 DEF CountOf, x, y
<1>. DEFINE l == "<"
            t1 == "think>"
<1>3. /\ CountOf(a \o b, l) = CountOf(a, l) + CountOf(b, l)
      /\ CountOf(a, l) \in Nat /\ CountOf(b, l) \in Nat
  BY <1>2
<1>4. /\ CountOf(a \o b, t1) = CountOf(a, t1) + CountOf(b, t1)
      /\ CountOf(a, t1) \in Nat /\ CountOf(b, t1) \in Nat
  BY <1>2
<1>5. Tags(a \o b) = Tags(a) + Tags(b) BY <1>3, <1>4 DEF Tags
<1>6. Thoughts(a \o b) = Thoughts(a) + Thoughts(b) BY <1>2 DEF Thoughts
<1>. QED BY <1>1, <1>5, <1>6

LEMMA MeasureNothing ==
  Marks(<<>>) = <<>> /\ Tags(<<>>) = 0 /\ Thoughts(<<>>) = 0 /\ <<>> \in Pieces
<1>1. Len(<<>>) = 0 OBVIOUS
<1>2. Marks(<<>>) = <<>> BY OnlyNothing DEF Marks
<1>3. CountOf(<<>>, "<") = 0 /\ CountOf(<<>>, "think>") = 0 /\ CountOf(<<>>, "r") = 0
  BY <1>1, OnlyNothing DEF CountOf
<1>4. <<>> \in Pieces BY DEF Pieces
<1>. QED BY <1>2, <1>3, <1>4 DEF Tags, Thoughts

\* A single piece.
LEMMA MeasureOne ==
  ASSUME NEW x \in Word
  PROVE  /\ <<x>> \in Pieces
         /\ Marks(<<x>>) = IF x \in Plaintext THEN <<x>> ELSE <<>>
         /\ Tags(<<x>>) = IF x = "<" THEN 1 ELSE IF x = "think>" THEN -1 ELSE 0
         /\ Thoughts(<<x>>) = IF x = "r" THEN 1 ELSE 0
<1>1. <<x>> \in Pieces /\ Len(<<x>>) = 1 /\ Len(<<>>) = 0 BY DEF Pieces
<1>2. Marks(<<x>>) = IF x \in Plaintext THEN <<x>> ELSE <<>> BY OnlyOne DEF Marks
<1>3. ASSUME NEW p PROVE CountOf(<<x>>, p) = IF x = p THEN 1 ELSE 0
  <2>1. Only(<<x>>, {p}) = IF x \in {p} THEN <<x>> ELSE <<>> BY OnlyOne
  <2>2. CASE x = p
    <3>1. Only(<<x>>, {p}) = <<x>> BY <2>1, <2>2
    <3>. QED BY <1>1, <2>2, <3>1 DEF CountOf
  <2>3. CASE x # p
    <3>1. Only(<<x>>, {p}) = <<>> BY <2>1, <2>3
    <3>. QED BY <1>1, <2>3, <3>1 DEF CountOf
  <2>. QED BY <2>2, <2>3
<1>4. /\ CountOf(<<x>>, "<") = IF x = "<" THEN 1 ELSE 0
      /\ CountOf(<<x>>, "think>") = IF x = "think>" THEN 1 ELSE 0
      /\ CountOf(<<x>>, "r") = IF x = "r" THEN 1 ELSE 0
  BY <1>3
<1>5. Tags(<<x>>) = IF x = "<" THEN 1 ELSE IF x = "think>" THEN -1 ELSE 0
  <2>. DEFINE m == CountOf(<<x>>, "<")
              n == CountOf(<<x>>, "think>")
  <2>1. Tags(<<x>>) = m - n BY DEF Tags
  <2>. HIDE DEF m, n
  <2>2. m = (IF x = "<" THEN 1 ELSE 0) /\ n = (IF x = "think>" THEN 1 ELSE 0) BY <1>4 DEF m, n
  <2>. QED BY <2>1, <2>2
<1>. QED BY <1>1, <1>2, <1>4, <1>5 DEF Thoughts

\* Notices and whole tags do not count.
LEMMA MeasureNotice ==
  /\ <<"notice">> \in Pieces /\ Same(<<"notice">>, <<>>) /\ Thoughts(<<"notice">>) = 0
<1>. DEFINE x == "notice"
<1>1. x \in Word BY Words
<1>2. /\ <<x>> \in Pieces
      /\ Marks(<<x>>) = IF x \in Plaintext THEN <<x>> ELSE <<>>
      /\ Tags(<<x>>) = IF x = "<" THEN 1 ELSE IF x = "think>" THEN -1 ELSE 0
      /\ Thoughts(<<x>>) = IF x = "r" THEN 1 ELSE 0
  <2>. HIDE DEF x
  <2>. QED BY <1>1, MeasureOne
<1>3. x \notin Plaintext /\ x # "<" /\ x # "think>" /\ x # "r" BY DEF Plaintext
<1>. QED BY <1>2, <1>3, MeasureNothing DEF Same

LEMMA MeasureTags ==
  ASSUME NEW tag \in {ThinkOpen, ThinkClose}
  PROVE  tag \in Pieces /\ Same(tag, <<>>)
<1>. DEFINE x == "<"
            y == "/"
            z == "think>"
<1>1. x \in Word /\ y \in Word /\ z \in Word BY Words DEF TextPieces
<1>2. x \notin Plaintext /\ y \notin Plaintext /\ z \notin Plaintext
      /\ x = "<" /\ z = "think>" /\ y # "<" /\ y # "think>" /\ x # "think>" /\ z # "<"
  BY DEF Plaintext
<1>. HIDE DEF x, y, z
<1>3. /\ <<x>> \in Pieces /\ Marks(<<x>>) = <<>> /\ Tags(<<x>>) = 1
      /\ <<y>> \in Pieces /\ Marks(<<y>>) = <<>> /\ Tags(<<y>>) = 0
      /\ <<z>> \in Pieces /\ Marks(<<z>>) = <<>> /\ Tags(<<z>>) = -1
  <2>1. /\ <<x>> \in Pieces /\ Marks(<<x>>) = <<>> /\ Tags(<<x>>) = 1 BY <1>1, <1>2, MeasureOne
  <2>2. /\ <<y>> \in Pieces /\ Marks(<<y>>) = <<>> /\ Tags(<<y>>) = 0 BY <1>1, <1>2, MeasureOne
  <2>3. /\ <<z>> \in Pieces /\ Marks(<<z>>) = <<>> /\ Tags(<<z>>) = -1 BY <1>1, <1>2, MeasureOne
  <2>. QED BY <2>1, <2>2, <2>3
<1>4. <<>> \o <<>> = <<>> OBVIOUS
<1>5. ASSUME NEW s, NEW r, NEW p \in Pieces, NEW q \in Pieces, s = p \o q,
             Marks(p) = <<>>, Marks(q) = <<>>
      PROVE  s \in Pieces /\ Marks(s) = <<>> /\ Tags(s) = Tags(p) + Tags(q)
  BY <1>4, <1>5, MeasureConcat, ConcatPieces
<1>. DEFINE xz == <<x>> \o <<z>>
            xy == <<x>> \o <<y>>
            xyz == xy \o <<z>>
<1>6. ThinkOpen = xz BY DEF ThinkOpen, x, z
<1>7. ThinkClose = xyz BY DEF ThinkClose, x, y, z
<1>8. xz \in Pieces /\ Marks(xz) = <<>> /\ Tags(xz) = 0
  <2>1. xz \in Pieces /\ Marks(xz) = <<>> /\ Tags(xz) = Tags(<<x>>) + Tags(<<z>>) BY <1>3, <1>5
  <2>. QED BY <1>3, <2>1
<1>9. xy \in Pieces /\ Marks(xy) = <<>> /\ Tags(xy) = 1
  <2>1. xy \in Pieces /\ Marks(xy) = <<>> /\ Tags(xy) = Tags(<<x>>) + Tags(<<y>>) BY <1>3, <1>5
  <2>. QED BY <1>3, <2>1
<1>. HIDE DEF xy
<1>10. xyz \in Pieces /\ Marks(xyz) = <<>> /\ Tags(xyz) = 0
  <2>1. xyz \in Pieces /\ Marks(xyz) = <<>> /\ Tags(xyz) = Tags(xy) + Tags(<<z>>)
    BY <1>3, <1>5, <1>9
  <2>. QED BY <1>3, <1>9, <2>1
<1>. QED BY <1>6, <1>7, <1>8, <1>10, MeasureNothing DEF Same

LEMMA SameThen ==
  ASSUME NEW a \in Pieces, NEW b \in Pieces, NEW c \in Pieces, NEW d \in Pieces,
         Same(a, c), Same(b, d)
  PROVE  Same(a \o b, c \o d)
<1>1. Marks(a \o b) = Marks(a) \o Marks(b) /\ Tags(a \o b) = Tags(a) + Tags(b) BY MeasureConcat
<1>2. Marks(c \o d) = Marks(c) \o Marks(d) /\ Tags(c \o d) = Tags(c) + Tags(d) BY MeasureConcat
<1>. QED BY <1>1, <1>2 DEF Same

LEMMA BeginsAfter ==
  ASSUME NEW x \in Pieces, NEW y \in Pieces, NEW w, Begins(y, w)
  PROVE  Begins(x \o y, x \o w)
<1>1. PICK rest \in Pieces : y \o rest = w BY DEF Begins
<1>2. (x \o y) \o rest = x \o (y \o rest) BY PiecesAssociate
<1>. QED BY <1>1, <1>2 DEF Begins

LEMMA BeginsBefore ==
  ASSUME NEW x \in Pieces, NEW y \in Pieces, NEW w, Begins(x, w)
  PROVE  Begins(x, w \o y)
<1>1. PICK rest \in Pieces : x \o rest = w BY DEF Begins
<1>2. (x \o rest) \o y = x \o (rest \o y) BY PiecesAssociate
<1>3. rest \o y \in Pieces BY ConcatPieces
<1>. QED BY <1>1, <1>2, <1>3 DEF Begins

LEMMA PartThen ==
  ASSUME NEW a \in Pieces, NEW b \in Pieces, NEW c \in Pieces, NEW d \in Pieces,
         Same(a, c), Part(b, d)
  PROVE  Part(a \o b, c \o d)
<1>1. /\ Marks(a \o b) = Marks(a) \o Marks(b) /\ Marks(c \o d) = Marks(a) \o Marks(d)
      /\ Marks(a) \in Pieces /\ Marks(b) \in Pieces
  <2>1. Marks(a \o b) = Marks(a) \o Marks(b) BY MeasureConcat
  <2>2. Marks(c \o d) = Marks(c) \o Marks(d) BY MeasureConcat
  <2>3. Marks(c) = Marks(a) BY DEF Same
  <2>4. Marks(a) \in Pieces /\ Marks(b) \in Pieces BY MeasureType
  <2>. QED BY <2>1, <2>2, <2>3, <2>4
<1>2. Begins(Marks(b), Marks(d)) BY DEF Part
<1>3. Begins(Marks(a) \o Marks(b), Marks(a) \o Marks(d)) BY <1>1, <1>2, BeginsAfter
<1>. QED BY <1>1, <1>3 DEF Part

LEMMA SamePart ==
  ASSUME NEW a \in Pieces, NEW b \in Pieces
  PROVE  /\ Same(a, b) => Part(a, b)
         /\ Same(a, a)
         /\ \A c \in Pieces : Same(a, c) /\ Same(c, b) => Same(a, b)
         /\ \A c \in Pieces : Part(a, c) /\ Same(c, b) => Part(a, b)
         /\ \A c \in Pieces : Same(a, c) /\ Part(c, b) => Part(a, b)
<1>1. Same(a, b) => Part(a, b)
  <2>1. Marks(a) \in Pieces BY MeasureType
  <2>2. Marks(a) \o <<>> = Marks(a) /\ <<>> \in Pieces BY <2>1, ConcatPieces
  <2>. QED BY <2>2 DEF Same, Part, Begins
<1>. QED BY <1>1 DEF Same, Part

\* Text that has stopped short stays so when more comes.
LEMMA PartMore ==
  ASSUME NEW a \in Pieces, NEW b \in Pieces, NEW c \in Pieces, Part(a, b)
  PROVE  Part(a, b \o c)
<1>1. Marks(b \o c) = Marks(b) \o Marks(c) /\ Marks(a) \in Pieces /\ Marks(c) \in Pieces
  BY MeasureConcat, MeasureType
<1>. QED BY <1>1, BeginsBefore DEF Part

\* Text of the upstream says nothing of reasoning.
LEMMA PlainThoughts ==
  ASSUME NEW s \in Plain
  PROVE  s \in Pieces /\ Thoughts(s) = 0
<1>1. s \in Pieces /\ \A i \in 1..Len(s) : s[i] \notin {"r"} BY DEF Plain, TextPieces
<1>2. Only(s, {"r"}) = <<>> BY <1>1, OnlyRejects
<1>3. Len(<<>>) = 0 OBVIOUS
<1>. QED BY <1>1, <1>2, <1>3 DEF Thoughts, CountOf

LEMMA PlainParts ==
  ASSUME NEW s \in Plain, NEW m \in Nat, m <= Len(s)
  PROVE  /\ SubSeq(s, 1, m) \in Plain /\ Len(SubSeq(s, 1, m)) = m
         /\ SubSeq(s, m + 1, Len(s)) \in Plain /\ Len(SubSeq(s, m + 1, Len(s))) = Len(s) - m
         /\ SubSeq(s, 1, m) \o SubSeq(s, m + 1, Len(s)) = s
<1>. DEFINE a == SubSeq(s, 1, m)
            b == SubSeq(s, m + 1, Len(s))
            n == Len(s)
<1>0. n \in Nat /\ s \in Seq(Word) /\ \A i \in 1..n : s[i] \in TextPieces
  BY DEF Plain, Pieces
<1>1. \A i \in 1..n : s[i] \in Word BY <1>0
<1>2. a \in Seq(Word) /\ Len(a) = m /\ \A i \in 1..m : a[i] = s[i]
  <2>1. a = [i \in 1..m |-> s[i]] BY <1>0
  <2>2. \A i \in 1..m : s[i] \in Word BY <1>0, <1>1
  <2>. QED BY <2>1, <2>2
<1>3. b \in Seq(Word) /\ Len(b) = n - m /\ \A i \in 1..(n - m) : b[i] = s[m + i]
  <2>. DEFINE k == n - m
  <2>0. k \in Nat BY <1>0
  <2>1. b = [i \in 1..k |-> s[m + i]]
    <3>1. b = [i \in 1..(n - (m + 1) + 1) |-> s[i + (m + 1) - 1]] BY <1>0
    <3>2. n - (m + 1) + 1 = k BY <1>0
    <3>3. \A i \in 1..k : i + (m + 1) - 1 = m + i OBVIOUS
    <3>. QED BY <3>1, <3>2, <3>3
  <2>2. \A i \in 1..k : s[m + i] \in Word
    <3>1. \A i \in 1..k : m + i \in 1..n BY <1>0
    <3>. QED BY <1>1, <3>1
  <2>. HIDE DEF k
  <2>3. b \in Seq(Word) /\ Len(b) = k /\ \A i \in 1..k : b[i] = s[m + i] BY <2>0, <2>1, <2>2
  <2>. QED BY <2>3 DEF k
<1>. HIDE DEF a, b, n
<1>4. a \in Plain
  <2>1. \A i \in 1..m : i \in 1..n BY <1>0 DEF n
  <2>. QED BY <1>0, <1>2, <2>1 DEF Plain, Pieces
<1>5. b \in Plain
  <2>1. \A i \in 1..(n - m) : m + i \in 1..n BY <1>0
  <2>. QED BY <1>0, <1>3, <2>1 DEF Plain, Pieces
<1>6. a \o b = s
  <2>. DEFINE p == a \o b
  <2>1. /\ p \in Seq(Word) /\ Len(p) = n
        /\ \A i \in 1..n : p[i] = IF i <= m THEN a[i] ELSE b[i - m]
    <3>1. /\ p \in Seq(Word) /\ Len(p) = Len(a) + Len(b)
          /\ \A i \in 1..(Len(a) + Len(b)) : p[i] = IF i <= Len(a) THEN a[i] ELSE b[i - Len(a)]
      BY <1>2, <1>3, ConcatProperties
    <3>2. Len(a) + Len(b) = n /\ Len(a) = m BY <1>0, <1>2, <1>3 DEF n
    <3>. QED BY <3>1, <3>2
  <2>. HIDE DEF p
  <2>2. ASSUME NEW i \in 1..n PROVE p[i] = s[i]
    <3>1. CASE i <= m
      <4>1. i \in 1..m BY <3>1
      <4>. QED BY <1>2, <2>1, <3>1, <4>1
    <3>2. CASE ~(i <= m)
      <4>1. i - m \in 1..(n - m) /\ m + (i - m) = i BY <1>0, <3>2
      <4>. QED BY <1>3, <2>1, <3>2, <4>1
    <3>. QED BY <3>1, <3>2
  <2>3. p = s BY <1>0, <2>1, <2>2, SeqEqual DEF n
  <2>. QED BY <2>3 DEF p
<1>. QED BY <1>2, <1>3, <1>4, <1>5, <1>6 DEF a, b, n

LEMMA PlainConcat ==
  ASSUME NEW a \in Plain, NEW b \in Plain
  PROVE  a \o b \in Plain
<1>. DEFINE p == a \o b
<1>1. a \in Seq(Word) /\ b \in Seq(Word) BY DEF Plain, Pieces
<1>2. /\ p \in Seq(Word) /\ Len(p) = Len(a) + Len(b) /\ Len(a) \in Nat /\ Len(b) \in Nat
      /\ \A i \in 1..(Len(a) + Len(b)) : p[i] = IF i <= Len(a) THEN a[i] ELSE b[i - Len(a)]
  BY <1>1, ConcatProperties
<1>. HIDE DEF p
<1>3. ASSUME NEW i \in 1..Len(p) PROVE p[i] \in TextPieces
  <2>1. CASE i <= Len(a)
    <3>1. i \in 1..Len(a) BY <1>2, <2>1
    <3>. QED BY <1>2, <2>1, <3>1 DEF Plain
  <2>2. CASE ~(i <= Len(a))
    <3>1. i - Len(a) \in 1..Len(b) BY <1>2, <2>2
    <3>. QED BY <1>2, <2>2, <3>1 DEF Plain
  <2>. QED BY <2>1, <2>2
<1>. QED BY <1>2, <1>3 DEF Plain, Pieces, p

Holds(u, v) == v.hold = u.hold /\ v.thought = u.thought /\ v.budgetHit = u.budgetHit

\* From u to v body is said, but for whole tags and notices, and no tool called.
Emits(c, u, v, body) ==
  /\ body \in Pieces
  /\ \E s \in Pieces : Speaks(c, u, v, s) /\ Same(s, body) /\ Thoughts(s) = Thoughts(body)

LEMMA SpeaksEmits ==
  ASSUME NEW c, NEW u, NEW v, NEW body, Speaks(c, u, v, body)
  PROVE  Emits(c, u, v, body)
<1>1. body \in Pieces /\ Same(body, body) BY DEF Speaks, Same
<1>. QED BY <1>1 DEF Emits

LEMMA EmitsThen ==
  ASSUME NEW c, NEW u, NEW v, NEW w, NEW a, NEW b, Ready(c, u),
         Emits(c, u, v, a), Emits(c, v, w, b)
  PROVE  Emits(c, u, w, a \o b)
<1>0. a \in Pieces /\ b \in Pieces BY DEF Emits
<1>1. PICK s \in Pieces : Speaks(c, u, v, s) /\ Same(s, a) /\ Thoughts(s) = Thoughts(a)
  BY DEF Emits
<1>2. PICK r \in Pieces : Speaks(c, v, w, r) /\ Same(r, b) /\ Thoughts(r) = Thoughts(b)
  BY DEF Emits
<1>3. Speaks(c, u, w, s \o r) BY <1>1, <1>2, SpeaksThen
<1>4. Same(s \o r, a \o b) BY <1>0, <1>1, <1>2, SameThen
<1>5. Thoughts(s \o r) = Thoughts(s) + Thoughts(r) BY MeasureConcat
<1>6. Thoughts(a \o b) = Thoughts(a) + Thoughts(b) BY <1>0, MeasureConcat
<1>7. s \o r \in Pieces /\ a \o b \in Pieces BY <1>0, ConcatPieces
<1>. QED BY <1>1, <1>2, <1>3, <1>4, <1>5, <1>6, <1>7 DEF Emits

LEMMA EmitsReady ==
  ASSUME NEW c, NEW u, NEW v, NEW body, Emits(c, u, v, body)
  PROVE  Ready(c, v) /\ v.started = u.started /\ v.budget = u.budget /\ v.streaming = u.streaming
         /\ v \in Translators
BY DEF Emits, Speaks, Ready

LEMMA EmitsBesides ==
  ASSUME NEW c, NEW u, NEW v, NEW w, NEW body, Emits(c, u, v, body), w \in Translators,
         w.out = v.out, w.started = v.started, w.next = v.next, w.open = v.open,
         w.budget = v.budget, w.streaming = v.streaming, w.tools = v.tools
  PROVE  Emits(c, u, w, body)
<1>1. PICK s \in Pieces : Speaks(c, u, v, s) /\ Same(s, body) /\ Thoughts(s) = Thoughts(body)
  BY DEF Emits
<1>2. Speaks(c, u, w, s) BY <1>1, SpeaksBesides
<1>. QED BY <1>1, <1>2 DEF Emits

LEMMA StoppedSpeaks ==
  ASSUME NEW c, NEW u, Ready(c, u), u.started = TRUE
  PROVE  /\ Speaks(c, u, Stopped(u), <<>>) /\ Holds(u, Stopped(u))
         /\ Stopped(u).finished = TRUE /\ Stopped(u).open = "none"
<1>. DEFINE v == Closed(u)
            w == [v EXCEPT !.stop = "end_turn", !.finished = TRUE]
<1>1. Speaks(c, u, v, <<>>) /\ Leaves(u, v) /\ v.open = "none" BY ClosedSpeaks
<1>2. Stopped(u) = w BY DEF Stopped
<1>. HIDE DEF v
<1>3. v \in Translators BY <1>1 DEF Speaks, Ready
<1>4. /\ w \in Translators /\ w.out = v.out /\ w.started = v.started /\ w.next = v.next
      /\ w.open = v.open /\ w.budget = v.budget /\ w.streaming = v.streaming
      /\ w.tools = v.tools /\ w.hold = v.hold /\ w.thought = v.thought
      /\ w.budgetHit = v.budgetHit /\ w.finished = TRUE
  BY <1>3, Words DEF Translators
<1>. HIDE DEF w
<1>5. Speaks(c, u, w, <<>>) BY <1>1, <1>4, SpeaksBesides
<1>. QED BY <1>1, <1>2, <1>4, <1>5 DEF Leaves, Holds

\* Text goes out, and perhaps the stream is stopped.
LEMMA EmitTextEmits ==
  ASSUME NEW c, NEW u, Ready(c, u), u.started = TRUE, NEW body \in Plain
  PROVE  /\ Emits(c, u, EmitText(u, body), body) /\ Holds(u, EmitText(u, body))
         /\ EmitText(u, body).finished \in {u.finished, TRUE}
<1>. DEFINE count == u.hallucinated + (IF Contains(body, "markup") THEN 1 ELSE 0)
            v == [u EXCEPT !.hallucinated = count]
            more == Append(body, "notice")
            w == TextInto(v, body)
            x == TextInto(v, more)
            y == Stopped(x)
<1>1. u \in Translators /\ body \in Pieces BY DEF Ready, Plain
<1>2. count \in Nat
  <2>1. u.hallucinated \in Nat BY <1>1 DEF Translators
  <2>. QED BY <2>1
<1>3. EmitText(u, body) \in {u, w, y} BY DEF EmitText
<1>4. EmitText(u, body) = u => body = <<>> \/ EmitText(u, body) \in {w, y} BY DEF EmitText
<1>. HIDE DEF count
<1>5. /\ v \in Translators /\ v.out = u.out /\ v.started = u.started /\ v.next = u.next
      /\ v.open = u.open /\ v.budget = u.budget /\ v.streaming = u.streaming
      /\ v.tools = u.tools /\ v.hold = u.hold /\ v.thought = u.thought
      /\ v.budgetHit = u.budgetHit /\ v.finished = u.finished
  BY <1>1, <1>2 DEF Translators
<1>. HIDE DEF v
<1>6. Speaks(c, u, u, <<>>) /\ Leaves(u, u) BY SpeaksNothing
<1>7. Speaks(c, u, v, <<>>) BY <1>5, <1>6, SpeaksBesides
<1>8. Ready(c, v) /\ v.started = TRUE BY <1>5, <1>7 DEF Speaks
<1>9. <<>> \o body = body /\ body \o <<>> = body BY <1>1, ConcatPieces
<1>10. CASE EmitText(u, body) = w
  <2>1. Speaks(c, v, w, body) /\ Leaves(v, w) BY <1>1, <1>8, TextIntoSpeaks
  <2>. HIDE DEF w
  <2>2. Speaks(c, u, w, body) BY <1>7, <1>9, <2>1, SpeaksThen
  <2>. QED BY <1>5, <1>10, <2>1, <2>2, SpeaksEmits DEF Leaves, Holds
<1>11. CASE EmitText(u, body) = y
  <2>1. more = body \o <<"notice">> /\ more \in Pieces
    <3>1. "notice" \in Word BY Words
    <3>. QED BY <1>1, <3>1, AppendIsConcat DEF Pieces
  <2>. HIDE DEF more
  <2>2. Speaks(c, v, x, more) /\ Leaves(v, x) BY <1>8, <2>1, TextIntoSpeaks
  <2>. HIDE DEF x
  <2>3. Ready(c, x) /\ x.started = TRUE BY <1>8, <2>2 DEF Speaks
  <2>4. Speaks(c, x, y, <<>>) /\ Holds(x, y) /\ y.finished = TRUE BY <2>3, StoppedSpeaks
  <2>. HIDE DEF y
  <2>5. Speaks(c, u, x, <<>> \o more) BY <1>7, <2>2, SpeaksThen
  <2>6. Speaks(c, u, y, (<<>> \o more) \o <<>>) BY <2>4, <2>5, SpeaksThen
  <2>7. Speaks(c, u, y, more)
    <3>1. <<>> \o more = more /\ more \o <<>> = more BY <2>1, ConcatPieces
    <3>. QED BY <2>6, <3>1
  <2>8. Same(more, body) /\ Thoughts(more) = Thoughts(body)
    <3>. DEFINE note == <<"notice">>
    <3>1. note \in Pieces /\ Same(note, <<>>) /\ Thoughts(note) = 0 BY MeasureNotice
    <3>2. more = body \o note BY <2>1
    <3>. HIDE DEF note
    <3>3. Same(body, body) /\ <<>> \in Pieces BY MeasureNothing DEF Same
    <3>4. Same(more, body \o <<>>) BY <1>1, <3>1, <3>2, <3>3, SameThen
    <3>5. Thoughts(more) = Thoughts(body) + Thoughts(note) BY <1>1, <3>1, <3>2, MeasureConcat
    <3>6. Thoughts(body) \in Nat BY <1>1, MeasureType
    <3>. QED BY <1>9, <3>1, <3>4, <3>5, <3>6
  <2>9. Emits(c, u, y, body) BY <1>1, <2>1, <2>7, <2>8 DEF Emits
  <2>. QED BY <1>5, <1>11, <2>2, <2>4, <2>9 DEF Leaves, Holds
<1>12. CASE EmitText(u, body) = u /\ body = <<>>
  BY <1>6, <1>12, SpeaksEmits DEF Leaves, Holds
<1>. QED BY <1>3, <1>4, <1>10, <1>11, <1>12

LEMMA EmitThinkingEmits ==
  ASSUME NEW c, NEW u, Ready(c, u), u.started = TRUE, u.open = "thinking", NEW body \in Pieces
  PROVE  /\ Emits(c, u, EmitThinking(u, body), body) /\ Holds(u, EmitThinking(u, body))
         /\ EmitThinking(u, body).finished = u.finished
         /\ EmitThinking(u, body).open = "thinking"
<1>1. CASE body = <<>>
  <2>1. EmitThinking(u, body) = u BY <1>1 DEF EmitThinking
  <2>2. Speaks(c, u, u, <<>>) /\ Leaves(u, u) BY SpeaksNothing
  <2>. QED BY <1>1, <2>1, <2>2, SpeaksEmits DEF Leaves, Holds
<1>2. CASE body # <<>>
  <2>. DEFINE v == Delta(u, "thinking_delta", body)
  <2>1. EmitThinking(u, body) = v BY <1>2 DEF EmitThinking
  <2>2. u.open \in Spoken BY DEF Spoken
  <2>3. Speaks(c, u, v, body) /\ Leaves(u, v) /\ v.open = u.open
    BY <2>2, DeltaSpeaks
  <2>. HIDE DEF v
  <2>. QED BY <2>1, <2>3, SpeaksEmits DEF Leaves, Holds
<1>. QED BY <1>1, <1>2

\* Parts of text.
LEMMA PartIs ==
  ASSUME NEW s \in Pieces, NEW a \in Nat, a > 0, NEW b \in Nat, a <= b + 1, b <= Len(s)
  PROVE  /\ SubSeq(s, a, b) \in Pieces /\ Len(SubSeq(s, a, b)) = b - a + 1
         /\ \A i \in 1..(b - a + 1) : SubSeq(s, a, b)[i] = s[a + i - 1]
<1>. DEFINE n == b - a + 1
            p == SubSeq(s, a, b)
<1>1. n \in Nat /\ s \in Seq(Word) BY DEF Pieces
<1>2. p = [i \in 1..n |-> s[i + a - 1]] BY <1>1
<1>3. \A i \in 1..n : i + a - 1 = a + i - 1 /\ a + i - 1 \in 1..Len(s) BY <1>1
<1>4. \A i \in 1..Len(s) : s[i] \in Word BY <1>1
<1>. HIDE DEF n, p
<1>5. p = [i \in 1..n |-> s[a + i - 1]] BY <1>2, <1>3
<1>6. \A i \in 1..n : s[a + i - 1] \in Word BY <1>3, <1>4
<1>7. p \in Seq(Word) /\ Len(p) = n /\ \A i \in 1..n : p[i] = s[a + i - 1]
  BY <1>1, <1>5, <1>6
<1>. QED BY <1>7 DEF n, p, Pieces

LEMMA PartOfPart ==
  ASSUME NEW s \in Pieces, NEW a \in Nat, a > 0, NEW b \in Nat, a <= b + 1, b <= Len(s),
         NEW x \in Nat, x > 0, NEW y \in Nat, x <= y + 1, y <= b - a + 1
  PROVE  SubSeq(SubSeq(s, a, b), x, y) = SubSeq(s, a + x - 1, a + y - 1)
<1>. DEFINE p == SubSeq(s, a, b)
            m == a + x - 1
            n == a + y - 1
            q == SubSeq(p, x, y)
            r == SubSeq(s, m, n)
            k == y - x + 1
<1>1. p \in Pieces /\ Len(p) = b - a + 1 /\ \A i \in 1..(b - a + 1) : p[i] = s[a + i - 1]
  BY PartIs
<1>2. m \in Nat /\ m > 0 /\ n \in Nat /\ m <= n + 1 /\ n <= Len(s) /\ n - m + 1 = k
  <2>1. Len(s) \in Nat BY DEF Pieces
  <2>. QED BY <2>1
<1>3. q \in Pieces /\ Len(q) = k /\ \A i \in 1..k : q[i] = p[x + i - 1]
  <2>1. y <= Len(p) BY <1>1
  <2>. HIDE DEF p
  <2>. QED BY <1>1, <2>1, PartIs
<1>. HIDE DEF m, n
<1>4. r \in Pieces /\ Len(r) = n - m + 1 /\ \A i \in 1..(n - m + 1) : r[i] = s[m + i - 1]
  BY <1>2, PartIs
<1>. HIDE DEF p, q, r
<1>5. ASSUME NEW i \in 1..k PROVE q[i] = r[i]
  <2>1. x + i - 1 \in 1..(b - a + 1) /\ a + (x + i - 1) - 1 = m + i - 1 BY DEF m
  <2>2. q[i] = s[m + i - 1]
    <3>1. p[x + i - 1] = s[a + (x + i - 1) - 1] BY <1>1, <2>1
    <3>. QED BY <1>3, <2>1, <3>1
  <2>. QED BY <1>2, <1>4, <2>2
<1>6. q = r BY <1>2, <1>3, <1>4, <1>5, SeqEqual DEF Pieces
<1>. QED BY <1>6 DEF q, r, m, n, p

\* Text that is reversed.
LEMMA ReverseLen ==
  ASSUME NEW s \in Pieces
  PROVE  Reverse(s) \in Pieces /\ Len(Reverse(s)) = Len(s)
<1>. DEFINE n == Len(s)
<1>1. n \in Nat /\ \A i \in 1..n : s[i] \in Word BY DEF Pieces
<1>2. Reverse(s) = [i \in 1..n |-> s[(n - i) + 1]] BY DEF Reverse
<1>. HIDE DEF n
<1>3. \A i \in 1..n : (n - i) + 1 \in 1..n BY <1>1
<1>4. Reverse(s) \in Seq(Word) /\ Len(Reverse(s)) = n BY <1>1, <1>2, <1>3
<1>. QED BY <1>4 DEF Pieces, n

\* No more is held back than there is.
LEMMA HeldBackLen ==
  ASSUME NEW text \in Pieces, NEW tag \in {ThinkOpen, ThinkClose}
  PROVE  MaxTagPrefixSuffix(text, tag) \in 0..Len(text)
<1>. DEFINE n == Len(tag) - 1
            Ends(k) == IsSuffix(SubSeq(tag, 1, k), text)
            Best(k) == Ends(k) /\ \A j \in (k + 1)..n : ~Ends(j)
<1>1. tag \in Pieces /\ n \in {1, 2} BY MeasureTags DEF ThinkOpen, ThinkClose
<1>2. Ends(0)
  <2>. DEFINE e == SubSeq(tag, 1, 0)
              p == Reverse(e)
              r == Reverse(text)
  <2>1. e \in Pieces /\ Len(e) = 0
    <3>1. 0 <= Len(tag) BY <1>1
    <3>2. e \in Pieces /\ Len(e) = 0 - 1 + 1 BY <1>1, <3>1, PartIs
    <3>. QED BY <3>2
  <2>. HIDE DEF e
  <2>2. p \in Pieces /\ Len(p) = 0 BY <2>1, ReverseLen
  <2>3. r \in Pieces /\ Len(r) \in Nat BY ReverseLen DEF Pieces
  <2>. HIDE DEF p, r
  <2>4. SubSeq(p, 1, 0) = <<>> /\ SubSeq(r, 1, 0) = <<>>
    <3>1. SubSeq(p, 1, 0) \in Seq(Word) /\ Len(SubSeq(p, 1, 0)) = 0
      BY <2>2, PartIs DEF Pieces
    <3>2. SubSeq(r, 1, 0) \in Seq(Word) /\ Len(SubSeq(r, 1, 0)) = 0
      BY <2>3, PartIs DEF Pieces
    <3>. QED BY <3>1, <3>2, EmptySeq
  <2>. QED BY <2>2, <2>3, <2>4 DEF IsSuffix, IsPrefix, e, p, r
<1>3. ASSUME NEW k \in 0..n, Ends(k) PROVE k <= Len(text)
  <2>. DEFINE e == SubSeq(tag, 1, k)
  <2>1. e \in Pieces /\ Len(e) = k
    <3>1. k \in Nat /\ k <= Len(tag) /\ 1 <= k + 1 BY <1>1
    <3>2. e \in Pieces /\ Len(e) = k - 1 + 1 BY <1>1, <3>1, PartIs
    <3>. QED BY <3>1, <3>2
  <2>2. Len(Reverse(e)) <= Len(Reverse(text)) BY <1>3 DEF IsSuffix, IsPrefix
  <2>. HIDE DEF e
  <2>. QED BY <2>1, <2>2, ReverseLen
<1>4. MaxTagPrefixSuffix(text, tag) = CHOOSE k \in 0..n : Best(k) BY DEF MaxTagPrefixSuffix
<1>5. \E k \in 0..n : Best(k)
  <2>. HIDE DEF n, Ends
  <2>1. CASE n = 1
    <3>1. Ends(1) => Best(1) BY <2>1
    <3>2. ~Ends(1) => Best(0) BY <1>2, <2>1
    <3>. QED BY <2>1, <3>1, <3>2
  <2>2. CASE n = 2
    <3>1. Ends(2) => Best(2) BY <2>2
    <3>2. ~Ends(2) /\ Ends(1) => Best(1) BY <2>2
    <3>3. ~Ends(2) /\ ~Ends(1) => Best(0) BY <1>2, <2>2
    <3>. QED BY <2>2, <3>1, <3>2, <3>3
  <2>. QED BY <1>1, <2>1, <2>2
<1>. DEFINE m == MaxTagPrefixSuffix(text, tag)
<1>6. m \in 0..n /\ Ends(m)
  <2>. HIDE DEF n, Ends
  <2>. QED BY <1>4, <1>5
<1>. HIDE DEF m, Ends
<1>7. m <= Len(text) /\ m \in Nat BY <1>1, <1>3, <1>6
<1>8. Len(text) \in Nat BY DEF Pieces
<1>. QED BY <1>7, <1>8 DEF m

LEMMA InSubSeqs ==
  ASSUME NEW s, NEW x \in SubSeqs(s)
  PROVE  \E i, j \in 0..Len(s) : x = SubSeq(s, i + 1, j)
BY DEF SubSeqs

\* Where the tag is found.
LEMMA FirstTag ==
  ASSUME NEW text \in Pieces, NEW tag \in Pieces, Len(tag) > 0, tag \in SubSeqs(text)
  PROVE  LET start == IndexFirstSubSeq(tag, text)
         IN  /\ start \in Nat /\ start > 0 /\ start + Len(tag) - 1 <= Len(text)
             /\ SubSeq(text, start, start + Len(tag) - 1) = tag
<1>. DEFINE n == Len(text)
            Found(i) == tag \in SubSeqs(SubSeq(text, 1, i))
            First(i) == Found(i) /\ \A j \in 0..(i - 1) : ~Found(j)
            last == CHOOSE i \in 0..n : First(i)
            start == IndexFirstSubSeq(tag, text)
<1>1. n \in Nat /\ Len(tag) \in Nat BY DEF Pieces
<1>2. Found(n)
  <2>1. SubSeq(text, 1, n) = text
    <3>1. /\ SubSeq(text, 1, n) \in Pieces /\ Len(SubSeq(text, 1, n)) = n - 1 + 1
          /\ \A i \in 1..(n - 1 + 1) : SubSeq(text, 1, n)[i] = text[1 + i - 1]
      BY <1>1, PartIs
    <3>2. n - 1 + 1 = n /\ \A i \in 1..n : 1 + i - 1 = i BY <1>1
    <3>3. Len(SubSeq(text, 1, n)) = n /\ \A i \in 1..n : SubSeq(text, 1, n)[i] = text[i]
      BY <3>1, <3>2
    <3>. QED BY <3>1, <3>3, SeqEqual DEF Pieces
  <2>. QED BY <2>1
<1>3. \E i \in 0..n : First(i)
  <2>. HIDE DEF Found
  <2>. DEFINE good == {i \in 0..n : Found(i)}
  <2>1. n \in good BY <1>1, <1>2
  <2>2. PICK i \in good : \A j \in good : i <= j
    <3>1. good \subseteq Nat /\ good # {} BY <2>1
    <3>. HIDE DEF good
    <3>. QED BY <3>1, Least
  <2>3. \A j \in 0..(i - 1) : ~Found(j)
    <3>1. \A j \in 0..(i - 1) : j \in 0..n /\ ~(i <= j) BY <1>1, <2>2
    <3>. QED BY <2>2, <3>1
  <2>. QED BY <2>2, <2>3
<1>4. last \in 0..n /\ First(last)
  <2>. HIDE DEF First
  <2>. QED BY <1>3
<1>5. start = last - (Len(tag) - 1) BY DEF IndexFirstSubSeq
<1>. HIDE DEF last, start, n
<1>6. last \in Nat /\ last <= n BY <1>1, <1>4
<1>. DEFINE s == SubSeq(text, 1, last)
<1>7. s \in Pieces /\ Len(s) = last
  <2>1. s \in Pieces /\ Len(s) = last - 1 + 1 BY <1>6, PartIs DEF n
  <2>. QED BY <1>6, <2>1
<1>8. PICK i \in 0..last, j \in 0..last : tag = SubSeq(s, i + 1, j)
  <2>1. tag \in SubSeqs(s) BY <1>4
  <2>. HIDE DEF s
  <2>2. \E i, j \in 0..Len(s) : tag = SubSeq(s, i + 1, j) BY <2>1, InSubSeqs
  <2>. QED BY <1>7, <2>2
<1>9. i < j
  <2>1. CASE ~(i < j)
    <3>1. tag = <<>>
      <4>1. s \in Seq(Word) BY <1>7 DEF Pieces
      <4>2. i + 1 > j BY <1>6, <2>1
      <4>. HIDE DEF s
      <4>3. SubSeq(s, i + 1, j) = <<>> BY <4>1, <4>2, <1>6
      <4>. QED BY <1>8, <4>3
    <3>2. Len(<<>>) = 0 OBVIOUS
    <3>. QED BY <3>1, <3>2
  <2>. QED BY <2>1
<1>10. tag = SubSeq(text, i + 1, j) /\ Len(tag) = j - i
  <2>1. SubSeq(s, i + 1, j) = SubSeq(text, 1 + (i + 1) - 1, 1 + j - 1)
    <3>1. /\ 1 <= last + 1 /\ last <= Len(text) /\ i + 1 \in Nat /\ i + 1 > 0 /\ j \in Nat
          /\ i + 1 <= j + 1 /\ j <= last - 1 + 1
      BY <1>1, <1>6, <1>9 DEF n
    <3>. QED BY <1>6, <3>1, PartOfPart
  <2>2. 1 + (i + 1) - 1 = i + 1 /\ 1 + j - 1 = j BY <1>6
  <2>3. Len(SubSeq(text, i + 1, j)) = j - (i + 1) + 1
    <3>1. i + 1 \in Nat /\ i + 1 > 0 /\ j \in Nat /\ i + 1 <= j + 1 /\ j <= Len(text)
      BY <1>1, <1>6, <1>9 DEF n
    <3>. QED BY <3>1, PartIs
  <2>4. j - (i + 1) + 1 = j - i BY <1>6
  <2>5. tag = SubSeq(text, i + 1, j) BY <1>8, <2>1, <2>2
  <2>. QED BY <2>3, <2>4, <2>5
<1>11. j = last
  <2>1. ASSUME j # last PROVE FALSE
    <3>. DEFINE r == SubSeq(text, 1, j)
    <3>1. r \in Pieces /\ Len(r) = j
      <4>1. r \in Pieces /\ Len(r) = j - 1 + 1
        <5>1. j \in Nat /\ 1 <= j + 1 /\ j <= Len(text) BY <1>1, <1>6 DEF n
        <5>. QED BY <5>1, PartIs
      <4>. QED BY <1>6, <4>1
    <3>2. SubSeq(r, i + 1, j) = SubSeq(text, 1 + (i + 1) - 1, 1 + j - 1)
      <4>1. /\ 1 <= j + 1 /\ j <= Len(text) /\ i + 1 \in Nat /\ i + 1 > 0 /\ j \in Nat
            /\ i + 1 <= j + 1 /\ j <= j - 1 + 1
        BY <1>1, <1>6, <1>9 DEF n
      <4>. QED BY <4>1, PartOfPart
    <3>3. 1 + (i + 1) - 1 = i + 1 /\ 1 + j - 1 = j BY <1>6
    <3>4. tag = SubSeq(r, i + 1, j) BY <1>10, <3>2, <3>3
    <3>5. i \in 0..Len(r) /\ j \in 0..Len(r) BY <1>6, <1>9, <3>1
    <3>6. Found(j)
      <4>. HIDE DEF r
      <4>1. tag \in SubSeqs(r) BY <3>4, <3>5 DEF SubSeqs
      <4>. QED BY <4>1 DEF r
    <3>7. j \in 0..(last - 1) BY <1>6, <2>1
    <3>. HIDE DEF Found
    <3>. QED BY <1>4, <3>6, <3>7
  <2>. QED BY <2>1
<1>12. start = i + 1 /\ start + Len(tag) - 1 = j BY <1>5, <1>6, <1>10, <1>11
<1>13. start \in Nat /\ start > 0 /\ j <= Len(text) BY <1>6, <1>11, <1>12 DEF n
<1>14. /\ start \in Nat /\ start > 0 /\ start + Len(tag) - 1 <= Len(text)
       /\ SubSeq(text, start, start + Len(tag) - 1) = tag
  BY <1>10, <1>12, <1>13
<1>. QED BY <1>14 DEF start
-----------------------------------------------------------------------------
(***************************************************************************)
(* The scanner: what a turn of the loop takes off the text it says or      *)
(* holds back (Scans), and so does the loop.                               *)
(***************************************************************************)
\* Text cut twice.
LEMMA PlainThree ==
  ASSUME NEW text \in Plain, NEW k \in Nat, NEW m \in Nat, k <= m, m <= Len(text)
  PROVE  /\ SubSeq(text, 1, k) \in Plain /\ SubSeq(text, m + 1, Len(text)) \in Plain
         /\ text = (SubSeq(text, 1, k) \o SubSeq(text, k + 1, m)) \o SubSeq(text, m + 1, Len(text))
         /\ Len(SubSeq(text, m + 1, Len(text))) = Len(text) - m
<1>. DEFINE pre == SubSeq(text, 1, m)
            q == SubSeq(text, m + 1, Len(text))
            k1 == k + 1
<1>1. /\ pre \in Plain /\ Len(pre) = m /\ q \in Plain /\ Len(q) = Len(text) - m
      /\ pre \o q = text
  BY PlainParts
<1>2. text \in Pieces BY DEF Plain
<1>3. SubSeq(pre, 1, k) = SubSeq(text, 1, k)
  <2>1. SubSeq(SubSeq(text, 1, m), 1, k) = SubSeq(text, 1 + 1 - 1, 1 + k - 1)
    <3>1. /\ 1 \in Nat /\ 1 > 0 /\ 1 <= m + 1 /\ 1 <= k + 1 /\ k <= m - 1 + 1 OBVIOUS
    <3>. QED BY <1>2, <3>1, PartOfPart
  <2>2. 1 + 1 - 1 = 1 /\ 1 + k - 1 = k OBVIOUS
  <2>. QED BY <2>1, <2>2
<1>4. SubSeq(pre, k1, m) = SubSeq(text, k1, m)
  <2>1. /\ 1 \in Nat /\ 1 > 0 /\ 1 <= m + 1 /\ k1 \in Nat /\ k1 > 0 /\ k1 <= m + 1
        /\ m <= m - 1 + 1 /\ 1 + k1 - 1 = k1 /\ 1 + m - 1 = m
    OBVIOUS
  <2>. HIDE DEF k1
  <2>2. SubSeq(SubSeq(text, 1, m), k1, m) = SubSeq(text, 1 + k1 - 1, 1 + m - 1)
    BY <1>2, <2>1, PartOfPart
  <2>. QED BY <2>1, <2>2
<1>. HIDE DEF pre, q
<1>5. SubSeq(pre, 1, k) \in Plain /\ SubSeq(pre, 1, k) \o SubSeq(pre, k + 1, Len(pre)) = pre
  BY <1>1, PlainParts
<1>. QED BY <1>1, <1>3, <1>4, <1>5 DEF q

\* A tag, and the text before and after it.
TagIsAt(text, tag, start) ==
  /\ SubSeq(text, 1, start - 1) \in Plain
  /\ SubSeq(text, start + Len(tag), Len(text)) \in Plain
  /\ text = (SubSeq(text, 1, start - 1) \o tag) \o SubSeq(text, start + Len(tag), Len(text))
  /\ Len(SubSeq(text, start + Len(tag), Len(text))) < Len(text)

LEMMA TagSplit ==
  ASSUME NEW text \in Plain, NEW tag \in {ThinkOpen, ThinkClose}, tag \in SubSeqs(text)
  PROVE  TagIsAt(text, tag, IndexFirstSubSeq(tag, text))
<1>. DEFINE n == Len(tag)
            start == IndexFirstSubSeq(tag, text)
<1>1. tag \in Pieces /\ n \in Nat /\ n > 0
  <2>1. tag \in Pieces BY MeasureTags
  <2>2. Len(ThinkOpen) = 2 BY DEF ThinkOpen
  <2>3. Len(ThinkClose) = 3 BY DEF ThinkClose
  <2>. QED BY <2>1, <2>2, <2>3
<1>2. text \in Pieces /\ Len(text) \in Nat BY DEF Plain, Pieces
<1>3. start \in Nat /\ start > 0 /\ start + n - 1 <= Len(text) /\ SubSeq(text, start, start + n - 1) = tag
  BY <1>1, <1>2, FirstTag
<1>. HIDE DEF start, n
<1>. DEFINE k == start - 1
            m == start + n - 1
<1>4. k \in Nat /\ m \in Nat /\ k <= m /\ m <= Len(text) /\ k + 1 = start /\ m + 1 = start + n /\ m > 0
  BY <1>1, <1>3
<1>5. SubSeq(text, k + 1, m) = tag BY <1>3, <1>4
<1>. HIDE DEF k, m
<1>6. /\ SubSeq(text, 1, k) \in Plain /\ SubSeq(text, m + 1, Len(text)) \in Plain
      /\ text = (SubSeq(text, 1, k) \o SubSeq(text, k + 1, m)) \o SubSeq(text, m + 1, Len(text))
      /\ Len(SubSeq(text, m + 1, Len(text))) = Len(text) - m
  BY <1>4, PlainThree
<1>7. Len(text) - m < Len(text) BY <1>2, <1>4
<1>8. /\ SubSeq(text, 1, k) \in Plain /\ SubSeq(text, start + n, Len(text)) \in Plain
      /\ text = (SubSeq(text, 1, k) \o tag) \o SubSeq(text, start + n, Len(text))
      /\ Len(SubSeq(text, start + n, Len(text))) < Len(text)
  <2>1. m + 1 = start + n BY <1>4
  <2>. QED BY <1>5, <1>6, <1>7, <2>1
<1>. QED BY <1>8 DEF k, n, start, TagIsAt

\* Of the text, body is sent and rest, the last pieces, held back.
HoldsBack(c, u, v, text, body, rest) ==
  /\ Emits(c, u, v, body) /\ v.hold = rest
  /\ v.thought = u.thought /\ v.budgetHit = u.budgetHit /\ v.finished \in {u.finished, TRUE}
  /\ body \in Plain /\ rest \in Plain /\ body \o rest = text

LEMMA HeldBackEmits ==
  ASSUME NEW c, NEW u, Ready(c, u), u.started = TRUE, NEW text \in Plain,
         NEW keep \in 0..Len(text), NEW body, body = SubSeq(text, 1, Len(text) - keep),
         NEW rest, rest = SubSeq(text, Len(text) - keep + 1, Len(text))
  PROVE  HoldsBack(c, u, HeldBack(u, text, keep), text, body, rest)
<1>. DEFINE m == Len(text) - keep
            v == IF u.open = "thinking" THEN EmitThinking(u, body) ELSE EmitText(u, body)
            x == [v EXCEPT !.hold = rest]
<1>1. m \in Nat /\ m <= Len(text)
  <2>1. Len(text) \in Nat BY DEF Plain, Pieces
  <2>. QED BY <2>1
<1>2. HeldBack(u, text, keep) = x BY DEF HeldBack
<1>3. body \in Plain /\ rest \in Plain /\ body \o rest = text
  <2>1. body = SubSeq(text, 1, m) /\ rest = SubSeq(text, m + 1, Len(text)) OBVIOUS
  <2>. HIDE DEF m
  <2>. QED BY <1>1, <2>1, PlainParts
<1>4. Emits(c, u, v, body) /\ Holds(u, v) /\ v.finished \in {u.finished, TRUE}
  <2>1. body \in Pieces BY <1>3 DEF Plain
  <2>2. CASE u.open = "thinking"
    <3>1. v = EmitThinking(u, body) BY <2>2
    <3>. HIDE DEF v
    <3>. QED BY <2>1, <2>2, <3>1, EmitThinkingEmits
  <2>3. CASE u.open # "thinking"
    <3>1. v = EmitText(u, body) BY <2>3
    <3>. HIDE DEF v
    <3>. QED BY <1>3, <2>3, <3>1, EmitTextEmits
  <2>. QED BY <2>2, <2>3
<1>. HIDE DEF v
<1>5. v \in Translators BY <1>4, EmitsReady
<1>6. /\ x \in Translators /\ x.out = v.out /\ x.started = v.started /\ x.next = v.next
      /\ x.open = v.open /\ x.budget = v.budget /\ x.streaming = v.streaming
      /\ x.tools = v.tools /\ x.hold = rest /\ x.thought = v.thought
      /\ x.budgetHit = v.budgetHit /\ x.finished = v.finished
  BY <1>3, <1>5 DEF Translators
<1>. HIDE DEF x
<1>7. Emits(c, u, x, body) BY <1>4, <1>6, EmitsBesides
<1>. QED BY <1>2, <1>3, <1>4, <1>6, <1>7 DEF Holds, HoldsBack

\* A tag closes thinking, or opens it.
LEMMA AtTagEmits ==
  ASSUME NEW c, NEW u, Ready(c, u), u.started = TRUE
  PROVE  Emits(c, u, AtTag(u), <<>>) /\ Leaves(u, AtTag(u))
<1>1. CASE u.open = "thinking"
  <2>1. AtTag(u) = Closed(u) BY <1>1 DEF AtTag
  <2>2. Speaks(c, u, Closed(u), <<>>) /\ Leaves(u, Closed(u)) BY ClosedSpeaks
  <2>. QED BY <2>1, <2>2, SpeaksEmits
<1>2. CASE u.open # "thinking"
  <2>. DEFINE v == Opened(u, "thinking", NoTool)
              w == [v EXCEPT !.byReasoning = FALSE]
  <2>1. AtTag(u) = w BY <1>2 DEF AtTag
  <2>2. Speaks(c, u, v, <<>>) /\ Leaves(u, v)
    <3>1. "thinking" \in Kinds /\ "thinking" # "tool_use" BY DEF Kinds
    <3>. QED BY <3>1, OpenedSpeaks
  <2>. HIDE DEF v
  <2>3. v \in Translators BY <2>2 DEF Speaks, Ready
  <2>4. /\ w \in Translators /\ w.out = v.out /\ w.started = v.started /\ w.next = v.next
        /\ w.open = v.open /\ w.budget = v.budget /\ w.streaming = v.streaming
        /\ w.tools = v.tools /\ w.hold = v.hold /\ w.thought = v.thought
        /\ w.budgetHit = v.budgetHit /\ w.finished = v.finished
    BY <2>3 DEF Translators
  <2>. HIDE DEF w
  <2>5. Speaks(c, u, w, <<>>) BY <2>2, <2>4, SpeaksBesides
  <2>. QED BY <2>1, <2>2, <2>4, <2>5, SpeaksEmits DEF Leaves
<1>. QED BY <1>1, <1>2

\* The scanner has come from u to v, with rest of the text to go.
Scans(c, u, text, v, rest) ==
  /\ v.thought = u.thought /\ v.budgetHit = u.budgetHit
  /\ rest \in Plain
  /\ \E body \in Plain :
       /\ Emits(c, u, v, body)
       /\ v.finished = FALSE => Same((body \o v.hold) \o rest, text)
       /\ v.finished = TRUE => rest = <<>> /\ Part(body \o v.hold, text)
  /\ rest # <<>> => v.hold = <<>>

\* A turn of the scanner takes a tag off the text, or all of it.
Turns(c, u, text, turn) ==
  Scans(c, u, text, turn.u, turn.text) /\ Len(turn.text) < Len(text)

LEMMA EmptyPlain == <<>> \in Plain /\ <<>> \in Pieces /\ Len(<<>>) = 0
<1>1. <<>> \in Pieces /\ Len(<<>>) = 0 BY DEF Pieces
<1>. QED BY <1>1 DEF Plain

LEMMA TurnWithoutTag ==
  ASSUME NEW c, NEW u, Ready(c, u), u.started = TRUE, u.finished = FALSE,
         NEW text \in Plain, text # <<>>, NEW k \in 0..Len(text)
  PROVE  Scans(c, u, text, HeldBack(u, text, k), <<>>)
<1>. DEFINE x == HeldBack(u, text, k)
<1>a. PICK body : body = SubSeq(text, 1, Len(text) - k) OBVIOUS
<1>b. PICK rest : rest = SubSeq(text, Len(text) - k + 1, Len(text)) OBVIOUS
<1>c. HoldsBack(c, u, HeldBack(u, text, k), text, body, rest) BY <1>a, <1>b, HeldBackEmits
<1>. HIDE DEF x
<1>1. /\ Emits(c, u, x, body) /\ body \in Plain /\ x.hold \in Plain /\ body \o x.hold = text
      /\ x.thought = u.thought /\ x.budgetHit = u.budgetHit
  BY <1>c DEF HoldsBack, x
<1>2. text \in Pieces BY DEF Plain
<1>3. text \o <<>> = text BY <1>2, ConcatPieces
<1>4. Same(text, text) /\ Part(text, text) BY <1>2, SamePart
<1>5. Same((body \o x.hold) \o <<>>, text) /\ Part(body \o x.hold, text) BY <1>1, <1>3, <1>4
<1>. QED BY <1>1, <1>5, EmptyPlain DEF Scans, x

\* Text up to a tag.
LEMMA BeforeTag ==
  ASSUME NEW c, NEW u, Ready(c, u), u.started = TRUE, NEW p \in Plain
  PROVE  /\ Emits(c, u, HeldBack(u, p, 0), p) /\ HeldBack(u, p, 0).hold = <<>>
         /\ HeldBack(u, p, 0).thought = u.thought /\ HeldBack(u, p, 0).budgetHit = u.budgetHit
         /\ HeldBack(u, p, 0).finished \in {u.finished, TRUE}
<1>1. Len(p) \in Nat /\ p \in Seq(Word) /\ p \in Pieces BY DEF Plain, Pieces
<1>2. PICK k \in 0..Len(p) : k = 0 BY <1>1
<1>3. Len(p) - k = Len(p) /\ Len(p) - k + 1 > Len(p) /\ Len(p) - k + 1 \in Nat BY <1>1, <1>2
<1>4. SubSeq(p, 1, Len(p) - k) = p BY <1>1, <1>3, SubSeqFull
<1>5. SubSeq(p, Len(p) - k + 1, Len(p)) = <<>> BY <1>1, <1>3
<1>6. HoldsBack(c, u, HeldBack(u, p, k), p, p, <<>>) BY <1>4, <1>5, HeldBackEmits
<1>. QED BY <1>2, <1>6 DEF HoldsBack

LEMMA TurnAtTag ==
  ASSUME NEW c, NEW u, Ready(c, u), u.started = TRUE, u.finished = FALSE,
         NEW text \in Plain, NEW p \in Plain, NEW q \in Plain,
         NEW tag \in {ThinkOpen, ThinkClose}, text = (p \o tag) \o q
  PROVE  /\ HeldBack(u, p, 0).finished => Scans(c, u, text, HeldBack(u, p, 0), <<>>)
         /\ ~HeldBack(u, p, 0).finished => Scans(c, u, text, AtTag(HeldBack(u, p, 0)), q)
<1>. DEFINE b == HeldBack(u, p, 0)
            y == AtTag(b)
<1>1. /\ Emits(c, u, b, p) /\ b.hold = <<>> /\ b.thought = u.thought
      /\ b.budgetHit = u.budgetHit /\ b.finished \in BOOLEAN
  BY BeforeTag
<1>. HIDE DEF b
<1>2. p \in Pieces /\ q \in Pieces /\ tag \in Pieces /\ Same(<<>>, tag) /\ <<>> \in Pieces
  BY MeasureTags, EmptyPlain DEF Plain, Same
<1>3. p \o <<>> = p /\ <<>> \o q = q /\ p \o tag \in Pieces BY <1>2, ConcatPieces
<1>4. ASSUME b.finished = TRUE PROVE Scans(c, u, text, b, <<>>)
  <2>1. Part(p, p) BY <1>2, SamePart
  <2>2. Part(p, p \o tag) BY <1>2, <2>1, PartMore
  <2>3. Part(p, (p \o tag) \o q) BY <1>2, <1>3, <2>2, PartMore
  <2>4. Part(p \o b.hold, text) BY <1>1, <1>3, <2>3
  <2>. QED BY <1>1, <1>4, <2>4, EmptyPlain DEF Scans
<1>5. ASSUME b.finished = FALSE PROVE Scans(c, u, text, y, q)
  <2>1. Ready(c, b) /\ b.started = TRUE BY <1>1, EmitsReady
  <2>2. Emits(c, b, y, <<>>) /\ Leaves(b, y) BY <2>1, AtTagEmits
  <2>. HIDE DEF y
  <2>3. Emits(c, u, y, p)
    <3>1. Emits(c, u, y, p \o <<>>) BY <1>1, <2>2, EmitsThen
    <3>. QED BY <1>3, <3>1
  <2>4. Same(p \o q, text)
    <3>1. Same(p, p) /\ Same(q, q) BY DEF Same
    <3>2. Same(p \o <<>>, p \o tag) BY <1>2, <3>1, SameThen
    <3>3. Same(p \o q, (p \o tag) \o q) BY <1>2, <1>3, <3>1, <3>2, SameThen
    <3>. QED BY <3>3
  <2>5. y.hold = <<>> /\ y.thought = u.thought /\ y.budgetHit = u.budgetHit
        /\ y.finished = FALSE
    BY <1>1, <1>5, <2>2 DEF Leaves
  <2>6. Same((p \o y.hold) \o q, text) BY <1>3, <2>4, <2>5
  <2>. QED BY <2>3, <2>5, <2>6 DEF Scans
<1>. QED BY <1>1, <1>4, <1>5 DEF b

LEMMA TurnScans ==
  ASSUME NEW c, NEW u, Ready(c, u), u.started = TRUE, u.finished = FALSE,
         NEW text \in Plain, text # <<>>
  PROVE  Turns(c, u, text, Turn(u, text))
<1>. DEFINE tag == IF u.open = "thinking" THEN ThinkClose ELSE ThinkOpen
            start == IndexFirstSubSeq(tag, text)
            p == SubSeq(text, 1, start - 1)
            q == SubSeq(text, start + Len(tag), Len(text))
            b == HeldBack(u, p, 0)
            k == MaxTagPrefixSuffix(text, tag)
            x == HeldBack(u, text, k)
            y == AtTag(b)
<1>1. tag \in {ThinkOpen, ThinkClose} OBVIOUS
<1>2. Turn(u, text) =
        IF tag \notin SubSeqs(text) THEN [u |-> x, text |-> <<>>]
        ELSE IF b.finished THEN [u |-> b, text |-> <<>>]
        ELSE [u |-> y, text |-> q]
  BY DEF Turn
<1>. HIDE DEF tag
<1>3. text \in Pieces /\ Len(text) \in Nat /\ Len(text) > 0
  <2>1. text \in Seq(Word) /\ text \in Pieces BY DEF Plain, Pieces
  <2>2. Len(text) \in Nat /\ Len(text) # 0 BY <2>1, EmptySeq
  <2>. QED BY <2>1, <2>2
<1>4. ASSUME tag \notin SubSeqs(text) PROVE Scans(c, u, text, x, <<>>)
  <2>1. k \in 0..Len(text) BY <1>1, <1>3, HeldBackLen
  <2>. HIDE DEF k
  <2>. QED BY <2>1, TurnWithoutTag
<1>5. ASSUME tag \in SubSeqs(text)
      PROVE  /\ b.finished => Scans(c, u, text, b, <<>>)
             /\ ~b.finished => Scans(c, u, text, y, q)
             /\ Len(q) < Len(text)
  <2>1. p \in Plain /\ q \in Plain /\ text = (p \o tag) \o q /\ Len(q) < Len(text)
    <3>1. TagIsAt(text, tag, IndexFirstSubSeq(tag, text)) BY <1>1, <1>5, TagSplit
    <3>. QED BY <3>1 DEF TagIsAt
  <2>. HIDE DEF p, q
  <2>. QED BY <1>1, <2>1, TurnAtTag
<1>. HIDE DEF x, y, b, q
<1>6. CASE tag \notin SubSeqs(text)
  BY <1>2, <1>3, <1>4, <1>6, EmptyPlain DEF Turns
<1>7. CASE tag \in SubSeqs(text) /\ b.finished
  BY <1>2, <1>3, <1>5, <1>7, EmptyPlain DEF Turns
<1>8. CASE tag \in SubSeqs(text) /\ ~b.finished
  BY <1>2, <1>3, <1>5, <1>8 DEF Turns
<1>. QED BY <1>6, <1>7, <1>8

\* One scan after another.
LEMMA ScansThen ==
  ASSUME NEW c, NEW u, NEW v, NEW w, NEW text \in Plain, NEW mid \in Plain, NEW rest,
         Ready(c, u), Scans(c, u, text, v, mid), Scans(c, v, mid, w, rest),
         v.finished = FALSE, v.hold = <<>>
  PROVE  Scans(c, u, text, w, rest)
<1>1. PICK a \in Plain : Emits(c, u, v, a) /\ Same((a \o v.hold) \o mid, text)
  BY DEF Scans
<1>2. PICK b \in Plain :
        /\ Emits(c, v, w, b)
        /\ w.finished = FALSE => Same((b \o w.hold) \o rest, mid)
        /\ w.finished = TRUE => rest = <<>> /\ Part(b \o w.hold, mid)
  BY DEF Scans
<1>3. /\ a \in Pieces /\ b \in Pieces /\ mid \in Pieces /\ text \in Pieces /\ rest \in Pieces
      /\ rest \in Plain
  BY DEF Scans, Plain
<1>. DEFINE h == w.hold
<1>4. h \in Pieces
  <2>1. w \in Translators BY <1>2, EmitsReady
  <2>. QED BY <2>1 DEF Translators, Plain
<1>5. Emits(c, u, w, a \o b) BY <1>1, <1>2, EmitsThen
<1>6. a \o b \in Plain BY PlainConcat
<1>7. Same(a \o mid, text)
  <2>1. a \o v.hold = a BY <1>3, ConcatPieces
  <2>. QED BY <1>1, <2>1
<1>. HIDE DEF h
<1>. DEFINE bh == b \o h
<1>8. bh \in Pieces /\ (a \o b) \o h = a \o bh BY SMTT(30), <1>3, <1>4, ConcatPieces, PiecesAssociate
<1>9. Same(a, a) /\ a \o mid \in Pieces /\ a \o bh \in Pieces
  <2>1. Same(a, a) BY DEF Same
  <2>. QED BY <1>3, <1>8, <2>1, ConcatPieces
<1>10. w.finished = FALSE => Same(((a \o b) \o h) \o rest, text)
  <2>1. SUFFICES ASSUME w.finished = FALSE PROVE Same((a \o bh) \o rest, text) BY <1>8
  <2>2. Same(bh \o rest, mid) BY <1>2, <2>1 DEF h
  <2>. HIDE DEF bh
  <2>3. (a \o bh) \o rest = a \o (bh \o rest) BY SMTT(30), <1>3, <1>8, PiecesAssociate
  <2>. DEFINE br == bh \o rest
  <2>4. br \in Pieces BY <1>3, <1>8, ConcatPieces
  <2>5. Same(br, mid) BY <2>2
  <2>. HIDE DEF br
  <2>6. Same(a \o br, a \o mid) BY <1>3, <1>9, <2>4, <2>5, SameThen
  <2>7. Same(a \o br, text) BY <1>7, <2>6 DEF Same
  <2>. QED BY <2>3, <2>7 DEF br
<1>11. w.finished = TRUE => rest = <<>> /\ Part((a \o b) \o h, text)
  <2>1. SUFFICES ASSUME w.finished = TRUE PROVE Part(a \o bh, text) BY <1>2, <1>8
  <2>2. Part(bh, mid) BY <1>2, <2>1 DEF h
  <2>. HIDE DEF bh
  <2>3. Part(a \o bh, a \o mid) BY <1>3, <1>8, <1>9, <2>2, PartThen
  <2>. QED BY <1>7, <2>3 DEF Part, Same
<1>12. w.thought = u.thought /\ w.budgetHit = u.budgetHit /\ (rest # <<>> => h = <<>>)
  BY DEF Scans, h
<1>. QED BY <1>3, <1>5, <1>6, <1>10, <1>11, <1>12 DEF Scans, h

\* A turn is a translator and the text to go.
Turning == [u : Translators, text : Plain]

LEMMA TurnIs ==
  ASSUME NEW c, NEW u, Ready(c, u), u.started = TRUE, NEW text \in Plain,
         text # <<>> => u.finished = FALSE /\ u.hold = <<>>
  PROVE  /\ Turn(u, text) \in Turning
         /\ text = <<>> => Turn(u, text).u = u /\ Turn(u, text).text = <<>>
         /\ text # <<>> => Turns(c, u, text, Turn(u, text))
<1>1. Turn(u, text) = [u |-> Turn(u, text).u, text |-> Turn(u, text).text] BY DEF Turn
<1>2. CASE text = <<>>
  <2>1. Turn(u, text) = [u |-> u, text |-> <<>>] BY <1>2 DEF Turn
  <2>2. u \in Translators BY DEF Ready
  <2>. QED BY <1>2, <2>1, <2>2, EmptyPlain DEF Turning
<1>3. CASE text # <<>>
  <2>1. Turns(c, u, text, Turn(u, text)) BY <1>3, TurnScans
  <2>. DEFINE v == Turn(u, text).u
              r == Turn(u, text).text
  <2>. HIDE DEF v, r
  <2>2. v \in Translators /\ r \in Plain
    <3>1. Scans(c, u, text, v, r) BY <2>1 DEF Turns, v, r
    <3>. QED BY <3>1, EmitsReady DEF Scans
  <2>3. Turn(u, text) \in Turning BY <1>1, <2>2 DEF Turning, v, r
  <2>. QED BY <1>3, <2>1, <2>3
<1>. QED BY <1>2, <1>3

IsScan(f, u, text) ==
  f = [n \in 0..Len(text) |->
         IF n = 0 THEN [u |-> u, text |-> text] ELSE Turn(f[n - 1].u, f[n - 1].text)]

Scan(u, text) == CHOOSE f : IsScan(f, u, text)

\* The scanner takes the whole text.
LEMMA ScannedScans ==
  ASSUME NEW c, NEW u, Ready(c, u), u.started = TRUE, u.finished = FALSE, u.hold = <<>>,
         NEW text \in Plain
  PROVE  Scans(c, u, text, Scanned(u, text), <<>>)
<1>. DEFINE N == Len(text)
            first == [u |-> u, text |-> text]
            A == {x \in Turning : Scans(c, u, text, x.u, x.text)}
            next == [x \in A |-> Turn(x.u, x.text)]
            step == [k \in 1..N |-> next]
            g == Scan(u, text)
<1>1. N \in Nat /\ text \in Pieces /\ u \in Translators BY DEF Plain, Pieces, Ready
<1>2. first \in A
  <2>1. first \in Turning /\ first.u = u /\ first.text = text BY <1>1 DEF Turning
  <2>2. Speaks(c, u, u, <<>>) BY SpeaksNothing
  <2>3. Emits(c, u, u, <<>>) BY <2>2, SpeaksEmits
  <2>4. (<<>> \o <<>>) \o text = text
    <3>1. <<>> \o <<>> = <<>> OBVIOUS
    <3>. QED BY <1>1, <3>1, ConcatPieces
  <2>5. Same(text, text) BY DEF Same
  <2>6. Scans(c, u, text, u, text) BY <2>3, <2>4, <2>5, EmptyPlain DEF Scans
  <2>. HIDE DEF first
  <2>. QED BY <2>1, <2>6
<1>3. ASSUME NEW x \in A
      PROVE  /\ Turn(x.u, x.text) \in A
             /\ x.text = <<>> => Turn(x.u, x.text).text = <<>>
             /\ x.text # <<>> => Len(Turn(x.u, x.text).text) < Len(x.text)
  <2>. DEFINE v == x.u
              mid == x.text
              y == Turn(v, mid)
  <2>1. Scans(c, u, text, v, mid) /\ v \in Translators /\ mid \in Plain BY DEF Turning
  <2>. HIDE DEF v, mid
  <2>2. Ready(c, v) /\ v.started = TRUE BY <2>1, EmitsReady DEF Scans
  <2>3. mid # <<>> => v.finished = FALSE /\ v.hold = <<>>
    <3>1. v.finished \in BOOLEAN BY <2>1 DEF Translators
    <3>. QED BY <2>1, <3>1 DEF Scans
  <2>4. /\ y \in Turning
        /\ mid = <<>> => y.u = v /\ y.text = <<>>
        /\ mid # <<>> => Turns(c, v, mid, y)
    BY <2>1, <2>2, <2>3, TurnIs
  <2>. HIDE DEF y
  <2>5. Scans(c, u, text, y.u, y.text)
    <3>1. CASE mid = <<>> BY <2>1, <2>4, <3>1
    <3>2. CASE mid # <<>>
      <4>1. Scans(c, v, mid, y.u, y.text) BY <2>4, <3>2 DEF Turns
      <4>. QED BY <2>1, <2>3, <3>2, <4>1, ScansThen
    <3>. QED BY <3>1, <3>2
  <2>6. mid # <<>> => Len(y.text) < Len(mid) BY <2>4 DEF Turns
  <2>. QED BY <2>4, <2>5, <2>6 DEF v, mid, y
<1>. HIDE DEF A, first
<1>4. next \in [A -> A] BY <1>3
<1>. HIDE DEF next
<1>5. step \in [1..N -> [A -> A]] BY <1>4
<1>6. \A k \in 1..N : \A x \in A : step[k][x] = Turn(x.u, x.text) BY DEF next
<1>. HIDE DEF step, N
<1>7. PICK f \in [0..N -> A] : IsRun(f, N, first, step) BY <1>1, <1>2, <1>5, Recursion
<1>8. IsScan(f, u, text)
  <2>1. ASSUME NEW k \in 0..N
        PROVE  f[k] = IF k = 0 THEN [u |-> u, text |-> text] ELSE Turn(f[k - 1].u, f[k - 1].text)
    <3>1. k = 0 \/ (k \in 1..N /\ k - 1 \in 0..N) BY <1>1
    <3>. QED BY <1>6, <1>7, <3>1 DEF IsRun, first
  <2>. QED BY <1>7, <2>1 DEF IsScan, N
<1>9. IsScan(g, u, text) BY <1>8 DEF Scan
<1>. HIDE DEF g
<1>10. g = [k \in 0..N |-> IF k = 0 THEN first ELSE Turn(g[k - 1].u, g[k - 1].text)]
  BY <1>9 DEF IsScan, N, first
<1>11. g[0] = first /\ \A k \in 1..N : g[k] = Turn(g[k - 1].u, g[k - 1].text)
  <2>1. 0 \in 0..N /\ \A k \in 1..N : k \in 0..N /\ k # 0 BY <1>1
  <2>. QED BY <1>10, <2>1
<1>. DEFINE good == {k \in 0..N : g[k] \in A /\ (g[k].text = <<>> \/ Len(g[k].text) + k <= N)}
<1>12. 0 \in good
  <2>1. first.text = text BY DEF first
  <2>. QED BY <1>1, <1>2, <1>11, <2>1 DEF N
<1>13. \A k \in 1..N : k - 1 \in good => k \in good
  <2>1. SUFFICES ASSUME NEW k \in 1..N, k - 1 \in good PROVE k \in good OBVIOUS
  <2>. DEFINE x == g[k - 1]
              y == Turn(x.u, x.text)
  <2>2. x \in A /\ (x.text = <<>> \/ Len(x.text) + (k - 1) <= N) BY <2>1
  <2>. HIDE DEF x
  <2>3. /\ y \in A /\ (x.text = <<>> => y.text = <<>>)
        /\ (x.text # <<>> => Len(y.text) < Len(x.text))
    BY <1>3, <2>2
  <2>4. Len(y.text) \in Nat /\ Len(x.text) \in Nat
    <3>1. y.text \in Plain /\ x.text \in Plain BY <2>2, <2>3 DEF A, Turning
    <3>. QED BY <3>1 DEF Plain, Pieces
  <2>5. g[k] = y BY <1>11 DEF x
  <2>. HIDE DEF y
  <2>6. y.text = <<>> \/ Len(y.text) + k <= N BY <1>1, <2>2, <2>3, <2>4
  <2>. QED BY <2>3, <2>5, <2>6
<1>14. N \in good
  <2>. HIDE DEF good
  <2>1. \A k \in 0..N : k \in good BY <1>1, <1>12, <1>13, Climb
  <2>. QED BY <1>1, <2>1
<1>. DEFINE z == g[N]
<1>15. z \in A /\ (z.text = <<>> \/ Len(z.text) + N <= N) BY <1>14
<1>. HIDE DEF z
<1>16. z.text = <<>>
  <2>1. z.text \in Seq(Word) BY <1>15 DEF A, Turning, Plain, Pieces
  <2>2. Len(z.text) \in Nat BY <2>1
  <2>. QED BY <1>1, <1>15, <2>1, <2>2, EmptySeq
<1>17. Scans(c, u, text, z.u, <<>>) BY <1>15, <1>16 DEF A
<1>18. Scanned(u, text) = z.u BY DEF Scanned, z, g, N, Scan, IsScan
<1>. QED BY <1>17, <1>18
-----------------------------------------------------------------------------
(***************************************************************************)
(* Text, image and reasoning of a chunk.                                   *)
(***************************************************************************)
\* The text of a chunk is read.
Reads(c, u, w, text) ==
  /\ w.thought = u.thought /\ w.budgetHit = u.budgetHit
  /\ \E body \in Plain :
       /\ Emits(c, u, w, body)
       /\ w.finished = FALSE => Same(body \o w.hold, u.hold \o text)
       /\ w.finished = TRUE => Part(body \o w.hold, u.hold \o text)

LEMMA ScanTextReads ==
  ASSUME NEW c, NEW u, Ready(c, u), u.started = TRUE, u.finished = FALSE, NEW text \in Plain
  PROVE  Reads(c, u, ScanText(u, text), text)
<1>. DEFINE cu == Closed(u)
            v == IF u.open = "thinking" /\ u.byReasoning
                 THEN [cu EXCEPT !.byReasoning = FALSE] ELSE u
            x == [v EXCEPT !.hold = <<>>]
            all == u.hold \o text
            w == ScanText(u, text)
<1>1. u \in Translators /\ u.hold \in Plain /\ u.hold \in Pieces /\ text \in Pieces
  BY DEF Ready, Translators, Plain
<1>2. Speaks(c, u, u, <<>>) /\ Emits(c, u, u, <<>>) BY SpeaksNothing, SpeaksEmits
<1>3. CASE text = <<>>
  <2>1. w = u BY <1>3 DEF ScanText
  <2>2. <<>> \o u.hold = u.hold /\ u.hold \o <<>> = u.hold BY <1>1, ConcatPieces
  <2>3. Same(u.hold, u.hold) BY DEF Same
  <2>. QED BY <1>2, <1>3, <2>1, <2>2, <2>3, EmptyPlain DEF Reads
<1>4. CASE text # <<>>
  <2>1. Emits(c, u, v, <<>>) /\ Leaves(u, v)
    <3>1. CASE u.open = "thinking" /\ u.byReasoning
      <4>1. Speaks(c, u, cu, <<>>) /\ Leaves(u, cu) BY ClosedSpeaks
      <4>2. v = [cu EXCEPT !.byReasoning = FALSE] BY <3>1
      <4>. HIDE DEF v, cu
      <4>3. cu \in Translators BY <4>1 DEF Speaks, Ready
      <4>4. /\ v \in Translators /\ v.out = cu.out /\ v.started = cu.started /\ v.next = cu.next
            /\ v.open = cu.open /\ v.budget = cu.budget /\ v.streaming = cu.streaming
            /\ v.tools = cu.tools /\ v.hold = cu.hold /\ v.thought = cu.thought
            /\ v.budgetHit = cu.budgetHit /\ v.finished = cu.finished
        BY <4>2, <4>3 DEF Translators
      <4>5. Speaks(c, u, v, <<>>) BY <4>1, <4>4, SpeaksBesides
      <4>. QED BY <4>1, <4>4, <4>5, SpeaksEmits DEF Leaves
    <3>2. CASE ~(u.open = "thinking" /\ u.byReasoning)
      <4>1. v = u BY <3>2
      <4>. HIDE DEF v
      <4>. QED BY <1>2, <4>1 DEF Leaves
    <3>. QED BY <3>1, <3>2
  <2>2. w = Scanned(x, v.hold \o text) BY <1>4 DEF ScanText
  <2>. HIDE DEF v, w
  <2>3. v \in Translators /\ v.hold = u.hold /\ v.finished = FALSE
    BY <2>1, EmitsReady DEF Leaves
  <2>4. /\ x \in Translators /\ x.out = v.out /\ x.started = v.started /\ x.next = v.next
        /\ x.open = v.open /\ x.budget = v.budget /\ x.streaming = v.streaming
        /\ x.tools = v.tools /\ x.hold = <<>> /\ x.thought = v.thought
        /\ x.budgetHit = v.budgetHit /\ x.finished = FALSE
    BY <2>3, EmptyPlain DEF Translators
  <2>. HIDE DEF x
  <2>5. Emits(c, u, x, <<>>) BY <2>1, <2>4, EmitsBesides
  <2>6. Ready(c, x) /\ x.started = TRUE BY <2>5, EmitsReady
  <2>7. all \in Plain /\ all \in Pieces BY <1>1, PlainConcat DEF Plain
  <2>8. w = Scanned(x, all) BY <2>2, <2>3
  <2>. HIDE DEF all
  <2>9. Scans(c, x, all, w, <<>>) BY <2>4, <2>6, <2>7, <2>8, ScannedScans
  <2>10. PICK body \in Plain :
           /\ Emits(c, x, w, body)
           /\ w.finished = FALSE => Same((body \o w.hold) \o <<>>, all)
           /\ w.finished = TRUE => Part(body \o w.hold, all)
    BY <2>9 DEF Scans
  <2>11. body \in Pieces /\ w.hold \in Pieces
    <3>1. w \in Translators BY <2>10, EmitsReady
    <3>. QED BY <3>1 DEF Translators, Plain
  <2>12. Emits(c, u, w, body)
    <3>1. Emits(c, u, w, <<>> \o body) BY <2>5, <2>10, EmitsThen
    <3>. QED BY <2>11, <3>1, ConcatPieces
  <2>13. (body \o w.hold) \o <<>> = body \o w.hold
    <3>1. body \o w.hold \in Pieces BY <2>11, ConcatPieces
    <3>. QED BY <3>1, ConcatPieces
  <2>14. w.thought = u.thought /\ w.budgetHit = u.budgetHit
    BY <2>1, <2>4, <2>9 DEF Scans, Leaves
  <2>. QED BY <2>10, <2>12, <2>13, <2>14 DEF Reads, w, all
<1>. QED BY <1>3, <1>4

\* An image block.
LEMMA ImageSpeaks ==
  ASSUME NEW c, NEW u, Ready(c, u), u.started = TRUE, NEW present
  PROVE  Speaks(c, u, Image(u, present), <<>>) /\ Leaves(u, Image(u, present))
<1>1. CASE ~present
  <2>1. Image(u, present) = u BY <1>1 DEF Image
  <2>. QED BY <2>1, SpeaksNothing
<1>2. CASE present
  <2>. DEFINE v == Opened(u, "image", NoTool)
              w == Closed(v)
              e == <<Event("content_block_stop", v.next - 1, "none", NoTool, <<>>)>>
  <2>1. Speaks(c, u, v, <<>>) /\ Leaves(u, v) /\ v.open = "image"
    <3>1. "image" \in Kinds /\ "image" # "tool_use" BY DEF Kinds
    <3>. QED BY <3>1, OpenedSpeaks
  <2>2. Image(u, present) = [Emitted(v, e) EXCEPT !.open = "none"] BY <1>2 DEF Image
  <2>3. Closed(v) = [Emitted(v, <<>> \o e) EXCEPT !.open = "none", !.tools = ToolsClosed(v)]
    BY <2>1 DEF Closed, Signature
  <2>. HIDE DEF v
  <2>4. Ready(c, v) /\ v \in Translators /\ v.started = TRUE BY <2>1 DEF Speaks, Ready
  <2>5. ToolsClosed(v) = v.tools BY <2>1, <2>4, ToolsClosedType
  <2>6. <<>> \o e = e
    <3>1. e \in Seq({e[1]}) OBVIOUS
    <3>. HIDE DEF e
    <3>. QED BY <3>1, ConcatEmptySeq
  <2>. HIDE DEF e
  <2>7. Closed(v) = [Emitted(v, e) EXCEPT !.open = "none"]
    BY <2>3, <2>4, <2>5, <2>6 DEF Emitted, Translators
  <2>8. Speaks(c, v, w, <<>>) /\ Leaves(v, w) BY <2>4, ClosedSpeaks
  <2>9. w = Image(u, present) BY <2>2, <2>7
  <2>. HIDE DEF w
  <2>10. Speaks(c, u, w, <<>> \o <<>>) BY <2>1, <2>8, SpeaksThen
  <2>11. <<>> \o <<>> = <<>> OBVIOUS
  <2>. QED BY <2>1, <2>8, <2>9, <2>10, <2>11 DEF Leaves
<1>. QED BY <1>1, <1>2

\* The reasoning that may go out of what has been sent.
Allowed(budget, sent) ==
  IF budget # NoBudget /\ sent > CharsPerToken * budget THEN CharsPerToken * budget ELSE sent

Budgeted(u, told, sent) ==
  /\ told = Allowed(u.budget, sent)
  /\ (u.budgetHit <=> u.budget # NoBudget /\ sent > CharsPerToken * u.budget)
  /\ u.budget # NoBudget => u.thought = told

\* A fragment of n characters goes out as far as the budget goes.
Thinks(c, u, w, n) ==
  /\ w.hold = u.hold /\ w.finished = u.finished
  /\ \E body \in Pieces :
       /\ Emits(c, u, w, body) /\ Same(body, <<>>)
       /\ \A told, sent \in Nat :
            Budgeted(u, told, sent) => Budgeted(w, told + Thoughts(body), sent + n)

LEMMA Characters ==
  ASSUME NEW m \in Nat
  PROVE  /\ [i \in 1..m |-> "r"] \in Pieces /\ Same([i \in 1..m |-> "r"], <<>>)
         /\ Thoughts([i \in 1..m |-> "r"]) = m
<1>. DEFINE s == [i \in 1..m |-> "r"]
<1>1. s \in Pieces /\ Len(s) = m /\ \A i \in 1..m : s[i] = "r"
  <2>1. "r" \in Word BY Words
  <2>. QED BY <2>1 DEF Pieces
<1>. HIDE DEF s
<1>2. Len(Only(s, {"r"})) = Len(s)
  <2>1. \A i \in 1..Len(s) : s[i] \in {"r"} BY <1>1
  <2>. QED BY <1>1, <2>1, OnlyAccepts
<1>3. Thoughts(s) = m BY <1>1, <1>2 DEF Thoughts, CountOf
<1>4. Only(s, Plaintext) = <<>> /\ Only(s, {"<"}) = <<>> /\ Only(s, {"think>"}) = <<>>
  <2>1. \A i \in 1..Len(s) : s[i] \notin Plaintext /\ s[i] \notin {"<"} /\ s[i] \notin {"think>"}
    BY <1>1 DEF Plaintext
  <2>. QED BY <1>1, <2>1, OnlyRejects
<1>5. Marks(s) = <<>> /\ Tags(s) = 0
  <2>1. Len(<<>>) = 0 OBVIOUS
  <2>. QED BY <1>4, <2>1 DEF Marks, Tags, CountOf
<1>6. Same(s, <<>>) BY <1>5, MeasureNothing DEF Same
<1>. QED BY <1>1, <1>3, <1>6 DEF s

LEMMA WithinIs ==
  ASSUME NEW u \in Translators, NEW n \in Nat
  PROVE  /\ Within(u, n) \in Nat /\ Within(u, n) <= n
         /\ u.budget = NoBudget => Within(u, n) = n
         /\ u.budget # NoBudget /\ n < CharsPerToken * u.budget - u.thought => Within(u, n) = n
         /\ u.budget # NoBudget /\ n >= CharsPerToken * u.budget - u.thought
              => Within(u, n) = IF CharsPerToken * u.budget - u.thought > 0
                                THEN CharsPerToken * u.budget - u.thought ELSE 0
<1>. DEFINE left == CharsPerToken * u.budget - u.thought
<1>1. left \in Int
  <2>1. u.budget \in Int /\ u.thought \in Int BY DEF Translators, NoBudget
  <2>. QED BY <2>1 DEF CharsPerToken
<1>2. Within(u, n) = IF u.budget = NoBudget \/ n < left THEN n
                     ELSE IF left > 0 THEN left ELSE 0
  BY DEF Within
<1>. HIDE DEF left
<1>. QED BY <1>1, <1>2 DEF left

LEMMA ReasoningThinks ==
  ASSUME NEW c, NEW u, Ready(c, u), u.started = TRUE, NEW n \in Nat
  PROVE  Thinks(c, u, Reasoning(u, n), n)
<1>. DEFINE ou == Opened(u, "thinking", NoTool)
            v == IF u.open = "thinking" THEN u ELSE [ou EXCEPT !.byReasoning = TRUE]
            m == Within(u, n)
            body == [i \in 1..m |-> "r"]
            ev == EmitThinking(v, body)
            thought == IF u.budget = NoBudget THEN ev.thought ELSE ev.thought + m
            w == [ev EXCEPT !.thought = thought]
            cw == Closed(w)
            x == [cw EXCEPT !.budgetHit = TRUE]
<1>1. u \in Translators BY DEF Ready
<1>2. Speaks(c, u, u, <<>>) /\ Emits(c, u, u, <<>>) BY SpeaksNothing, SpeaksEmits
<1>3. CASE n = 0 \/ u.budgetHit = TRUE
  <2>1. Reasoning(u, n) = u BY <1>1, <1>3 DEF Reasoning, Translators
  <2>2. Same(<<>>, <<>>) /\ Thoughts(<<>>) = 0 /\ <<>> \in Pieces BY MeasureNothing DEF Same
  <2>3. ASSUME NEW told \in Nat, NEW sent \in Nat, Budgeted(u, told, sent)
        PROVE  Budgeted(u, told + Thoughts(<<>>), sent + n)
    <3>1. told + Thoughts(<<>>) = told BY <2>2
    <3>2. u.budget = NoBudget => u.budgetHit = FALSE BY <2>3 DEF Budgeted
    <3>. DEFINE b == CharsPerToken * u.budget
    <3>3. b \in Int
      <4>1. u.budget \in Int BY <1>1 DEF Translators, NoBudget
      <4>. QED BY <4>1 DEF CharsPerToken
    <3>4. /\ told = IF u.budget # NoBudget /\ sent > b THEN b ELSE sent
          /\ (u.budgetHit <=> u.budget # NoBudget /\ sent > b)
          /\ u.budget # NoBudget => u.thought = told
      BY <2>3 DEF Budgeted, Allowed
    <3>. HIDE DEF b
    <3>5. /\ told = IF u.budget # NoBudget /\ sent + n > b THEN b ELSE sent + n
          /\ (u.budgetHit <=> u.budget # NoBudget /\ sent + n > b)
      <4>1. CASE n = 0 BY <3>3, <3>4, <4>1
      <4>2. CASE u.budgetHit = TRUE
        <5>1. u.budget # NoBudget /\ sent > b /\ sent + n > b BY <3>3, <3>4, <4>2
        <5>. QED BY <3>4, <4>2, <5>1
      <4>. QED BY <1>3, <4>1, <4>2
    <3>. QED BY <3>1, <3>4, <3>5 DEF Budgeted, Allowed, b
  <2>. QED BY <1>2, <2>1, <2>2, <2>3 DEF Thinks
<1>4. CASE ~(n = 0 \/ u.budgetHit = TRUE)
  <2>0. Reasoning(u, n) = IF m < n THEN x ELSE w
    <3>1. u.budgetHit = FALSE BY <1>1, <1>4 DEF Translators
    <3>. QED BY <1>4, <3>1 DEF Reasoning
  <2>1. Emits(c, u, v, <<>>) /\ Leaves(u, v) /\ v.open = "thinking"
    <3>1. CASE u.open = "thinking"
      <4>1. v = u BY <3>1
      <4>. HIDE DEF v
      <4>. QED BY <1>2, <3>1, <4>1 DEF Leaves
    <3>2. CASE u.open # "thinking"
      <4>1. Speaks(c, u, ou, <<>>) /\ Leaves(u, ou) /\ ou.open = "thinking"
        <5>1. "thinking" \in Kinds /\ "thinking" # "tool_use" BY DEF Kinds
        <5>. QED BY <5>1, OpenedSpeaks
      <4>2. v = [ou EXCEPT !.byReasoning = TRUE] BY <3>2
      <4>. HIDE DEF v, ou
      <4>3. ou \in Translators BY <4>1 DEF Speaks, Ready
      <4>4. /\ v \in Translators /\ v.out = ou.out /\ v.started = ou.started
            /\ v.next = ou.next
            /\ v.open = ou.open /\ v.budget = ou.budget /\ v.streaming = ou.streaming
            /\ v.tools = ou.tools /\ v.hold = ou.hold /\ v.thought = ou.thought
            /\ v.budgetHit = ou.budgetHit /\ v.finished = ou.finished
        BY <4>2, <4>3 DEF Translators
      <4>5. Speaks(c, u, v, <<>>) BY <4>1, <4>4, SpeaksBesides
      <4>. QED BY <4>1, <4>4, <4>5, SpeaksEmits DEF Leaves
    <3>. QED BY <3>1, <3>2
  <2>2. m \in Nat /\ m <= n BY <1>1, WithinIs
  <2>. HIDE DEF v, m
  <2>3. body \in Pieces /\ Same(body, <<>>) /\ Thoughts(body) = m BY <2>2, Characters
  <2>4. Ready(c, v) /\ v.started = TRUE /\ v.budget = u.budget BY <2>1, EmitsReady
  <2>. HIDE DEF body
  <2>5. Emits(c, v, ev, body) /\ Holds(v, ev) /\ ev.finished = v.finished
    BY <2>1, <2>3, <2>4, EmitThinkingEmits
  <2>. HIDE DEF ev
  <2>6. Emits(c, u, ev, body)
    <3>1. Emits(c, u, ev, <<>> \o body) BY <2>1, <2>5, EmitsThen
    <3>. QED BY <2>3, <3>1, ConcatPieces
  <2>7. ev \in Translators /\ ev.budget = u.budget /\ ev.thought = u.thought
        /\ ev.budgetHit = u.budgetHit /\ ev.hold = u.hold /\ ev.finished = u.finished
    BY <2>1, <2>5, <2>6, EmitsReady DEF Leaves, Holds
  <2>8. thought \in Nat /\ thought = IF u.budget = NoBudget THEN u.thought ELSE u.thought + m
    <3>1. u.thought \in Nat BY <1>1 DEF Translators
    <3>. QED BY <2>2, <2>7, <3>1
  <2>. HIDE DEF thought
  <2>9. /\ w \in Translators /\ w.out = ev.out /\ w.started = ev.started /\ w.next = ev.next
        /\ w.open = ev.open /\ w.budget = ev.budget /\ w.streaming = ev.streaming
        /\ w.tools = ev.tools /\ w.hold = ev.hold /\ w.thought = thought
        /\ w.budgetHit = ev.budgetHit /\ w.finished = ev.finished
    BY <2>7, <2>8 DEF Translators
  <2>. HIDE DEF w
  <2>10. Emits(c, u, w, body) BY <2>6, <2>9, EmitsBesides
  <2>11. Ready(c, w) /\ w.started = TRUE BY <2>10, EmitsReady
  <2>12. Speaks(c, w, cw, <<>>) /\ Leaves(w, cw) BY <2>11, ClosedSpeaks
  <2>. HIDE DEF cw
  <2>13. cw \in Translators /\ cw.budget = w.budget BY <2>12 DEF Speaks, Ready
  <2>14. /\ x \in Translators /\ x.out = cw.out /\ x.started = cw.started /\ x.next = cw.next
         /\ x.open = cw.open /\ x.budget = cw.budget /\ x.streaming = cw.streaming
         /\ x.tools = cw.tools /\ x.hold = cw.hold /\ x.thought = cw.thought
         /\ x.budgetHit = TRUE /\ x.finished = cw.finished
    BY <2>13 DEF Translators
  <2>. HIDE DEF x
  <2>15. Emits(c, u, x, body)
    <3>1. Speaks(c, w, x, <<>>) BY <2>12, <2>14, SpeaksBesides
    <3>2. Emits(c, u, x, body \o <<>>) BY <2>10, <3>1, SpeaksEmits, EmitsThen
    <3>. QED BY <2>3, <3>2, ConcatPieces
  <2>. DEFINE y == Reasoning(u, n)
  <2>16. /\ Emits(c, u, y, body) /\ y.hold = u.hold /\ y.finished = u.finished
         /\ y.budget = u.budget /\ y.thought = thought /\ (y.budgetHit <=> m < n)
    <3>1. u.budgetHit = FALSE BY <1>1, <1>4 DEF Translators
    <3>2. CASE m < n
      <4>1. y = x BY <2>0, <3>2
      <4>. HIDE DEF y
      <4>. QED BY <2>7, <2>9, <2>12, <2>13, <2>14, <2>15, <3>2, <4>1 DEF Leaves
    <3>3. CASE ~(m < n)
      <4>1. y = w BY <2>0, <3>3
      <4>. HIDE DEF y
      <4>. QED BY <2>7, <2>9, <2>10, <3>1, <3>3, <4>1
    <3>. QED BY <3>2, <3>3
  <2>. HIDE DEF y
  <2>17. ASSUME NEW told \in Nat, NEW sent \in Nat, Budgeted(u, told, sent)
         PROVE  Budgeted(y, told + m, sent + n)
    <3>. DEFINE b == CharsPerToken * u.budget
    <3>1. b \in Int
      <4>1. u.budget \in Int BY <1>1 DEF Translators, NoBudget
      <4>. QED BY <4>1 DEF CharsPerToken
    <3>2. u.budgetHit = FALSE /\ n > 0 BY <1>1, <1>4 DEF Translators
    <3>3. /\ u.budget # NoBudget => sent <= b /\ u.thought = told
          /\ told = sent
      <4>1. /\ told = IF u.budget # NoBudget /\ sent > b THEN b ELSE sent
            /\ (u.budgetHit <=> u.budget # NoBudget /\ sent > b)
            /\ u.budget # NoBudget => u.thought = told
        BY <2>17 DEF Budgeted, Allowed
      <4>. HIDE DEF b
      <4>. QED BY <3>1, <3>2, <4>1
    <3>4. /\ u.budget = NoBudget => m = n
          /\ u.budget # NoBudget /\ n < b - u.thought => m = n
          /\ u.budget # NoBudget /\ n >= b - u.thought =>
               m = IF b - u.thought > 0 THEN b - u.thought ELSE 0
      BY <1>1, WithinIs DEF m
    <3>. HIDE DEF b
    <3>5. CASE u.budget = NoBudget
      <4>1. m = n BY <3>4, <3>5
      <4>. QED BY <2>2, <2>8, <2>16, <3>3, <3>5, <4>1 DEF Budgeted, Allowed
    <3>6. CASE u.budget # NoBudget
      <4>1. u.thought = sent /\ sent <= b BY <3>3, <3>6
      <4>2. /\ told + m = IF sent + n > b THEN b ELSE sent + n
            /\ (m < n <=> sent + n > b)
        <5>1. CASE n < b - sent
          <6>1. m = n BY <3>4, <3>6, <4>1, <5>1
          <6>. QED BY <3>1, <3>3, <5>1, <6>1
        <5>2. CASE ~(n < b - sent)
          <6>1. m = b - sent BY <3>1, <3>4, <3>6, <4>1, <5>2
          <6>. QED BY <3>1, <3>3, <5>2, <6>1
        <5>. QED BY <5>1, <5>2
      <4>3. thought = told + m BY <2>8, <3>3, <3>6, <4>1
      <4>. QED BY <2>16, <3>6, <4>2, <4>3 DEF Budgeted, Allowed, b
    <3>. QED BY <3>5, <3>6
  <2>. QED BY <2>3, <2>16, <2>17 DEF Thinks, y
<1>. QED BY <1>3, <1>4
-----------------------------------------------------------------------------
(***************************************************************************)
(* Tool calls.  Called: a call has got its block.  GoesOn: it has got more *)
(* arguments.                                                              *)
(***************************************************************************)
\* Client content a, and then d: call i gets block n with body.
Called(a, d, i, n, body) ==
  /\ BlocksOf(d, i) = BlocksOf(a, i) \cup {n}
  /\ \A j \in Tools \ {i} : BlocksOf(d, j) = BlocksOf(a, j)
  /\ \A j \in Tools : \A k \in BlocksOf(a, j) : d[k].body = a[k].body
  /\ d[n].body = body

\* Block n goes on with body.
GoesOn(a, d, n, body) ==
  /\ \A j \in Tools : BlocksOf(d, j) = BlocksOf(a, j)
  /\ \A j \in Tools : \A k \in BlocksOf(a, j) : k # n => d[k].body = a[k].body
  /\ d[n].body = a[n].body \o body

\* From u to v nothing is said but notices.
Quietly(c, u, v) ==
  /\ Ready(c, v) /\ v.started = u.started /\ v.budget = u.budget /\ Holds(u, v)
  /\ \E s \in Pieces : /\ Said(Shows(c, v)) = Said(Shows(c, u)) \o s
                       /\ Same(s, <<>>) /\ Thoughts(s) = 0

LEMMA QuietlyNothing ==
  ASSUME NEW c, NEW u, NEW v, Ready(c, u), Ready(c, v), v.started = u.started,
         v.budget = u.budget, Holds(u, v), Said(Shows(c, v)) = Said(Shows(c, u))
  PROVE  Quietly(c, u, v)
<1>1. Said(Shows(c, u)) \in Pieces BY ReadyType, SaidType
<1>2. Said(Shows(c, u)) \o <<>> = Said(Shows(c, u)) BY <1>1, ConcatPieces
<1>3. Same(<<>>, <<>>) /\ Thoughts(<<>>) = 0 /\ <<>> \in Pieces BY MeasureNothing DEF Same
<1>. QED BY <1>2, <1>3 DEF Quietly

LEMMA QuietlyEmits ==
  ASSUME NEW c, NEW u, NEW v, Emits(c, u, v, <<>>), Holds(u, v)
  PROVE  Quietly(c, u, v)
<1>1. PICK s \in Pieces : Speaks(c, u, v, s) /\ Same(s, <<>>) /\ Thoughts(s) = Thoughts(<<>>)
  BY DEF Emits
<1>2. Thoughts(s) = 0 BY <1>1, MeasureNothing
<1>. QED BY <1>1, <1>2 DEF Quietly, Speaks

LEMMA QuietlyThen ==
  ASSUME NEW c, NEW u, NEW v, NEW w, Ready(c, u), Quietly(c, u, v), Quietly(c, v, w)
  PROVE  Quietly(c, u, w)
<1>1. PICK a \in Pieces : /\ Said(Shows(c, v)) = Said(Shows(c, u)) \o a
                          /\ Same(a, <<>>) /\ Thoughts(a) = 0
  BY DEF Quietly
<1>2. PICK b \in Pieces : /\ Said(Shows(c, w)) = Said(Shows(c, v)) \o b
                          /\ Same(b, <<>>) /\ Thoughts(b) = 0
  BY DEF Quietly
<1>. DEFINE s == Said(Shows(c, u))
            ab == a \o b
<1>3. s \in Pieces BY ReadyType, SaidType
<1>4. Said(Shows(c, w)) = (s \o a) \o b BY <1>1, <1>2
<1>. HIDE DEF s
<1>5. (s \o a) \o b = s \o ab /\ ab \in Pieces BY SMTT(30), <1>3, PiecesAssociate, ConcatPieces
<1>6. Thoughts(ab) = 0
  <2>1. Thoughts(ab) = Thoughts(a) + Thoughts(b) BY MeasureConcat
  <2>. QED BY <1>1, <1>2, <2>1
<1>7. Same(ab, <<>>)
  <2>1. <<>> \in Pieces /\ <<>> \o <<>> = <<>> BY MeasureNothing
  <2>2. Same(a \o b, <<>> \o <<>>) BY <1>1, <1>2, <2>1, SameThen
  <2>. QED BY <2>1, <2>2
<1>. HIDE DEF ab
<1>. QED BY <1>4, <1>5, <1>6, <1>7 DEF Quietly, Holds, s

\* The block of a tool call is opened.
LEMMA OpenedCalls ==
  ASSUME NEW c, NEW u, Ready(c, u), u.started = TRUE, NEW i \in Tools
  PROVE  /\ Ready(c, Opened(u, "tool_use", i))
         /\ Moves(u, Opened(u, "tool_use", i), "tool_use", u.next + 1, Closed(u).tools)
         /\ Said(Shows(c, Opened(u, "tool_use", i))) = Said(Shows(c, u))
         /\ Called(Shows(c, u), Shows(c, Opened(u, "tool_use", i)), i, u.next + 1, <<>>)
<1>. DEFINE kind == "tool_use"
            v == Opened(u, kind, i)
            b == NewBlock(kind, i)
            a == Shows(c, u)
            d == Shows(c, v)
            n == Len(a)
<1>1. /\ Ready(c, v) /\ Moves(u, v, kind, u.next + 1, Closed(u).tools)
      /\ Adds(a, d, b)
  <2>1. kind \in Kinds /\ i \in Tools \cup {NoTool} BY DEF Kinds
  <2>. HIDE DEF kind
  <2>2. /\ Ready(c, Opened(u, kind, i))
        /\ Moves(u, Opened(u, kind, i), kind, u.next + 1, Closed(u).tools)
        /\ Adds(Shows(c, u), Shows(c, Opened(u, kind, i)), NewBlock(kind, i))
    BY <2>1, OpenedReady
  <2>. QED BY <2>2
<1>2. PICK m \in Seq(BlockType) : SameBlocks(a, m) /\ d = Append(m, b)
  BY <1>1 DEF Adds
<1>3. b \in BlockType /\ b.kind = "tool_use" /\ b.tool = i /\ b.body = <<>> /\ SaidBy(b) = <<>>
  <2>1. <<>> \in Pieces /\ "tool_use" \in Kinds BY DEF Pieces, Kinds
  <2>. QED BY <2>1 DEF BlockType, NewBlock, SaidBy, Spoken
<1>4. a \in Seq(BlockType) /\ n = u.next /\ n \in Nat BY ReadyType
<1>. HIDE DEF v, b, a, d, n, kind
<1>5. Said(m) = Said(a) /\ SameCalls(a, m) /\ Said(m) \in Pieces /\ Len(m) = n
  BY <1>2, <1>4, SameBlocksSame, SaidType DEF SameBlocks, n
<1>6. Said(d) = Said(a)
  <2>1. Said(d) = Said(m) \o <<>> BY <1>2, <1>3, SaidAppend
  <2>. QED BY <1>5, <2>1, ConcatPieces
<1>7. /\ d \in Seq(BlockType) /\ Len(d) = n + 1 /\ d[n + 1] = b
      /\ \A k \in 1..n : d[k] = m[k]
  BY <1>2, <1>3, <1>5, AppendProperties
<1>8. DOMAIN m = 1..n /\ DOMAIN d = 1..(n + 1) BY <1>2, <1>5, <1>7
<1>9. \A k \in 1..(n + 1) : k \in 1..n \/ k = n + 1 BY <1>4
<1>10. \A k \in 1..n : k \in 1..(n + 1) /\ k # n + 1 BY <1>4
<1>11. n + 1 \in 1..(n + 1) BY <1>4
<1>12. \A j \in Tools : BlocksOf(m, j) = BlocksOf(a, j) /\ BlocksOf(m, j) \subseteq 1..n
  BY <1>5, <1>8 DEF SameCalls, BlocksOf
<1>13. BlocksOf(d, i) = BlocksOf(m, i) \cup {n + 1}
  BY <1>3, <1>7, <1>8, <1>9, <1>10, <1>11 DEF BlocksOf
<1>14. \A j \in Tools \ {i} : BlocksOf(d, j) = BlocksOf(m, j)
  BY <1>3, <1>7, <1>8, <1>9, <1>10, <1>11 DEF BlocksOf
<1>15. ASSUME NEW j \in Tools, NEW k \in BlocksOf(a, j) PROVE d[k].body = a[k].body
  <2>1. k \in 1..n /\ m[k].body = a[k].body BY <1>5, <1>12 DEF SameCalls
  <2>. QED BY <1>7, <2>1
<1>16. Called(a, d, i, n + 1, <<>>)
  BY <1>3, <1>7, <1>12, <1>13, <1>14, <1>15 DEF Called
<1>. QED BY <1>1, <1>4, <1>6, <1>16 DEF v, a, d, kind

\* More arguments for the block that is open.
LEMMA DeltaCalls ==
  ASSUME NEW c, NEW u, Ready(c, u), u.started = TRUE, u.open = "tool_use", NEW body \in Pieces
  PROVE  /\ Ready(c, Delta(u, "input_json_delta", body))
         /\ Moves(u, Delta(u, "input_json_delta", body), u.open, u.next, u.tools)
         /\ Said(Shows(c, Delta(u, "input_json_delta", body))) = Said(Shows(c, u))
         /\ GoesOn(Shows(c, u), Shows(c, Delta(u, "input_json_delta", body)), u.next, body)
<1>. DEFINE kind == "input_json_delta"
            v == Delta(u, kind, body)
            a == Shows(c, u)
            d == Shows(c, v)
            n == u.next
<1>1. /\ Ready(c, v) /\ Moves(u, v, u.open, u.next, u.tools)
      /\ n \in 1..Len(a) /\ a[n].kind = u.open /\ d = Longer(a, n, body)
  <2>1. kind \in DeltasOf(u.open) /\ kind # "signature_delta" BY DEF DeltasOf
  <2>. HIDE DEF kind
  <2>2. /\ Ready(c, Delta(u, kind, body))
        /\ Moves(u, Delta(u, kind, body), u.open, u.next, u.tools)
        /\ u.next \in 1..Len(Shows(c, u)) /\ Shows(c, u)[u.next].kind = u.open
        /\ Shows(c, Delta(u, kind, body)) = Longer(Shows(c, u), u.next, body)
    BY <2>1, DeltaReady
  <2>. QED BY <2>2
<1>2. a \in Seq(BlockType) /\ d \in Seq(BlockType) /\ Len(a) = n /\ n \in Nat BY <1>1, ReadyType
<1>. HIDE DEF v, a, d, n, kind
<1>3. \A k \in 1..n : a[k] \in BlockType BY <1>2
<1>4. /\ Len(d) = n /\ (\A k \in 1..n : k # n => d[k] = a[k])
      /\ d[n].kind = a[n].kind /\ d[n].tool = a[n].tool /\ d[n].body = a[n].body \o body
      /\ a[n].kind = "tool_use"
  BY <1>1, <1>2, <1>3 DEF BlockType, Longer
<1>5. DOMAIN a = 1..n /\ DOMAIN d = 1..n BY <1>2, <1>4
<1>6. \A j \in Tools : BlocksOf(d, j) = BlocksOf(a, j)
  BY <1>4, <1>5 DEF BlocksOf
<1>7. \A j \in Tools : BlocksOf(a, j) \subseteq 1..n BY <1>5 DEF BlocksOf
<1>8. GoesOn(a, d, n, body) BY <1>4, <1>6, <1>7 DEF GoesOn
<1>9. Said(d) = Said(a)
  <2>1. \A k \in 1..n : SaidBy(a[k]) = SaidBy(d[k])
    <3>1. SaidBy(a[n]) = SaidBy(d[n]) BY <1>4 DEF SaidBy, Spoken
    <3>. QED BY <1>4, <3>1
  <2>. QED BY <1>2, <1>4, <2>1, SaidSame
<1>. QED BY <1>1, <1>8, <1>9 DEF v, a, d, n, kind

\* The tools are changed, and what is sent stays.
LEMMA ReadyTools ==
  ASSUME NEW c, NEW u, Ready(c, u), NEW v \in Translators, OpenTools(v),
         v.out = u.out, v.started = u.started, v.next = u.next, v.open = u.open
  PROVE  Ready(c, v) /\ Shows(c, v) = Shows(c, u)
BY DEF Ready, Agrees, Shows

\* What a client shows does not tell the state of the blocks' buffers.
Retools(w, x, tools) == x = [w EXCEPT !.tools = tools]

LEMMA RetoolsIs ==
  ASSUME NEW w \in Translators, NEW tools \in [Tools -> BufType], NEW x, Retools(w, x, tools)
  PROVE  /\ x \in Translators /\ x.tools = tools /\ x.out = w.out /\ x.started = w.started
         /\ x.next = w.next /\ x.open = w.open /\ x.budget = w.budget
         /\ x.streaming = w.streaming /\ x.hold = w.hold /\ x.thought = w.thought
         /\ x.budgetHit = w.budgetHit /\ x.finished = w.finished
BY DEF Retools, Translators

\* The block of tool i is opened for streaming.
Starts(c, u, w, i) ==
  /\ Ready(c, w) /\ Leaves(u, w)
  /\ w.started = u.started /\ w.budget = u.budget /\ w.streaming = u.streaming
  /\ w.open = "tool_use" /\ w.next = u.next + 1
  /\ Said(Shows(c, w)) = Said(Shows(c, u))
  /\ Called(Shows(c, u), Shows(c, w), i, u.next + 1, u.tools[i].args)
  /\ \A j \in Tools : /\ w.tools[j].id = u.tools[j].id /\ w.tools[j].name = u.tools[j].name
                      /\ w.tools[j].args = u.tools[j].args
                      /\ j # i => w.tools[j].started = u.tools[j].started
  /\ w.tools[i].started = TRUE
  /\ u.open # "tool_use" => \A j \in Tools : w.tools[j].closed = u.tools[j].closed

\* The block is open, and has the arguments.
Unstarted(c, u, w, i, body) ==
  /\ Ready(c, w) /\ Leaves(u, w)
  /\ w.started = u.started /\ w.budget = u.budget /\ w.streaming = u.streaming
  /\ w.open = "tool_use" /\ w.next = u.next + 1
  /\ Said(Shows(c, w)) = Said(Shows(c, u))
  /\ Called(Shows(c, u), Shows(c, w), i, u.next + 1, body)
  /\ w.tools = Closed(u).tools

LEMMA ToolOpens ==
  ASSUME NEW c, NEW u, Ready(c, u), u.started = TRUE, NEW i \in Tools, NEW body \in Pieces
  PROVE  /\ Unstarted(c, u, Opened(u, "tool_use", i), i, <<>>)
         /\ Unstarted(c, u, Delta(Opened(u, "tool_use", i), "input_json_delta", body), i, body)
<1>. DEFINE v == Opened(u, "tool_use", i)
            w == Delta(v, "input_json_delta", body)
            a == Shows(c, u)
            n == u.next
            ct == Closed(u).tools
<1>1. /\ Ready(c, v) /\ Moves(u, v, "tool_use", n + 1, ct)
      /\ Said(Shows(c, v)) = Said(a) /\ Called(a, Shows(c, v), i, n + 1, <<>>)
  BY OpenedCalls
<1>. HIDE DEF v, ct
<1>2. u \in Translators /\ v \in Translators /\ n \in Nat BY <1>1 DEF Ready, Translators
<1>3. /\ Leaves(u, v) /\ v.started = u.started /\ v.budget = u.budget
      /\ v.streaming = u.streaming /\ v.open = "tool_use" /\ v.next = n + 1 /\ v.tools = ct
  BY <1>1, <1>2 DEF Translators, Leaves, Moves
<1>4. Unstarted(c, u, v, i, <<>>) BY <1>1, <1>3 DEF Unstarted, ct
<1>5. /\ Ready(c, w) /\ Moves(v, w, v.open, v.next, v.tools)
      /\ Said(Shows(c, w)) = Said(Shows(c, v))
      /\ GoesOn(Shows(c, v), Shows(c, w), v.next, body)
  BY <1>1, <1>3, DeltaCalls
<1>. HIDE DEF w
<1>6. w \in Translators BY <1>5 DEF Ready
<1>7. /\ Leaves(v, w) /\ w.started = v.started /\ w.budget = v.budget
      /\ w.streaming = v.streaming /\ w.open = v.open /\ w.next = v.next /\ w.tools = v.tools
  BY <1>2, <1>5, <1>6 DEF Translators, Leaves, Moves
<1>8. Called(a, Shows(c, w), i, n + 1, body)
  <2>. DEFINE d == Shows(c, v)
              g == Shows(c, w)
              m == n + 1
  <2>1. Called(a, d, i, m, <<>>) /\ GoesOn(d, g, m, body) BY <1>1, <1>3, <1>5
  <2>2. \A j \in Tools : m \notin BlocksOf(a, j)
    <3>1. \A j \in Tools : BlocksOf(a, j) \subseteq 1..n
      <4>1. a \in Seq(BlockType) /\ Len(a) = n BY ReadyType
      <4>2. DOMAIN a = 1..n BY <4>1
      <4>. QED BY <4>2 DEF BlocksOf
    <3>2. m \notin 1..n BY <1>2
    <3>. QED BY <3>1, <3>2
  <2>. HIDE DEF a, d, g, m
  <2>3. g[m].body = body
    <3>1. g[m].body = <<>> \o body BY <2>1 DEF Called, GoesOn
    <3>. QED BY <3>1, ConcatPieces
  <2>4. \A j \in Tools : BlocksOf(g, j) = BlocksOf(d, j) BY <2>1 DEF GoesOn
  <2>5. ASSUME NEW j \in Tools, NEW k \in BlocksOf(a, j) PROVE g[k].body = a[k].body
    <3>1. k # m /\ k \in BlocksOf(d, j) /\ d[k].body = a[k].body BY <2>1, <2>2 DEF Called
    <3>. QED BY <2>1, <3>1 DEF GoesOn
  <2>6. Called(a, g, i, m, body) BY <2>1, <2>3, <2>4, <2>5 DEF Called
  <2>. QED BY <2>6 DEF m, g
<1>9. Unstarted(c, u, w, i, body)
  BY <1>1, <1>3, <1>5, <1>7, <1>8 DEF Unstarted, Leaves, ct
<1>. QED BY <1>4, <1>9 DEF v, w

LEMMA ClosedKeepsTools ==
  ASSUME NEW c, NEW u, Ready(c, u), u.started = TRUE
  PROVE  /\ SameTools(u, Closed(u)) /\ NoneStreams(Closed(u).tools)
         /\ Closed(u).tools \in [Tools -> BufType]
         /\ u.open # "tool_use" => Closed(u).tools = u.tools
<1>1. Speaks(c, u, Closed(u), <<>>) /\ Closed(u).open = "none" BY ClosedSpeaks
<1>2. Closed(u) \in Translators /\ OpenTools(Closed(u)) BY <1>1 DEF Speaks, Ready
<1>. QED BY <1>1, <1>2, ClosedTools DEF Speaks, Translators

LEMMA StartedStarts ==
  ASSUME NEW c, NEW u, Ready(c, u), u.started = TRUE, NEW i \in Tools
  PROVE  Starts(c, u, Started(u, i), i)
<1>. DEFINE v == Opened(u, "tool_use", i)
            a == u.tools[i].args
            w == IF a = <<>> THEN v ELSE Delta(v, "input_json_delta", a)
            at == v.next - 1
            b == [w.tools[i] EXCEPT !.at = at, !.started = TRUE]
            tools == [w.tools EXCEPT ![i] = b]
            x == Started(u, i)
            n == u.next
<1>1. u \in Translators /\ u.tools[i] \in BufType /\ a \in Pieces /\ n \in Nat
  BY DEF Ready, Translators, BufType
<1>2. Unstarted(c, u, v, i, <<>>) /\ Unstarted(c, u, w, i, a)
  BY <1>1, ToolOpens
<1>3. at = n BY <1>1, <1>2 DEF Unstarted
<1>4. x = [w EXCEPT !.tools[i].at = at, !.tools[i].started = TRUE] BY DEF Started
<1>. HIDE DEF w, v, at, x
<1>5. w \in Translators /\ w.tools \in [Tools -> BufType] BY <1>2 DEF Unstarted, Ready, Translators
<1>6. Retools(w, x, tools) BY <1>4, <1>5 DEF Retools, Translators, BufType
<1>7. /\ b \in BufType /\ b.id = w.tools[i].id /\ b.name = w.tools[i].name
      /\ b.args = w.tools[i].args /\ b.closed = w.tools[i].closed /\ b.started = TRUE
      /\ b.at = n
  BY <1>1, <1>3, <1>5 DEF BufType
<1>. HIDE DEF b
<1>8. tools \in [Tools -> BufType] /\ tools[i] = b /\ \A j \in Tools : j # i => tools[j] = w.tools[j]
  BY <1>5, <1>7
<1>. HIDE DEF tools
<1>9. /\ x \in Translators /\ x.tools = tools /\ x.out = w.out /\ x.started = w.started
      /\ x.next = w.next /\ x.open = w.open /\ x.budget = w.budget
      /\ x.streaming = w.streaming /\ Leaves(w, x)
  BY <1>5, <1>6, <1>8, RetoolsIs DEF Leaves
<1>10. /\ SameTools(u, w) /\ NoneStreams(w.tools)
       /\ u.open # "tool_use" => w.tools = u.tools
  <2>1. w.tools = Closed(u).tools BY <1>2 DEF Unstarted
  <2>2. /\ SameTools(u, Closed(u)) /\ NoneStreams(Closed(u).tools)
        /\ u.open # "tool_use" => Closed(u).tools = u.tools
    BY ClosedKeepsTools
  <2>3. SameTools(u, w) BY <2>1, <2>2 DEF SameTools
  <2>. QED BY <2>1, <2>2, <2>3
<1>11. x.open = "tool_use" /\ x.next = n + 1 /\ n + 1 - 1 = n BY <1>1, <1>2, <1>9 DEF Unstarted
<1>12. OpenTools(x)
  <2>1. ASSUME NEW j \in Tools, x.tools[j].started = TRUE, x.tools[j].closed = FALSE
        PROVE  x.tools[j].at = x.next - 1
    <3>1. CASE j = i
      <4>1. x.tools[j].at = n BY <1>7, <1>8, <1>9, <3>1
      <4>2. x.next - 1 = n BY <1>1, <1>11
      <4>. QED BY <4>1, <4>2
    <3>2. CASE j # i
      <4>1. x.tools[j] = w.tools[j] BY <1>8, <1>9, <3>2
      <4>. QED BY <1>10, <2>1, <4>1 DEF NoneStreams
    <3>. QED BY <3>1, <3>2
  <2>. QED BY <1>11, <2>1 DEF OpenTools
<1>13. Ready(c, x) /\ Shows(c, x) = Shows(c, w)
  BY <1>2, <1>9, <1>12, ReadyTools DEF Unstarted
<1>14. /\ Leaves(u, x) /\ x.started = u.started /\ x.budget = u.budget
       /\ x.streaming = u.streaming
       /\ Said(Shows(c, x)) = Said(Shows(c, u))
       /\ Called(Shows(c, u), Shows(c, x), i, n + 1, a)
  BY <1>2, <1>9, <1>13 DEF Unstarted, Leaves
<1>15. \A j \in Tools : /\ x.tools[j].id = u.tools[j].id /\ x.tools[j].name = u.tools[j].name
                        /\ x.tools[j].args = u.tools[j].args
                        /\ j # i => x.tools[j].started = u.tools[j].started
                        /\ x.tools[j].closed = w.tools[j].closed
  <2>. SUFFICES ASSUME NEW j \in Tools
       PROVE  /\ x.tools[j].id = u.tools[j].id /\ x.tools[j].name = u.tools[j].name
              /\ x.tools[j].args = u.tools[j].args
              /\ j # i => x.tools[j].started = u.tools[j].started
              /\ x.tools[j].closed = w.tools[j].closed
    OBVIOUS
  <2>1. CASE j = i BY <1>7, <1>8, <1>9, <1>10, <2>1 DEF SameTools
  <2>2. CASE j # i BY <1>8, <1>9, <1>10, <2>2 DEF SameTools
  <2>. QED BY <2>1, <2>2
<1>16. x.tools[i].started = TRUE BY <1>7, <1>8, <1>9
<1>17. u.open # "tool_use" => \A j \in Tools : x.tools[j].closed = u.tools[j].closed
  BY <1>10, <1>15
<1>. QED BY <1>11, <1>13, <1>14, <1>15, <1>16, <1>17 DEF Starts, x, n, a
-----------------------------------------------------------------------------
(***************************************************************************)
(* Tool calls in the usual order (InOrder), delta after delta.             *)
(***************************************************************************)
\* In a stream that keeps to the usual order: a tool that streams has the last
\* block, with the arguments due so far, and no other has a block.
InOrder(content, u, due) ==
  /\ \A i \in Tools :
       /\ u.tools[i].closed = FALSE
       /\ u.tools[i].started = FALSE => BlocksOf(content, i) = {}
       /\ u.tools[i].started = TRUE => /\ u.streaming = i /\ u.open = "tool_use"
                                       /\ BlocksOf(content, i) = {u.next}
                                       /\ content[u.next].body = due[i]
  /\ u.open = "tool_use" => \E i \in Tools : u.tools[i].started = TRUE

Args(u) == [i \in Tools |-> u.tools[i].args]

\* What arrives for a tool changes neither its name nor its arguments.
SameNames(u, v) ==
  \A i \in Tools : /\ v.tools[i].id = u.tools[i].id /\ v.tools[i].name = u.tools[i].name
                   /\ v.tools[i].args = u.tools[i].args

\* From u to v, due being due before and after.
Flows(c, u, v, before, after) ==
  /\ Quietly(c, u, v) /\ v.finished = u.finished /\ SameNames(u, v)
  /\ InOrder(Shows(c, u), u, before) => InOrder(Shows(c, v), v, after)

LEMMA ToolStarted ==
  ASSUME NEW u \in Translators, NEW i \in Tools
  PROVE  u.tools[i] \in BufType /\ u.tools[i].started \in BOOLEAN /\ u.tools[i].closed \in BOOLEAN
         /\ u.tools[i].args \in Pieces
BY DEF Translators, BufType

Turned(u, v, s) == v = [u EXCEPT !.streaming = s]

Chooses(u, i, s) ==
  /\ u.streaming = NoTool \/ u.streaming = i
  /\ (s = NoTool /\ u.tools[i].started = FALSE) \/ s = i

\* The tool to stream is i, or none.
LEMMA StreamingFlows ==
  ASSUME NEW c, NEW u, Ready(c, u), u.started = TRUE, NEW i \in Tools,
         NEW s, Chooses(u, i, s), NEW v, Turned(u, v, s)
  PROVE  Flows(c, u, v, Args(u), Args(u)) /\ v \in Translators /\ v.tools = u.tools
         /\ v.streaming = s /\ v.open = u.open
<1>1. /\ u \in Translators /\ s \in Tools \cup {NoTool} /\ u.streaming \in {NoTool, i}
      /\ (s = NoTool /\ u.tools[i].started = FALSE) \/ s = i
  BY DEF Ready, Chooses
<1>2. /\ v \in Translators /\ v.out = u.out /\ v.started = u.started /\ v.next = u.next
      /\ v.open = u.open /\ v.budget = u.budget /\ v.tools = u.tools /\ Holds(u, v)
      /\ v.finished = u.finished /\ v.streaming = s
  BY <1>1 DEF Translators, Holds, Turned
<1>3. Ready(c, v) /\ Shows(c, v) = Shows(c, u) BY <1>2, ReadySame
<1>4. Quietly(c, u, v) BY <1>2, <1>3, QuietlyNothing
<1>5. ASSUME InOrder(Shows(c, u), u, Args(u)) PROVE InOrder(Shows(c, v), v, Args(u))
  <2>1. ASSUME NEW j \in Tools, u.tools[j].started = TRUE PROVE v.streaming = j
    <3>1. u.streaming = j BY <1>5, <2>1 DEF InOrder
    <3>2. j # NoTool BY DEF Tools, NoTool
    <3>3. j = i BY <1>1, <3>1, <3>2
    <3>. QED BY <1>1, <1>2, <2>1, <3>3
  <2>. DEFINE a == Shows(c, u)
  <2>2. InOrder(a, u, Args(u)) /\ Shows(c, v) = a BY <1>3, <1>5
  <2>. HIDE DEF a
  <2>3. \A j \in Tools : v.tools[j] = u.tools[j] BY <1>2
  <2>4. ASSUME NEW j \in Tools
        PROVE  /\ v.tools[j].closed = FALSE
               /\ v.tools[j].started = FALSE => BlocksOf(a, j) = {}
               /\ v.tools[j].started = TRUE => /\ v.streaming = j /\ v.open = "tool_use"
                                               /\ BlocksOf(a, j) = {v.next}
                                               /\ a[v.next].body = Args(u)[j]
    <3>1. /\ u.tools[j].closed = FALSE
          /\ u.tools[j].started = FALSE => BlocksOf(a, j) = {}
          /\ u.tools[j].started = TRUE => /\ u.streaming = j /\ u.open = "tool_use"
                                          /\ BlocksOf(a, j) = {u.next}
                                          /\ a[u.next].body = Args(u)[j]
      BY <2>2 DEF InOrder
    <3>2. u.tools[j].started = TRUE => v.streaming = j BY <2>1
    <3>3. v.tools[j] = u.tools[j] BY <2>3
    <3>4. v.next = u.next /\ v.open = u.open BY <1>2
    <3>. QED BY <3>1, <3>2, <3>3, <3>4
  <2>5. v.open = "tool_use" => \E j \in Tools : v.tools[j].started = TRUE
    BY <1>2, <2>2, <2>3 DEF InOrder
  <2>6. InOrder(a, v, Args(u)) BY <2>4, <2>5 DEF InOrder
  <2>. QED BY <2>2, <2>6
<1>. QED BY <1>2, <1>4, <1>5 DEF Flows, SameNames

LEMMA StartedFlows ==
  ASSUME NEW c, NEW u, Ready(c, u), u.started = TRUE, NEW i \in Tools,
         u.streaming = i, u.tools[i].started = FALSE
  PROVE  Flows(c, u, Started(u, i), Args(u), Args(u))
<1>. DEFINE w == Started(u, i)
            a == Shows(c, u)
            d == Shows(c, w)
            n == u.next
<1>1. Starts(c, u, w, i) BY StartedStarts
<1>. HIDE DEF w
<1>2. u \in Translators /\ w \in Translators BY <1>1 DEF Ready, Starts
<1>3. Quietly(c, u, w) BY <1>1, QuietlyNothing DEF Starts, Leaves, Holds
<1>4. ASSUME InOrder(a, u, Args(u)) PROVE InOrder(d, w, Args(u))
  <2>1. ASSUME NEW j \in Tools
        PROVE u.tools[j].started = FALSE /\ u.tools[j].closed = FALSE /\ BlocksOf(a, j) = {}
    <3>1. u.tools[j].started \in BOOLEAN BY <1>2, ToolStarted
    <3>2. u.tools[j].started = TRUE => u.streaming = j BY <1>4 DEF InOrder
    <3>3. u.tools[j].started = FALSE BY <3>1, <3>2
    <3>. QED BY <1>4, <3>3 DEF InOrder
  <2>2. u.open # "tool_use" BY <1>4, <2>1 DEF InOrder
  <2>3. /\ w.streaming = i /\ w.open = "tool_use" /\ w.next = n + 1
        /\ \A j \in Tools : w.tools[j].closed = FALSE
        /\ \A j \in Tools : j # i => w.tools[j].started = FALSE
        /\ w.tools[i].started = TRUE
    <3>1. /\ w.streaming = u.streaming /\ w.open = "tool_use" /\ w.next = n + 1
          /\ \A j \in Tools : j # i => w.tools[j].started = u.tools[j].started
          /\ w.tools[i].started = TRUE
      BY <1>1 DEF Starts
    <3>2. \A j \in Tools : w.tools[j].closed = u.tools[j].closed BY <1>1, <2>2 DEF Starts
    <3>. HIDE DEF a, d, n
    <3>. QED BY <2>1, <3>1, <3>2
  <2>4. /\ BlocksOf(d, i) = {n + 1} /\ d[n + 1].body = u.tools[i].args
        /\ \A j \in Tools : j # i => BlocksOf(d, j) = {}
    <3>1. Called(a, d, i, n + 1, u.tools[i].args) BY <1>1 DEF Starts
    <3>. HIDE DEF a, d, n
    <3>. QED BY <2>1, <3>1 DEF Called
  <2>5. Args(u)[i] = u.tools[i].args BY DEF Args
  <2>. HIDE DEF a, d, n
  <2>6. ASSUME NEW j \in Tools
        PROVE  /\ w.tools[j].closed = FALSE
               /\ w.tools[j].started = FALSE => BlocksOf(d, j) = {}
               /\ w.tools[j].started = TRUE => /\ w.streaming = j /\ w.open = "tool_use"
                                               /\ BlocksOf(d, j) = {w.next}
                                               /\ d[w.next].body = Args(u)[j]
    <3>1. CASE j = i BY <2>3, <2>4, <2>5, <3>1
    <3>2. CASE j # i BY <2>3, <2>4, <3>2
    <3>. QED BY <3>1, <3>2
  <2>. QED BY <2>3, <2>6 DEF InOrder
<1>5. w.finished = u.finished /\ SameNames(u, w) BY <1>1 DEF Starts, Leaves, SameNames
<1>. QED BY <1>3, <1>4, <1>5 DEF Flows, w, a, d

More(u, i, args) == [Args(u) EXCEPT ![i] = @ \o args]

LEMMA ArgsFlow ==
  ASSUME NEW c, NEW u, Ready(c, u), u.started = TRUE, NEW i \in Tools,
         u.tools[i].started = TRUE, u.tools[i].closed = FALSE, NEW args \in Pieces
  PROVE  Flows(c, u, Delta(u, "input_json_delta", args), Args(u), More(u, i, args))
<1>. DEFINE w == Delta(u, "input_json_delta", args)
            a == Shows(c, u)
            d == Shows(c, w)
            n == u.next
<1>1. u.open = "tool_use" BY DEF Ready, OpenTools
<1>2. /\ Ready(c, w) /\ Moves(u, w, u.open, n, u.tools) /\ Said(d) = Said(a)
      /\ GoesOn(a, d, n, args)
  BY <1>1, DeltaCalls
<1>. HIDE DEF w
<1>3. u \in Translators /\ w \in Translators BY <1>2 DEF Ready
<1>4. /\ w.open = u.open /\ w.next = n /\ w.tools = u.tools /\ w.started = u.started
      /\ w.budget = u.budget /\ Holds(u, w) /\ w.streaming = u.streaming
      /\ w.finished = u.finished
  BY <1>2, <1>3 DEF Moves, Translators, Holds
<1>5. Quietly(c, u, w) BY <1>2, <1>4, QuietlyNothing
<1>6. ASSUME InOrder(a, u, Args(u)) PROVE InOrder(d, w, More(u, i, args))
  <2>1. u.streaming = i /\ BlocksOf(a, i) = {n} /\ a[n].body = Args(u)[i]
    BY <1>6 DEF InOrder
  <2>2. ASSUME NEW j \in Tools, j # i PROVE u.tools[j].started = FALSE
    <3>1. u.tools[j].started \in BOOLEAN BY <1>3, ToolStarted
    <3>. QED BY <1>6, <2>1, <2>2, <3>1 DEF InOrder
  <2>3. More(u, i, args)[i] = Args(u)[i] \o args BY DEF More, Args
  <2>4. d[n].body = More(u, i, args)[i] BY <1>2, <2>1, <2>3 DEF GoesOn
  <2>5. \A j \in Tools : BlocksOf(d, j) = BlocksOf(a, j) BY <1>2 DEF GoesOn
  <2>. HIDE DEF a, d, n
  <2>6. ASSUME NEW j \in Tools
        PROVE  /\ w.tools[j].closed = FALSE
               /\ w.tools[j].started = FALSE => BlocksOf(d, j) = {}
               /\ w.tools[j].started = TRUE => /\ w.streaming = j /\ w.open = "tool_use"
                                               /\ BlocksOf(d, j) = {w.next}
                                               /\ d[w.next].body = More(u, i, args)[j]
    <3>1. CASE j = i BY <1>1, <1>4, <1>6, <2>1, <2>4, <2>5, <3>1 DEF InOrder
    <3>2. CASE j # i BY <1>4, <1>6, <2>2, <2>5, <3>2 DEF InOrder
    <3>. QED BY <3>1, <3>2
  <2>. QED BY <1>4, <1>6, <2>6 DEF InOrder
<1>7. SameNames(u, w) BY <1>4 DEF SameNames
<1>. QED BY <1>4, <1>5, <1>6, <1>7 DEF Flows, w, a, d

LEMMA FlowsThen ==
  ASSUME NEW c, NEW u, NEW v, NEW w, NEW before, NEW mid, NEW after, Ready(c, u),
         Flows(c, u, v, before, mid), Flows(c, v, w, mid, after)
  PROVE  Flows(c, u, w, before, after)
<1>1. Quietly(c, u, w) BY QuietlyThen DEF Flows
<1>. QED BY <1>1 DEF Flows, SameNames

LEMMA StreamedFlows ==
  ASSUME NEW c, NEW u, Ready(c, u), u.started = TRUE, NEW i \in Tools, NEW args \in Pieces
  PROVE  Flows(c, u, Streamed(u, i, args), Args(u), More(u, i, args))
<1>. DEFINE b == u.tools[i]
            ready == ~b.started /\ b.id /\ b.name # NoName
            v == IF u.streaming = NoTool THEN [u EXCEPT !.streaming = i] ELSE u
            w == IF ~ready THEN v
                 ELSE IF b.name \in Declared THEN Started(v, i)
                 ELSE [v EXCEPT !.streaming = NoTool]
            x == IF v.streaming # i THEN v
                 ELSE IF w.tools[i].started /\ ~w.tools[i].closed /\ args # <<>>
                      THEN Delta(w, "input_json_delta", args)
                 ELSE w
<1>0. Streamed(u, i, args) = x BY DEF Streamed
<1>1. u \in Translators /\ b \in BufType /\ b.started \in BOOLEAN /\ b.args \in Pieces
  BY ToolStarted DEF Ready
<1>2. CASE u.streaming \notin {NoTool, i}
  <2>1. v = u /\ x = u BY <1>2
  <2>2. Flows(c, u, u, Args(u), More(u, i, args))
    <3>1. Quietly(c, u, u) BY QuietlyNothing DEF Holds
    <3>2. ASSUME InOrder(Shows(c, u), u, Args(u)) PROVE InOrder(Shows(c, u), u, More(u, i, args))
      <4>1. \A j \in Tools : u.tools[j].started = TRUE => j # i BY <1>2, <3>2 DEF InOrder
      <4>2. \A j \in Tools : j # i => More(u, i, args)[j] = Args(u)[j] BY DEF More, Args
      <4>. QED BY <3>2, <4>1, <4>2 DEF InOrder
    <3>. QED BY <3>1, <3>2 DEF Flows, SameNames
  <2>. QED BY <1>0, <2>1, <2>2
<1>3. CASE u.streaming \in {NoTool, i}
  <2>1. v = [u EXCEPT !.streaming = i]
    <3>1. CASE u.streaming = NoTool BY <3>1
    <3>2. CASE u.streaming = i
      <4>1. i # NoTool BY DEF Tools, NoTool
      <4>2. v = u BY <3>2, <4>1
      <4>3. u = [u EXCEPT !.streaming = i] BY <1>1, <3>2 DEF Translators
      <4>. QED BY <4>2, <4>3
    <3>. QED BY <1>3, <3>1, <3>2
  <2>. HIDE DEF v
  <2>2. Flows(c, u, v, Args(u), Args(u)) /\ v \in Translators /\ v.tools = u.tools /\ v.streaming = i
    <3>2. Turned(u, v, i) BY <2>1 DEF Turned
    <3>3. Chooses(u, i, i) BY <1>3 DEF Chooses
    <3>. HIDE DEF b, ready, w, x
    <3>4. Flows(c, u, v, Args(u), Args(u)) BY <3>2, <3>3, StreamingFlows
    <3>5. v = [u EXCEPT !.streaming = i] BY <2>1
    <3>6. v \in Translators /\ v.tools = u.tools /\ v.streaming = i
      BY <1>1, <3>5 DEF Translators
    <3>. QED BY <3>4, <3>6
  <2>3. Ready(c, v) /\ v.started = TRUE /\ Args(v) = Args(u) BY <2>2 DEF Flows, Quietly, Args
  <2>4. Flows(c, v, w, Args(u), Args(u))
    <3>1. CASE ~ready
      <4>1. w = v BY <3>1
      <4>2. Quietly(c, v, v) BY <2>3, QuietlyNothing DEF Holds
      <4>. HIDE DEF w
      <4>. QED BY <4>1, <4>2 DEF Flows, SameNames
    <3>2. CASE ready /\ b.name \in Declared
      <4>1. w = Started(v, i) BY <3>2
      <4>2. v.tools[i].started = FALSE BY <1>1, <2>2, <3>2
      <4>3. Flows(c, v, Started(v, i), Args(v), Args(v)) BY <2>2, <2>3, <4>2, StartedFlows
      <4>. HIDE DEF w
      <4>. QED BY <2>3, <4>1, <4>3
    <3>3. CASE ready /\ b.name \notin Declared
      <4>1. Turned(v, w, NoTool) BY <3>3 DEF Turned
      <4>2. v.tools[i].started = FALSE BY <1>1, <2>2, <3>3
      <4>3. Chooses(v, i, NoTool) BY <2>2, <4>2 DEF Chooses
      <4>. HIDE DEF w, b, ready, x
      <4>4. Flows(c, v, w, Args(v), Args(v)) BY <2>2, <2>3, <4>1, <4>3, StreamingFlows
      <4>. QED BY <2>3, <4>4
    <3>. QED BY <3>1, <3>2, <3>3
  <2>5. Flows(c, u, w, Args(u), Args(u)) BY <2>2, <2>4, FlowsThen
  <2>. HIDE DEF w
  <2>6. Ready(c, w) /\ w.started = TRUE /\ Args(w) = Args(u) /\ w \in Translators
    <3>1. Args(w) = Args(u) BY <2>5 DEF Flows, SameNames, Args
    <3>. QED BY <2>5, <3>1 DEF Flows, Quietly, Ready
  <2>7. w.tools[i].started \in BOOLEAN /\ w.tools[i].closed \in BOOLEAN BY <2>6, ToolStarted
  <2>8. More(w, i, args) = More(u, i, args) BY <2>6 DEF More
  <2>9. CASE w.tools[i].started = TRUE /\ w.tools[i].closed = FALSE /\ args # <<>>
    <3>1. x = Delta(w, "input_json_delta", args) BY <2>2, <2>9
    <3>2. Flows(c, w, Delta(w, "input_json_delta", args), Args(w), More(w, i, args))
      BY <2>6, <2>9, ArgsFlow
    <3>. HIDE DEF x
    <3>3. Flows(c, w, x, Args(u), More(u, i, args)) BY <2>6, <2>8, <3>1, <3>2
    <3>. QED BY <1>0, <2>5, <3>3, FlowsThen
  <2>10. CASE ~(w.tools[i].started = TRUE /\ w.tools[i].closed = FALSE /\ args # <<>>)
    <3>1. x = w BY <2>2, <2>7, <2>10
    <3>. HIDE DEF x
    <3>2. ASSUME InOrder(Shows(c, w), w, Args(u)) PROVE InOrder(Shows(c, w), w, More(u, i, args))
      <4>1. \A j \in Tools : w.tools[j].started = TRUE => More(u, i, args)[j] = Args(u)[j]
        <5>1. \A j \in Tools : j # i => More(u, i, args)[j] = Args(u)[j] BY DEF More, Args
        <5>2. ASSUME w.tools[i].started = TRUE PROVE More(u, i, args)[i] = Args(u)[i]
          <6>1. w.tools[i].closed = FALSE BY <3>2 DEF InOrder
          <6>2. args = <<>> BY <2>10, <5>2, <6>1
          <6>3. b.args \o <<>> = b.args BY <1>1, ConcatPieces
          <6>. QED BY <6>2, <6>3 DEF More, Args
        <5>. QED BY <5>1, <5>2
      <4>. QED BY <3>2, <4>1 DEF InOrder
    <3>3. Flows(c, u, w, Args(u), More(u, i, args)) BY <2>5, <3>2 DEF Flows
    <3>. QED BY <1>0, <3>1, <3>3
  <2>. QED BY <2>9, <2>10
<1>. QED BY <1>2, <1>3

\* One element of delta.tool_calls.
ToolDeltas == [index : Tools, id : BOOLEAN, name : STRING, args : Seq(STRING)]

\* Tool i is called b, and the names seen are kept; the rest stays.
Named(u, v, i, b) ==
  /\ v \in Translators /\ v.tools = [u.tools EXCEPT ![i] = b]
  /\ v.out = u.out /\ v.started = u.started /\ v.next = u.next /\ v.open = u.open
  /\ v.budget = u.budget /\ v.streaming = u.streaming /\ Holds(u, v)
  /\ v.finished = u.finished

LEMMA LastNamesType ==
  ASSUME NEW names \in Pieces, NEW n \in Nat
  PROVE  LastNames(names, n) \in Pieces
<1>. DEFINE m == IF Len(names) > n THEN Len(names) - n ELSE 0
            a == m + 1
            l == Len(names)
<1>1. l \in Nat /\ m \in Nat /\ m <= l BY DEF Pieces
<1>2. LastNames(names, n) = SubSeq(names, a, l) BY DEF LastNames
<1>. HIDE DEF m
<1>3. a \in Nat /\ a > 0 /\ a <= l + 1 /\ l <= Len(names) BY <1>1
<1>. HIDE DEF a, l
<1>4. SubSeq(names, a, l) \in Pieces BY <1>1, <1>3, PartIs
<1>. QED BY <1>2, <1>4

LEMMA NamesSeenIs ==
  ASSUME NEW u \in Translators, NEW i \in Tools, NEW b \in BufType, NEW args
  PROVE  Named(u, NamesSeen([u EXCEPT !.tools[i] = b], b, args), i, b)
<1>. DEFINE tools == [u.tools EXCEPT ![i] = b]
            v == [u EXCEPT !.tools[i] = b]
            names == LastNames(Append(v.names, b.name), NamesKept)
            repeated == v.repeated + (IF Loops(names, b.name) THEN 1 ELSE 0)
            w == [v EXCEPT !.names = names, !.repeated = repeated]
            x == NamesSeen(v, b, args)
<1>1. x = v \/ x = w BY DEF NamesSeen
<1>2. tools \in [Tools -> BufType] BY DEF Translators
<1>3. v = [u EXCEPT !.tools = tools] OBVIOUS
<1>. HIDE DEF x, tools, v
<1>4. Named(u, v, i, b) /\ v.names \in Pieces /\ v.repeated \in Nat
  <2>1. /\ v \in Translators /\ v.tools = tools /\ v.out = u.out /\ v.started = u.started
        /\ v.next = u.next /\ v.open = u.open /\ v.budget = u.budget
        /\ v.streaming = u.streaming /\ Holds(u, v) /\ v.finished = u.finished
    BY <1>2, <1>3 DEF Translators, Holds
  <2>2. v.names \in Pieces /\ v.repeated \in Nat BY <2>1 DEF Translators
  <2>. QED BY <2>1, <2>2 DEF Named, tools
<1>5. names \in Pieces
  <2>1. b.name \in Word BY DEF BufType
  <2>2. Append(v.names, b.name) \in Pieces BY <1>4, <2>1 DEF Pieces
  <2>3. NamesKept \in Nat BY TranslatorAssumption
  <2>. QED BY <2>2, <2>3, LastNamesType
<1>. HIDE DEF names
<1>6. repeated \in Nat BY <1>4
<1>. HIDE DEF repeated
<1>7. Named(u, w, i, b)
  <2>1. v \in Translators BY <1>4 DEF Named
  <2>2. /\ w \in Translators /\ w.tools = v.tools /\ w.out = v.out /\ w.started = v.started
        /\ w.next = v.next /\ w.open = v.open /\ w.budget = v.budget
        /\ w.streaming = v.streaming /\ Holds(v, w) /\ w.finished = v.finished
    BY <1>5, <1>6, <2>1 DEF Translators, Holds
  <2>. HIDE DEF w
  <2>. QED BY <1>4, <2>2 DEF Named, Holds
<1>. HIDE DEF w
<1>8. Named(u, x, i, b) BY <1>1, <1>4, <1>7
<1>. QED BY <1>8 DEF x, v

\* From u to v: nothing said but notices, and what was in order still is, unless
\* the stream has been stopped.
Tooled(c, u, v) ==
  /\ Quietly(c, u, v) /\ v \in Translators
  /\ v.finished \in {u.finished, TRUE}
  /\ v.finished = FALSE /\ InOrder(Shows(c, u), u, Args(u)) => InOrder(Shows(c, v), v, Args(v))

LEMMA TooledNothing ==
  ASSUME NEW c, NEW u, Ready(c, u)
  PROVE  Tooled(c, u, u)
<1>1. Quietly(c, u, u) BY QuietlyNothing DEF Holds
<1>. QED BY <1>1 DEF Tooled, Ready

LEMMA TooledThen ==
  ASSUME NEW c, NEW u, NEW v, NEW w, Ready(c, u), Tooled(c, u, v), Tooled(c, v, w)
  PROVE  Tooled(c, u, w)
<1>1. Quietly(c, u, w) BY QuietlyThen DEF Tooled
<1>2. u \in Translators BY DEF Ready
<1>3. u.finished \in BOOLEAN BY <1>2 DEF Translators
<1>4. w.finished \in {u.finished, TRUE} /\ (w.finished = FALSE => v.finished = FALSE)
  BY <1>3 DEF Tooled
<1>. QED BY <1>1, <1>4 DEF Tooled

\* The tool is given another name: the client sees nothing of it.
LEMMA NamedTooled ==
  ASSUME NEW c, NEW u, Ready(c, u), NEW i \in Tools, NEW b \in BufType, NEW v,
         Named(u, v, i, b), b.args = u.tools[i].args, b.started = u.tools[i].started,
         b.closed = u.tools[i].closed, b.at = u.tools[i].at
  PROVE  Tooled(c, u, v)
<1>1. u \in Translators /\ v \in Translators BY DEF Ready, Named
<1>2. \A j \in Tools : /\ v.tools[j].args = u.tools[j].args /\ v.tools[j].at = u.tools[j].at
                       /\ v.tools[j].started = u.tools[j].started
                       /\ v.tools[j].closed = u.tools[j].closed
  <2>1. v.tools = [u.tools EXCEPT ![i] = b] /\ u.tools \in [Tools -> BufType]
    BY <1>1 DEF Named, Translators
  <2>2. v.tools[i] = b /\ \A j \in Tools : j # i => v.tools[j] = u.tools[j] BY <2>1
  <2>. SUFFICES ASSUME NEW j \in Tools
       PROVE  /\ v.tools[j].args = u.tools[j].args /\ v.tools[j].at = u.tools[j].at
              /\ v.tools[j].started = u.tools[j].started
              /\ v.tools[j].closed = u.tools[j].closed
    OBVIOUS
  <2>3. CASE j = i BY <2>2, <2>3
  <2>4. CASE j # i BY <2>2, <2>4
  <2>. QED BY <2>3, <2>4
<1>3. /\ v.out = u.out /\ v.started = u.started /\ v.next = u.next /\ v.open = u.open
      /\ v.budget = u.budget /\ v.streaming = u.streaming /\ Holds(u, v)
      /\ v.finished = u.finished
  BY DEF Named
<1>4. OpenTools(v) BY <1>2, <1>3 DEF Ready, OpenTools
<1>5. Ready(c, v) /\ Shows(c, v) = Shows(c, u) BY <1>1, <1>3, <1>4, ReadyTools
<1>6. Quietly(c, u, v) BY <1>3, <1>5, QuietlyNothing
<1>. DEFINE a == Shows(c, u)
<1>7. ASSUME InOrder(a, u, Args(u)) PROVE InOrder(a, v, Args(v))
  <2>. HIDE DEF a
  <2>1. Args(v) = Args(u) BY <1>2 DEF Args
  <2>2. InOrder(a, v, Args(u))
    <3>1. ASSUME NEW j \in Tools
          PROVE  /\ v.tools[j].closed = FALSE
                 /\ v.tools[j].started = FALSE => BlocksOf(a, j) = {}
                 /\ v.tools[j].started = TRUE => /\ v.streaming = j /\ v.open = "tool_use"
                                                 /\ BlocksOf(a, j) = {v.next}
                                                 /\ a[v.next].body = Args(u)[j]
      <4>1. /\ u.tools[j].closed = FALSE
            /\ u.tools[j].started = FALSE => BlocksOf(a, j) = {}
            /\ u.tools[j].started = TRUE => /\ u.streaming = j /\ u.open = "tool_use"
                                            /\ BlocksOf(a, j) = {u.next}
                                            /\ a[u.next].body = Args(u)[j]
        BY <1>7 DEF InOrder
      <4>. QED BY <1>2, <1>3, <4>1
    <3>2. v.open = "tool_use" => \E j \in Tools : v.tools[j].started = TRUE
      BY <1>2, <1>3, <1>7 DEF InOrder
    <3>. QED BY <3>1, <3>2 DEF InOrder
  <2>. QED BY <2>1, <2>2
<1>. QED BY <1>1, <1>3, <1>5, <1>6, <1>7 DEF Tooled

\* A notice, and the stream is stopped.
LEMMA NoticeStops ==
  ASSUME NEW c, NEW u, Ready(c, u), u.started = TRUE
  PROVE  Tooled(c, u, Stopped(Delta(Opened(u, "text", NoTool), "text_delta", <<"notice">>)))
<1>. DEFINE note == <<"notice">>
            v == Opened(u, "text", NoTool)
            w == Delta(v, "text_delta", note)
            x == Stopped(w)
<1>1. Speaks(c, u, v, <<>>) /\ Leaves(u, v) /\ v.open = "text"
  <2>1. "text" \in Kinds /\ "text" # "tool_use" BY DEF Kinds
  <2>. QED BY <2>1, OpenedSpeaks
<1>2. note \in Pieces /\ Same(note, <<>>) /\ Thoughts(note) = 0 BY MeasureNotice
<1>. HIDE DEF v, note
<1>3. Ready(c, v) /\ v.started = TRUE BY <1>1 DEF Speaks
<1>4. Speaks(c, v, w, note) /\ Leaves(v, w)
  <2>1. v.open \in Spoken BY <1>1 DEF Spoken
  <2>. QED BY <1>1, <1>2, <1>3, <2>1, DeltaSpeaks
<1>. HIDE DEF w
<1>5. Ready(c, w) /\ w.started = TRUE BY <1>3, <1>4 DEF Speaks
<1>6. Speaks(c, w, x, <<>>) /\ Holds(w, x) /\ x.finished = TRUE BY <1>5, StoppedSpeaks
<1>. HIDE DEF x
<1>7. Speaks(c, u, x, note)
  <2>1. Speaks(c, u, w, <<>> \o note) BY <1>1, <1>4, SpeaksThen
  <2>2. Speaks(c, u, w, note)
    <3>1. <<>> \o note = note BY <1>2, ConcatPieces
    <3>. QED BY <2>1, <3>1
  <2>3. Speaks(c, u, x, note \o <<>>) BY <1>6, <2>2, SpeaksThen
  <2>4. note \o <<>> = note BY <1>2, ConcatPieces
  <2>. QED BY <2>3, <2>4
<1>8. Holds(u, x) BY <1>1, <1>4, <1>6 DEF Leaves, Holds
<1>9. Quietly(c, u, x) BY <1>2, <1>7, <1>8 DEF Quietly, Speaks
<1>10. x \in Translators BY <1>7 DEF Speaks, Ready
<1>. QED BY <1>6, <1>9, <1>10 DEF Tooled, x, w, v, note

\* The arguments join those of the tool.
Argued(u, y, i, args) == y = [Streamed(u, i, args) EXCEPT !.tools[i].args = @ \o args]

LEMMA ArgsTooled ==
  ASSUME NEW c, NEW u, Ready(c, u), u.started = TRUE, NEW i \in Tools, NEW args \in Pieces,
         NEW y, Argued(u, y, i, args)
  PROVE  Tooled(c, u, y)
<1>. DEFINE x == Streamed(u, i, args)
            b == [x.tools[i] EXCEPT !.args = @ \o args]
            tools == [x.tools EXCEPT ![i] = b]
<1>1. Flows(c, u, x, Args(u), More(u, i, args)) BY StreamedFlows
<1>2. Retools(x, y, tools) BY DEF Argued, Retools
<1>. HIDE DEF x
<1>3. x \in Translators /\ Ready(c, x) /\ x.tools \in [Tools -> BufType]
      /\ x.tools[i].args \in Pieces /\ x.tools[i] \in BufType
  <2>1. x \in Translators /\ Ready(c, x) BY <1>1 DEF Flows, Quietly, Ready
  <2>. QED BY <2>1, ToolStarted DEF Translators
<1>4. x.tools[i].args \o args \in Pieces BY <1>3, ConcatPieces
<1>5. /\ b \in BufType /\ b.args = x.tools[i].args \o args /\ b.at = x.tools[i].at
      /\ b.started = x.tools[i].started /\ b.closed = x.tools[i].closed
  BY <1>3, <1>4 DEF BufType
<1>. HIDE DEF b
<1>7. tools \in [Tools -> BufType] /\ tools[i] = b /\ \A j \in Tools : j # i => tools[j] = x.tools[j]
  BY <1>3, <1>5
<1>. HIDE DEF tools
<1>8. /\ y \in Translators /\ y.tools = tools /\ y.out = x.out /\ y.started = x.started
      /\ y.next = x.next /\ y.open = x.open /\ y.budget = x.budget
      /\ y.streaming = x.streaming /\ Holds(x, y) /\ y.finished = x.finished
  BY <1>2, <1>3, <1>7, RetoolsIs DEF Holds
<1>9. \A j \in Tools : /\ y.tools[j].at = x.tools[j].at
                       /\ y.tools[j].started = x.tools[j].started
                       /\ y.tools[j].closed = x.tools[j].closed
                       /\ y.tools[j].args = More(u, i, args)[j]
  <2>. SUFFICES ASSUME NEW j \in Tools
       PROVE  /\ y.tools[j].at = x.tools[j].at
              /\ y.tools[j].started = x.tools[j].started
              /\ y.tools[j].closed = x.tools[j].closed
              /\ y.tools[j].args = More(u, i, args)[j]
    OBVIOUS
  <2>1. x.tools[j].args = u.tools[j].args BY <1>1 DEF Flows, SameNames
  <2>2. CASE j = i
    <3>1. More(u, i, args)[j] = u.tools[j].args \o args BY <2>2 DEF More, Args
    <3>. QED BY <1>5, <1>7, <1>8, <2>1, <2>2, <3>1
  <2>3. CASE j # i
    <3>1. More(u, i, args)[j] = u.tools[j].args BY <2>3 DEF More, Args
    <3>. QED BY <1>7, <1>8, <2>1, <2>3, <3>1
  <2>. QED BY <2>2, <2>3
<1>10. OpenTools(y) BY <1>3, <1>8, <1>9 DEF Ready, OpenTools
<1>11. Ready(c, y) /\ Shows(c, y) = Shows(c, x) BY <1>3, <1>8, <1>10, ReadyTools
<1>12. Quietly(c, u, y)
  <2>1. Quietly(c, x, y) BY <1>3, <1>8, <1>11, QuietlyNothing
  <2>. QED BY <1>1, <2>1, QuietlyThen DEF Flows
<1>. DEFINE a == Shows(c, x)
<1>13. ASSUME InOrder(a, x, More(u, i, args)) PROVE InOrder(a, y, Args(y))
  <2>. HIDE DEF a
  <2>1. ASSUME NEW j \in Tools
        PROVE  /\ y.tools[j].closed = FALSE
               /\ y.tools[j].started = FALSE => BlocksOf(a, j) = {}
               /\ y.tools[j].started = TRUE => /\ y.streaming = j /\ y.open = "tool_use"
                                               /\ BlocksOf(a, j) = {y.next}
                                               /\ a[y.next].body = Args(y)[j]
    <3>1. /\ x.tools[j].closed = FALSE
          /\ x.tools[j].started = FALSE => BlocksOf(a, j) = {}
          /\ x.tools[j].started = TRUE => /\ x.streaming = j /\ x.open = "tool_use"
                                          /\ BlocksOf(a, j) = {x.next}
                                          /\ a[x.next].body = More(u, i, args)[j]
      BY <1>13 DEF InOrder
    <3>2. Args(y)[j] = More(u, i, args)[j] BY <1>9 DEF Args
    <3>. QED BY <1>8, <1>9, <3>1, <3>2
  <2>2. y.open = "tool_use" => \E j \in Tools : y.tools[j].started = TRUE
    BY <1>8, <1>9, <1>13 DEF InOrder
  <2>. QED BY <2>1, <2>2 DEF InOrder
<1>14. InOrder(Shows(c, u), u, Args(u)) => InOrder(Shows(c, y), y, Args(y))
  BY <1>1, <1>11, <1>13 DEF Flows
<1>15. y.finished = u.finished BY <1>1, <1>8 DEF Flows
<1>. QED BY <1>8, <1>12, <1>14, <1>15 DEF Tooled

\* One element of delta.tool_calls.
LEMMA ToolTooled ==
  ASSUME NEW c, NEW u, Ready(c, u), u.started = TRUE, NEW d \in ToolDeltas
  PROVE  Tooled(c, u, Tool(u, d))
<1>. DEFINE i == d.index
            old == u.tools[i]
            b == [old EXCEPT !.id = @ \/ d.id, !.name = IF d.name = NoName THEN @ ELSE d.name]
            v == NamesSeen([u EXCEPT !.tools[i] = b], b, d.args)
            note == Stopped(Delta(Opened(v, "text", NoTool), "text_delta", <<"notice">>))
            y == [Streamed(v, i, d.args) EXCEPT !.tools[i].args = @ \o d.args]
            w == Tool(u, d)
<1>1. w = u \/ w = note \/ w = y BY DEF Tool
<1>2. u \in Translators /\ i \in Tools /\ d.args \in Pieces /\ d.name \in Word /\ d.id \in BOOLEAN
  <2>1. Seq(STRING) \subseteq Pieces /\ STRING \subseteq Word BY DEF Pieces, Word
  <2>2. i \in Tools /\ d.args \in Seq(STRING) /\ d.name \in STRING /\ d.id \in BOOLEAN
    BY DEF ToolDeltas
  <2>. QED BY <2>1, <2>2 DEF Ready
<1>3. old \in BufType BY <1>2, ToolStarted
<1>. HIDE DEF old, i, w
<1>4. /\ b \in BufType /\ b.args = old.args /\ b.started = old.started
      /\ b.closed = old.closed /\ b.at = old.at
  <2>1. old.name \in Word /\ old.id \in BOOLEAN BY <1>3 DEF BufType
  <2>2. (old.id \/ d.id) \in BOOLEAN BY <1>2, <2>1
  <2>3. (IF d.name = NoName THEN old.name ELSE d.name) \in Word BY <1>2, <2>1
  <2>. QED BY <1>3, <2>2, <2>3 DEF BufType
<1>. HIDE DEF b
<1>5. Named(u, v, i, b) BY <1>2, <1>4, NamesSeenIs
<1>. HIDE DEF v
<1>6. Tooled(c, u, v) BY <1>2, <1>4, <1>5, NamedTooled DEF old
<1>7. Ready(c, v) /\ v.started = TRUE BY <1>6 DEF Tooled, Quietly
<1>8. Tooled(c, u, note)
  <2>1. Tooled(c, v, note) BY <1>7, NoticeStops
  <2>. HIDE DEF note
  <2>. QED BY <1>6, <2>1, TooledThen
<1>9. Tooled(c, u, y)
  <2>1. Argued(v, y, i, d.args) BY DEF Argued
  <2>. HIDE DEF y
  <2>2. Tooled(c, v, y) BY <1>2, <1>7, <2>1, ArgsTooled
  <2>. QED BY <1>6, <2>2, TooledThen
<1>. HIDE DEF note, y
<1>10. Tooled(c, u, w) BY <1>1, <1>8, <1>9, TooledNothing
<1>. QED BY <1>10 DEF w

IsCalling(f, u, deltas) ==
  f = [n \in 0..Len(deltas) |-> IF n = 0 THEN u ELSE Tool(f[n - 1], deltas[n])]

Calling(u, deltas) == CHOOSE f : IsCalling(f, u, deltas)

\* The loop over delta.tool_calls.
LEMMA AllToolsTooled ==
  ASSUME NEW c, NEW u, Ready(c, u), u.started = TRUE, NEW deltas \in Seq(ToolDeltas)
  PROVE  Tooled(c, u, AllTools(u, deltas))
<1>. DEFINE N == Len(deltas)
            A == {x \in Translators : Tooled(c, u, x)}
            step == [k \in 1..N |-> [x \in A |-> Tool(x, deltas[k])]]
            g == Calling(u, deltas)
<1>1. N \in Nat /\ \A k \in 1..N : deltas[k] \in ToolDeltas OBVIOUS
<1>2. u \in A
  <2>1. Tooled(c, u, u) BY TooledNothing
  <2>. QED BY <2>1 DEF Ready
<1>. HIDE DEF N
<1>3. ASSUME NEW k \in 1..N, NEW x \in A PROVE Tool(x, deltas[k]) \in A
  <2>1. Tooled(c, u, x) OBVIOUS
  <2>2. Ready(c, x) /\ x.started = TRUE BY <2>1 DEF Tooled, Quietly
  <2>3. Tooled(c, x, Tool(x, deltas[k])) BY <1>1, <2>2, ToolTooled
  <2>4. Tooled(c, u, Tool(x, deltas[k])) BY <2>1, <2>3, TooledThen
  <2>5. Tool(x, deltas[k]) \in Translators BY <2>4 DEF Tooled
  <2>. QED BY <2>4, <2>5
<1>. HIDE DEF A
<1>4. step \in [1..N -> [A -> A]] BY <1>3
<1>5. \A k \in 1..N : \A x \in A : step[k][x] = Tool(x, deltas[k]) OBVIOUS
<1>. HIDE DEF step
<1>6. PICK f \in [0..N -> A] : IsRun(f, N, u, step) BY <1>1, <1>2, <1>4, Recursion
<1>7. IsCalling(f, u, deltas)
  <2>1. ASSUME NEW k \in 0..N
        PROVE  f[k] = IF k = 0 THEN u ELSE Tool(f[k - 1], deltas[k])
    <3>1. k = 0 \/ (k \in 1..N /\ k - 1 \in 0..N) BY <1>1
    <3>. QED BY <1>5, <1>6, <3>1 DEF IsRun
  <2>. QED BY <1>6, <2>1 DEF IsCalling, N
<1>8. IsCalling(g, u, deltas) BY <1>7 DEF Calling
<1>. HIDE DEF g
<1>9. g = [k \in 0..N |-> IF k = 0 THEN u ELSE Tool(g[k - 1], deltas[k])]
  BY <1>8 DEF IsCalling, N
<1>10. g[0] = u /\ \A k \in 1..N : g[k] = Tool(g[k - 1], deltas[k])
  <2>1. 0 \in 0..N /\ \A k \in 1..N : k \in 0..N /\ k # 0 BY <1>1
  <2>. QED BY <1>9, <2>1
<1>. DEFINE good == {k \in 0..N : g[k] \in A}
<1>11. 0 \in good BY <1>1, <1>2, <1>10
<1>12. \A k \in 1..N : k - 1 \in good => k \in good BY <1>1, <1>3, <1>10
<1>13. N \in good
  <2>. HIDE DEF good
  <2>1. \A k \in 0..N : k \in good BY <1>1, <1>11, <1>12, Climb
  <2>. QED BY <1>1, <2>1
<1>14. Tooled(c, u, g[N]) BY <1>13 DEF A
<1>15. AllTools(u, deltas) = g[N] BY DEF AllTools, g, N, Calling, IsCalling
<1>. QED BY <1>14, <1>15
-----------------------------------------------------------------------------
(***************************************************************************)
(* The end of the calls: _flush_tools.                                     *)
(***************************************************************************)
\* Tool i is due a block: the one it has streamed, or one at the end.
Due(u, i) ==
  \/ u.tools[i].started = TRUE
  \/ u.tools[i].id = TRUE /\ u.tools[i].name \in Declared /\ Valid(u.tools[i].args)

\* What the block has to say.
DueArgs(u, i) ==
  IF u.tools[i].started = TRUE THEN u.tools[i].args ELSE Stripped(u.tools[i].args)

\* Tool i has the block that is due, and no other.
Has(content, u, i) ==
  /\ Due(u, i) => \E n : BlocksOf(content, i) = {n} /\ content[n].body = DueArgs(u, i)
  /\ ~Due(u, i) => BlocksOf(content, i) = {}

\* The tools before k, and those that streamed, have their blocks.
Sent(content, u, k) ==
  \A j \in Tools :
    /\ j < k \/ u.tools[j].started = TRUE => Has(content, u, j)
    /\ j >= k /\ u.tools[j].started = FALSE => BlocksOf(content, j) = {}

\* What _flush_tool does for tool i.
Serves(c, u, v, i) ==
  IF u.tools[i].started = FALSE /\ Due(u, i)
  THEN \E n : Called(Shows(c, u), Shows(c, v), i, n, Stripped(u.tools[i].args))
  ELSE SameCalls(Shows(c, u), Shows(c, v))

\* From u to v nothing is said but notices, and the tools stay what they are.
Flushes(c, u, v) == Quietly(c, u, v) /\ SameTools(u, v) /\ v.finished = u.finished

LEMMA FlushesNothing ==
  ASSUME NEW c, NEW u, Ready(c, u)
  PROVE  Flushes(c, u, u) /\ SameCalls(Shows(c, u), Shows(c, u))
<1>1. Quietly(c, u, u) BY QuietlyNothing DEF Holds
<1>. QED BY <1>1 DEF Flushes, SameTools, SameCalls

LEMMA FlushesThen ==
  ASSUME NEW c, NEW u, NEW v, NEW w, Ready(c, u), Flushes(c, u, v), Flushes(c, v, w)
  PROVE  Flushes(c, u, w)
<1>1. Quietly(c, u, w) BY QuietlyThen DEF Flushes
<1>2. SameTools(u, w) BY DEF Flushes, SameTools
<1>. QED BY <1>1, <1>2 DEF Flushes

\* A notice instead of the call.
LEMMA NoticeFlushes ==
  ASSUME NEW c, NEW u, Ready(c, u), u.started = TRUE
  PROVE  /\ Flushes(c, u, TextInto(u, <<"notice">>))
         /\ SameCalls(Shows(c, u), Shows(c, TextInto(u, <<"notice">>)))
<1>. DEFINE note == <<"notice">>
            v == TextInto(u, note)
<1>1. note \in Pieces /\ Same(note, <<>>) /\ Thoughts(note) = 0 BY MeasureNotice
<1>. HIDE DEF note
<1>2. Speaks(c, u, v, note) /\ Leaves(u, v) BY <1>1, TextIntoSpeaks
<1>. HIDE DEF v
<1>3. Holds(u, v) /\ v.finished = u.finished BY <1>2 DEF Leaves, Holds
<1>4. Quietly(c, u, v) BY <1>1, <1>2, <1>3 DEF Quietly, Speaks
<1>5. SameTools(u, v) /\ SameCalls(Shows(c, u), Shows(c, v)) BY <1>2 DEF Speaks
<1>. QED BY <1>3, <1>4, <1>5 DEF Flushes, v, note

\* The open block is closed.
LEMMA ClosedFlushes ==
  ASSUME NEW c, NEW u, Ready(c, u), u.started = TRUE
  PROVE  Flushes(c, u, Closed(u)) /\ SameCalls(Shows(c, u), Shows(c, Closed(u)))
<1>. DEFINE v == Closed(u)
<1>1. Speaks(c, u, v, <<>>) /\ Leaves(u, v) BY ClosedSpeaks
<1>. HIDE DEF v
<1>2. Holds(u, v) /\ v.finished = u.finished BY <1>1 DEF Leaves, Holds
<1>3. Emits(c, u, v, <<>>) BY <1>1, SpeaksEmits
<1>4. Quietly(c, u, v) BY <1>2, <1>3, QuietlyEmits
<1>5. SameTools(u, v) /\ SameCalls(Shows(c, u), Shows(c, v)) BY <1>1 DEF Speaks
<1>. QED BY <1>2, <1>4, <1>5 DEF Flushes, v

\* The call as one block.
LEMMA OneBlock ==
  ASSUME NEW c, NEW u, Ready(c, u), u.started = TRUE, NEW i \in Tools,
         u.tools[i].started = FALSE, NEW w, NEW body,
         Unstarted(c, u, w, i, body), NEW n, NEW x, Retools(w, x, [w.tools EXCEPT ![i].at = n]),
         n \in Nat
  PROVE  /\ Flushes(c, u, Closed(x))
         /\ Called(Shows(c, u), Shows(c, Closed(x)), i, u.next + 1, body)
<1>. DEFINE tools == [w.tools EXCEPT ![i].at = n]
            y == Closed(x)
            a == Shows(c, u)
            d == Shows(c, x)
            e == Shows(c, y)
            m == u.next + 1
<1>1. /\ Ready(c, w) /\ Leaves(u, w) /\ w.started = u.started /\ w.budget = u.budget
      /\ w.open = "tool_use" /\ Said(Shows(c, w)) = Said(a)
      /\ Called(a, Shows(c, w), i, m, body) /\ w.tools = Closed(u).tools
  BY DEF Unstarted
<1>2. SameTools(u, w)
  <2>1. SameTools(u, Closed(u)) BY ClosedKeepsTools
  <2>. QED BY <1>1, <2>1 DEF SameTools
<1>3. w \in Translators /\ w.tools \in [Tools -> BufType] BY <1>1 DEF Ready, Translators
<1>4. /\ tools \in [Tools -> BufType]
      /\ \A j \in Tools : /\ tools[j].id = w.tools[j].id /\ tools[j].name = w.tools[j].name
                          /\ tools[j].args = w.tools[j].args
                          /\ tools[j].started = w.tools[j].started
                          /\ tools[j].closed = w.tools[j].closed
                          /\ j # i => tools[j] = w.tools[j]
  <2>. DEFINE b == [w.tools[i] EXCEPT !.at = n]
  <2>1. w.tools[i] \in BufType BY <1>3
  <2>2. /\ b \in BufType /\ b.id = w.tools[i].id /\ b.name = w.tools[i].name
        /\ b.args = w.tools[i].args /\ b.started = w.tools[i].started
        /\ b.closed = w.tools[i].closed
    BY <2>1 DEF BufType
  <2>3. tools = [w.tools EXCEPT ![i] = b] OBVIOUS
  <2>. HIDE DEF b, tools
  <2>4. tools \in [Tools -> BufType] /\ tools[i] = b /\ \A j \in Tools : j # i => tools[j] = w.tools[j]
    BY <1>3, <2>2, <2>3
  <2>5. ASSUME NEW j \in Tools
        PROVE  /\ tools[j].id = w.tools[j].id /\ tools[j].name = w.tools[j].name
               /\ tools[j].args = w.tools[j].args /\ tools[j].started = w.tools[j].started
               /\ tools[j].closed = w.tools[j].closed
    <3>1. CASE j = i BY <2>2, <2>4, <3>1
    <3>2. CASE j # i BY <2>4, <3>2
    <3>. QED BY <3>1, <3>2
  <2>. QED BY <2>4, <2>5
<1>5. Retools(w, x, tools) OBVIOUS
<1>. HIDE DEF tools
<1>6. /\ x \in Translators /\ x.tools = tools /\ x.out = w.out /\ x.started = w.started
      /\ x.next = w.next /\ x.open = w.open /\ x.budget = w.budget
      /\ Holds(w, x) /\ x.finished = w.finished
  BY <1>3, <1>4, <1>5, RetoolsIs DEF Holds
<1>7. OpenTools(x)
  <2>1. OpenTools(w) BY <1>1 DEF Ready
  <2>2. u.tools[i].started = w.tools[i].started BY <1>2 DEF SameTools
  <2>3. ASSUME NEW j \in Tools, x.tools[j].started = TRUE, x.tools[j].closed = FALSE
        PROVE  x.open = "tool_use" /\ x.tools[j].at = x.next - 1
    <3>1. j # i BY <1>4, <1>6, <2>2, <2>3
    <3>2. x.tools[j] = w.tools[j] BY <1>4, <1>6, <3>1
    <3>. QED BY <1>6, <2>1, <2>3, <3>2 DEF OpenTools
  <2>. QED BY <2>3 DEF OpenTools
<1>8. Ready(c, x) /\ d = Shows(c, w) BY <1>1, <1>6, <1>7, ReadyTools
<1>9. Flushes(c, u, x)
  <2>1. Holds(u, x) /\ x.finished = u.finished BY <1>1, <1>6 DEF Holds, Leaves
  <2>2. Quietly(c, u, x)
    <3>1. x.started = u.started /\ x.budget = u.budget /\ Said(d) = Said(a) BY <1>1, <1>6, <1>8
    <3>. QED BY <1>8, <2>1, <3>1, QuietlyNothing
  <2>3. SameTools(u, x)
    <3>1. SameTools(w, x) BY <1>4, <1>6 DEF SameTools
    <3>. QED BY <1>2, <3>1 DEF SameTools
  <2>. QED BY <2>1, <2>2, <2>3 DEF Flushes
<1>10. x.started = TRUE BY <1>1, <1>6
<1>11. Flushes(c, x, y) /\ SameCalls(d, e) BY <1>8, <1>10, ClosedFlushes
<1>. HIDE DEF y
<1>12. Flushes(c, u, y) BY <1>9, <1>11, FlushesThen
<1>13. Called(a, d, i, m, body) BY <1>1, <1>8
<1>. HIDE DEF a, d, e, m
<1>14. Called(a, e, i, m, body)
  <2>1. /\ BlocksOf(d, i) = BlocksOf(a, i) \cup {m}
        /\ \A j \in Tools \ {i} : BlocksOf(d, j) = BlocksOf(a, j)
        /\ \A j \in Tools : \A k \in BlocksOf(a, j) : d[k].body = a[k].body
        /\ d[m].body = body
    BY <1>13 DEF Called
  <2>2. \A j \in Tools : BlocksOf(e, j) = BlocksOf(d, j) /\ \A k \in BlocksOf(d, j) : e[k].body = d[k].body
    BY <1>11 DEF SameCalls
  <2>3. BlocksOf(e, i) = BlocksOf(a, i) \cup {m} /\ \A j \in Tools \ {i} : BlocksOf(e, j) = BlocksOf(a, j)
    BY <2>1, <2>2
  <2>4. ASSUME NEW j \in Tools, NEW k \in BlocksOf(a, j) PROVE e[k].body = a[k].body
    <3>1. k \in BlocksOf(d, j) BY <2>1
    <3>. QED BY <2>1, <2>2, <3>1
  <2>5. e[m].body = body
    <3>1. m \in BlocksOf(d, i) BY <2>1
    <3>. QED BY <2>1, <2>2, <3>1
  <2>. QED BY <2>3, <2>4, <2>5 DEF Called
<1>. QED BY <1>12, <1>14 DEF y, a, e, m

\* _flush_tool
LEMMA FlushedServes ==
  ASSUME NEW c, NEW u, Ready(c, u), u.started = TRUE, NEW i \in Tools
  PROVE  Flushes(c, u, Flushed(u, i)) /\ Serves(c, u, Flushed(u, i), i)
<1>. DEFINE b == u.tools[i]
            body == Stripped(b.args)
            v == Opened(u, "tool_use", i)
            w == IF body = <<>> THEN v ELSE Delta(v, "input_json_delta", body)
            x == [w EXCEPT !.tools[i].at = v.next - 1]
            f == Flushed(u, i)
<1>1. b \in BufType /\ b.started \in BOOLEAN /\ b.id \in BOOLEAN
  <2>1. u \in Translators BY DEF Ready
  <2>2. b \in BufType BY <2>1, ToolStarted
  <2>. QED BY <2>2 DEF BufType
<1>2. CASE ~b.id \/ b.name = NoName \/ b.started
  <2>1. f = u BY <1>2 DEF Flushed
  <2>2. ~(u.tools[i].started = FALSE /\ Due(u, i))
    <3>1. NoName \notin Declared BY TranslatorAssumption
    <3>. QED BY <1>1, <1>2, <3>1 DEF Due
  <2>3. Flushes(c, u, u) /\ SameCalls(Shows(c, u), Shows(c, u)) BY FlushesNothing
  <2>. HIDE DEF f
  <2>. QED BY <2>1, <2>2, <2>3 DEF Serves, f
<1>3. CASE /\ ~(~b.id \/ b.name = NoName \/ b.started)
           /\ b.name \notin Declared \/ ~Valid(b.args)
  <2>1. f = TextInto(u, <<"notice">>) BY <1>3 DEF Flushed
  <2>2. ~(u.tools[i].started = FALSE /\ Due(u, i)) BY <1>1, <1>3 DEF Due
  <2>3. Flushes(c, u, TextInto(u, <<"notice">>)) /\ SameCalls(Shows(c, u), Shows(c, TextInto(u, <<"notice">>)))
    BY NoticeFlushes
  <2>. HIDE DEF f
  <2>. QED BY <2>1, <2>2, <2>3 DEF Serves, f
<1>4. CASE /\ ~(~b.id \/ b.name = NoName \/ b.started)
           /\ ~(b.name \notin Declared \/ ~Valid(b.args))
  <2>1. f = Closed(x) BY <1>4 DEF Flushed
  <2>2. u.tools[i].started = FALSE /\ Due(u, i) BY <1>1, <1>4 DEF Due
  <2>3. body \in Pieces
    <3>1. body = <<>> \/ body = <<"{", "}">> BY <1>4 DEF Valid
    <3>2. "{" \in Word /\ "}" \in Word BY DEF Word, Literals
    <3>3. \A p, q \in Word : <<p, q>> \in Seq(Word) OBVIOUS
    <3>4. <<"{", "}">> \in Pieces BY <3>2, <3>3 DEF Pieces
    <3>. HIDE DEF body
    <3>. QED BY <3>1, <3>4, EmptyPlain
  <2>4. Unstarted(c, u, w, i, body)
    <3>. HIDE DEF body
    <3>1. Unstarted(c, u, v, i, <<>>) /\ Unstarted(c, u, Delta(v, "input_json_delta", body), i, body)
      BY <2>3, ToolOpens
    <3>. QED BY <3>1
  <2>5. v.next - 1 \in Nat
    <3>1. Unstarted(c, u, v, i, <<>>) BY <2>3, ToolOpens
    <3>. HIDE DEF v
    <3>2. u.next \in Nat BY DEF Ready, Translators
    <3>. QED BY <3>1, <3>2 DEF Unstarted
  <2>. DEFINE n == v.next - 1
  <2>6. Retools(w, x, [w.tools EXCEPT ![i].at = n])
    BY DEF Retools
  <2>. HIDE DEF f, x, w, n, body, v
  <2>7. /\ Flushes(c, u, Closed(x))
        /\ Called(Shows(c, u), Shows(c, Closed(x)), i, u.next + 1, body)
    BY <2>2, <2>4, <2>5, <2>6, OneBlock DEF n
  <2>. QED BY <2>1, <2>2, <2>7 DEF Serves, f, body
<1>. QED BY <1>2, <1>3, <1>4

\* What is due does not change when the tools stay what they are.
LEMMA HasSame ==
  ASSUME NEW u, NEW v, SameTools(u, v), NEW i \in Tools
  PROVE  (Due(v, i) <=> Due(u, i)) /\ DueArgs(v, i) = DueArgs(u, i)
<1>1. /\ v.tools[i].id = u.tools[i].id /\ v.tools[i].name = u.tools[i].name
      /\ v.tools[i].args = u.tools[i].args /\ v.tools[i].started = u.tools[i].started
  BY DEF SameTools
<1>. QED BY <1>1 DEF Due, DueArgs

LEMMA HasCarried ==
  ASSUME NEW a, NEW d, NEW u, NEW v, SameTools(u, v), NEW i \in Tools, Has(a, u, i),
         BlocksOf(d, i) = BlocksOf(a, i), \A k \in BlocksOf(a, i) : d[k].body = a[k].body
  PROVE  Has(d, v, i)
<1>1. (Due(v, i) <=> Due(u, i)) /\ DueArgs(v, i) = DueArgs(u, i) BY HasSame
<1>2. CASE Due(u, i)
  <2>1. PICK n : BlocksOf(a, i) = {n} /\ a[n].body = DueArgs(u, i) BY <1>2 DEF Has
  <2>2. BlocksOf(d, i) = {n} /\ d[n].body = DueArgs(v, i) BY <1>1, <2>1
  <2>. QED BY <1>1, <1>2, <2>2 DEF Has
<1>3. CASE ~Due(u, i) BY <1>1, <1>3 DEF Has
<1>. QED BY <1>2, <1>3

\* After _flush_tool for tool k, the tools up to k have their blocks.
LEMMA SentMore ==
  ASSUME NEW c, NEW u, NEW v, Ready(c, u), NEW k \in Tools, SameTools(u, v),
         Serves(c, u, v, k), Sent(Shows(c, u), u, k)
  PROVE  Sent(Shows(c, v), v, k + 1)
<1>. DEFINE a == Shows(c, u)
            d == Shows(c, v)
            new == u.tools[k].started = FALSE /\ Due(u, k)
<1>1. \A j \in Tools : /\ v.tools[j].started = u.tools[j].started
                       /\ u.tools[j].started \in BOOLEAN
  <2>1. u \in Translators BY DEF Ready
  <2>. QED BY <2>1, ToolStarted DEF SameTools
<1>2. IF new THEN \E n : Called(a, d, k, n, Stripped(u.tools[k].args)) ELSE SameCalls(a, d)
  BY DEF Serves
<1>3. Sent(a, u, k) OBVIOUS
<1>. HIDE DEF a, d
<1>4. ASSUME NEW j \in Tools, j # k \/ ~new
      PROVE  BlocksOf(d, j) = BlocksOf(a, j) /\ \A n \in BlocksOf(a, j) : d[n].body = a[n].body
  <2>1. CASE new
    <3>1. PICK n : Called(a, d, k, n, Stripped(u.tools[k].args)) BY <1>2, <2>1
    <3>. QED BY <1>4, <2>1, <3>1 DEF Called
  <2>2. CASE ~new
    <3>1. SameCalls(a, d) BY <1>2, <2>2
    <3>. QED BY <3>1 DEF SameCalls
  <2>. QED BY <2>1, <2>2
<1>5. ASSUME new PROVE Has(d, v, k)
  <2>1. PICK n : Called(a, d, k, n, Stripped(u.tools[k].args)) BY <1>2, <1>5
  <2>2. BlocksOf(a, k) = {}
    <3>1. k >= k BY DEF Tools
    <3>. QED BY <1>3, <1>5, <3>1 DEF Sent
  <2>3. BlocksOf(d, k) = {n} /\ d[n].body = Stripped(u.tools[k].args) BY <2>1, <2>2 DEF Called
  <2>4. Due(v, k) /\ DueArgs(v, k) = Stripped(u.tools[k].args)
    <3>1. DueArgs(u, k) = Stripped(u.tools[k].args) BY <1>5 DEF DueArgs
    <3>. QED BY <1>5, <3>1, HasSame
  <2>. QED BY <2>3, <2>4 DEF Has
<1>6. ASSUME NEW j \in Tools
      PROVE  /\ j < k + 1 \/ v.tools[j].started = TRUE => Has(d, v, j)
             /\ j >= k + 1 /\ v.tools[j].started = FALSE => BlocksOf(d, j) = {}
  <2>1. CASE j < k \/ u.tools[j].started = TRUE
    <3>1. Has(a, u, j) BY <1>3, <2>1 DEF Sent
    <3>2. j # k \/ ~new BY <2>1 DEF Tools
    <3>3. BlocksOf(d, j) = BlocksOf(a, j) /\ \A n \in BlocksOf(a, j) : d[n].body = a[n].body
      BY <1>4, <3>2
    <3>4. Has(d, v, j) BY <3>1, <3>3, HasCarried
    <3>5. ~(j >= k + 1 /\ v.tools[j].started = FALSE) BY <1>1, <2>1 DEF Tools
    <3>. QED BY <3>4, <3>5
  <2>2. CASE j >= k /\ u.tools[j].started = FALSE
    <3>1. BlocksOf(a, j) = {} BY <1>3, <2>2 DEF Sent
    <3>2. v.tools[j].started = FALSE BY <1>1, <2>2
    <3>3. CASE j = k
      <4>1. CASE new
        <5>1. Has(d, v, j) BY <1>5, <3>3, <4>1
        <5>2. ~(j >= k + 1) BY <3>3 DEF Tools
        <5>. QED BY <5>1, <5>2
      <4>2. CASE ~new
        <5>1. ~Due(u, j) BY <2>2, <3>3, <4>2
        <5>2. ~Due(v, j) BY <5>1, HasSame
        <5>3. BlocksOf(d, j) = {} BY <1>4, <3>1, <4>2
        <5>4. Has(d, v, j) BY <5>2, <5>3 DEF Has
        <5>. QED BY <5>3, <5>4
      <4>. QED BY <4>1, <4>2
    <3>4. CASE j # k
      <4>1. BlocksOf(d, j) = {} BY <1>4, <3>1, <3>4
      <4>2. ~(j < k + 1) BY <2>2, <3>4 DEF Tools
      <4>. QED BY <3>2, <4>1, <4>2
    <3>. QED BY <3>3, <3>4
  <2>3. (j < k \/ u.tools[j].started = TRUE) \/ (j >= k /\ u.tools[j].started = FALSE)
    BY <1>1 DEF Tools
  <2>. QED BY <2>1, <2>2, <2>3
<1>7. Sent(d, v, k + 1) BY <1>6 DEF Sent
<1>. QED BY <1>7 DEF d

\* When the tools are in order and the block is closed, those that streamed
\* have their block.
LEMMA InOrderSent ==
  ASSUME NEW c, NEW u, NEW v, Ready(c, u), SameTools(u, v),
         SameCalls(Shows(c, u), Shows(c, v)), InOrder(Shows(c, u), u, Args(u))
  PROVE  Sent(Shows(c, v), v, 0)
<1>. DEFINE a == Shows(c, u)
            d == Shows(c, v)
<1>1. SameCalls(a, d) /\ InOrder(a, u, Args(u)) OBVIOUS
<1>. HIDE DEF a, d
<1>2. ASSUME NEW j \in Tools
      PROVE  /\ j < 0 \/ v.tools[j].started = TRUE => Has(d, v, j)
             /\ j >= 0 /\ v.tools[j].started = FALSE => BlocksOf(d, j) = {}
  <2>1. v.tools[j].started = u.tools[j].started BY DEF SameTools
  <2>2. BlocksOf(d, j) = BlocksOf(a, j) /\ \A n \in BlocksOf(a, j) : d[n].body = a[n].body
    BY <1>1 DEF SameCalls
  <2>3. ~(j < 0) BY DEF Tools
  <2>4. ASSUME u.tools[j].started = TRUE PROVE Has(d, v, j)
    <3>1. BlocksOf(a, j) = {u.next} /\ a[u.next].body = u.tools[j].args
      BY <1>1, <2>4 DEF InOrder, Args
    <3>2. Due(u, j) /\ DueArgs(u, j) = u.tools[j].args BY <2>4 DEF Due, DueArgs
    <3>3. Has(a, u, j) BY <3>1, <3>2 DEF Has
    <3>. QED BY <2>2, <3>3, HasCarried
  <2>5. u.tools[j].started = FALSE => BlocksOf(d, j) = {} BY <1>1, <2>2 DEF InOrder
  <2>. QED BY <2>1, <2>3, <2>4, <2>5
<1>3. Sent(d, v, 0) BY <1>2 DEF Sent
<1>. QED BY <1>3 DEF d

\* Each tool has the block that is due, and no other.
Arrived(content, u) == \A i \in Tools : Has(content, u, i)

IsFlushing(f, u) ==
  f = [n \in 0..MaxTools |-> IF n = 0 THEN Closed(u) ELSE Flushed(f[n - 1], n - 1)]

Flushing(u) == CHOOSE f : IsFlushing(f, u)

LEMMA AllFlushedArrive ==
  ASSUME NEW c, NEW u, Ready(c, u), u.started = TRUE
  PROVE  /\ Flushes(c, u, AllFlushed(u))
         /\ InOrder(Shows(c, u), u, Args(u)) => Arrived(Shows(c, AllFlushed(u)), AllFlushed(u))
<1>. DEFINE N == MaxTools
            A == {x \in Translators : Flushes(c, u, x)}
            first == Closed(u)
            step == [k \in 1..N |-> [x \in A |-> Flushed(x, k - 1)]]
            g == Flushing(u)
<1>1. N \in Nat /\ \A k \in 1..N : k - 1 \in Tools /\ k - 1 + 1 = k
  BY TranslatorAssumption DEF Tools
<1>2. Flushes(c, u, first) /\ SameCalls(Shows(c, u), Shows(c, first)) BY ClosedFlushes
<1>. HIDE DEF N, first
<1>3. first \in A
  <2>1. first \in Translators BY <1>2 DEF Flushes, Quietly, Ready
  <2>. QED BY <1>2, <2>1
<1>4. ASSUME NEW k \in 1..N, NEW x \in A
      PROVE  /\ Flushed(x, k - 1) \in A /\ Ready(c, x) /\ SameTools(x, Flushed(x, k - 1))
             /\ Serves(c, x, Flushed(x, k - 1), k - 1)
  <2>1. Flushes(c, u, x) OBVIOUS
  <2>2. Ready(c, x) /\ x.started = TRUE BY <2>1 DEF Flushes, Quietly
  <2>3. Flushes(c, x, Flushed(x, k - 1)) /\ Serves(c, x, Flushed(x, k - 1), k - 1)
    BY <1>1, <2>2, FlushedServes
  <2>4. Flushes(c, u, Flushed(x, k - 1)) BY <2>1, <2>3, FlushesThen
  <2>5. Flushed(x, k - 1) \in Translators BY <2>4 DEF Flushes, Quietly, Ready
  <2>6. SameTools(x, Flushed(x, k - 1)) BY <2>3 DEF Flushes
  <2>. QED BY <2>2, <2>3, <2>4, <2>5, <2>6
<1>. HIDE DEF A
<1>5. step \in [1..N -> [A -> A]] BY <1>4
<1>6. \A k \in 1..N : \A x \in A : step[k][x] = Flushed(x, k - 1) OBVIOUS
<1>. HIDE DEF step
<1>7. PICK f \in [0..N -> A] : IsRun(f, N, first, step) BY <1>1, <1>3, <1>5, Recursion
<1>8. IsFlushing(f, u)
  <2>1. ASSUME NEW k \in 0..N
        PROVE  f[k] = IF k = 0 THEN first ELSE Flushed(f[k - 1], k - 1)
    <3>1. k = 0 \/ (k \in 1..N /\ k - 1 \in 0..N) BY <1>1
    <3>. QED BY <1>6, <1>7, <3>1 DEF IsRun
  <2>. QED BY <1>7, <2>1 DEF IsFlushing, N, first
<1>9. IsFlushing(g, u) BY <1>8 DEF Flushing
<1>. HIDE DEF g
<1>10. g = [k \in 0..N |-> IF k = 0 THEN first ELSE Flushed(g[k - 1], k - 1)]
  BY <1>9 DEF IsFlushing, N, first
<1>11. g[0] = first /\ \A k \in 1..N : g[k] = Flushed(g[k - 1], k - 1)
  <2>1. 0 \in 0..N /\ \A k \in 1..N : k \in 0..N /\ k # 0 BY <1>1
  <2>. QED BY <1>10, <2>1
<1>. DEFINE ordered == InOrder(Shows(c, u), u, Args(u))
            good == {k \in 0..N : g[k] \in A /\ (ordered => Sent(Shows(c, g[k]), g[k], k))}
<1>12. 0 \in good
  <2>1. SameTools(u, first) BY <1>2 DEF Flushes
  <2>2. ordered => Sent(Shows(c, first), first, 0) BY <1>2, <2>1, InOrderSent
  <2>. HIDE DEF ordered
  <2>. QED BY <1>1, <1>3, <1>11, <2>2
<1>. HIDE DEF ordered
<1>13. \A k \in 1..N : k - 1 \in good => k \in good
  <2>1. SUFFICES ASSUME NEW k \in 1..N, k - 1 \in good PROVE k \in good OBVIOUS
  <2>. DEFINE x == g[k - 1]
              y == Flushed(x, k - 1)
              i == k - 1
  <2>2. x \in A /\ (ordered => Sent(Shows(c, x), x, i)) BY <2>1
  <2>. HIDE DEF x
  <2>3. y \in A /\ Ready(c, x) /\ SameTools(x, y) /\ Serves(c, x, y, i) BY <1>4, <2>2
  <2>4. g[k] = y BY <1>11 DEF x
  <2>5. i \in Tools /\ i + 1 = k BY <1>1
  <2>. HIDE DEF y, i
  <2>6. ordered => Sent(Shows(c, y), y, i + 1) BY <2>2, <2>3, <2>5, SentMore
  <2>. QED BY <2>3, <2>4, <2>5, <2>6
<1>14. N \in good
  <2>. HIDE DEF good
  <2>1. \A k \in 0..N : k \in good BY <1>1, <1>12, <1>13, Climb
  <2>. QED BY <1>1, <2>1
<1>. DEFINE z == g[N]
<1>15. z \in A /\ (ordered => Sent(Shows(c, z), z, N)) BY <1>14
<1>. HIDE DEF z
<1>16. Flushes(c, u, z) BY <1>15 DEF A
<1>17. ordered => Arrived(Shows(c, z), z)
  <2>1. \A j \in Tools : j < N BY <1>1 DEF Tools, N
  <2>. QED BY <1>15, <2>1 DEF Sent, Arrived
<1>18. AllFlushed(u) = z BY DEF AllFlushed, z, g, N, Flushing, IsFlushing
<1>. QED BY <1>16, <1>17, <1>18 DEF ordered

\* The finish chunk: everything still buffered goes out.
LEMMA FinishedArrive ==
  ASSUME NEW c, NEW u, Ready(c, u), u.started = TRUE, NEW finish
  PROVE  /\ Flushes(c, u, Finished(u, finish))
         /\ finish = "none" => Finished(u, finish) = u
         /\ finish # "none" /\ u.finished = FALSE /\ InOrder(Shows(c, u), u, Args(u))
              => Arrived(Shows(c, Finished(u, finish)), Finished(u, finish))
<1>. DEFINE v == AllFlushed(u)
            w == [v EXCEPT !.stop = StopReason(finish)]
            x == Finished(u, finish)
<1>1. u \in Translators /\ u.finished \in BOOLEAN BY DEF Ready, Translators
<1>2. CASE finish = "none" \/ u.finished
  <2>1. x = u BY <1>2 DEF Finished
  <2>2. Flushes(c, u, u) BY FlushesNothing
  <2>3. finish = "none" \/ u.finished = TRUE BY <1>1, <1>2
  <2>. HIDE DEF x
  <2>. QED BY <2>1, <2>2, <2>3 DEF x
<1>3. CASE ~(finish = "none" \/ u.finished)
  <2>1. x = w BY <1>3 DEF Finished
  <2>2. /\ Flushes(c, u, v)
        /\ InOrder(Shows(c, u), u, Args(u)) => Arrived(Shows(c, v), v)
    BY AllFlushedArrive
  <2>. HIDE DEF v, x
  <2>3. Ready(c, v) /\ v \in Translators BY <2>2 DEF Flushes, Quietly, Ready
  <2>4. StopReason(finish) \in Word BY DEF StopReason, Word, Literals
  <2>5. /\ w \in Translators /\ w.out = v.out /\ w.started = v.started /\ w.next = v.next
        /\ w.open = v.open /\ w.tools = v.tools /\ w.budget = v.budget /\ Holds(v, w)
        /\ w.finished = v.finished
    BY <2>3, <2>4 DEF Translators, Holds
  <2>. HIDE DEF w
  <2>6. Ready(c, w) /\ Shows(c, w) = Shows(c, v) BY <2>3, <2>5, ReadySame
  <2>7. Flushes(c, v, w)
    <3>1. Quietly(c, v, w) BY <2>3, <2>5, <2>6, QuietlyNothing
    <3>. QED BY <2>5, <3>1 DEF Flushes, SameTools
  <2>8. Flushes(c, u, w) BY <2>2, <2>7, FlushesThen
  <2>9. ASSUME Arrived(Shows(c, v), v) PROVE Arrived(Shows(c, w), w)
    <3>1. ASSUME NEW i \in Tools PROVE Has(Shows(c, w), w, i)
      <4>1. Has(Shows(c, v), v, i) BY <2>9 DEF Arrived
      <4>2. SameTools(v, w) BY <2>7 DEF Flushes
      <4>. QED BY <2>6, <4>1, <4>2, HasCarried
    <3>. QED BY <3>1 DEF Arrived
  <2>. QED BY <1>3, <2>1, <2>2, <2>8, <2>9 DEF x
<1>. QED BY <1>2, <1>3
-----------------------------------------------------------------------------
(***************************************************************************)
(* A chunk, and the end of the message.                                    *)
(***************************************************************************)
\* _ensure_started: a client that has nothing may receive message_start.
LEMMA MessageStartedReady ==
  ASSUME NEW c, NEW u, Ready(c, u)
  PROVE  LET v == MessageStarted(u)
         IN  /\ Ready(c, v) /\ v.started = TRUE /\ Shows(c, v) = Shows(c, u)
             /\ v.tools = u.tools /\ v.open = u.open /\ v.next = u.next
             /\ v.budget = u.budget /\ v.streaming = u.streaming /\ Leaves(u, v)
<1>. DEFINE e == Event("message_start", 0, "none", NoTool, <<>>)
            v == MessageStarted(u)
            d == After(c, u.out)
            out == u.out \o <<e>>
<1>1. /\ u \in Translators /\ u.started \in BOOLEAN /\ c \in Clients /\ OpenTools(u)
      /\ u.out \in Seq(EventType) /\ Lawful(c, u.out) /\ Agrees(d, u) /\ d \in Clients
  BY ReadyType DEF Ready, Translators
<1>2. CASE u.started = TRUE
  <2>1. v = u BY <1>2 DEF MessageStarted
  <2>. HIDE DEF v
  <2>2. /\ Ready(c, v) /\ v.started = TRUE /\ Shows(c, v) = Shows(c, u)
        /\ v.tools = u.tools /\ v.open = u.open /\ v.next = u.next
        /\ v.budget = u.budget /\ v.streaming = u.streaming /\ Leaves(u, v)
    BY <1>2, <2>1 DEF Leaves
  <2>. QED BY <2>2 DEF v
<1>3. CASE u.started = FALSE
  <2>1. v = [u EXCEPT !.out = out, !.started = TRUE]
    <3>1. v = [Emitted(u, <<e>>) EXCEPT !.started = TRUE] BY <1>3 DEF MessageStarted
    <3>. HIDE DEF v, e
    <3>. QED BY <1>1, <3>1 DEF Emitted, Translators
  <2>2. /\ e \in EventType /\ e.event = "message_start" /\ e.index = 0 /\ e.kind = "none"
    <3>1. "message_start" \in Word /\ "none" \in Word BY Words
    <3>2. <<>> \in Pieces BY EmptyPlain
    <3>. HIDE DEF e
    <3>. QED BY <3>1, <3>2, EventIs DEF e
  <2>. HIDE DEF e, v, d
  <2>3. d.phase = "none" BY <1>1, <1>3 DEF Agrees
  <2>4. Legal(d, e) BY <2>2, <2>3 DEF Legal
  <2>5. /\ out \in Seq(EventType) /\ Lawful(c, out) /\ After(c, out) = Received(d, e)
        /\ Received(d, e) \in Clients
    BY <1>1, <2>2, <2>4, EmitOne DEF d
  <2>6. /\ Received(d, e).phase = "streaming" /\ Received(d, e).content = d.content
        /\ Received(d, e).last.event = "message_start"
    <3>. HIDE DEF out
    <3>1. Received(d, e).last = [event |-> e.event, index |-> e.index,
                                 kind |-> IF e.event = "message_delta" THEN "none" ELSE e.kind]
      BY <1>1, <2>2, <2>4, ReceivedIs
    <3>2. Received(d, e).phase = "streaming" /\ Received(d, e).content = d.content
      BY <1>1, <2>2, <2>4, ReceivedIs
    <3>. QED BY <2>2, <3>1, <3>2
  <2>. HIDE DEF out
  <2>7. /\ v \in Translators /\ v.out = out /\ v.started = TRUE /\ v.tools = u.tools
        /\ v.open = u.open /\ v.next = u.next /\ v.budget = u.budget
        /\ v.streaming = u.streaming /\ Leaves(u, v)
    BY <1>1, <2>1, <2>5 DEF Translators, Leaves
  <2>. DEFINE f == Received(d, e)
  <2>8. Agrees(f, v)
    <3>1. ~Signed(f) BY <2>6 DEF Signed
    <3>. HIDE DEF f
    <3>. QED BY <1>1, <2>5, <2>6, <2>7, <3>1 DEF Agrees, f
  <2>9. OpenTools(v) BY <1>1, <2>7 DEF OpenTools
  <2>10. Ready(c, v) BY <1>1, <2>5, <2>7, <2>8, <2>9 DEF Ready
  <2>11. Shows(c, v) = Shows(c, u) BY <2>5, <2>6, <2>7 DEF Shows, d
  <2>. QED BY <2>7, <2>10, <2>11 DEF v
<1>. QED BY <1>1, <1>2, <1>3

\* Between u and w the client is told s: text, but for whole tags and notices,
\* as far as the scanner has got, and n characters of reasoning as far as the
\* budget goes.
Carries(u, w, s, text, n) ==
  /\ s \in Pieces
  /\ w.finished = FALSE => Same(s \o w.hold, u.hold \o text)
  /\ Part(s \o w.hold, u.hold \o text)
  /\ \A told, sent \in Nat :
       Budgeted(u, told, sent) => Budgeted(w, told + Thoughts(s), sent + n)

\* The parts of feed() that are not about tools.
ContentOf(u, present, n, text) == ScanText(Reasoning(Image(u, present), n), text)

LEMMA ContentCarries ==
  ASSUME NEW c, NEW u, Ready(c, u), u.started = TRUE, u.finished = FALSE, NEW present,
         NEW n \in Nat, NEW text \in Plain
  PROVE  \E s \in Pieces : /\ Speaks(c, u, ContentOf(u, present, n, text), s)
                           /\ Carries(u, ContentOf(u, present, n, text), s, text, n)
<1>. DEFINE v1 == Image(u, present)
            v2 == Reasoning(v1, n)
            w == ScanText(v2, text)
<1>1. Speaks(c, u, v1, <<>>) /\ Leaves(u, v1) BY ImageSpeaks
<1>. HIDE DEF v1
<1>2. Ready(c, v1) /\ v1.started = TRUE /\ v1.budget = u.budget BY <1>1 DEF Speaks
<1>3. Thinks(c, v1, v2, n) BY <1>2, ReasoningThinks
<1>. HIDE DEF v2
<1>4. PICK r \in Pieces :
        /\ Emits(c, v1, v2, r) /\ Same(r, <<>>)
        /\ \A told, sent \in Nat :
             Budgeted(v1, told, sent) => Budgeted(v2, told + Thoughts(r), sent + n)
  BY <1>3 DEF Thinks
<1>5. /\ Ready(c, v2) /\ v2.started = TRUE /\ v2.hold = u.hold /\ v2.finished = FALSE
      /\ v2.budget = u.budget
  BY <1>1, <1>2, <1>3, <1>4, EmitsReady DEF Thinks, Leaves
<1>6. Reads(c, v2, w, text) BY <1>5, ScanTextReads
<1>. HIDE DEF w
<1>7. PICK b \in Plain :
        /\ Emits(c, v2, w, b)
        /\ w.finished = FALSE => Same(b \o w.hold, u.hold \o text)
        /\ w.finished = TRUE => Part(b \o w.hold, u.hold \o text)
  BY <1>5, <1>6 DEF Reads
<1>8. w \in Translators /\ w.budget = u.budget BY <1>5, <1>7, EmitsReady
<1>9. /\ b \in Pieces /\ w.hold \in Pieces /\ u.hold \in Pieces /\ text \in Pieces
      /\ w.finished \in BOOLEAN /\ Thoughts(b) = 0
  <2>1. u \in Translators BY DEF Ready
  <2>2. w.hold \in Plain /\ u.hold \in Plain /\ w.finished \in BOOLEAN
    BY <1>8, <2>1 DEF Translators
  <2>. QED BY <2>2, PlainThoughts
<1>10. Emits(c, u, w, r \o b)
  <2>1. Emits(c, u, v1, <<>>) BY <1>1, SpeaksEmits
  <2>2. Emits(c, u, v2, <<>> \o r) BY <1>4, <2>1, EmitsThen
  <2>3. <<>> \o r = r BY <1>4, ConcatPieces
  <2>4. Emits(c, u, v2, r) BY <2>2, <2>3
  <2>. QED BY <1>7, <2>4, EmitsThen
<1>11. PICK s \in Pieces : Speaks(c, u, w, s) /\ Same(s, r \o b) /\ Thoughts(s) = Thoughts(r \o b)
  BY <1>10 DEF Emits
<1>. DEFINE x == b \o w.hold
            y == u.hold \o text
            z == s \o w.hold
<1>12. x \in Pieces /\ y \in Pieces /\ z \in Pieces /\ r \o b \in Pieces /\ r \o x \in Pieces
  BY <1>9, ConcatPieces
<1>13. Same(z, x)
  <2>1. Same(w.hold, w.hold) BY DEF Same
  <2>2. Same(z, (r \o b) \o w.hold)
    <3>. DEFINE rb == r \o b
                h == w.hold
    <3>1. rb \in Pieces /\ h \in Pieces /\ Same(s, rb) /\ Same(h, h) BY <1>9, <1>11, <1>12, <2>1
    <3>. HIDE DEF rb, h
    <3>2. Same(s \o h, rb \o h) BY <3>1, SameThen
    <3>. QED BY <3>2 DEF rb, h
  <2>3. (r \o b) \o w.hold = r \o x
    <3>. DEFINE h == w.hold
    <3>1. r \in Pieces /\ b \in Pieces /\ h \in Pieces BY <1>9
    <3>. HIDE DEF h
    <3>2. (r \o b) \o h = r \o (b \o h) BY <3>1, PiecesAssociate
    <3>. QED BY <3>2 DEF h
  <2>4. Same(x, x) BY DEF Same
  <2>5. <<>> \in Pieces /\ <<>> \o x = x BY <1>12, EmptyPlain, ConcatPieces
  <2>. HIDE DEF x, z
  <2>6. Same(r \o x, <<>> \o x) BY <1>4, <1>12, <2>4, <2>5, SameThen
  <2>. QED BY <1>12, <2>2, <2>3, <2>5, <2>6, SamePart
<1>14. w.finished = FALSE => Same(z, y)
  <2>. HIDE DEF z
  <2>1. w.finished = FALSE => Same(x, y) BY <1>7
  <2>. HIDE DEF x, y
  <2>. QED BY <1>12, <1>13, <2>1, SamePart
<1>15. Part(z, y)
  <2>1. w.finished = FALSE => Part(z, y)
    <3>. HIDE DEF z, y
    <3>. QED BY <1>12, <1>14, SamePart
  <2>2. w.finished = TRUE => Part(x, y) BY <1>7
  <2>. HIDE DEF x, y, z
  <2>3. w.finished = TRUE => Part(z, y) BY <1>12, <1>13, <2>2, SamePart
  <2>. QED BY <1>9, <2>1, <2>3
<1>16. Thoughts(s) = Thoughts(r)
  <2>1. Thoughts(r \o b) = Thoughts(r) + Thoughts(b) BY <1>9, MeasureConcat
  <2>2. Thoughts(r) \in Nat BY MeasureType
  <2>. QED BY <1>9, <1>11, <2>1, <2>2
<1>17. ASSUME NEW told \in Nat, NEW sent \in Nat, Budgeted(u, told, sent)
       PROVE  Budgeted(w, told + Thoughts(s), sent + n)
  <2>1. Budgeted(v1, told, sent) BY <1>1, <1>2, <1>17 DEF Budgeted, Leaves
  <2>2. Budgeted(v2, told + Thoughts(r), sent + n) BY <1>4, <2>1
  <2>3. w.budget = v2.budget /\ w.thought = v2.thought /\ w.budgetHit = v2.budgetHit
    BY <1>5, <1>6, <1>8 DEF Reads
  <2>. QED BY <1>16, <2>2, <2>3 DEF Budgeted
<1>18. Carries(u, w, s, text, n) BY <1>14, <1>15, <1>17 DEF Carries
<1>. QED BY <1>11, <1>18 DEF ContentOf, w, v2, v1

\* Text and reasoning between tools: the tools remain in order.
LEMMA SpeaksInOrder ==
  ASSUME NEW c, NEW u, NEW v, NEW s, Ready(c, u), Speaks(c, u, v, s), u.open # "tool_use",
         InOrder(Shows(c, u), u, Args(u))
  PROVE  InOrder(Shows(c, v), v, Args(v))
<1>. DEFINE a == Shows(c, u)
            d == Shows(c, v)
<1>1. v.open # "tool_use" /\ v.tools = u.tools /\ SameCalls(a, d) BY DEF Speaks
<1>2. InOrder(a, u, Args(u)) OBVIOUS
<1>. HIDE DEF a, d
<1>3. ASSUME NEW j \in Tools
      PROVE  /\ v.tools[j].closed = FALSE
             /\ v.tools[j].started = FALSE => BlocksOf(d, j) = {}
             /\ ~(v.tools[j].started = TRUE)
  <2>1. u.tools[j].closed = FALSE /\ (u.tools[j].started = FALSE => BlocksOf(a, j) = {})
        /\ ~(u.tools[j].started = TRUE)
    BY <1>2 DEF InOrder
  <2>2. BlocksOf(d, j) = BlocksOf(a, j) BY <1>1 DEF SameCalls
  <2>. QED BY <1>1, <2>1, <2>2
<1>4. InOrder(d, v, Args(v)) BY <1>1, <1>3 DEF InOrder
<1>. QED BY <1>4 DEF d

\* What has been carried stays so when nothing more is said but notices.
LEMMA CarriesMore ==
  ASSUME NEW c, NEW u, Ready(c, u), NEW w, Ready(c, w), NEW text \in Plain, NEW n, NEW s \in Pieces,
         Said(Shows(c, w)) = Said(Shows(c, u)) \o s, Carries(u, w, s, text, n),
         NEW x, Quietly(c, w, x), x.finished \in {w.finished, TRUE}
  PROVE  \E z \in Pieces : /\ Said(Shows(c, x)) = Said(Shows(c, u)) \o z
                           /\ Carries(u, x, z, text, n)
<1>1. PICK q \in Pieces : /\ Said(Shows(c, x)) = Said(Shows(c, w)) \o q
                          /\ Same(q, <<>>) /\ Thoughts(q) = 0
  BY DEF Quietly
<1>. DEFINE z == s \o q
            h == w.hold
            before == Said(Shows(c, u))
            all == u.hold \o text
<1>2. /\ z \in Pieces /\ h \in Pieces /\ before \in Pieces /\ all \in Pieces
      /\ z \o h \in Pieces /\ s \o h \in Pieces /\ w.finished \in BOOLEAN
  <2>1. u \in Translators /\ w \in Translators BY DEF Ready
  <2>2. u.hold \in Plain /\ w.hold \in Plain /\ w.finished \in BOOLEAN BY <2>1 DEF Translators
  <2>3. before \in Pieces BY ReadyType, SaidType
  <2>4. u.hold \in Pieces /\ w.hold \in Pieces /\ text \in Pieces BY <2>2, PlainThoughts
  <2>. HIDE DEF before
  <2>. QED BY <2>2, <2>3, <2>4, ConcatPieces
<1>3. Said(Shows(c, x)) = before \o z
  <2>1. (before \o s) \o q = before \o z
    <3>1. before \in Pieces BY <1>2
    <3>. HIDE DEF before
    <3>. QED BY <3>1, PiecesAssociate
  <2>. QED BY <1>1, <2>1
<1>. HIDE DEF before
<1>4. Same(z \o h, s \o h)
  <2>1. Same(s, s) /\ Same(h, h) BY DEF Same
  <2>2. <<>> \in Pieces /\ s \o <<>> = s BY ConcatPieces
  <2>3. Same(z, s \o <<>>) BY <1>1, <2>1, <2>2, SameThen
  <2>. HIDE DEF z, h
  <2>. QED BY <1>2, <2>1, <2>2, <2>3, SameThen
<1>5. x.hold = h /\ x.thought = w.thought /\ x.budgetHit = w.budgetHit /\ x.budget = w.budget
  BY DEF Quietly, Holds
<1>6. x.finished = FALSE => Same(z \o x.hold, all)
  <2>1. x.finished = FALSE => w.finished = FALSE BY <1>2
  <2>2. w.finished = FALSE => Same(s \o h, all) BY DEF Carries
  <2>. HIDE DEF z, h, all
  <2>. QED BY <1>2, <1>4, <1>5, <2>1, <2>2, SamePart
<1>7. Part(z \o x.hold, all)
  <2>1. Part(s \o h, all) BY DEF Carries
  <2>. HIDE DEF z, h, all
  <2>. QED BY <1>2, <1>4, <1>5, <2>1, SamePart
<1>8. ASSUME NEW told \in Nat, NEW sent \in Nat, Budgeted(u, told, sent)
      PROVE  Budgeted(x, told + Thoughts(z), sent + n)
  <2>1. Budgeted(w, told + Thoughts(s), sent + n) BY <1>8 DEF Carries
  <2>2. Thoughts(z) = Thoughts(s)
    <3>1. Thoughts(z) = Thoughts(s) + Thoughts(q) /\ Thoughts(s) \in Nat
      BY MeasureConcat, MeasureType
    <3>. QED BY <1>1, <3>1
  <2>. QED BY <1>5, <2>1, <2>2 DEF Budgeted
<1>9. Carries(u, x, z, text, n) BY <1>2, <1>6, <1>7, <1>8 DEF Carries
<1>10. z \in Pieces BY <1>2
<1>. HIDE DEF z
<1>. QED BY <1>3, <1>9, <1>10 DEF before

\* What a chunk does: its content is carried, and tools that are in order
\* remain so, or have arrived when it is the last.
Feeds(c, u, x, chunk) ==
  /\ Ready(c, x) /\ x.started = TRUE /\ x.budget = u.budget
  /\ \E s \in Pieces : /\ Said(Shows(c, x)) = Said(Shows(c, u)) \o s
                       /\ Carries(u, x, s, chunk.text, chunk.reasoning)
  /\ /\ x.finished = FALSE /\ ~(u.open = "tool_use" /\ HasContent(chunk))
     /\ InOrder(Shows(c, u), u, Args(u))
     => /\ chunk.finish = "none" => InOrder(Shows(c, x), x, Args(x))
        /\ chunk.finish # "none" => Arrived(Shows(c, x), x)

LEMMA ChunkIs ==
  ASSUME NEW chunk \in UpstreamChunks
  PROVE  /\ chunk.choices \in BOOLEAN /\ chunk.image \in BOOLEAN /\ chunk.reasoning \in Nat
         /\ chunk.text \in Plain /\ chunk.tools \in Seq(ToolDeltas)
         /\ chunk.choices = FALSE => chunk = NoChunk
<1>1. chunk \in ChunkType /\ (chunk.choices \/ chunk = NoChunk) BY TranslatorAssumption
<1>2. /\ chunk.choices \in BOOLEAN /\ chunk.image \in BOOLEAN /\ chunk.reasoning \in Nat
      /\ chunk.text \in Seq(TextPieces) /\ chunk.tools \in Seq(ToolDeltas)
  BY <1>1 DEF ChunkType, ToolDeltas
<1>3. chunk.text \in Plain
  <2>1. TextPieces \subseteq Word BY DEF Word
  <2>. DEFINE S == TextPieces
  <2>2. chunk.text \in Seq(S) BY <1>2
  <2>. HIDE DEF S
  <2>3. \A i \in 1..Len(chunk.text) : chunk.text[i] \in S BY <2>2
  <2>4. chunk.text \in Seq(Word) BY <2>1, <2>2, <2>3 DEF S
  <2>. QED BY <2>3, <2>4 DEF Plain, Pieces, S
<1>. QED BY <1>1, <1>2, <1>3

LEMMA TranslatedFeeds ==
  ASSUME NEW c, NEW u, Ready(c, u), u.started = TRUE, u.finished = FALSE,
         NEW chunk \in UpstreamChunks
  PROVE  /\ Feeds(c, u, Translated(u, chunk), chunk)
         /\ chunk.choices = FALSE => Translated(u, chunk) = u
<1>. DEFINE w == ContentOf(u, chunk.image, chunk.reasoning, chunk.text)
            y == AllTools(w, chunk.tools)
            z == Finished(y, chunk.finish)
            x == Translated(u, chunk)
            regular == ~(u.open = "tool_use" /\ HasContent(chunk))
            ordered == InOrder(Shows(c, u), u, Args(u))
<1>0. u \in Translators BY DEF Ready
<1>1. /\ chunk.choices \in BOOLEAN /\ chunk.image \in BOOLEAN /\ chunk.reasoning \in Nat
      /\ chunk.text \in Plain /\ chunk.tools \in Seq(ToolDeltas)
      /\ chunk.choices = FALSE => chunk = NoChunk
  BY ChunkIs
<1>2. x = IF ~chunk.choices THEN u ELSE IF w.finished THEN w ELSE z
  BY DEF Translated, ContentOf
<1>. HIDE DEF x
<1>3. CASE chunk.choices = FALSE
  <2>1. x = u BY <1>2, <1>3
  <2>2. chunk.text = <<>> /\ chunk.reasoning = 0 /\ chunk.finish = "none"
    BY <1>1, <1>3 DEF NoChunk
  <2>3. /\ <<>> \in Pieces /\ u.hold \in Pieces /\ Said(Shows(c, u)) \in Pieces
        /\ Said(Shows(c, u)) \o <<>> = Said(Shows(c, u)) /\ <<>> \o u.hold = u.hold
        /\ u.hold \o <<>> = u.hold /\ Thoughts(<<>>) = 0
    <3>1. u.hold \in Plain BY <1>0 DEF Translators
    <3>2. u.hold \in Pieces BY <3>1, PlainThoughts
    <3>3. Said(Shows(c, u)) \in Pieces BY ReadyType, SaidType
    <3>. QED BY <3>2, <3>3, ConcatPieces, MeasureNothing
  <2>4. Carries(u, u, <<>>, <<>>, 0)
    <3>1. Same(u.hold, u.hold) /\ Part(u.hold, u.hold) BY <2>3, SamePart
    <3>2. \A told, sent \in Nat : told + Thoughts(<<>>) = told /\ sent + 0 = sent BY <2>3
    <3>. QED BY <2>3, <3>1, <3>2 DEF Carries
  <2>. QED BY <2>1, <2>2, <2>3, <2>4 DEF Feeds, x
<1>4. CASE chunk.choices = TRUE
  <2>1. PICK s \in Pieces : Speaks(c, u, w, s) /\ Carries(u, w, s, chunk.text, chunk.reasoning)
    BY <1>1, ContentCarries
  <2>2. ASSUME regular, ordered PROVE InOrder(Shows(c, w), w, Args(w))
    <3>1. CASE HasContent(chunk)
      <4>1. u.open # "tool_use" BY <2>2, <3>1
      <4>. HIDE DEF w
      <4>. QED BY <2>1, <2>2, <4>1, SpeaksInOrder
    <3>2. CASE ~HasContent(chunk)
      <4>1. chunk.image = FALSE /\ chunk.reasoning = 0 /\ chunk.text = <<>>
        BY <1>1, <3>2 DEF HasContent
      <4>2. Image(u, FALSE) = u /\ Reasoning(u, 0) = u /\ ScanText(u, <<>>) = u
        BY DEF Image, Reasoning, ScanText
      <4>3. w = u BY <4>1, <4>2 DEF ContentOf
      <4>. HIDE DEF w
      <4>. QED BY <2>2, <4>3
    <3>. QED BY <3>1, <3>2
  <2>. HIDE DEF w, regular, ordered
  <2>3. Ready(c, w) /\ w.started = TRUE /\ w.budget = u.budget
        /\ Said(Shows(c, w)) = Said(Shows(c, u)) \o s
    BY <2>1 DEF Speaks
  <2>4. w.finished \in BOOLEAN BY <2>3 DEF Ready, Translators
  <2>5. Tooled(c, w, y) BY <1>1, <2>3, AllToolsTooled
  <2>. HIDE DEF y
  <2>6. Ready(c, y) /\ y.started = TRUE /\ y.finished \in BOOLEAN
    BY <2>3, <2>5 DEF Tooled, Quietly, Translators
  <2>7. /\ Flushes(c, y, z) /\ (chunk.finish = "none" => z = y)
        /\ chunk.finish # "none" /\ y.finished = FALSE /\ InOrder(Shows(c, y), y, Args(y))
             => Arrived(Shows(c, z), z)
    BY <2>6, FinishedArrive
  <2>. HIDE DEF z
  <2>8. Quietly(c, w, z) /\ z.finished \in {w.finished, TRUE}
    <3>1. Quietly(c, w, z) BY <2>3, <2>5, <2>7, QuietlyThen DEF Tooled, Flushes
    <3>. QED BY <2>5, <2>7, <3>1 DEF Tooled, Flushes
  <2>9. x.finished \in BOOLEAN /\ Quietly(c, w, x) /\ x.finished \in {w.finished, TRUE}
    <3>1. CASE w.finished
      <4>1. x = w BY <1>2, <1>4, <3>1
      <4>2. Quietly(c, w, w) BY <2>3, QuietlyNothing DEF Holds
      <4>. QED BY <2>4, <4>1, <4>2
    <3>2. CASE ~w.finished
      <4>1. x = z BY <1>2, <1>4, <3>2
      <4>. QED BY <2>4, <2>8, <4>1
    <3>. QED BY <3>1, <3>2
  <2>10. Ready(c, x) /\ x.started = TRUE /\ x.budget = u.budget BY <2>3, <2>9 DEF Quietly
  <2>11. \E q \in Pieces : /\ Said(Shows(c, x)) = Said(Shows(c, u)) \o q
                           /\ Carries(u, x, q, chunk.text, chunk.reasoning)
    <3>1. Carries(u, w, s, chunk.text, chunk.reasoning) BY <2>1
    <3>2. Ready(c, w) /\ Said(Shows(c, w)) = Said(Shows(c, u)) \o s BY <2>3
    <3>3. Quietly(c, w, x) /\ x.finished \in {w.finished, TRUE} BY <2>9
    <3>. QED BY <1>1, <3>1, <3>2, <3>3, CarriesMore
  <2>12. ASSUME x.finished = FALSE, regular, ordered
         PROVE  /\ chunk.finish = "none" => InOrder(Shows(c, x), x, Args(x))
                /\ chunk.finish # "none" => Arrived(Shows(c, x), x)
    <3>1. w.finished = FALSE BY <2>4, <2>9, <2>12
    <3>2. x = z BY <1>2, <1>4, <3>1
    <3>3. y.finished = FALSE BY <2>7, <2>12, <3>2 DEF Flushes
    <3>4. InOrder(Shows(c, y), y, Args(y)) BY <2>2, <2>5, <2>12, <3>3 DEF Tooled
    <3>. QED BY <2>7, <3>2, <3>3, <3>4
  <2>. QED BY <1>4, <2>10, <2>11, <2>12 DEF Feeds, x, regular, ordered
<1>. QED BY <1>1, <1>3, <1>4

LEMMA TwoEvents ==
  ASSUME NEW S, NEW x \in S, NEW y \in S
  PROVE  <<x>> \o <<y>> = <<x, y>>
<1>. DEFINE s == <<x>>
            r == <<y>>
            p == <<x, y>>
<1>1. s \in Seq(S) /\ Len(s) = 1 /\ s[1] = x /\ r \in Seq(S) /\ Len(r) = 1 /\ r[1] = y OBVIOUS
<1>2. p \in Seq(S) /\ Len(p) = 2 /\ p[1] = x /\ p[2] = y OBVIOUS
<1>. HIDE DEF s, r, p
<1>3. /\ s \o r \in Seq(S) /\ Len(s \o r) = 2
      /\ \A i \in 1..2 : (s \o r)[i] = IF i <= 1 THEN s[i] ELSE r[i - 1]
  BY <1>1, ConcatProperties
<1>4. (s \o r)[1] = x /\ (s \o r)[2] = y BY <1>1, <1>3
<1>5. \A i \in 1..2 : i = 1 \/ i = 2 OBVIOUS
<1>. DEFINE q == s \o r
<1>. HIDE DEF q
<1>6. q \in Seq(S) /\ Len(q) = Len(p) /\ \A i \in 1..Len(q) : q[i] = p[i]
  BY <1>2, <1>3, <1>4, <1>5 DEF q
<1>7. q = p BY <1>2, <1>6, SeqEqual
<1>. QED BY <1>7 DEF q, s, r, p

\* When every block is closed, message_delta and message_stop may come.
LEMMA EndEvents ==
  ASSUME NEW c, NEW f, Ready(c, f), f.started = TRUE, f.open = "none",
         NEW a \in EventType, a.event = "message_delta", a.index = 0,
         NEW b \in EventType, b.event = "message_stop", b.index = 0, b.kind = "none",
         NEW out, out = f.out \o <<a, b>>
  PROVE  /\ out \in Seq(EventType) /\ Lawful(c, out) /\ After(c, out) \in Clients
         /\ After(c, out).phase = "stopped" /\ After(c, out).content = Shows(c, f)
<1>. DEFINE d == After(c, f.out)
            n == f.next
            one == f.out \o <<a>>
            d1 == Received(d, a)
            d2 == Received(d1, b)
<1>1. /\ c \in Clients /\ f.out \in Seq(EventType) /\ Lawful(c, f.out) /\ d \in Clients
      /\ Agrees(d, f) /\ n \in Nat
  BY ReadyType DEF Ready, Translators
<1>2. /\ d.phase = "streaming" /\ Len(d.content) = n /\ d.content \in Seq(BlockType)
      /\ \A i \in 1..n : d.content[i].closed = TRUE
  BY <1>1 DEF Agrees, Clients
<1>. HIDE DEF d
<1>4. Legal(d, a)
  <2>1. ~HasOpen(d)
    <3>1. CASE n = 0
      <4>1. d.content = <<>> BY <1>2, <3>1, EmptySeq
      <4>. QED BY <4>1 DEF HasOpen
    <3>2. CASE n # 0
      <4>1. n \in 1..n BY <1>1, <3>2
      <4>2. Top(d) = d.content[n] BY <1>2 DEF Top
      <4>. QED BY <1>2, <4>1, <4>2 DEF HasOpen
    <3>. QED BY <3>1, <3>2
  <2>. QED BY <1>2, <2>1 DEF Legal
<1>5. one \in Seq(EventType) /\ Lawful(c, one) /\ After(c, one) = d1 /\ d1 \in Clients
  BY <1>1, <1>4, EmitOne DEF d
<1>6. d1.phase = "closing" /\ d1.content = d.content BY <1>1, <1>4, ReceivedIs
<1>. HIDE DEF d1
<1>7. Legal(d1, b) BY <1>6 DEF Legal
<1>. HIDE DEF one
<1>8. /\ one \o <<b>> \in Seq(EventType) /\ Lawful(c, one \o <<b>>)
      /\ After(c, one \o <<b>>) = d2 /\ d2 \in Clients
  BY <1>1, <1>5, <1>7, EmitOne
<1>9. d2.phase = "stopped" /\ d2.content = d1.content BY <1>5, <1>7, ReceivedIs
<1>. HIDE DEF d2
<1>10. one \o <<b>> = f.out \o <<a, b>>
  <2>1. <<a>> \o <<b>> = <<a, b>> BY TwoEvents
  <2>2. f.out \o (<<a>> \o <<b>>) = (f.out \o <<a>>) \o <<b>>
    <3>1. <<a>> \in Seq(EventType) OBVIOUS
    <3>. QED BY <1>1, <3>1, JoinEvents
  <2>. QED BY <2>1, <2>2 DEF one
<1>11. d.content = Shows(c, f) BY DEF d, Shows
<1>. QED BY <1>6, <1>8, <1>9, <1>10, <1>11

\* The message ends: what was held back is said, and all blocks are closed.
Ends(c, u, w) ==
  /\ w \in Translators /\ Lawful(c, w.out) /\ After(c, w.out).phase = "stopped"
  /\ w.started = TRUE /\ w.finished = TRUE /\ w.hold = <<>>
  /\ w.budget = u.budget /\ w.thought = u.thought /\ w.budgetHit = u.budgetHit
  /\ SameTools(u, w) /\ SameCalls(Shows(c, u), Shows(c, w))
  /\ \E s \in Pieces : /\ Said(Shows(c, w)) = Said(Shows(c, u)) \o s
                       /\ Same(s, u.hold) /\ Thoughts(s) = 0

\* What finalize() makes of a translator that has not finished.
Finale(u) ==
  LET e == IF u.open = "thinking" THEN EmitThinking(u, u.hold) ELSE EmitText(u, u.hold)
      v == Emitted(Closed(e), <<Event("message_delta", 0, u.stop, NoTool, <<>>),
                                Event("message_stop", 0, "none", NoTool, <<>>)>>)
  IN  [v EXCEPT !.hold = <<>>, !.finished = TRUE]

LEMMA FinaleEnds ==
  ASSUME NEW c, NEW u, Ready(c, u), u.started = TRUE
  PROVE  Ends(c, u, Finale(u))
<1>. DEFINE e == IF u.open = "thinking" THEN EmitThinking(u, u.hold) ELSE EmitText(u, u.hold)
            f == Closed(e)
            a == Event("message_delta", 0, u.stop, NoTool, <<>>)
            b == Event("message_stop", 0, "none", NoTool, <<>>)
            out == f.out \o <<a, b>>
            w == [[f EXCEPT !.out = out] EXCEPT !.hold = <<>>, !.finished = TRUE]
<1>1. Finale(u) = w BY DEF Finale, Emitted
<1>2. u \in Translators /\ u.hold \in Plain /\ u.stop \in Word BY DEF Ready, Translators
<1>3. u.hold \in Pieces /\ Thoughts(u.hold) = 0 BY <1>2, PlainThoughts
<1>4. Emits(c, u, e, u.hold) /\ Holds(u, e)
  <2>1. CASE u.open = "thinking"
    <3>1. e = EmitThinking(u, u.hold) BY <2>1
    <3>. HIDE DEF e
    <3>. QED BY <1>3, <2>1, <3>1, EmitThinkingEmits
  <2>2. CASE u.open # "thinking"
    <3>1. e = EmitText(u, u.hold) BY <2>2
    <3>. HIDE DEF e
    <3>. QED BY <1>2, <3>1, EmitTextEmits
  <2>. QED BY <2>1, <2>2
<1>. HIDE DEF e
<1>5. Ready(c, e) /\ e.started = TRUE /\ e.budget = u.budget BY <1>4, EmitsReady
<1>6. Speaks(c, e, f, <<>>) /\ Leaves(e, f) /\ f.open = "none" BY <1>5, ClosedSpeaks
<1>. HIDE DEF f
<1>7. Ready(c, f) /\ f.started = TRUE /\ f.budget = u.budget /\ f \in Translators
  BY <1>5, <1>6 DEF Speaks, Ready
<1>8. Emits(c, u, f, u.hold)
  <2>1. Emits(c, e, f, <<>>) BY <1>6, SpeaksEmits
  <2>2. Emits(c, u, f, u.hold \o <<>>) BY <1>4, <2>1, EmitsThen
  <2>. QED BY <1>3, <2>2, ConcatPieces
<1>9. PICK s \in Pieces : Speaks(c, u, f, s) /\ Same(s, u.hold) /\ Thoughts(s) = Thoughts(u.hold)
  BY <1>8 DEF Emits
<1>10. /\ out \in Seq(EventType) /\ Lawful(c, out) /\ After(c, out).phase = "stopped"
       /\ After(c, out).content = Shows(c, f)
  <2>1. /\ a \in EventType /\ a.event = "message_delta" /\ a.index = 0
        /\ b \in EventType /\ b.event = "message_stop" /\ b.index = 0 /\ b.kind = "none"
    <3>1. "message_delta" \in Word /\ "message_stop" \in Word /\ "none" \in Word BY Words
    <3>2. <<>> \in Pieces BY EmptyPlain
    <3>3. NoTool \in Tools \cup {NoTool} /\ 0 \in Nat OBVIOUS
    <3>4. a \in EventType /\ a.event = "message_delta" /\ a.index = 0
      <4>. DEFINE stop == u.stop
      <4>1. stop \in Word BY <1>2
      <4>. HIDE DEF stop
      <4>2. Event("message_delta", 0, stop, NoTool, <<>>) \in EventType
        BY <3>1, <3>2, <3>3, <4>1 DEF Event, EventType
      <4>. QED BY <4>2 DEF Event, stop
    <3>5. b \in EventType /\ b.event = "message_stop" /\ b.index = 0 /\ b.kind = "none"
      BY <3>1, <3>2, <3>3 DEF Event, EventType
    <3>. QED BY <3>4, <3>5
  <2>2. out = f.out \o <<a, b>> OBVIOUS
  <2>. HIDE DEF a, b, out
  <2>3. f.open = "none" BY <1>6
  <2>4. Ready(c, f) /\ f.started = TRUE BY <1>7
  <2>. HIDE DEF w
  <2>. QED BY ZenonT(60), <2>1, <2>2, <2>3, <2>4, EndEvents
<1>. HIDE DEF out
<1>11. /\ w \in Translators /\ w.out = out /\ w.started = TRUE /\ w.finished = TRUE
       /\ w.hold = <<>> /\ w.budget = f.budget /\ w.thought = f.thought
       /\ w.budgetHit = f.budgetHit /\ w.tools = f.tools
  BY <1>7, <1>10, EmptyPlain DEF Translators
<1>. HIDE DEF w
<1>12. Shows(c, w) = Shows(c, f) BY <1>10, <1>11 DEF Shows
<1>13. SameTools(u, w)
  <2>1. SameTools(u, f) BY <1>9 DEF Speaks
  <2>. QED BY <1>11, <2>1 DEF SameTools
<1>14. w.thought = u.thought /\ w.budgetHit = u.budgetHit
  BY <1>4, <1>6, <1>11 DEF Holds, Leaves
<1>15. SameCalls(Shows(c, u), Shows(c, w)) /\ Said(Shows(c, w)) = Said(Shows(c, u)) \o s
  BY <1>9, <1>12 DEF Speaks
<1>16. Thoughts(s) = 0 BY <1>3, <1>9
<1>17. Ends(c, u, w)
  BY <1>7, <1>9, <1>10, <1>11, <1>13, <1>14, <1>15, <1>16 DEF Ends
<1>. QED BY <1>1, <1>17
-----------------------------------------------------------------------------
(***************************************************************************)
(* The invariant, about the client as it will be when it has everything    *)
(* that is on its way.                                                     *)
(***************************************************************************)
Told == After(client, t.out)

TranslatorType ==
  /\ client \in Clients /\ t \in Translators
  /\ fed \in Nat /\ sentText \in Plain /\ sentReasoning \in Nat
  /\ finalized \in BOOLEAN /\ finishSeen \in BOOLEAN /\ irregular \in BOOLEAN

\* The events on their way are legal, and what they leave open is open.
OnItsWay ==
  /\ Lawful(client, t.out)
  /\ finalized = FALSE => Ready(client, t)
  /\ finalized = TRUE => t.finished = TRUE
  /\ fed > 0 \/ t.finished = TRUE => t.started = TRUE

\* The text that is told or held back is what has come, or the beginning of
\* it once the stream was stopped.
TextTold(d, u, text) ==
  /\ Part(Said(d.content) \o u.hold, text)
  /\ u.finished = FALSE \/ d.phase = "stopped" => Same(Said(d.content) \o u.hold, text)

\* Until the finish chunk the tools are in order, and after it they have arrived.
CallsTold(d, u, done) ==
  /\ done = FALSE /\ u.finished = FALSE => InOrder(d.content, u, Args(u))
  /\ done = TRUE /\ (u.finished = FALSE \/ d.phase = "stopped") => Arrived(d.content, u)

TranslatorInvariant ==
  /\ TranslatorType /\ OnItsWay
  /\ TextTold(Told, t, sentText)
  /\ Budgeted(t, Thoughts(Said(Told.content)), sentReasoning)
  /\ irregular = FALSE => CallsTold(Told, t, finishSeen)

LEMMA ToldType ==
  ASSUME TranslatorType, Lawful(client, t.out)
  PROVE  /\ t.out \in Seq(EventType) /\ Told \in Clients /\ Told.content \in Seq(BlockType)
         /\ Said(Told.content) \in Pieces /\ Thoughts(Said(Told.content)) \in Nat
         /\ t.finished \in BOOLEAN /\ t.started \in BOOLEAN
         /\ t.hold \in Pieces /\ sentText \in Pieces
<1>1. /\ t.out \in Seq(EventType) /\ t.finished \in BOOLEAN /\ t.started \in BOOLEAN
      /\ t.hold \in Plain
  BY DEF TranslatorType, Translators
<1>2. Told \in Clients BY <1>1, AfterType DEF Told, TranslatorType
<1>3. Told.content \in Seq(BlockType) BY <1>2 DEF Clients
<1>4. Said(Told.content) \in Pieces BY <1>3, SaidType
<1>5. t.hold \in Pieces /\ sentText \in Pieces BY <1>1, PlainThoughts DEF TranslatorType
<1>. QED BY <1>1, <1>2, <1>3, <1>4, <1>5, MeasureType

\* At the beginning nothing has been said.
LEMMA TranslatorStarts == TranslatorInit => TranslatorInvariant
<1>. SUFFICES ASSUME TranslatorInit PROVE TranslatorInvariant OBVIOUS
<1>1. PICK budget \in Budgets : t = NewTranslator(budget) BY DEF TranslatorInit
<1>2. /\ client = NewClient /\ finalized = FALSE /\ fed = 0 /\ sentText = <<>>
      /\ sentReasoning = 0 /\ finishSeen = FALSE /\ irregular = FALSE
  BY DEF TranslatorInit
<1>3. client \in Clients /\ client.phase = "none" /\ client.content = <<>>
      /\ client.last.event = "none"
  <2>1. "none" \in Word BY Words
  <2>2. <<>> \in Seq(BlockType) OBVIOUS
  <2>3. NewClient = [phase |-> "none", content |-> <<>>,
                     last |-> [event |-> "none", index |-> 0, kind |-> "none"]]
    BY DEF NewClient
  <2>. QED BY <1>2, <2>1, <2>2, <2>3 DEF Clients, LastType
<1>4. NewBuf \in BufType /\ NewBuf.started = FALSE /\ NewBuf.closed = FALSE
  <2>1. NoName \in Word /\ <<>> \in Pieces BY Words, EmptyPlain
  <2>. QED BY <2>1 DEF BufType, NewBuf
<1>5. /\ t \in Translators /\ t.out = <<>> /\ t.started = FALSE /\ t.finished = FALSE
      /\ t.next = 0 /\ t.open = "none" /\ t.hold = <<>> /\ t.thought = 0
      /\ t.budgetHit = FALSE /\ t.budget = budget /\ t.tools = [i \in Tools |-> NewBuf]
  <2>1. budget \in Nat \cup {NoBudget} BY TranslatorAssumption
  <2>2. "end_turn" \in Word /\ <<>> \in Pieces /\ <<>> \in Plain /\ <<>> \in Seq(EventType)
    BY Words, EmptyPlain
  <2>3. [i \in Tools |-> NewBuf] \in [Tools -> BufType] BY <1>4
  <2>. DEFINE tools == [i \in Tools |-> NewBuf]
  <2>4. t = [started |-> FALSE, finished |-> FALSE, next |-> 0, open |-> "none",
             byReasoning |-> FALSE, hold |-> <<>>, stop |-> "end_turn",
             budget |-> budget, thought |-> 0, budgetHit |-> FALSE,
             tools |-> tools, streaming |-> NoTool,
             names |-> <<>>, repeated |-> 0, hallucinated |-> 0, out |-> <<>>]
    BY <1>1 DEF NewTranslator
  <2>5. tools \in [Tools -> BufType] BY <2>3
  <2>. HIDE DEF tools
  <2>. QED BY <2>1, <2>2, <2>4, <2>5 DEF Translators, tools
<1>6. \A i \in Tools : t.tools[i].started = FALSE /\ t.tools[i].closed = FALSE
  BY <1>4, <1>5
<1>7. After(client, t.out) = client /\ Lawful(client, t.out) BY <1>3, <1>5, HearNothing
<1>8. Ready(client, t)
  <2>1. OpenTools(t) BY <1>6 DEF OpenTools
  <2>2. Agrees(client, t)
    <3>1. Len(client.content) = 0 BY <1>3, EmptyPlain
    <3>. QED BY <1>3, <1>5, <3>1 DEF Agrees
  <2>. QED BY <1>3, <1>5, <1>7, <2>1, <2>2 DEF Ready
<1>9. Said(client.content) = <<>>
  <2>1. <<>> \in Seq(BlockType) /\ Len(<<>>) = 0 BY EmptySeq
  <2>2. Said(<<>>) = Saying(<<>>)[Len(<<>>)] /\ Saying(<<>>)[0] = <<>> BY <2>1, SayingIs
  <2>. QED BY <1>3, <2>1, <2>2
<1>10. TextTold(client, t, sentText)
  <2>1. <<>> \in Pieces /\ <<>> \o <<>> = <<>> BY EmptyPlain, ConcatPieces
  <2>2. Same(<<>>, <<>>) /\ Part(<<>>, <<>>) BY <2>1, SamePart
  <2>. QED BY <1>2, <1>5, <1>9, <2>1, <2>2 DEF TextTold
<1>11. Budgeted(t, Thoughts(Said(client.content)), sentReasoning)
  <2>1. Thoughts(<<>>) = 0 BY MeasureNothing
  <2>2. budget # NoBudget => CharsPerToken * budget >= 0
    <3>1. budget \in Nat \cup {NoBudget} BY TranslatorAssumption
    <3>. QED BY <3>1 DEF CharsPerToken
  <2>. DEFINE limit == CharsPerToken * budget
  <2>3. budget # NoBudget => limit \in Nat
    <3>1. budget \in Nat \cup {NoBudget} BY TranslatorAssumption
    <3>. QED BY <3>1 DEF CharsPerToken
  <2>. HIDE DEF limit
  <2>4. ~(budget # NoBudget /\ 0 > limit) BY <2>3
  <2>. QED BY <1>2, <1>5, <1>9, <2>1, <2>4 DEF Budgeted, Allowed, limit
<1>12. CallsTold(client, t, FALSE)
  <2>1. \A i \in Tools : BlocksOf(<<>>, i) = {} BY DEF BlocksOf
  <2>2. InOrder(client.content, t, Args(t)) BY <1>3, <1>5, <1>6, <2>1 DEF InOrder
  <2>. QED BY <2>2 DEF CallsTold
<1>13. TranslatorType BY <1>2, <1>3, <1>5, EmptyPlain DEF TranslatorType
<1>14. OnItsWay BY <1>2, <1>5, <1>7, <1>8 DEF OnItsWay
<1>. QED BY <1>2, <1>7, <1>10, <1>11, <1>12, <1>13, <1>14 DEF TranslatorInvariant, Told

\* When the client receives an event, what it will have stays the same.
LEMMA DeliverKeeps ==
  ASSUME TranslatorInvariant, Deliver
  PROVE  /\ TranslatorInvariant' /\ Legal(client, Head(t.out)) /\ Head(t.out) \in EventType
<1>1. /\ TranslatorType /\ OnItsWay BY DEF TranslatorInvariant
<1>2. /\ t.out # <<>> /\ client' = Received(client, Head(t.out))
      /\ t' = [t EXCEPT !.out = Tail(@)] /\ finalized' = finalized /\ fed' = fed
      /\ sentText' = sentText /\ sentReasoning' = sentReasoning
      /\ finishSeen' = finishSeen /\ irregular' = irregular
  BY DEF Deliver, history
<1>3. t.out \in Seq(EventType) /\ Lawful(client, t.out) /\ client \in Clients /\ t \in Translators
  BY <1>1, ToldType DEF OnItsWay, TranslatorType
<1>4. /\ Head(t.out) \in EventType /\ Tail(t.out) \in Seq(EventType)
      /\ Legal(client, Head(t.out)) /\ Received(client, Head(t.out)) \in Clients
      /\ Lawful(Received(client, Head(t.out)), Tail(t.out))
      /\ After(Received(client, Head(t.out)), Tail(t.out)) = After(client, t.out)
  BY <1>2, <1>3, HearFirst
<1>5. /\ t' \in Translators /\ t'.out = Tail(t.out) /\ t'.started = t.started
      /\ t'.finished = t.finished /\ t'.next = t.next /\ t'.open = t.open
      /\ t'.hold = t.hold /\ t'.budget = t.budget /\ t'.thought = t.thought
      /\ t'.budgetHit = t.budgetHit /\ t'.tools = t.tools /\ t'.streaming = t.streaming
  BY <1>2, <1>3, <1>4 DEF Translators
<1>6. client' \in Clients /\ Lawful(client', t'.out) /\ After(client', t'.out) = After(client, t.out)
  BY <1>2, <1>4, <1>5
<1>7. Told' = Told BY <1>6 DEF Told
<1>8. ASSUME Ready(client, t) PROVE Ready(client', t')
  <2>1. Agrees(After(client, t.out), t) /\ OpenTools(t) BY <1>8 DEF Ready
  <2>2. Agrees(After(client', t'.out), t') BY <1>5, <1>6, <2>1 DEF Agrees
  <2>3. OpenTools(t') BY <1>5, <2>1 DEF OpenTools
  <2>. QED BY <1>5, <1>6, <2>2, <2>3 DEF Ready
<1>9. TranslatorType' BY <1>1, <1>2, <1>5, <1>6 DEF TranslatorType
<1>10. OnItsWay' BY <1>1, <1>2, <1>5, <1>6, <1>8 DEF OnItsWay
<1>11. TextTold(Told', t', sentText') <=> TextTold(Told, t, sentText)
  BY <1>2, <1>5, <1>7 DEF TextTold
<1>12. Budgeted(t', Thoughts(Said(Told'.content)), sentReasoning')
         <=> Budgeted(t, Thoughts(Said(Told.content)), sentReasoning)
  BY <1>2, <1>5, <1>7 DEF Budgeted
<1>13. CallsTold(Told', t', finishSeen') <=> CallsTold(Told, t, finishSeen)
  <2>. DEFINE d == Told.content
  <2>1. Args(t') = Args(t) BY <1>5 DEF Args
  <2>2. InOrder(d, t', Args(t)) <=> InOrder(d, t, Args(t)) BY <1>5 DEF InOrder
  <2>3. Arrived(d, t') <=> Arrived(d, t) BY <1>5 DEF Arrived, Has, Due, DueArgs
  <2>. QED BY <1>2, <1>5, <1>7, <2>1, <2>2, <2>3 DEF CallsTold
<1>14. TranslatorInvariant'
  BY <1>2, <1>9, <1>10, <1>11, <1>12, <1>13 DEF TranslatorInvariant
<1>. QED BY <1>4, <1>14

\* More text is told, or held back.
LEMMA TextMore ==
  ASSUME NEW x \in Pieces, NEW y \in Pieces, NEW p \in Pieces, NEW q \in Pieces,
         NEW r \in Pieces, NEW z \in Pieces
  PROVE  /\ Same(y \o z, p \o q) /\ Same(x \o p, r) => Same((x \o y) \o z, r \o q)
         /\ Part(y \o z, p \o q) /\ Same(x \o p, r) => Part((x \o y) \o z, r \o q)
<1>00. (x \o y) \o z = x \o (y \o z) BY SMTT(30), PiecesAssociate
<1>01. (x \o p) \o q = x \o (p \o q) BY SMTT(30), PiecesAssociate
<1>. DEFINE a == y \o z
            b == p \o q
            c == x \o p
<1>1. a \in Pieces /\ b \in Pieces /\ c \in Pieces BY ConcatPieces
<1>2. (x \o y) \o z = x \o a /\ x \o b = c \o q
  BY <1>00, <1>01
<1>3. Same(x, x) /\ Same(q, q) BY DEF Same
<1>. HIDE DEF a, b, c
<1>4. x \o a \in Pieces /\ c \o q \in Pieces /\ r \o q \in Pieces
  BY <1>1, ConcatPieces
<1>5. Same(a, b) => Same(x \o a, c \o q) BY <1>1, <1>2, <1>3, SameThen
<1>6. Part(a, b) => Part(x \o a, c \o q) BY <1>1, <1>2, <1>3, PartThen
<1>7. Same(c, r) => Same(c \o q, r \o q) BY <1>1, <1>3, SameThen
<1>. DEFINE u == x \o a
            v == c \o q
            w == r \o q
<1>8. u \in Pieces /\ v \in Pieces /\ w \in Pieces BY <1>4
<1>9. (Same(a, b) => Same(u, v)) /\ (Part(a, b) => Part(u, v)) /\ (Same(c, r) => Same(v, w))
  BY <1>5, <1>6, <1>7
<1>. HIDE DEF u, v, w
<1>10. (Same(a, b) /\ Same(c, r) => Same(u, w)) /\ (Part(a, b) /\ Same(c, r) => Part(u, w))
  BY <1>8, <1>9, SamePart
<1>. QED BY <1>2, <1>10 DEF a, b, c, u, w

\* A chunk that comes when the stream has been stopped changes nothing, and one
\* that comes before is translated.
LEMMA FeedKeeps ==
  ASSUME TranslatorInvariant, NEW chunk \in UpstreamChunks, Feed(chunk)
  PROVE  TranslatorInvariant'
<1>. DEFINE u == MessageStarted(t)
            x == Translated(u, chunk)
            d == Told
            said == Said(d.content)
<1>1. /\ TranslatorType /\ OnItsWay /\ TextTold(d, t, sentText)
      /\ Budgeted(t, Thoughts(said), sentReasoning)
      /\ irregular = FALSE => CallsTold(d, t, finishSeen)
  BY DEF TranslatorInvariant
<1>2. /\ t.out = <<>> /\ finalized = FALSE
      /\ t' = IF t.finished THEN t ELSE x
      /\ fed' = fed + 1
      /\ IF t.finished THEN sentText' = sentText /\ sentReasoning' = sentReasoning
         ELSE sentText' = sentText \o chunk.text /\ sentReasoning' = sentReasoning + chunk.reasoning
      /\ finishSeen' = (finishSeen \/ chunk.finish # "none")
      /\ irregular' = (irregular \/ (finishSeen /\ chunk.choices)
                                 \/ (t.open = "tool_use" /\ HasContent(chunk)))
      /\ finalized' = finalized /\ client' = client
  BY <1>1 DEF Feed, TranslatorType
<1>3. /\ Ready(client, t) /\ d \in Clients /\ said \in Pieces /\ Thoughts(said) \in Nat
      /\ t.finished \in BOOLEAN /\ t.hold \in Pieces /\ sentText \in Pieces
      /\ sentReasoning \in Nat /\ irregular \in BOOLEAN /\ finishSeen \in BOOLEAN
  BY <1>1, <1>2, ToldType DEF OnItsWay, TranslatorType
<1>4. /\ chunk.choices \in BOOLEAN /\ chunk.text \in Plain /\ chunk.text \in Pieces
      /\ chunk.reasoning \in Nat
  BY ChunkIs, PlainThoughts
<1>5. /\ fed' \in Nat /\ finalized' \in BOOLEAN /\ client' \in Clients
      /\ finishSeen' \in BOOLEAN /\ irregular' \in BOOLEAN
      /\ (irregular' = FALSE => irregular = FALSE)
  BY <1>1, <1>2, <1>3 DEF TranslatorType
<1>6. d.phase # "stopped"
  <2>1. Agrees(d, t) BY <1>3 DEF Ready, Told
  <2>. HIDE DEF d
  <2>. QED BY <2>1 DEF Agrees
<1>7. CASE t.finished = TRUE
  <2>1. /\ t' = t /\ sentText' = sentText /\ sentReasoning' = sentReasoning BY <1>2, <1>7
  <2>2. Told' = Told BY <1>2, <2>1 DEF Told
  <2>3. TranslatorType' BY <1>1, <1>5, <2>1 DEF TranslatorType
  <2>4. OnItsWay' BY <1>1, <1>2, <1>7, <2>1 DEF OnItsWay
  <2>5. TextTold(Told', t', sentText') /\ Budgeted(t', Thoughts(Said(Told'.content)), sentReasoning')
    BY <1>1, <2>1, <2>2
  <2>. HIDE DEF d
  <2>6. CallsTold(d, t, finishSeen') BY <1>6, <1>7 DEF CallsTold
  <2>7. CallsTold(Told', t', finishSeen') BY <2>1, <2>2, <2>6 DEF d
  <2>. QED BY <2>3, <2>4, <2>5, <2>7 DEF TranslatorInvariant
<1>8. CASE t.finished = FALSE
  <2>1. /\ t' = x /\ sentText' = sentText \o chunk.text
        /\ sentReasoning' = sentReasoning + chunk.reasoning
    BY <1>2, <1>8
  <2>2. /\ Ready(client, u) /\ u.started = TRUE /\ Shows(client, u) = Shows(client, t)
        /\ u.tools = t.tools /\ u.open = t.open /\ u.next = t.next
        /\ u.budget = t.budget /\ u.streaming = t.streaming /\ Leaves(t, u)
    BY <1>3, MessageStartedReady
  <2>. HIDE DEF u
  <2>3. u.hold = t.hold /\ u.finished = FALSE /\ u.thought = t.thought /\ u.budgetHit = t.budgetHit
    BY <1>8, <2>2 DEF Leaves
  <2>4. Feeds(client, u, x, chunk) /\ (chunk.choices = FALSE => x = u)
    BY <2>2, <2>3, TranslatedFeeds
  <2>. HIDE DEF x
  <2>5. /\ Ready(client, x) /\ x.started = TRUE /\ x.budget = u.budget
        /\ x \in Translators /\ Lawful(client, x.out)
    BY <2>4 DEF Feeds, Ready
  <2>6. PICK s \in Pieces : /\ Said(Shows(client, x)) = Said(Shows(client, u)) \o s
                            /\ Carries(u, x, s, chunk.text, chunk.reasoning)
    BY <2>4 DEF Feeds
  <2>7. Told' = After(client, x.out) BY <1>2, <2>1 DEF Told
  <2>8. Shows(client, u) = d.content /\ Told'.content = Shows(client, x)
    BY <2>2, <2>7 DEF Shows, Told
  <2>9. Said(Told'.content) = said \o s BY <2>6, <2>8
  <2>10. Told'.phase # "stopped"
    <3>1. Agrees(After(client, x.out), x) BY <2>5 DEF Ready
    <3>. QED BY <2>5, <2>7, <3>1 DEF Agrees
  <2>11. x.hold \in Pieces
    <3>1. x.hold \in Plain BY <2>5 DEF Translators
    <3>. QED BY <3>1, PlainThoughts
  <2>. DEFINE e == Told'
              rest == x.hold
  <2>. HIDE DEF d, said, e, rest
  <2>12. TextTold(e, x, sentText \o chunk.text)
    <3>1. Same(said \o t.hold, sentText) BY <1>1, <1>8 DEF TextTold, said
    <3>2. /\ x.finished = FALSE => Same(s \o rest, t.hold \o chunk.text)
          /\ Part(s \o rest, t.hold \o chunk.text)
      BY <2>3, <2>6 DEF Carries, rest
    <3>. DEFINE hold == t.hold
                text == chunk.text
    <3>3. hold \in Pieces /\ text \in Pieces /\ rest \in Pieces BY <1>3, <1>4, <2>11 DEF rest
    <3>4. /\ x.finished = FALSE => Same(s \o rest, hold \o text)
          /\ Part(s \o rest, hold \o text) /\ Same(said \o hold, sentText)
      BY <3>1, <3>2
    <3>. HIDE DEF hold, text
    <3>5. /\ x.finished = FALSE => Same((said \o s) \o rest, sentText \o text)
          /\ Part((said \o s) \o rest, sentText \o text)
      BY <1>3, <3>3, <3>4, TextMore
    <3>6. Said(e.content) = said \o s /\ e.phase # "stopped" BY <2>9, <2>10 DEF e
    <3>. QED BY <3>5, <3>6 DEF TextTold, rest, text
  <2>13. Budgeted(x, Thoughts(Said(e.content)), sentReasoning + chunk.reasoning)
    <3>1. Budgeted(u, Thoughts(said), sentReasoning) BY <1>1, <2>2, <2>3 DEF Budgeted, said
    <3>2. Budgeted(x, Thoughts(said) + Thoughts(s), sentReasoning + chunk.reasoning)
      BY <1>3, <2>6, <3>1 DEF Carries
    <3>3. Thoughts(said \o s) = Thoughts(said) + Thoughts(s) BY <1>3, MeasureConcat
    <3>4. Said(e.content) = said \o s BY <2>9 DEF e
    <3>. QED BY <3>2, <3>3, <3>4
  <2>14. ASSUME irregular' = FALSE PROVE CallsTold(e, x, finishSeen')
    <3>1. /\ irregular = FALSE /\ ~(finishSeen /\ chunk.choices)
          /\ ~(u.open = "tool_use" /\ HasContent(chunk))
      BY <1>2, <1>3, <2>2, <2>14
    <3>2. CallsTold(d, t, finishSeen) BY <1>1, <3>1 DEF d
    <3>3. e.phase # "stopped" /\ e.content = Shows(client, x) BY <2>8, <2>10 DEF e
    <3>4. CASE finishSeen = TRUE
      <4>1. x = u BY <1>4, <2>4, <3>1, <3>4
      <4>2. Arrived(d.content, t) BY <1>8, <3>2, <3>4 DEF CallsTold
      <4>3. e.content = d.content BY <2>8, <3>3, <4>1 DEF d
      <4>4. Arrived(e.content, x)
        BY <2>2, <4>1, <4>2, <4>3 DEF Arrived, Has, Due, DueArgs
      <4>5. finishSeen' = TRUE BY <1>2, <3>4
      <4>. QED BY <4>4, <4>5 DEF CallsTold
    <3>5. CASE finishSeen = FALSE
      <4>1. InOrder(d.content, t, Args(t)) BY <1>8, <3>2, <3>5 DEF CallsTold
      <4>2. InOrder(Shows(client, u), u, Args(u))
        <5>1. Args(u) = Args(t) BY <2>2 DEF Args
        <5>. DEFINE a == d.content
        <5>2. InOrder(a, u, Args(t)) BY <2>2, <4>1 DEF InOrder
        <5>. QED BY <2>8, <5>1, <5>2 DEF d
      <4>3. x.finished = FALSE =>
              /\ chunk.finish = "none" => InOrder(e.content, x, Args(x))
              /\ chunk.finish # "none" => Arrived(e.content, x)
        BY <2>4, <3>1, <3>3, <4>2 DEF Feeds
      <4>4. finishSeen' <=> chunk.finish # "none" BY <1>2, <3>5
      <4>. QED BY <3>3, <4>3, <4>4 DEF CallsTold
    <3>. QED BY <1>3, <3>4, <3>5
  <2>15. TranslatorType'
    <3>1. sentText' \in Plain
      <4>1. sentText \in Plain BY <1>1 DEF TranslatorType
      <4>. QED BY <1>4, <2>1, <4>1, PlainConcat
    <3>2. sentReasoning' \in Nat BY <1>3, <1>4, <2>1
    <3>. QED BY <1>5, <2>1, <2>5, <3>1, <3>2 DEF TranslatorType
  <2>16. OnItsWay' BY <1>2, <2>1, <2>5 DEF OnItsWay
  <2>. QED BY <2>1, <2>12, <2>13, <2>14, <2>15, <2>16 DEF TranslatorInvariant, e
<1>. QED BY <1>3, <1>7, <1>8

\* When finalize() ends the message, what was held back has been said, and the
\* calls that had come are there.
LEMMA FinaleKeeps ==
  ASSUME TranslatorInvariant, finalized = FALSE, fed > 0, t.finished = FALSE,
         t' = Finale(t), fed' = fed, client' = client, finalized' = TRUE,
         sentText' = sentText, sentReasoning' = sentReasoning,
         finishSeen' = finishSeen, irregular' = irregular
  PROVE  TranslatorInvariant'
<1>. DEFINE w == Finale(t)
            a == Told.content
            d == Told'.content
<1>1. /\ TranslatorType /\ OnItsWay /\ TextTold(Told, t, sentText)
      /\ Budgeted(t, Thoughts(Said(a)), sentReasoning)
      /\ irregular = FALSE => CallsTold(Told, t, finishSeen)
  BY DEF TranslatorInvariant
<1>2. Ready(client, t) /\ t.started = TRUE BY <1>1 DEF OnItsWay
<1>3. /\ Said(a) \in Pieces /\ Thoughts(Said(a)) \in Nat /\ t.hold \in Pieces /\ sentText \in Pieces
  BY <1>1, ToldType DEF OnItsWay
<1>4. Ends(client, t, w) BY <1>2, FinaleEnds
<1>. HIDE DEF w
<1>5. /\ t' = w /\ w \in Translators /\ Lawful(client, w.out) /\ w.started = TRUE
      /\ w.finished = TRUE /\ w.hold = <<>> /\ w.budget = t.budget
      /\ w.thought = t.thought /\ w.budgetHit = t.budgetHit
      /\ SameTools(t, w) /\ SameCalls(Shows(client, t), Shows(client, w))
  BY <1>4 DEF Ends, w
<1>6. Told' = After(client, w.out) BY <1>5 DEF Told
<1>7. Shows(client, t) = a /\ Shows(client, w) = d /\ Told'.phase = "stopped"
  BY <1>4, <1>6 DEF Shows, Told, Ends
<1>8. PICK s \in Pieces : Said(d) = Said(a) \o s /\ Same(s, t.hold) /\ Thoughts(s) = 0
  BY <1>4, <1>7 DEF Ends
<1>. DEFINE said == Said(a)
            hold == t.hold
<1>9. /\ said \in Pieces /\ hold \in Pieces /\ Same(said \o hold, sentText) /\ Same(s, hold)
      /\ Said(d) = said \o s
  BY <1>1, <1>3, <1>8 DEF TextTold
<1>. HIDE DEF said, hold, a, d
<1>10. said \o s \in Pieces BY <1>9, ConcatPieces
<1>11. Same(said \o s, sentText)
  <2>1. <<>> \in Pieces /\ s \o <<>> = s /\ hold \o <<>> = hold /\ sentText \o <<>> = sentText
        /\ (said \o s) \o <<>> = said \o s
    BY <1>3, <1>9, <1>10, ConcatPieces
  <2>2. Same(s \o <<>>, hold \o <<>>) /\ Same(said \o hold, sentText) BY <1>9, <2>1
  <2>3. Same((said \o s) \o <<>>, sentText \o <<>>) BY <1>3, <1>9, <2>1, <2>2, TextMore
  <2>. QED BY <2>1, <2>3
<1>12. TextTold(Told', w, sentText)
  <2>. DEFINE x == said \o s
  <2>1. x \in Pieces /\ Same(x, sentText) BY <1>10, <1>11
  <2>2. x \o w.hold = x /\ Said(Told'.content) = x BY <1>5, <1>9, <1>10, ConcatPieces DEF d
  <2>. HIDE DEF x
  <2>3. Part(x, sentText) BY <1>3, <2>1, SamePart
  <2>. QED BY <2>1, <2>2, <2>3 DEF TextTold
<1>13. Thoughts(Said(d)) = Thoughts(said)
  <2>1. Thoughts(said \o s) = Thoughts(said) + Thoughts(s) BY <1>9, MeasureConcat
  <2>2. Thoughts(said) \in Nat BY <1>3 DEF said
  <2>. QED BY <1>8, <1>9, <2>1, <2>2
<1>14. Budgeted(w, Thoughts(Said(d)), sentReasoning)
  BY <1>1, <1>5, <1>13 DEF Budgeted, said
<1>15. ASSUME irregular = FALSE PROVE CallsTold(Told', w, finishSeen)
  <2>1. finishSeen = TRUE => Arrived(a, t) BY <1>1, <1>15 DEF CallsTold, a
  <2>2. SameCalls(a, d) BY <1>5, <1>7
  <2>3. ASSUME finishSeen = TRUE PROVE Arrived(d, w)
    <3>1. ASSUME NEW i \in Tools PROVE Has(d, w, i)
      <4>1. Has(a, t, i) BY <2>1, <2>3 DEF Arrived
      <4>2. BlocksOf(d, i) = BlocksOf(a, i) /\ \A k \in BlocksOf(a, i) : d[k].body = a[k].body
        BY <2>2 DEF SameCalls
      <4>. QED BY <1>5, <4>1, <4>2, HasCarried
    <3>. QED BY <3>1 DEF Arrived
  <2>. QED BY <1>5, <2>3 DEF CallsTold, d
<1>16. TranslatorType' BY <1>1, <1>5 DEF TranslatorType
<1>17. OnItsWay' BY <1>5 DEF OnItsWay
<1>. QED BY <1>5, <1>12, <1>14, <1>15, <1>16, <1>17 DEF TranslatorInvariant, d

LEMMA FinalizeKeeps ==
  ASSUME TranslatorInvariant, Finalize
  PROVE  TranslatorInvariant'
<1>1. TranslatorType /\ OnItsWay BY DEF TranslatorInvariant
<1>2. t.finished \in BOOLEAN /\ finalized \in BOOLEAN BY <1>1 DEF TranslatorType, Translators
<1>3. /\ finalized = FALSE /\ fed > 0 /\ finalized' = TRUE /\ client' = client /\ fed' = fed
      /\ sentText' = sentText /\ sentReasoning' = sentReasoning
      /\ finishSeen' = finishSeen /\ irregular' = irregular
  BY <1>2 DEF Finalize, history
<1>4. t' = IF t.finished THEN t ELSE Finale(t) BY DEF Finalize, Finale
<1>5. CASE t.finished = TRUE
  <2>1. t' = t BY <1>4, <1>5
  <2>2. Told' = Told BY <1>3, <2>1 DEF Told
  <2>3. TranslatorType' BY <1>1, <1>3, <2>1 DEF TranslatorType
  <2>4. OnItsWay' BY <1>1, <1>3, <1>5, <2>1 DEF OnItsWay
  <2>. QED BY <1>3, <2>1, <2>2, <2>3, <2>4 DEF TranslatorInvariant
<1>6. CASE t.finished = FALSE
  <2>1. t' = Finale(t) BY <1>4, <1>6
  <2>. QED BY <1>3, <1>6, <2>1, FinaleKeeps
<1>. QED BY <1>2, <1>5, <1>6

LEMMA StandingKeeps ==
  ASSUME TranslatorInvariant, UNCHANGED translatorVars
  PROVE  TranslatorInvariant'
<1>1. /\ t' = t /\ client' = client /\ finalized' = finalized /\ fed' = fed
      /\ sentText' = sentText /\ sentReasoning' = sentReasoning
      /\ finishSeen' = finishSeen /\ irregular' = irregular
  BY DEF translatorVars, history
<1>2. TranslatorType /\ OnItsWay BY DEF TranslatorInvariant
<1>3. Told' = Told BY <1>1 DEF Told
<1>4. TranslatorType' BY <1>1, <1>2 DEF TranslatorType
<1>5. OnItsWay' BY <1>1, <1>2 DEF OnItsWay
<1>. QED BY <1>1, <1>3, <1>4, <1>5 DEF TranslatorInvariant

\* Type correctness and what the events on their way will make of the client.
LEMMA TranslatorInvariantHolds == TranslatorSpec => []TranslatorInvariant
<1>1. TranslatorInit => TranslatorInvariant BY TranslatorStarts
<1>2. TranslatorInvariant /\ [TranslatorNext]_translatorVars => TranslatorInvariant'
  <2>. SUFFICES ASSUME TranslatorInvariant, [TranslatorNext]_translatorVars
                PROVE  TranslatorInvariant'
    OBVIOUS
  <2>1. ASSUME NEW c \in UpstreamChunks, Feed(c) PROVE TranslatorInvariant' BY <2>1, FeedKeeps
  <2>2. CASE Finalize BY <2>2, FinalizeKeeps
  <2>3. CASE Deliver BY <2>3, DeliverKeeps
  <2>4. CASE Quiet BY <2>4, StandingKeeps DEF Quiet
  <2>5. CASE UNCHANGED translatorVars BY <2>5, StandingKeeps
  <2>. QED BY <2>1, <2>2, <2>3, <2>4, <2>5 DEF TranslatorNext
<1>. QED BY <1>1, <1>2, PTL DEF TranslatorSpec

LEMMA BeginsPrefix ==
  ASSUME NEW x \in Pieces, NEW y \in Pieces, Begins(x, y)
  PROVE  IsPrefix(x, y)
<1>. DEFINE S == Word
            m == Len(x)
<1>1. PICK rest \in Pieces : x \o rest = y BY DEF Begins
<1>2. x \in Seq(S) /\ rest \in Seq(S) /\ y \in Seq(S) /\ m \in Nat /\ Len(rest) \in Nat
  BY DEF Pieces
<1>. HIDE DEF S
<1>3. /\ Len(y) = m + Len(rest)
      /\ \A i \in 1..(m + Len(rest)) : y[i] = IF i <= m THEN x[i] ELSE rest[i - m]
  BY <1>1, <1>2, ConcatProperties
<1>. HIDE DEF m
<1>4. m <= Len(y) /\ \A i \in 1..m : y[i] = x[i] /\ x[i] \in S
  <2>1. \A i \in 1..m : i \in 1..(m + Len(rest)) /\ i <= m BY <1>2
  <2>2. \A i \in 1..m : x[i] \in S BY <1>2 DEF m
  <2>. QED BY <1>2, <1>3, <2>1, <2>2
<1>. DEFINE a == SubSeq(x, 1, m)
            b == SubSeq(y, 1, m)
<1>5. /\ a \in Seq(S) /\ Len(a) = IF 1 <= m THEN m - 1 + 1 ELSE 0
      /\ \A i \in 1..(m - 1 + 1) : a[i] = x[1 + i - 1]
  BY <1>2, <1>4, SubSeqProperties
<1>6. /\ b \in Seq(S) /\ Len(b) = IF 1 <= m THEN m - 1 + 1 ELSE 0
      /\ \A i \in 1..(m - 1 + 1) : b[i] = y[1 + i - 1]
  <2>1. \A i \in 1..m : y[i] \in S BY <1>4
  <2>. QED BY <1>2, <2>1, SubSeqProperties
<1>. HIDE DEF a, b
<1>7. Len(a) = m /\ Len(b) = m /\ m - 1 + 1 = m /\ \A i \in 1..m : 1 + i - 1 = i
  BY <1>2, <1>5, <1>6
<1>8. \A i \in 1..m : a[i] = b[i] BY <1>4, <1>5, <1>6, <1>7
<1>9. a = b BY <1>5, <1>6, <1>7, <1>8, SeqEqual
<1>. QED BY <1>4, <1>9 DEF IsPrefix, a, b, m

\* When no event is on its way the client has what it was told.
LEMMA NothingOnItsWay ==
  ASSUME TranslatorInvariant, t.out = <<>>
  PROVE  Told = client /\ client.content \in Seq(BlockType)
<1>1. client \in Clients BY DEF TranslatorInvariant, TranslatorType
<1>2. After(client, <<>>) = client BY <1>1, HearNothing
<1>. QED BY <1>1, <1>2 DEF Told, Clients

\* The legacy translator neither loses, doubles nor reorders text, wherever the
\* chunks cut its tags, and passes reasoning on up to the budget, to the
\* character (_scan_text, _emit_text_delta, feed and finalize).
THEOREM TextArrives == TranslatorSpec => []ContentArrives
<1>1. ASSUME TranslatorInvariant PROVE ContentArrives
  <2>. SUFFICES ASSUME t.out = <<>> PROVE ContentArrives BY DEF ContentArrives
  <2>. DEFINE said == Said(client.content)
              text == said \o t.hold
  <2>1. /\ Told = client /\ said \in Pieces /\ t.hold \in Pieces /\ sentText \in Pieces
        /\ t.finished \in BOOLEAN
    BY <1>1, NothingOnItsWay, ToldType DEF TranslatorInvariant, OnItsWay
  <2>2. /\ Part(text, sentText)
        /\ t.finished = FALSE \/ client.phase = "stopped" => Same(text, sentText)
        /\ Budgeted(t, Thoughts(said), sentReasoning)
    BY <1>1, <2>1 DEF TranslatorInvariant, TextTold
  <2>3. text \in Pieces BY <2>1, ConcatPieces
  <2>4. Delivered = said /\ Delivered \o t.hold = text BY DEF Delivered
  <2>. HIDE DEF said, text
  <2>5. IsPrefix(Only(text, {"a", "markup"}), Only(sentText, {"a", "markup"}))
    <3>1. Marks(text) \in Pieces /\ Marks(sentText) \in Pieces BY <2>1, <2>3, MeasureType
    <3>2. IsPrefix(Marks(text), Marks(sentText)) BY <2>2, <3>1, BeginsPrefix DEF Part
    <3>. QED BY <3>2 DEF Marks, Plaintext
  <2>6. ASSUME Same(text, sentText)
        PROVE  /\ Only(text, {"a", "markup"}) = Only(sentText, {"a", "markup"})
               /\ CountOf(sentText, "<") - CountOf(text, "<")
                    = CountOf(sentText, "think>") - CountOf(text, "think>")
    <3>1. Only(text, {"a", "markup"}) = Only(sentText, {"a", "markup"})
      BY <2>6 DEF Same, Marks, Plaintext
    <3>2. /\ CountOf(text, "<") \in Nat /\ CountOf(text, "think>") \in Nat
          /\ CountOf(sentText, "<") \in Nat /\ CountOf(sentText, "think>") \in Nat
      BY <2>1, <2>3, OnlyType DEF CountOf
    <3>3. CountOf(text, "<") - CountOf(text, "think>")
            = CountOf(sentText, "<") - CountOf(sentText, "think>")
      BY <2>6 DEF Same, Tags
    <3>. QED BY <3>1, <3>2, <3>3
  <2>7. CountOf(Delivered, "r") =
          IF t.budget # NoBudget /\ sentReasoning > CharsPerToken * t.budget
          THEN CharsPerToken * t.budget ELSE sentReasoning
    BY <2>2, <2>4 DEF Budgeted, Allowed, Thoughts
  <2>. QED BY <2>1, <2>2, <2>4, <2>5, <2>6, <2>7 DEF ContentArrives
<1>. QED BY <1>1, TranslatorInvariantHolds, PTL

\* After message_stop nothing is on its way.
LEMMA NothingAfterTheEnd ==
  ASSUME TranslatorInvariant, client.phase = "stopped"
  PROVE  t.out = <<>>
<1>1. /\ t.out \in Seq(EventType) /\ Lawful(client, t.out) /\ client \in Clients
  BY ToldType DEF TranslatorInvariant, TranslatorType, OnItsWay
<1>2. ASSUME t.out # <<>> PROVE FALSE
  <2>1. Legal(client, Head(t.out)) BY <1>1, <1>2, HearFirst
  <2>. QED BY <2>1 DEF Legal
<1>. QED BY <1>2

\* At the end of a stream in the usual order each tool call that is due has
\* arrived in one block with all its arguments, and no other has (feed,
\* _handle_tool_delta, _flush_tool).
THEOREM ToolCallsArriveOnce == TranslatorSpec => []CallsArriveOnce
<1>1. ASSUME TranslatorInvariant PROVE CallsArriveOnce
  <2>. SUFFICES ASSUME client.phase = "stopped", finishSeen, ~irregular,
                       NEW i \in Tools
                PROVE  LET b == t.tools[i]
                           due == b.started \/ (b.id /\ b.name \in Declared /\ Valid(b.args))
                       IN  /\ Cardinality(BlocksOf(client.content, i)) = IF due THEN 1 ELSE 0
                           /\ \A n \in BlocksOf(client.content, i) :
                                client.content[n].body =
                                  IF b.started THEN b.args ELSE Stripped(b.args)
    BY DEF CallsArriveOnce
  <2>. DEFINE content == client.content
              b == t.tools[i]
              due == b.started \/ (b.id /\ b.name \in Declared /\ Valid(b.args))
  <2>1. Told = client BY <1>1, NothingAfterTheEnd, NothingOnItsWay
  <2>2. finishSeen = TRUE /\ irregular = FALSE
    BY <1>1 DEF TranslatorInvariant, TranslatorType
  <2>3. Has(content, t, i)
    <3>1. CallsTold(client, t, TRUE) BY <1>1, <2>1, <2>2 DEF TranslatorInvariant
    <3>. QED BY <3>1 DEF CallsTold, Arrived
  <2>4. b.started \in BOOLEAN /\ b.id \in BOOLEAN
    BY <1>1 DEF TranslatorInvariant, TranslatorType, Translators, BufType
  <2>5. due <=> Due(t, i) BY <2>4 DEF Due
  <2>6. DueArgs(t, i) = IF b.started THEN b.args ELSE Stripped(b.args) BY <2>4 DEF DueArgs
  <2>. HIDE DEF content
  <2>7. CASE due
    <3>1. PICK n : BlocksOf(content, i) = {n} /\ content[n].body = DueArgs(t, i)
      BY <2>3, <2>5, <2>7 DEF Has
    <3>2. Cardinality(BlocksOf(content, i)) = 1 BY <3>1, FS_Singleton
    <3>. QED BY <2>6, <2>7, <3>1, <3>2 DEF content
  <2>8. CASE ~due
    <3>1. BlocksOf(content, i) = {} BY <2>3, <2>5, <2>8 DEF Has
    <3>2. Cardinality(BlocksOf(content, i)) = 0 BY <3>1, FS_EmptySet
    <3>. QED BY <2>8, <3>1, <3>2 DEF content
  <2>. QED BY <2>7, <2>8
<1>. QED BY <1>1, TranslatorInvariantHolds, PTL
-----------------------------------------------------------------------------
(***************************************************************************)
(* The events the client receives are a legal Anthropic stream.            *)
(***************************************************************************)
\* A block as the abstract stream sees it.
Shape(block) == [kind |-> block.kind, closed |-> block.closed]
Shapes == [kind : Kinds, closed : BOOLEAN]
ShapesOf(content) == [i \in DOMAIN content |-> Shape(content[i])]

LEMMA ShapesOfIs ==
  ASSUME NEW s \in Seq(BlockType)
  PROVE  /\ ShapesOf(s) \in Seq(Shapes) /\ Len(ShapesOf(s)) = Len(s) /\ Len(s) \in Nat
         /\ ShapesOf(s) = [i \in 1..Len(s) |-> Shape(s[i])]
         /\ \A i \in 1..Len(s) : /\ ShapesOf(s)[i] = Shape(s[i])
                                 /\ Shape(s[i]) \in Shapes /\ s[i] \in BlockType
<1>. DEFINE n == Len(s)
            v == [i \in 1..n |-> Shape(s[i])]
<1>1. n \in Nat /\ DOMAIN s = 1..n /\ \A i \in 1..n : s[i] \in BlockType OBVIOUS
<1>2. ShapesOf(s) = v BY <1>1 DEF ShapesOf
<1>3. \A i \in 1..n : Shape(s[i]) \in Shapes BY <1>1 DEF BlockType, Shape, Shapes
<1>. HIDE DEF n
<1>4. v \in Seq(Shapes) /\ Len(v) = n /\ \A i \in 1..n : v[i] = Shape(s[i]) BY <1>1, <1>3
<1>. QED BY <1>1, <1>2, <1>3, <1>4 DEF n

LEMMA ShapesMore ==
  ASSUME NEW s \in Seq(BlockType), NEW b \in BlockType
  PROVE  ShapesOf(Append(s, b)) = Append(ShapesOf(s), Shape(b))
<1>. DEFINE n == Len(s)
            x == Append(s, b)
            p == ShapesOf(x)
            v == ShapesOf(s)
            q == Append(v, Shape(b))
<1>1. /\ x \in Seq(BlockType) /\ Len(x) = n + 1 /\ n \in Nat /\ x[n + 1] = b
      /\ \A i \in 1..n : x[i] = s[i]
  OBVIOUS
<1>2. /\ v \in Seq(Shapes) /\ Len(v) = n /\ \A i \in 1..n : v[i] = Shape(s[i])
  BY ShapesOfIs
<1>3. Shape(b) \in Shapes BY DEF Shape, Shapes, BlockType
<1>. HIDE DEF x, n
<1>4. p \in Seq(Shapes) /\ Len(p) = n + 1 /\ \A i \in 1..(n + 1) : p[i] = Shape(x[i])
  BY <1>1, ShapesOfIs
<1>. HIDE DEF v, p
<1>5. /\ q \in Seq(Shapes) /\ Len(q) = n + 1 /\ q[n + 1] = Shape(b)
      /\ \A i \in 1..n : q[i] = v[i]
  BY <1>1, <1>2, <1>3
<1>. HIDE DEF q
<1>6. ASSUME NEW i \in 1..(n + 1) PROVE p[i] = q[i]
  <2>1. i = n + 1 \/ i \in 1..n BY <1>1
  <2>. QED BY <1>1, <1>2, <1>4, <1>5, <2>1
<1>7. p = q BY <1>4, <1>5, <1>6, SeqEqual
<1>. QED BY <1>7 DEF p, q, v, x

\* A block that gets text keeps its shape, and one that is closed its kind.
LEMMA ShapesChanged ==
  ASSUME NEW s \in Seq(BlockType), NEW n \in 1..Len(s)
  PROVE  /\ \A body \in Pieces : ShapesOf([s EXCEPT ![n].body = @ \o body]) = ShapesOf(s)
         /\ ShapesOf([s EXCEPT ![n].closed = TRUE]) = [ShapesOf(s) EXCEPT ![n].closed = TRUE]
<1>1. s[n] \in BlockType /\ DOMAIN s = 1..Len(s) OBVIOUS
<1>2. ASSUME NEW body \in Pieces
      PROVE  ShapesOf([s EXCEPT ![n].body = @ \o body]) = ShapesOf(s)
  <2>. DEFINE b == [s[n] EXCEPT !.body = @ \o body]
              d == [s EXCEPT ![n] = b]
  <2>1. [s EXCEPT ![n].body = @ \o body] = d OBVIOUS
  <2>2. Shape(b) = Shape(s[n]) BY <1>1 DEF Shape, BlockType
  <2>. HIDE DEF b
  <2>3. DOMAIN d = DOMAIN s /\ \A i \in DOMAIN s : d[i] = IF i = n THEN b ELSE s[i] BY <1>1
  <2>. HIDE DEF d
  <2>4. \A i \in DOMAIN s : Shape(d[i]) = Shape(s[i]) BY <2>2, <2>3
  <2>5. ShapesOf(d) = ShapesOf(s) BY <2>3, <2>4 DEF ShapesOf
  <2>. QED BY <2>1, <2>5
<1>3. ShapesOf([s EXCEPT ![n].closed = TRUE]) = [ShapesOf(s) EXCEPT ![n].closed = TRUE]
  <2>. DEFINE b == [s[n] EXCEPT !.closed = TRUE]
              d == [s EXCEPT ![n] = b]
              v == ShapesOf(s)
              a == [v[n] EXCEPT !.closed = TRUE]
              w == [v EXCEPT ![n] = a]
  <2>1. [s EXCEPT ![n].closed = TRUE] = d /\ [v EXCEPT ![n].closed = TRUE] = w OBVIOUS
  <2>2. v[n] = Shape(s[n]) /\ DOMAIN v = DOMAIN s /\ \A i \in DOMAIN s : v[i] = Shape(s[i])
    BY <1>1 DEF ShapesOf
  <2>3. Shape(b) = a
    <3>1. b.kind = s[n].kind /\ b.closed = TRUE BY <1>1 DEF BlockType
    <3>. HIDE DEF b
    <3>2. Shape(b) = [kind |-> s[n].kind, closed |-> TRUE] BY <3>1 DEF Shape
    <3>3. [Shape(s[n]) EXCEPT !.closed = TRUE] = [kind |-> s[n].kind, closed |-> TRUE]
      <4>. DEFINE x == Shape(s[n])
                  y == [x EXCEPT !.closed = TRUE]
                  z == [kind |-> s[n].kind, closed |-> TRUE]
      <4>1. x \in Shapes /\ x.kind = s[n].kind BY <1>1, ShapesOfIs DEF Shape
      <4>2. z \in Shapes /\ z.kind = s[n].kind /\ z.closed = TRUE BY <1>1 DEF BlockType, Shapes
      <4>. HIDE DEF x, z
      <4>3. y \in Shapes /\ y.kind = x.kind /\ y.closed = TRUE BY <4>1 DEF Shapes
      <4>4. \A p, q \in Shapes : p.kind = q.kind /\ p.closed = q.closed => p = q BY DEF Shapes
      <4>. HIDE DEF y
      <4>5. y = z BY <4>1, <4>2, <4>3, <4>4
      <4>. QED BY <4>5 DEF x, y, z
    <3>. HIDE DEF v
    <3>. QED BY <1>1, <2>2, <3>2, <3>3
  <2>4. v = [i \in DOMAIN s |-> Shape(s[i])] BY DEF ShapesOf
  <2>. HIDE DEF a, b, v
  <2>5. DOMAIN d = DOMAIN s /\ \A i \in DOMAIN s : d[i] = IF i = n THEN b ELSE s[i] BY <1>1
  <2>6. w = [i \in DOMAIN s |-> IF i = n THEN a ELSE Shape(s[i])] BY <1>1, <2>4
  <2>. HIDE DEF d, w
  <2>7. \A i \in DOMAIN s : Shape(d[i]) = IF i = n THEN a ELSE Shape(s[i]) BY <2>3, <2>5
  <2>8. ShapesOf(d) = w BY <2>5, <2>6, <2>7 DEF ShapesOf
  <2>. QED BY <2>1, <2>8 DEF v
<1>. QED BY <1>2, <1>3

\* A legal event is one the abstract stream accepts.
LEMMA LegalDelivery ==
  ASSUME client \in Clients, NEW e \in EventType, Legal(client, e), client' = Received(client, e)
  PROVE  Contract!StreamNext
<1>. DEFINE n == Len(client.content)
            v == ClientContent
<1>1. /\ v = ShapesOf(client.content) /\ v' = ShapesOf(client'.content)
  BY DEF ClientContent, ShapesOf, Shape
<1>2. /\ client.content \in Seq(BlockType) /\ n \in Nat
      /\ client.content # <<>> => n \in 1..n
      /\ client.content = <<>> => n = 0
  <2>1. client.content \in Seq(BlockType) BY DEF Clients
  <2>. QED BY <2>1, EmptySeq
<1>3. /\ v \in Seq(Shapes) /\ Len(v) = n
      /\ \A i \in 1..n : /\ v[i].kind = client.content[i].kind
                         /\ v[i].closed = client.content[i].closed
                         /\ v[i].kind \in Kinds /\ v[i].closed \in BOOLEAN
  <2>. DEFINE s == client.content
  <2>1. /\ v \in Seq(Shapes) /\ Len(v) = n
        /\ \A i \in 1..n : v[i] = Shape(s[i]) /\ Shape(s[i]) \in Shapes
    BY <1>1, <1>2, ShapesOfIs
  <2>2. \A x \in Shapes : x.kind \in Kinds /\ x.closed \in BOOLEAN BY DEF Shapes
  <2>3. \A x : Shape(x).kind = x.kind /\ Shape(x).closed = x.closed BY DEF Shape
  <2>. HIDE DEF v, n, s
  <2>4. \A i \in 1..n : /\ v[i].kind = s[i].kind /\ v[i].closed = s[i].closed
                        /\ v[i].kind \in Kinds /\ v[i].closed \in BOOLEAN
    BY <2>1, <2>2, <2>3
  <2>. QED BY <2>1, <2>4 DEF s
<1>4. client'.last = Contract!Wire(e.event, e.index,
                                   IF e.event = "message_delta" THEN "none" ELSE e.kind)
  BY ReceivedIs DEF Contract!Wire
<1>5. (HasOpen(client) <=> Contract!Open) /\ Contract!Current = n - 1
  <2>1. v # <<>> <=> client.content # <<>> BY <1>2, <1>3, EmptySeq
  <2>2. client.content # <<>> => v[Len(v)].closed = Top(client).closed /\ Top(client).closed \in BOOLEAN
    BY <1>2, <1>3 DEF Top
  <2>. QED BY <1>3, <2>1, <2>2 DEF HasOpen, Contract!Open, Contract!Current
<1>6. CASE e.event = "message_start" /\ e.index = 0 /\ e.kind = "none" /\ client.phase = "none"
  <2>1. client'.phase = "streaming" /\ client'.content = client.content BY <1>6, ReceivedIs
  <2>2. v' = v BY <1>1, <2>1
  <2>3. client'.last = Contract!Wire("message_start", 0, "none") BY <1>4, <1>6
  <2>4. Contract!MessageStart BY <1>6, <2>1, <2>2, <2>3 DEF Contract!MessageStart
  <2>. QED BY <2>4 DEF Contract!StreamNext, Contract!Deliver
<1>7. CASE /\ e.event = "content_block_start" /\ e.index = n /\ e.kind \in Kinds
           /\ client.phase = "streaming" /\ ~HasOpen(client)
  <2>. DEFINE b == [kind |-> e.kind, closed |-> FALSE, tool |-> e.tool, body |-> <<>>]
  <2>1. client'.phase = "streaming" /\ client'.content = Append(client.content, b)
    BY <1>7, ReceivedIs
  <2>2. b \in BlockType /\ Shape(b) = [kind |-> e.kind, closed |-> FALSE]
    <3>1. <<>> \in Pieces BY DEF Pieces
    <3>. QED BY <1>7, <3>1 DEF BlockType, EventType, Shape
  <2>. HIDE DEF b
  <2>3. v' = Append(v, [kind |-> e.kind, closed |-> FALSE])
    BY <1>1, <1>2, <2>1, <2>2, ShapesMore
  <2>4. client'.last = Contract!Wire("content_block_start", Len(v), e.kind) BY <1>3, <1>4, <1>7
  <2>5. Contract!BlockStart(e.kind)
    BY <1>5, <1>7, <2>1, <2>3, <2>4 DEF Contract!BlockStart
  <2>6. e.kind \in Contract!BlockKinds BY <1>7 DEF Contract!BlockKinds, Kinds
  <2>. QED BY <2>5, <2>6 DEF Contract!StreamNext, Contract!Deliver
<1>8. CASE /\ e.event = "content_block_delta" /\ e.index = n - 1
           /\ client.phase = "streaming" /\ HasOpen(client)
           /\ e.kind \in DeltasOf(Top(client).kind) /\ ~Signed(client)
  <2>1. n \in 1..n BY <1>2, <1>8 DEF HasOpen
  <2>2. /\ client'.phase = "streaming"
        /\ client'.content = [client.content EXCEPT ![n].body = @ \o e.body]
    BY <1>8, ReceivedIs
  <2>3. v' = v
    <3>1. e.body \in Pieces BY DEF EventType
    <3>. DEFINE s == client.content
                more == e.body
    <3>2. s \in Seq(BlockType) /\ n \in 1..Len(s) /\ more \in Pieces BY <1>2, <2>1, <3>1
    <3>. HIDE DEF s, n, more
    <3>3. \A body \in Pieces : ShapesOf([s EXCEPT ![n].body = @ \o body]) = ShapesOf(s)
      BY <3>2, ShapesChanged
    <3>4. ShapesOf([s EXCEPT ![n].body = @ \o more]) = ShapesOf(s) BY <3>2, <3>3
    <3>. QED BY <1>1, <2>2, <3>4 DEF s, more
  <2>4. /\ e.kind \in Contract!DeltaKinds[v[Len(v)].kind]
        /\ e.kind \in UNION {Contract!DeltaKinds[x] : x \in Contract!BlockKinds}
    <3>1. v[Len(v)].kind = Top(client).kind /\ Top(client).kind \in Kinds
      BY <1>3, <2>1 DEF Top
    <3>2. \A x \in Kinds : DeltasOf(x) = Contract!DeltaKinds[x]
      BY DEF Kinds, DeltasOf, Contract!DeltaKinds
    <3>. QED BY <1>8, <3>1, <3>2 DEF Kinds, Contract!BlockKinds
  <2>5. client'.last = Contract!Wire("content_block_delta", Contract!Current, e.kind)
    BY <1>4, <1>5, <1>8
  <2>6. client.last # Contract!Wire("content_block_delta", Contract!Current, "signature_delta")
    BY <1>5, <1>8 DEF Signed, Contract!Wire
  <2>7. Contract!BlockDelta(e.kind)
    BY <1>5, <1>8, <2>2, <2>3, <2>4, <2>5, <2>6 DEF Contract!BlockDelta
  <2>. QED BY <2>4, <2>7 DEF Contract!StreamNext, Contract!Deliver
<1>9. CASE /\ e.event = "content_block_stop" /\ e.index = n - 1 /\ e.kind = "none"
           /\ client.phase = "streaming" /\ HasOpen(client)
           /\ Top(client).kind = "thinking" => Signed(client)
  <2>1. n \in 1..n BY <1>2, <1>9 DEF HasOpen
  <2>2. /\ client'.phase = "streaming"
        /\ client'.content = [client.content EXCEPT ![n].closed = TRUE]
    BY <1>9, ReceivedIs
  <2>3. v' = [v EXCEPT ![Len(v)].closed = TRUE]
    <3>. DEFINE s == client.content
    <3>1. s \in Seq(BlockType) /\ n \in 1..Len(s) BY <1>2, <2>1
    <3>. HIDE DEF s, n
    <3>2. ShapesOf([s EXCEPT ![n].closed = TRUE]) = [ShapesOf(s) EXCEPT ![n].closed = TRUE]
      BY <3>1, ShapesChanged
    <3>3. v' = ShapesOf([s EXCEPT ![n].closed = TRUE]) /\ v = ShapesOf(s) BY <1>1, <2>2 DEF s
    <3>. HIDE DEF v
    <3>. QED BY <1>3, <3>2, <3>3
  <2>4. v[Len(v)].kind = Top(client).kind BY <1>3, <2>1 DEF Top
  <2>5. client'.last = Contract!Wire("content_block_stop", Contract!Current, "none")
    BY <1>4, <1>5, <1>9
  <2>6. Signed(client) =>
          client.last = Contract!Wire("content_block_delta", Contract!Current, "signature_delta")
    <3>1. client.last \in LastType BY DEF Clients
    <3>2. client.last = [event |-> client.last.event, index |-> client.last.index,
                         kind |-> client.last.kind]
      BY <3>1 DEF LastType
    <3>. QED BY <1>5, <3>2 DEF Signed, Contract!Wire
  <2>7. Contract!BlockStop
    BY <1>5, <1>9, <2>2, <2>3, <2>4, <2>5, <2>6 DEF Contract!BlockStop
  <2>. QED BY <2>7 DEF Contract!StreamNext, Contract!Deliver
<1>10. CASE e.event = "message_delta" /\ e.index = 0 /\ client.phase = "streaming" /\ ~HasOpen(client)
  <2>1. client'.phase = "closing" /\ client'.content = client.content BY <1>10, ReceivedIs
  <2>2. v' = v BY <1>1, <2>1
  <2>3. client'.last = Contract!Wire("message_delta", 0, "none") BY <1>4, <1>10
  <2>4. Contract!MessageDelta BY <1>5, <1>10, <2>1, <2>2, <2>3 DEF Contract!MessageDelta
  <2>. QED BY <2>4 DEF Contract!StreamNext, Contract!Deliver
<1>11. CASE e.event = "message_stop" /\ e.index = 0 /\ e.kind = "none" /\ client.phase = "closing"
  <2>1. client'.phase = "stopped" /\ client'.content = client.content BY <1>11, ReceivedIs
  <2>2. v' = v BY <1>1, <2>1
  <2>3. client'.last = Contract!Wire("message_stop", 0, "none") BY <1>4, <1>11
  <2>4. Contract!MessageStop BY <1>11, <2>1, <2>2, <2>3 DEF Contract!MessageStop
  <2>. QED BY <2>4 DEF Contract!StreamNext, Contract!Deliver
<1>. QED BY <1>6, <1>7, <1>8, <1>9, <1>10, <1>11 DEF Legal

\* Whatever the upstream sends, the legacy translator's events are a legal
\* Anthropic stream, with neither of the departures the pipeline needs (the
\* rules at the head of stream_translator.py; feed, finalize).
THEOREM TranslatorImplementsAnthropicStream == TranslatorSpec => HonoursContract
<1>1. TranslatorInit => Contract!StreamInit
  <2>. SUFFICES ASSUME TranslatorInit PROVE Contract!StreamInit OBVIOUS
  <2>1. client = NewClient BY DEF TranslatorInit
  <2>2. /\ client.phase = "none" /\ client.content = <<>>
        /\ client.last = [event |-> "none", index |-> 0, kind |-> "none"]
    BY <2>1 DEF NewClient
  <2>3. ClientContent = <<>>
    <3>1. ClientContent = ShapesOf(<<>>) BY <2>2 DEF ClientContent, ShapesOf, Shape
    <3>2. <<>> \in Seq(BlockType) /\ Len(<<>>) = 0 OBVIOUS
    <3>3. ShapesOf(<<>>) \in Seq(Shapes) /\ Len(ShapesOf(<<>>)) = 0 BY <3>2, ShapesOfIs
    <3>. QED BY <3>1, <3>3, EmptySeq
  <2>. QED BY <2>2, <2>3 DEF Contract!StreamInit, Contract!NoEvent, Contract!Wire
<1>2. TranslatorInvariant /\ [TranslatorNext]_translatorVars
        => [Contract!StreamNext]_(Contract!streamVars)
  <2>. SUFFICES ASSUME TranslatorInvariant, [TranslatorNext]_translatorVars
                PROVE  [Contract!StreamNext]_(Contract!streamVars)
    OBVIOUS
  <2>1. CASE Deliver
    <3>1. client \in Clients BY DEF TranslatorInvariant, TranslatorType
    <3>2. Legal(client, Head(t.out)) /\ Head(t.out) \in EventType BY <2>1, DeliverKeeps
    <3>3. client' = Received(client, Head(t.out)) BY <2>1 DEF Deliver
    <3>. DEFINE e == Head(t.out)
    <3>. HIDE DEF e
    <3>4. Contract!StreamNext BY <3>1, <3>2, <3>3, LegalDelivery
    <3>. QED BY <3>4
  <2>2. ASSUME client' = client PROVE UNCHANGED Contract!streamVars
    BY <2>2 DEF Contract!streamVars, ClientContent
  <2>3. ASSUME NEW c \in UpstreamChunks, Feed(c) PROVE client' = client BY <2>3 DEF Feed
  <2>4. CASE Finalize BY <2>2, <2>4 DEF Finalize
  <2>5. CASE Quiet BY <2>2, <2>5 DEF Quiet, translatorVars
  <2>6. CASE UNCHANGED translatorVars BY <2>2, <2>6 DEF translatorVars
  <2>. QED BY <2>1, <2>2, <2>3, <2>4, <2>5, <2>6 DEF TranslatorNext
<1>. QED BY <1>1, <1>2, TranslatorInvariantHolds, PTL
        DEF TranslatorSpec, HonoursContract, Contract!StreamSpec
=============================================================================
