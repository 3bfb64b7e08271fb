-------------------------- MODULE Conversions_proofs --------------------------
(***************************************************************************)
(* Proofs about TranscodeOutput and TranscodeInput, for every engine that  *)
(* keeps to the protocol, every size of characters, put areas, get areas   *)
(* and scratch storage; and about EolPipe, for all texts and windows.      *)
(***************************************************************************)
EXTENDS TranscodeOutput, TranscodeInput, EolPipe, Basics_proofs, FiniteSetTheorems

(***************************************************************************)
(* The inductive invariant.                                                *)
(***************************************************************************)

Parts ==
  /\ sink \in Seq(Nat) /\ below \in Seq(Nat) /\ held \in Seq(Nat) /\ from \in Seq(Nat)
  /\ pub \in Seq(Nat) /\ rem \in Seq(Nat) /\ rest \in Seq(Nat)
  /\ given \in 0..Bytes

\* The put area holds whole characters and fits its storage.
Storage ==
  /\ \E q \in 0..Cap : Len(pub) = q * Unit
  /\ pub # <<>> => area
  /\ area \in BOOLEAN
  /\ Len(rem) <= Unit /\ Len(below) <= Below

\* Where an operation is, and what it has emptied by then.
Course ==
  /\ state \in {"open", "finished", "cancelled", "failed"}
  /\ op \in {"none", "prepare", "typed", "bytes", "flush", "finish"}
  /\ stage \in {"none", "prefix", "rest", "fill", "drain", "under"}
  /\ op = "none" <=> stage = "none"
  /\ stage # "none" => state = "open"
  /\ stage = "rest" => op \in {"typed", "bytes"}
  /\ stage = "fill" => op = "bytes" /\ ~Native
  /\ stage \in {"drain", "under"} => op \in {"flush", "finish"}

Emptied ==
  /\ state = "open" /\ stage = "none" => from = <<>> /\ rest = <<>>
  /\ stage \in {"prefix", "rest", "drain", "under"} => pub = <<>>
  /\ stage \in {"fill", "drain", "under"} => from = <<>>
  /\ stage = "under" => held = <<>>
  /\ stage = "rest" => rest = <<>> /\ rem = <<>>
  /\ op \in {"prepare", "typed", "finish"} => rem = <<>>
  /\ op \in {"prepare", "flush", "finish"} => rest = <<>>
  /\ Native => rem = <<>>
  /\ op = "typed" => \E q \in Nat : Len(rest) = q * Unit

\* Nothing below is ahead of a gap, also when all else is lost.
Gapless == \E t \in Seq(Nat) : (sink \o below) \o t = All(given)

Sound == Parts /\ Storage /\ Course /\ Emptied /\ InOrder /\ Gapless /\ FinishedIsAll

-----------------------------------------------------------------------------
(***************************************************************************)
(* Numbers and sequences.                                                  *)
(***************************************************************************)

LEMMA SizesAre ==
  /\ Unit \in Nat \ {0} /\ Cap \in Nat \ {0} /\ Scratch \in Nat \ {0}
  /\ Hold \in Nat /\ Below \in Nat /\ Bytes \in Nat
BY TranscodeAssumption, TranscodeOutputAssumption

LEMMA MinIs ==
  ASSUME NEW a \in Nat, NEW b \in Nat
  PROVE  /\ Min({a, b}) \in Nat /\ Min({a, b}) <= a /\ Min({a, b}) <= b
         /\ Min({a, b}) = a \/ Min({a, b}) = b
<1>1. \E x \in {a, b} : \A y \in {a, b} : x =< y
  OBVIOUS
<1>2. /\ Min({a, b}) \in {a, b}
      /\ \A y \in {a, b} : Min({a, b}) =< y
  BY <1>1 DEF Min
<1> QED BY <1>2

LEMMA AllIs ==
  ASSUME NEW n \in Nat
  PROVE  All(n) \in Seq(Nat) /\ Len(All(n)) = n /\ \A i \in 1..n : All(n)[i] = i
<1>1. All(n) \in [1..n -> Nat]
  BY DEF All
<1> QED BY <1>1 DEF All

\* The bytes a call gives are those that follow.
LEMMA SomeIs ==
  ASSUME Parts, NEW n \in Nat
  PROVE  /\ Some(n) \in Seq(Nat) /\ Len(Some(n)) = n
         /\ All(given) \o Some(n) = All(given + n)
<1>1. given \in Nat
  BY SizesAre DEF Parts
<1>2. Some(n) \in [1..n -> Nat]
  BY <1>1 DEF Some
<1>3. Some(n) \in Seq(Nat) /\ Len(Some(n)) = n /\ \A i \in 1..n : Some(n)[i] = given + i
  BY <1>2 DEF Some
<1> DEFINE a == All(given)
           b == Some(n)
           c == All(given + n)
<1>4. /\ a \in Seq(Nat) /\ Len(a) = given /\ \A i \in 1..given : a[i] = i
      /\ c \in Seq(Nat) /\ Len(c) = given + n /\ \A i \in 1..(given + n) : c[i] = i
  <2>1. given + n \in Nat
    BY <1>1
  <2> QED BY <1>1, <2>1, AllIs
<1>5. b \in Seq(Nat) /\ Len(b) = n /\ \A i \in 1..n : b[i] = given + i
  BY <1>3
<1> HIDE DEF a, b, c
<1>6. /\ a \o b \in Seq(Nat) /\ Len(a \o b) = Len(a) + Len(b)
      /\ \A i \in 1..(Len(a) + Len(b)) : (a \o b)[i] = IF i <= Len(a) THEN a[i] ELSE b[i - Len(a)]
  BY <1>4, <1>5, JoinIs
<1>7. /\ Len(a \o b) = given + n
      /\ \A i \in 1..(given + n) : (a \o b)[i] = IF i <= given THEN a[i] ELSE b[i - given]
  BY <1>4, <1>5, <1>6
<1>8. ASSUME NEW i \in 1..(given + n) PROVE (a \o b)[i] = c[i]
  <2>1. CASE i <= given
    <3>1. i \in 1..given
      BY <1>1, <2>1
    <3>2. (a \o b)[i] = a[i]
      BY <1>7, <2>1
    <3> QED BY <1>4, <3>1, <3>2
  <2>2. CASE i > given
    <3>1. i - given \in 1..n /\ ~(i <= given) /\ given + (i - given) = i
      BY <1>1, <2>2
    <3>2. (a \o b)[i] = b[i - given]
      BY <1>7, <3>1
    <3> QED BY <1>4, <1>5, <3>1, <3>2
  <2>3. i <= given \/ i > given
    BY <1>1
  <2> QED BY <2>1, <2>2, <2>3
<1>9. a \o b = c
  BY <1>4, <1>6, <1>7, <1>8, SeqEqual
<1> QED BY <1>3, <1>9 DEF a, b, c

\* A sequence cut in two.
LEMMA CutIs ==
  ASSUME NEW s \in Seq(Nat), NEW k \in 0..Len(s)
  PROVE  /\ SubSeq(s, 1, k) \in Seq(Nat) /\ Len(SubSeq(s, 1, k)) = k
         /\ Cut(s, k) \in Seq(Nat) /\ Len(Cut(s, k)) = Len(s) - k
         /\ SubSeq(s, 1, k) \o Cut(s, k) = s
<1>1. Len(s) \in Nat /\ k \in Nat /\ k <= Len(s)
  BY LenProperties
<1>2. SubSeq(s, 1, k) \in Seq(Nat) /\ Len(SubSeq(s, 1, k)) = k
  <2>1. 1 <= k + 1 /\ 1 \in Nat \ {0} /\ k + 1 - 1 = k
    BY <1>1
  <2> QED BY <2>1, PieceIs
<1>3. Cut(s, k) \in Seq(Nat) /\ Len(Cut(s, k)) = Len(s) - k
  <2>1. /\ k + 1 <= Len(s) + 1 /\ k + 1 \in Nat \ {0} /\ Len(s) + 1 - (k + 1) = Len(s) - k
        /\ Len(s) \in 0..Len(s)
    BY <1>1
  <2> QED BY <2>1, PieceIs DEF Cut
<1>4. SubSeq(s, 1, k) \o SubSeq(s, k + 1, Len(s)) = SubSeq(s, 1, Len(s))
  <2>1. Len(s) <= Len(s)
    BY <1>1
  <2> QED BY <1>1, <2>1, PiecesJoin
<1>5. SubSeq(s, 1, Len(s)) = s
  BY SubSeqFull
<1> QED BY <1>2, <1>3, <1>4, <1>5 DEF Cut

LEMMA LengthsAre ==
  ASSUME Parts
  PROVE  /\ Len(sink) \in Nat /\ Len(below) \in Nat /\ Len(held) \in Nat /\ Len(from) \in Nat
         /\ Len(pub) \in Nat /\ Len(rem) \in Nat /\ Len(rest) \in Nat
         /\ given \in Nat /\ given <= Bytes
BY LenProperties, SizesAre DEF Parts

\* An empty part, and one that is not.
LEMMA EmptyIs ==
  ASSUME NEW s \in Seq(Nat)
  PROVE  s = <<>> <=> Len(s) = 0
<1>1. Len(s) \in Nat
  BY LenProperties
<1>2. ASSUME Len(s) = 0 PROVE s = <<>>
  <2>1. \A i \in 1..Len(s) : s[i] = <<>>[i]
    BY <1>2
  <2>2. <<>> \in Seq(Nat) /\ Len(<<>>) = 0
    BY JoinEmpty
  <2> QED BY <1>2, <2>1, <2>2, SeqEqual
<1> QED BY <1>2

\* What a prefix is.
LEMMA PrefixOfJoin ==
  ASSUME NEW s \in Seq(Nat), NEW t \in Seq(Nat)
  PROVE  IsPrefix(s, s \o t)
<1> DEFINE u == s \o t
           n == Len(s)
<1>1. /\ u \in Seq(Nat) /\ Len(u) = n + Len(t) /\ n \in Nat /\ Len(t) \in Nat
      /\ \A i \in 1..(n + Len(t)) : u[i] = IF i <= n THEN s[i] ELSE t[i - n]
  BY JoinIs
<1> HIDE DEF u, n
<1>2. SubSeq(u, 1, n) \in Seq(Nat) /\ Len(SubSeq(u, 1, n)) = n
      /\ \A i \in 1..n : SubSeq(u, 1, n)[i] = u[i]
  <2>1. n \in 0..Len(u) /\ 1 <= n + 1 /\ 1 \in Nat \ {0} /\ n + 1 - 1 = n
    BY <1>1
  <2>2. /\ SubSeq(u, 1, n) \in Seq(Nat) /\ Len(SubSeq(u, 1, n)) = n + 1 - 1
        /\ \A i \in 1..(n + 1 - 1) : SubSeq(u, 1, n)[i] = u[1 + i - 1]
    BY <1>1, <2>1, PieceIs
  <2>3. \A i \in 1..n : 1 + i - 1 = i
    BY <1>1
  <2> QED BY <2>1, <2>2, <2>3
<1>3. \A i \in 1..n : SubSeq(u, 1, n)[i] = s[i]
  <2>1. \A i \in 1..n : i \in 1..(n + Len(t)) /\ i <= n
    BY <1>1
  <2> QED BY <1>1, <1>2, <2>1
<1>4. SubSeq(u, 1, n) = s
  <2>1. Len(SubSeq(u, 1, n)) = Len(s)
    BY <1>2 DEF n
  <2>2. \A i \in 1..Len(SubSeq(u, 1, n)) : SubSeq(u, 1, n)[i] = s[i]
    BY <1>2, <1>3
  <2> QED BY <1>2, <2>1, <2>2, SeqEqual
<1>5. SubSeq(s, 1, Len(s)) = s
  BY SubSeqFull
<1>6. Len(s) <= Len(u)
  BY <1>1 DEF n
<1> QED BY <1>4, <1>5, <1>6 DEF u, n, IsPrefix

-----------------------------------------------------------------------------
(***************************************************************************)
(* The places in their order.                                              *)
(***************************************************************************)

Whole == sink \o below \o held \o from \o pub \o rem \o rest

Reached == sink \o below \o held

\* What a step shows of a flush that has returned.
Shows == op = "flush" /\ op' = "none" /\ state' = "open" => sink' \o rem' = All(given')

\* As a name the provers do not look into.
Strings == Seq(Nat)

\* One after the other, as an operator the provers do not look into.
Then(s, t) == s \o t

\* The places behind what has reached the stream below.
Behind(h, f, p, m, r) == Then(h, Then(f, Then(p, Then(m, r))))

\* All the places in their order.
Row(s, b, h, f, p, m, r) == Then(Then(Then(Then(Then(Then(s, b), h), f), p), m), r)

LEMMA JoinClosed == \A s, t \in Seq(Nat) : s \o t \in Seq(Nat)
BY JoinIs

LEMMA ThenIs ==
  /\ <<>> \in Strings /\ Len(<<>>) = 0
  /\ \A s, t \in Strings : Then(s, t) \in Strings /\ Len(Then(s, t)) = Len(s) + Len(t)
  /\ \A s \in Strings : Then(<<>>, s) = s /\ Then(s, <<>>) = s
  /\ \A s, t, u \in Strings : Then(Then(s, t), u) = Then(s, Then(t, u))
<1>1. <<>> \in Strings /\ Len(<<>>) = 0
  BY JoinEmpty DEF Strings
<1>2. ASSUME NEW s \in Strings, NEW t \in Strings
      PROVE  Then(s, t) \in Strings /\ Len(Then(s, t)) = Len(s) + Len(t)
  BY JoinIs DEF Then, Strings
<1>3. ASSUME NEW s \in Strings
      PROVE  Then(<<>>, s) = s /\ Then(s, <<>>) = s
  BY JoinEmpty DEF Then, Strings
<1>4. ASSUME NEW s \in Strings, NEW t \in Strings, NEW u \in Strings
      PROVE  Then(Then(s, t), u) = Then(s, Then(t, u))
  BY JoinAssociative DEF Then, Strings
<1> QED BY <1>1, <1>2, <1>3, <1>4

LEMMA BehindIs ==
  ASSUME NEW h \in Strings, NEW f \in Strings, NEW p \in Strings, NEW m \in Strings,
         NEW r \in Strings
  PROVE  Behind(h, f, p, m, r) \in Strings
<1>1. Then(m, r) \in Strings
  BY ThenIs
<1>2. Then(p, Then(m, r)) \in Strings
  BY <1>1, ThenIs
<1>3. Then(f, Then(p, Then(m, r))) \in Strings
  BY <1>2, ThenIs
<1> QED BY <1>3, ThenIs DEF Behind

\* The whole is what has reached the stream below and what is behind it.
LEMMA Regrouped ==
  \A s, b, h, f, p, m, r :
    /\ s \in Strings /\ b \in Strings /\ h \in Strings /\ f \in Strings /\ p \in Strings
    /\ m \in Strings /\ r \in Strings
    => Row(s, b, h, f, p, m, r) = Then(Then(s, b), Behind(h, f, p, m, r))
<1> TAKE s, b, h, f, p, m, r
<1> HAVE /\ s \in Strings /\ b \in Strings /\ h \in Strings /\ f \in Strings /\ p \in Strings
         /\ m \in Strings /\ r \in Strings
<1> DEFINE a == Then(s, b)
<1>1. a \in Strings
  BY ThenIs
<1> HIDE DEF a
<1>2. Then(a, h) \in Strings /\ Then(m, r) \in Strings
  BY <1>1, ThenIs
<1>3. Then(Then(a, h), f) \in Strings /\ Then(p, Then(m, r)) \in Strings
  BY <1>2, ThenIs
<1>4. Then(Then(Then(a, h), f), p) \in Strings /\ Then(f, Then(p, Then(m, r))) \in Strings
  BY <1>3, ThenIs
<1>5. Then(Then(Then(Then(Then(a, h), f), p), m), r) = Then(Then(Then(Then(a, h), f), p), Then(m, r))
  BY <1>4, ThenIs
<1>6. Then(Then(Then(Then(a, h), f), p), Then(m, r)) = Then(Then(Then(a, h), f), Then(p, Then(m, r)))
  BY <1>2, <1>3, ThenIs
<1>7. Then(Then(Then(a, h), f), Then(p, Then(m, r))) = Then(Then(a, h), Then(f, Then(p, Then(m, r))))
  BY <1>2, <1>3, ThenIs
<1>8. Then(Then(a, h), Then(f, Then(p, Then(m, r)))) = Then(a, Behind(h, f, p, m, r))
  BY <1>1, <1>4, ThenIs DEF Behind
<1> QED BY <1>5, <1>6, <1>7, <1>8 DEF a, Row

LEMMA ReachedIs ==
  ASSUME Parts
  PROVE  Reached \in Seq(Nat) /\ sink \o below \in Seq(Nat)
<1>1. sink \o below \in Seq(Nat)
  BY JoinClosed DEF Parts
<1> QED BY <1>1, JoinClosed DEF Parts, Reached

\* An adapter with every byte in its place is sound if its parts are.
LEMMA WholeIs ==
  ASSUME Parts
  PROVE  /\ Then(sink, below) \in Strings /\ Behind(held, from, pub, rem, rest) \in Strings
         /\ Whole = Then(Then(sink, below), Behind(held, from, pub, rem, rest))
<1>1. /\ sink \in Strings /\ below \in Strings /\ held \in Strings /\ from \in Strings
      /\ pub \in Strings /\ rem \in Strings /\ rest \in Strings
  BY DEF Parts, Strings
<1>2. Then(sink, below) \in Strings
  BY <1>1, ThenIs
<1>3. Behind(held, from, pub, rem, rest) \in Strings
  BY <1>1, BehindIs
<1>4. Row(sink, below, held, from, pub, rem, rest)
      = Then(Then(sink, below), Behind(held, from, pub, rem, rest))
  BY <1>1, Regrouped
<1>5. Whole = Row(sink, below, held, from, pub, rem, rest)
  BY DEF Then, Row, Whole
<1> QED BY <1>2, <1>3, <1>4, <1>5

LEMMA NextWholeIs ==
  ASSUME Parts'
  PROVE  /\ Then(sink', below') \in Strings /\ Behind(held', from', pub', rem', rest') \in Strings
         /\ Whole' = Then(Then(sink', below'), Behind(held', from', pub', rem', rest'))
<1>1. /\ sink' \in Strings /\ below' \in Strings /\ held' \in Strings /\ from' \in Strings
      /\ pub' \in Strings /\ rem' \in Strings /\ rest' \in Strings
  BY DEF Parts, Strings
<1>2. Then(sink', below') \in Strings
  BY <1>1, ThenIs
<1>3. Behind(held', from', pub', rem', rest') \in Strings
  BY <1>1, BehindIs
<1>4. Row(sink', below', held', from', pub', rem', rest')
      = Then(Then(sink', below'), Behind(held', from', pub', rem', rest'))
  BY <1>1, Regrouped
<1>5. Whole' = Row(sink', below', held', from', pub', rem', rest')
  BY DEF Then, Row, Whole
<1> QED BY <1>2, <1>3, <1>4, <1>5

LEMMA PlacedSound ==
  ASSUME Parts', Storage', Course', Emptied', FinishedIsAll', Whole' = All(given')
  PROVE  Sound'
<1>1. InOrder'
  BY DEF InOrder, Whole
<1>2. Gapless'
  <2> DEFINE t == Behind(held', from', pub', rem', rest')
  <2>1. t \in Strings /\ Whole' = Then(Then(sink', below'), t)
    BY NextWholeIs
  <2> HIDE DEF t
  <2>2. (sink' \o below') \o t = All(given')
    BY <2>1 DEF Then
  <2>3. \E u \in Strings : (sink' \o below') \o u = All(given')
    BY <2>1, <2>2
  <2> QED BY <2>3 DEF Gapless, Strings
<1> QED BY <1>1, <1>2 DEF Sound

LEMMA RunningSound ==
  ASSUME Parts', Storage', Course', Emptied', state' # "finished", Whole' = All(given')
  PROVE  Sound'
<1>1. FinishedIsAll'
  BY DEF FinishedIsAll
<1> QED BY <1>1, PlacedSound

-----------------------------------------------------------------------------
(***************************************************************************)
(* How bytes move between the places.                                      *)
(***************************************************************************)

\* What collected in the put area becomes the range put through.
LEMMA AreaThrough ==
  ASSUME NEW h \in Strings, NEW p \in Strings, NEW m \in Strings, NEW r \in Strings
  PROVE  Behind(h, <<>>, p, m, r) = Behind(h, p, <<>>, m, r)
<1> DEFINE t == Then(m, r)
<1>1. t \in Strings
  BY ThenIs
<1> HIDE DEF t
<1>2. Then(p, t) \in Strings
  BY <1>1, ThenIs
<1>3. Then(<<>>, Then(p, t)) = Then(p, t) /\ Then(<<>>, t) = t
  BY <1>1, <1>2, ThenIs
<1> QED BY <1>3 DEF Behind, t

\* The caller's range is put through, or is kept in the put area.
LEMMA RangeThrough ==
  ASSUME NEW h \in Strings, NEW r \in Strings
  PROVE  /\ Behind(h, <<>>, <<>>, <<>>, r) = Behind(h, r, <<>>, <<>>, <<>>)
         /\ Behind(h, <<>>, <<>>, <<>>, r) = Behind(h, <<>>, r, <<>>, <<>>)
<1>1. Then(<<>>, r) = r /\ Then(r, <<>>) = r /\ Then(<<>>, <<>>) = <<>>
  BY ThenIs
<1> QED BY <1>1 DEF Behind

\* A call's bytes come behind all others.
LEMMA Appended ==
  ASSUME NEW h \in Strings, NEW f \in Strings, NEW p \in Strings, NEW m \in Strings,
         NEW r \in Strings
  PROVE  Then(Behind(h, f, p, m, <<>>), r) = Behind(h, f, p, m, r)
<1>1. Then(m, <<>>) = m /\ Then(m, r) \in Strings
  BY ThenIs
<1>2. Then(p, m) \in Strings /\ Then(p, Then(m, r)) = Then(Then(p, m), r)
  BY ThenIs
<1>3. Then(f, Then(p, m)) \in Strings /\ Then(f, Then(Then(p, m), r)) = Then(Then(f, Then(p, m)), r)
  BY <1>2, ThenIs
<1>4. Then(h, Then(Then(f, Then(p, m)), r)) = Then(Then(h, Then(f, Then(p, m))), r)
  BY <1>3, ThenIs
<1> QED BY <1>1, <1>2, <1>3, <1>4 DEF Behind

\* The part of a character takes what it lacks.
LEMMA RemainderTakes ==
  ASSUME NEW h \in Strings, NEW p \in Strings, NEW m \in Strings, NEW x \in Strings,
         NEW y \in Strings
  PROVE  Behind(h, <<>>, p, m, Then(x, y)) = Behind(h, <<>>, p, Then(m, x), y)
<1>1. Then(m, Then(x, y)) = Then(Then(m, x), y)
  BY ThenIs
<1> QED BY <1>1 DEF Behind

\* A character, or those of a range, are put into the put area.
LEMMA RemainderPut ==
  ASSUME NEW h \in Strings, NEW p \in Strings, NEW m \in Strings, NEW r \in Strings
  PROVE  Behind(h, <<>>, p, m, r) = Behind(h, <<>>, Then(p, m), <<>>, r)
<1>1. Then(p, Then(m, r)) = Then(Then(p, m), r) /\ Then(<<>>, r) = r
  BY ThenIs
<1> QED BY <1>1 DEF Behind

LEMMA CharactersPut ==
  ASSUME NEW h \in Strings, NEW p \in Strings, NEW x \in Strings, NEW y \in Strings
  PROVE  Behind(h, <<>>, p, <<>>, Then(x, y)) = Behind(h, <<>>, Then(p, x), <<>>, y)
<1>1. Then(x, y) \in Strings
  BY ThenIs
<1>2. Then(<<>>, Then(x, y)) = Then(x, y) /\ Then(<<>>, y) = y
  BY <1>1, ThenIs
<1>3. Then(p, Then(x, y)) = Then(Then(p, x), y)
  BY ThenIs
<1> QED BY <1>2, <1>3 DEF Behind

\* The engine takes x of its source and makes o of what it keeps and of x.
LEMMA Taken ==
  \A h, x, g, o, k, t :
    /\ h \in Strings /\ x \in Strings /\ g \in Strings /\ o \in Strings /\ k \in Strings
    /\ t \in Strings /\ Then(h, x) = Then(o, k)
    => Then(h, Then(Then(x, g), t)) = Then(o, Then(k, Then(g, t)))
<1> TAKE h, x, g, o, k, t
<1> HAVE /\ h \in Strings /\ x \in Strings /\ g \in Strings /\ o \in Strings /\ k \in Strings
         /\ t \in Strings /\ Then(h, x) = Then(o, k)
<1>1. Then(g, t) \in Strings /\ Then(Then(x, g), t) = Then(x, Then(g, t))
  BY ThenIs
<1>2. Then(h, Then(x, Then(g, t))) = Then(Then(h, x), Then(g, t))
  BY <1>1, ThenIs
<1>3. Then(Then(o, k), Then(g, t)) = Then(o, Then(k, Then(g, t)))
  BY <1>1, ThenIs
<1> QED BY <1>1, <1>2, <1>3

LEMMA PartsAre ==
  ASSUME Parts
  PROVE  /\ sink \in Strings /\ below \in Strings /\ held \in Strings /\ from \in Strings
         /\ pub \in Strings /\ rem \in Strings /\ rest \in Strings
BY DEF Parts, Strings

\* A step that moves bytes to the stream below, or none.
LEMMA MovedWhole ==
  ASSUME Sound, state = "open", Parts', given' = given, NEW o \in Strings,
         Then(sink', below') = Then(Then(sink, below), o),
         Behind(held, from, pub, rem, rest) = Then(o, Behind(held', from', pub', rem', rest'))
  PROVE  Whole' = All(given')
<1> DEFINE a == Then(sink, below)
           b == Behind(held', from', pub', rem', rest')
<1>1. /\ a \in Strings /\ Whole = Then(a, Behind(held, from, pub, rem, rest))
  BY WholeIs DEF Sound
<1>2. b \in Strings /\ Whole' = Then(Then(sink', below'), b)
  BY NextWholeIs
<1> HIDE DEF a, b
<1>3. Then(Then(a, o), b) = Then(a, Then(o, b))
  BY <1>1, <1>2, ThenIs
<1>4. Whole' = Whole
  BY <1>1, <1>2, <1>3 DEF a, b
<1>5. Whole = All(given)
  BY DEF Sound, InOrder, Whole
<1> QED BY <1>4, <1>5

LEMMA SameWhole ==
  ASSUME Sound, state = "open", Parts', given' = given, sink' = sink, below' = below,
         Behind(held, from, pub, rem, rest) = Behind(held', from', pub', rem', rest')
  PROVE  Whole' = All(given')
<1>1. /\ Then(sink, below) \in Strings
      /\ Whole = Then(Then(sink, below), Behind(held, from, pub, rem, rest))
  BY WholeIs DEF Sound
<1>2. Whole' = Then(Then(sink', below'), Behind(held', from', pub', rem', rest'))
  BY NextWholeIs
<1>3. Whole' = Whole
  BY <1>1, <1>2
<1>4. Whole = All(given)
  BY DEF Sound, InOrder, Whole
<1> QED BY <1>3, <1>4

LEMMA GivenWhole ==
  ASSUME Sound, state = "open", Parts', sink' = sink, below' = below,
         NEW n \in Nat, given' = given + n,
         Behind(held', from', pub', rem', rest') = Then(Behind(held, from, pub, rem, rest), Some(n))
  PROVE  Whole' = All(given')
<1> DEFINE a == Then(sink, below)
           b == Behind(held, from, pub, rem, rest)
           c == Some(n)
<1>1. /\ a \in Strings /\ b \in Strings /\ Whole = Then(a, b)
  BY WholeIs DEF Sound
<1>2. Whole' = Then(a, Behind(held', from', pub', rem', rest'))
  BY NextWholeIs
<1>3. c \in Strings /\ Then(All(given), c) = All(given')
  BY SomeIs DEF Sound, Strings, Then
<1> HIDE DEF a, b, c
<1>4. Then(Then(a, b), c) = Then(a, Then(b, c))
  BY <1>1, <1>3, ThenIs
<1>5. Whole' = Then(Whole, c)
  BY <1>1, <1>2, <1>4 DEF b, c
<1>6. Whole = All(given)
  BY DEF Sound, InOrder, Whole
<1> QED BY <1>3, <1>5, <1>6

-----------------------------------------------------------------------------
\* What is free of the put area is a number of characters.
LEMMA RoomIs ==
  ASSUME Storage, Parts
  PROVE  \E q \in 0..Cap, n \in 0..Cap :
           Len(pub) = q * Unit /\ Room = n * Unit /\ q + n <= Cap /\ (n > 0 => area)
<1>1. PICK q \in 0..Cap : Len(pub) = q * Unit
  BY DEF Storage
<1>2. Unit \in Nat \ {0} /\ Cap \in Nat \ {0} /\ q \in Nat
  BY SizesAre
<1>3. CASE area
  <2>1. Room = Cap * Unit - q * Unit
    BY <1>1, <1>3 DEF Room
  <2>2. Cap - q \in 0..Cap /\ q + (Cap - q) <= Cap
    BY <1>2
  <2>3. Cap * Unit - q * Unit = (Cap - q) * Unit
    BY <1>2
  <2> QED BY <1>1, <1>3, <2>1, <2>2, <2>3
<1>4. CASE ~area
  <2>1. Room = 0
    BY <1>4 DEF Room
  <2>2. 0 * Unit = 0 /\ 0 \in 0..Cap /\ q + 0 <= Cap
    BY <1>2
  <2>3. ~(0 > 0)
    OBVIOUS
  <2> QED BY <1>1, <2>1, <2>2, <2>3
<1> QED BY <1>3, <1>4

LEMMA EmptyStored ==
  ASSUME Len(rem') <= Unit, Len(below') <= Below, area' \in BOOLEAN, pub' = <<>>
  PROVE  Storage'
<1>1. Len(pub') = 0 * Unit /\ 0 \in 0..Cap
  BY SizesAre, JoinEmpty
<1> QED BY <1>1 DEF Storage

-----------------------------------------------------------------------------
(***************************************************************************)
(* Calls.                                                                  *)
(***************************************************************************)

LEMMA InitSound ==
  ASSUME Init
  PROVE  Sound
<1>1. /\ sink = <<>> /\ below = <<>> /\ held = <<>> /\ from = <<>> /\ pub = <<>>
      /\ rem = <<>> /\ rest = <<>> /\ given = 0
  BY DEF Init
<1>2. <<>> \in Seq(Nat) /\ Len(<<>>) = 0 /\ <<>> \o <<>> = <<>>
  BY JoinEmpty
<1>3. Parts
  BY <1>1, <1>2, SizesAre DEF Parts
<1>4. Storage
  <2>1. Len(rem) <= Unit /\ Len(below) <= Below
    BY <1>1, <1>2, SizesAre
  <2>2. area \in BOOLEAN
    BY DEF Init
  <2>3. Len(pub) = 0 * Unit /\ 0 \in 0..Cap
    BY <1>1, <1>2, SizesAre
  <2> QED BY <1>1, <2>1, <2>2, <2>3 DEF Storage
<1>5. Course
  BY DEF Init, Course
<1>6. Emptied
  BY <1>1 DEF Init, Emptied
<1>7. Whole = All(given)
  <2>1. Whole = <<>>
    BY <1>1, <1>2 DEF Whole
  <2>2. All(0) \in Seq(Nat) /\ Len(All(0)) = 0
    BY AllIs
  <2>3. All(0) = <<>>
    BY <2>2, EmptyIs
  <2> QED BY <1>1, <2>1, <2>3
<1>8. InOrder /\ FinishedIsAll
  BY <1>7 DEF InOrder, Whole, Init, FinishedIsAll
<1>9. Gapless
  <2> DEFINE t == Behind(held, from, pub, rem, rest)
  <2>1. t \in Strings /\ Whole = Then(Then(sink, below), t)
    BY <1>3, WholeIs
  <2> HIDE DEF t
  <2>2. (sink \o below) \o t = All(given)
    BY <1>7, <2>1 DEF Then
  <2>3. \E u \in Strings : (sink \o below) \o u = All(given)
    BY <2>1, <2>2
  <2> QED BY <2>3 DEF Gapless, Strings
<1> QED BY <1>3, <1>4, <1>5, <1>6, <1>8, <1>9 DEF Sound

\* The state between two calls.
LEMMA BetweenCalls ==
  ASSUME Sound, op = "none", state = "open"
  PROVE  /\ stage = "none" /\ from = <<>> /\ rest = <<>>
         /\ Reached \in Seq(Nat) /\ pub \in Seq(Nat) /\ rem \in Seq(Nat)
         /\ Whole = All(given) /\ Whole = (Reached \o pub) \o rem
<1>1. stage = "none" /\ from = <<>> /\ rest = <<>>
  BY DEF Sound, Course, Emptied
<1>2. Reached \in Seq(Nat) /\ pub \in Seq(Nat) /\ rem \in Seq(Nat)
  BY ReachedIs DEF Sound, Parts
<1>3. Whole = All(given)
  BY DEF Sound, InOrder, Whole
<1>4. Reached \o pub \in Seq(Nat)
  BY <1>2, JoinClosed
<1>5. (Reached \o pub) \o rem \in Seq(Nat)
  BY <1>2, <1>4, JoinClosed
<1>6. Whole = (((Reached \o <<>>) \o pub) \o rem) \o <<>>
  BY <1>1 DEF Whole, Reached
<1>7. Whole = (Reached \o pub) \o rem
  BY <1>2, <1>5, <1>6, JoinEmpty
<1> QED BY <1>1, <1>2, <1>3, <1>7

LEMMA PutKeeps ==
  ASSUME Sound, Put
  PROVE  Sound' /\ Shows
<1>1. op = "none" /\ state = "open" /\ rem = <<>>
  BY DEF Put, Boundary
<1>2. PICK k \in 1..(Room \div Unit) :
        /\ given + k * Unit <= Bytes
        /\ pub' = pub \o Some(k * Unit)
        /\ given' = given + k * Unit
  BY DEF Put
<1>3. UNCHANGED <<state, area, rem, held, op, stage, from, rest, below, sink>>
  BY DEF Put, stream
<1>4. PICK q \in 0..Cap, n \in 0..Cap :
        Len(pub) = q * Unit /\ Room = n * Unit /\ q + n <= Cap /\ (n > 0 => area)
  BY RoomIs DEF Sound
<1>5. Unit \in Nat \ {0} /\ Cap \in Nat /\ q \in Nat /\ n \in Nat /\ Bytes \in Nat
  BY SizesAre
<1>6. k \in Nat /\ k >= 1 /\ k <= n
  <2>1. n * Unit <= n * Unit /\ n * Unit \in Nat
    BY <1>5
  <2>2. (n * Unit) \div Unit <= n /\ (n * Unit) \div Unit \in Nat
    BY <1>5, <2>1, FitsCharacters, DivisionIs
  <2> QED BY <1>4, <1>5, <2>2
<1>7. k * Unit \in Nat /\ given \in Nat
  BY <1>5, <1>6, LengthsAre DEF Sound
<1>8. /\ Some(k * Unit) \in Seq(Nat) /\ Len(Some(k * Unit)) = k * Unit
      /\ All(given) \o Some(k * Unit) = All(given')
  BY <1>2, <1>7, SomeIs DEF Sound
<1>9. pub' \in Seq(Nat) /\ Len(pub') = Len(pub) + k * Unit
  <2> DEFINE new == Some(k * Unit)
  <2> HIDE DEF new
  <2>1. new \in Seq(Nat) /\ Len(new) = k * Unit /\ pub \in Seq(Nat) /\ pub' = pub \o new
    BY <1>2, <1>8 DEF new, Sound, Parts
  <2>2. pub \o new \in Seq(Nat) /\ Len(pub \o new) = Len(pub) + Len(new)
    BY <2>1, JoinIs
  <2> QED BY <2>1, <2>2
<1>10. Parts'
  <2>1. given' \in 0..Bytes
    BY <1>2, <1>5, <1>7
  <2> QED BY <1>3, <1>9, <2>1 DEF Sound, Parts
<1>11. Storage'
  <2>1. q + k \in 0..Cap /\ n > 0
    BY <1>4, <1>5, <1>6
  <2>2. Len(pub') = (q + k) * Unit
    BY <1>4, <1>5, <1>6, <1>9
  <2>3. area' /\ area' \in BOOLEAN
    BY <1>3, <1>4, <2>1 DEF Sound, Storage
  <2>4. Len(rem') <= Unit /\ Len(below') <= Below
    BY <1>3 DEF Sound, Storage
  <2> QED BY <2>1, <2>2, <2>3, <2>4 DEF Storage
<1>12. Course' /\ Emptied'
  <2>1. Course'
    BY <1>3 DEF Sound, Course
  <2>2. stage = "none"
    BY <1>1, BetweenCalls
  <2>3. Emptied'
    BY <1>1, <1>3, <2>2 DEF Sound, Emptied
  <2> QED BY <2>1, <2>3
<1>13. Whole' = All(given')
  <2>1. /\ from = <<>> /\ rest = <<>> /\ Reached \in Seq(Nat) /\ pub \in Seq(Nat)
        /\ Whole = All(given) /\ Whole = (Reached \o pub) \o rem
    BY <1>1, BetweenCalls
  <2>2. Reached \o pub \in Seq(Nat) /\ Reached \o pub = All(given)
    BY <1>1, <2>1, JoinClosed, JoinEmpty
  <2>3. Whole' = (((Reached \o <<>>) \o pub') \o <<>>) \o <<>>
    BY <1>1, <1>3, <2>1 DEF Whole, Reached
  <2>4. Reached \o pub' \in Seq(Nat)
    BY <1>9, <2>1, JoinClosed
  <2>5. Whole' = Reached \o pub'
    BY <2>1, <2>3, <2>4, JoinEmpty
  <2>6. Reached \o pub' = (Reached \o pub) \o Some(k * Unit)
    BY <1>2, <1>8, <2>1, JoinAssociative
  <2> QED BY <1>8, <2>2, <2>5, <2>6
<1>14. state' # "finished" /\ Shows
  BY <1>1, <1>3 DEF Shows
<1> QED BY <1>10, <1>11, <1>12, <1>13, <1>14, RunningSound

\* A call that puts through what has collected.
LEMMA AreaTaken ==
  ASSUME Sound, op = "none", state = "open",
         from' = pub, pub' = <<>>, UNCHANGED <<state, area, rem, held, rest, below, sink, given>>
  PROVE  Parts' /\ Storage' /\ Whole' = All(given')
<1>1. from = <<>> /\ rest = <<>>
  BY BetweenCalls
<1>2. Parts'
  BY JoinEmpty DEF Sound, Parts
<1>3. Storage'
  <2>1. Len(rem') <= Unit /\ Len(below') <= Below
    BY DEF Sound, Storage
  <2>2. area' \in BOOLEAN
    BY DEF Sound, Storage
  <2> QED BY <2>1, <2>2, EmptyStored
<1>4. Behind(held, <<>>, pub, rem, rest) = Behind(held, pub, <<>>, rem, rest)
  <2>1. held \in Strings /\ pub \in Strings /\ rem \in Strings /\ rest \in Strings
    BY PartsAre DEF Sound
  <2> QED BY <2>1, AreaThrough
<1>5. Behind(held, from, pub, rem, rest) = Behind(held', from', pub', rem', rest')
  BY <1>1, <1>4
<1>6. Whole' = All(given')
  BY <1>2, <1>5, SameWhole
<1> QED BY <1>2, <1>3, <1>6

LEMMA PrepareKeeps ==
  ASSUME Sound, Prepare
  PROVE  Sound' /\ Shows
<1>1. /\ op = "none" /\ state = "open" /\ rem = <<>> /\ op' = "prepare" /\ stage' = "prefix"
      /\ from' = pub /\ pub' = <<>>
  BY DEF Prepare, Boundary
<1>2. UNCHANGED <<state, area, rem, held, rest, below, sink, given>>
  BY DEF Prepare, stream
<1>3. stage = "none" /\ from = <<>> /\ rest = <<>>
  BY <1>1, BetweenCalls
<1>4. Parts' /\ Storage' /\ Whole' = All(given')
  BY <1>1, <1>2, AreaTaken
<1>5. Course'
  BY <1>1, <1>2 DEF Course
<1>6. Emptied'
  BY <1>1, <1>2, <1>3 DEF Emptied
<1> QED BY <1>1, <1>2, <1>4, <1>5, <1>6, RunningSound DEF Shows

LEMMA FlushKeeps ==
  ASSUME Sound, Flush
  PROVE  Sound' /\ Shows
<1>1. /\ op = "none" /\ state = "open" /\ op' = "flush" /\ stage' = "prefix"
      /\ from' = pub /\ pub' = <<>>
  BY DEF Flush
<1>2. UNCHANGED <<state, area, rem, held, rest, below, sink, given>>
  BY DEF Flush, stream
<1>3. stage = "none" /\ from = <<>> /\ rest = <<>>
  BY <1>1, BetweenCalls
<1>4. Parts' /\ Storage' /\ Whole' = All(given')
  BY <1>1, <1>2, AreaTaken
<1>5. Course'
  BY <1>1, <1>2 DEF Course
<1>6. Emptied'
  <2>1. Native => rem = <<>>
    BY DEF Sound, Emptied
  <2> QED BY <1>1, <1>2, <1>3, <2>1 DEF Emptied
<1> QED BY <1>1, <1>2, <1>4, <1>5, <1>6, RunningSound DEF Shows

\* A step that ends the adapter and hands nothing on.
LEMMA EndedSound ==
  ASSUME Sound, Parts', Storage', Course', Emptied', state' \in {"failed", "cancelled"},
         UNCHANGED <<below, sink, given>>
  PROVE  Sound'
<1>1. InOrder' /\ FinishedIsAll'
  BY DEF InOrder, FinishedIsAll
<1>2. Gapless'
  BY DEF Sound, Gapless
<1> QED BY <1>1, <1>2 DEF Sound

LEMMA FinishKeeps ==
  ASSUME Sound, Finish
  PROVE  Sound' /\ Shows
<1>1. op = "none" /\ state = "open"
  BY DEF Finish
<1>2. UNCHANGED <<area, rem, held, rest, below, sink, given>>
  BY DEF Finish, stream
<1>3. stage = "none" /\ from = <<>> /\ rest = <<>>
  BY <1>1, BetweenCalls
<1>4. Native => rem = <<>>
  BY DEF Sound, Emptied
<1>5. CASE rem = <<>>
  <2>1. /\ op' = "finish" /\ stage' = "prefix" /\ from' = pub /\ pub' = <<>> /\ state' = state
    BY <1>5 DEF Finish, Incomplete
  <2>2. Parts' /\ Storage' /\ Whole' = All(given')
    BY <1>1, <1>2, <2>1, AreaTaken
  <2>3. Course'
    BY <1>1, <2>1 DEF Course
  <2>4. Emptied'
    BY <1>2, <1>3, <1>5, <2>1 DEF Emptied
  <2> QED BY <1>1, <2>1, <2>2, <2>3, <2>4, RunningSound DEF Shows
<1>6. CASE rem # <<>>
  <2>1. state' = "failed" /\ UNCHANGED <<op, stage, from, pub>>
    BY <1>6 DEF Finish, Incomplete
  <2>2. Parts'
    BY <1>2, <2>1 DEF Sound, Parts
  <2>3. Storage'
    BY <1>2, <2>1 DEF Sound, Storage
  <2>4. Course'
    BY <1>1, <1>3, <2>1 DEF Course
  <2>5. Emptied'
    BY <1>1, <1>2, <1>3, <1>4, <2>1 DEF Emptied
  <2> QED BY <1>1, <1>2, <2>1, <2>2, <2>3, <2>4, <2>5, EndedSound DEF Shows
<1> QED BY <1>5, <1>6

LEMMA CancelKeeps ==
  ASSUME Sound, Cancel
  PROVE  Sound' /\ Shows
<1>1. /\ op = "none" /\ state = "open" /\ state' = "cancelled" /\ pub' = <<>> /\ rem' = <<>>
  BY DEF Cancel
<1>2. UNCHANGED <<area, held, op, stage, from, rest, below, sink, given>>
  BY DEF Cancel, stream
<1>3. stage = "none" /\ from = <<>> /\ rest = <<>>
  BY <1>1, BetweenCalls
<1>4. Parts'
  BY <1>1, <1>2, JoinEmpty DEF Sound, Parts
<1>5. Storage'
  <2>1. Len(rem') <= Unit
    BY <1>1, JoinEmpty, SizesAre
  <2>2. Len(below') <= Below
    BY <1>2 DEF Sound, Storage
  <2>3. area' \in BOOLEAN
    BY <1>2 DEF Sound, Storage
  <2> QED BY <1>1, <2>1, <2>2, <2>3, EmptyStored
<1>6. Course'
  BY <1>1, <1>2, <1>3 DEF Course
<1>7. Emptied'
  BY <1>1, <1>2, <1>3 DEF Emptied
<1> QED BY <1>1, <1>2, <1>4, <1>5, <1>6, <1>7, EndedSound DEF Shows

\* The range a call brings is given with it.
LEMMA RangeGiven ==
  ASSUME Sound, op = "none", state = "open", NEW n \in Nat, given + n <= Bytes,
         rest' = Some(n), given' = given + n, UNCHANGED <<rem, held, below, sink>>,
         (from' = pub /\ pub' = <<>>) \/ UNCHANGED <<from, pub>>
  PROVE  Parts' /\ Whole' = All(given')
<1>1. from = <<>> /\ rest = <<>>
  BY BetweenCalls
<1>2. rest' \in Seq(Nat)
  BY SomeIs DEF Sound
<1>3. Parts'
  <2>1. given' \in 0..Bytes
    <3>1. given \in Nat /\ Bytes \in Nat
      BY SizesAre, LengthsAre DEF Sound
    <3> QED BY <3>1
  <2>2. from' \in Seq(Nat) /\ pub' \in Seq(Nat)
    BY JoinEmpty DEF Sound, Parts
  <2> QED BY <1>2, <2>1, <2>2 DEF Sound, Parts
<1>4. Behind(held', from', pub', rem', rest') = Then(Behind(held, from, pub, rem, rest), Some(n))
  <2>1. held \in Strings /\ pub \in Strings /\ rem \in Strings /\ from \in Strings
    BY PartsAre DEF Sound
  <2>2. rest' \in Strings
    BY <1>2 DEF Strings
  <2>3. Then(Behind(held, from, pub, rem, <<>>), rest') = Behind(held, from, pub, rem, rest')
    BY <2>1, <2>2, Appended
  <2>4. Behind(held, <<>>, pub, rem, rest') = Behind(held, pub, <<>>, rem, rest')
    BY <2>1, <2>2, AreaThrough
  <2>5. Behind(held, from, pub, rem, rest') = Behind(held', from', pub', rem', rest')
    BY <1>1, <2>4
  <2> QED BY <1>1, <2>3, <2>5
<1>5. Whole' = All(given')
  BY <1>3, <1>4, GivenWhole
<1> QED BY <1>3, <1>5

LEMMA WriteTypedKeeps ==
  ASSUME Sound, WriteTyped
  PROVE  Sound' /\ Shows
<1>1. op = "none" /\ state = "open" /\ rem = <<>>
  BY DEF WriteTyped, Boundary
<1>2. PICK n \in 1..Bytes :
        /\ given + n * Unit <= Bytes
        /\ op' = "typed" /\ stage' = "prefix" /\ from' = pub /\ pub' = <<>>
        /\ rest' = Some(n * Unit) /\ given' = given + n * Unit
  BY DEF WriteTyped
<1>3. UNCHANGED <<state, area, rem, held, below, sink>>
  BY DEF WriteTyped, stream
<1>4. stage = "none" /\ from = <<>> /\ rest = <<>>
  BY <1>1, BetweenCalls
<1>5. n \in Nat /\ n * Unit \in Nat
  BY SizesAre
<1>6. Parts' /\ Whole' = All(given')
  BY <1>1, <1>2, <1>3, <1>5, RangeGiven
<1>7. Storage'
  <2>1. Len(rem') <= Unit /\ Len(below') <= Below
    BY <1>3 DEF Sound, Storage
  <2>2. area' \in BOOLEAN
    BY <1>3 DEF Sound, Storage
  <2> QED BY <1>2, <2>1, <2>2, EmptyStored
<1>8. Course'
  BY <1>1, <1>2, <1>3 DEF Course
<1>9. Emptied'
  <2>1. Len(rest') = n * Unit
    BY <1>2, <1>5, SomeIs DEF Sound
  <2>2. \E q \in Nat : Len(rest') = q * Unit
    BY <1>5, <2>1
  <2> QED BY <1>1, <1>2, <1>3, <2>2 DEF Emptied
<1> QED BY <1>1, <1>2, <1>3, <1>6, <1>7, <1>8, <1>9, RunningSound DEF Shows

LEMMA WriteBytesKeeps ==
  ASSUME Sound, WriteBytes
  PROVE  Sound' /\ Shows
<1>1. op = "none" /\ state = "open"
  BY DEF WriteBytes
<1>2. PICK n \in 1..(Bytes - given) : op' = "bytes" /\ rest' = Some(n) /\ given' = given + n
  BY DEF WriteBytes
<1>3. IF Native THEN stage' = "prefix" /\ from' = pub /\ pub' = <<>> /\ UNCHANGED area
      ELSE stage' = "fill" /\ area' = TRUE /\ UNCHANGED <<from, pub>>
  BY DEF WriteBytes
<1>4. UNCHANGED <<state, rem, held, below, sink>>
  BY DEF WriteBytes, stream
<1>5. stage = "none" /\ from = <<>> /\ rest = <<>>
  BY <1>1, BetweenCalls
<1>6. n \in Nat /\ given + n <= Bytes
  <2>1. given \in Nat /\ Bytes \in Nat
    BY SizesAre, LengthsAre DEF Sound
  <2> QED BY <2>1
<1>7. (from' = pub /\ pub' = <<>>) \/ UNCHANGED <<from, pub>>
  BY <1>3
<1>8. Parts' /\ Whole' = All(given')
  BY <1>1, <1>2, <1>4, <1>6, <1>7, RangeGiven
<1>9. Storage'
  <2>1. Len(rem') <= Unit /\ Len(below') <= Below
    BY <1>4 DEF Sound, Storage
  <2>2. area' \in BOOLEAN
    BY <1>3 DEF Sound, Storage
  <2>3. CASE pub' = <<>>
    BY <2>1, <2>2, <2>3, EmptyStored
  <2>4. CASE pub' # <<>>
    <3>1. pub' = pub /\ area'
      BY <1>3, <2>4
    <3>2. \E q \in 0..Cap : Len(pub') = q * Unit
      BY <3>1 DEF Sound, Storage
    <3> QED BY <2>1, <2>2, <3>1, <3>2 DEF Storage
  <2> QED BY <2>3, <2>4
<1>10. Course'
  BY <1>1, <1>2, <1>3, <1>4 DEF Course
<1>11. Emptied'
  <2>1. Native => rem = <<>>
    BY DEF Sound, Emptied
  <2> QED BY <1>1, <1>2, <1>3, <1>4, <1>5, <2>1 DEF Emptied
<1> QED BY <1>1, <1>2, <1>4, <1>8, <1>9, <1>10, <1>11, RunningSound DEF Shows

-----------------------------------------------------------------------------
(***************************************************************************)
(* The engine and the stream below.                                        *)
(***************************************************************************)

\* Some number fits what there is and what there is room for.
LEMMA MadeIs ==
  ASSUME Parts, Storage, NEW s \in Seq(Nat), NEW m \in 0..Min({Len(s), Capacity})
  PROVE  m \in 0..Len(s) /\ (Direct => m <= Below - Len(below))
<1>1. Len(s) \in Nat /\ Len(below) \in Nat /\ Below \in Nat /\ Scratch \in Nat
  BY LenProperties, SizesAre, LengthsAre
<1>2. Capacity \in Nat /\ (Direct => Capacity = Below - Len(below))
  <2>1. CASE Direct
    <3>1. Capacity = Below - Len(below) /\ Below > Len(below)
      BY <2>1 DEF Capacity, Direct
    <3> QED BY <1>1, <2>1, <3>1
  <2>2. CASE ~Direct
    BY <1>1, <2>2 DEF Capacity
  <2> QED BY <2>1, <2>2
<1>3. /\ Min({Len(s), Capacity}) \in Nat
      /\ Min({Len(s), Capacity}) <= Len(s) /\ Min({Len(s), Capacity}) <= Capacity
  BY <1>1, <1>2, MinIs
<1>4. m \in Nat /\ m <= Len(s) /\ m <= Capacity
  BY <1>1, <1>2, <1>3
<1> QED BY <1>1, <1>2, <1>4

\* What is made reaches the stream below and fits there.
LEMMA CommitIs ==
  ASSUME Parts, Storage, NEW o \in Seq(Nat), Commit(o), Direct => Len(o) <= Below - Len(below)
  PROVE  /\ sink' \in Seq(Nat) /\ below' \in Seq(Nat) /\ Len(below') <= Below
         /\ Then(sink', below') = Then(Then(sink, below), o)
<1>1. /\ sink \in Strings /\ below \in Strings /\ o \in Strings
      /\ Len(o) \in Nat /\ Len(below) \in Nat /\ Below \in Nat
  BY SizesAre, LengthsAre, PartsAre, LenProperties DEF Strings
<1> DEFINE all == Then(below, o)
<1>2. all \in Strings /\ Len(all) = Len(below) + Len(o) /\ all = below \o o
  BY <1>1, ThenIs DEF Then
<1>3. Then(sink, all) = Then(Then(sink, below), o)
  BY <1>1, ThenIs
<1> HIDE DEF all
<1>4. CASE Direct
  <2>1. below' = all /\ sink' = sink
    BY <1>2, <1>4 DEF Commit
  <2>2. Len(all) <= Below
    BY <1>1, <1>2, <1>4
  <2> QED BY <1>1, <1>2, <1>3, <2>1, <2>2 DEF Strings
<1>5. CASE ~Direct /\ o = <<>>
  <2>1. below' = below /\ sink' = sink
    BY <1>5 DEF Commit, stream
  <2>2. Then(Then(sink, below), <<>>) = Then(sink, below)
    <3>1. Then(sink, below) \in Strings
      BY <1>1, ThenIs
    <3> QED BY <3>1, ThenIs
  <2> QED BY <1>1, <1>5, <2>1, <2>2 DEF Storage, Strings
<1>6. CASE ~Direct /\ o # <<>>
  <2>1. WriteBelow(o)
    BY <1>6 DEF Commit
  <2>2. PICK k \in 0..Len(all) :
          Len(all) - k <= Below /\ sink' = sink \o SubSeq(all, 1, k) /\ below' = Cut(all, k)
    BY <1>2, <2>1 DEF WriteBelow
  <2> DEFINE x == SubSeq(all, 1, k)
             y == Cut(all, k)
  <2>3. /\ x \in Strings /\ y \in Strings /\ Len(y) = Len(all) - k /\ Then(x, y) = all
    BY <1>2, CutIs DEF Strings, Then
  <2> HIDE DEF x, y
  <2>4. sink' = Then(sink, x) /\ below' = y
    BY <2>2 DEF x, y, Then
  <2>5. Then(Then(sink, x), y) = Then(sink, all) /\ Then(sink, x) \in Strings
    BY <1>1, <2>3, ThenIs
  <2>6. Len(below') <= Below
    BY <2>2, <2>3, <2>4
  <2> QED BY <1>3, <2>3, <2>4, <2>5, <2>6 DEF Strings
<1> QED BY <1>4, <1>5, <1>6

\* The areas are as they were.
LEMMA SameStorage ==
  ASSUME Storage, UNCHANGED <<pub, area, rem>>, Len(below') <= Below
  PROVE  Storage'
<1>1. \E q \in 0..Cap : Len(pub') = q * Unit
  BY DEF Storage
<1>2. pub' # <<>> => area'
  BY DEF Storage
<1>3. area' \in BOOLEAN /\ Len(rem') <= Unit
  BY DEF Storage
<1> QED BY <1>1, <1>2, <1>3 DEF Storage

LEMMA ProcessKeeps ==
  ASSUME Sound, Process
  PROVE  Sound' /\ Shows
<1>1. stage \in {"prefix", "rest"} /\ from # <<>>
  BY DEF Process
<1>2. PICK k \in Took :
        \E m \in Makes(held \o SubSeq(from, 1, k)) :
          /\ Commit(SubSeq(held \o SubSeq(from, 1, k), 1, m))
          /\ held' = Cut(held \o SubSeq(from, 1, k), m) /\ from' = Cut(from, k)
  BY DEF Process
<1>3. UNCHANGED <<state, pub, area, rem, op, stage, rest, given>>
  BY DEF Process, store
<1>4. state = "open" /\ pub = <<>>
  BY <1>1 DEF Sound, Course, Emptied
<1>5. k \in 0..Len(from)
  BY DEF Took
<1> DEFINE x == SubSeq(from, 1, k)
           g == Cut(from, k)
           all == held \o x
<1>6. /\ held \in Strings /\ x \in Strings /\ g \in Strings /\ Then(x, g) = from
      /\ pub \in Strings /\ rem \in Strings /\ rest \in Strings
  BY <1>5, CutIs, PartsAre DEF Sound, Parts, Strings, Then
<1> HIDE DEF x, g
<1>7. all \in Strings /\ all = Then(held, x)
  BY <1>6, ThenIs DEF Then
<1>8. PICK m \in Makes(all) :
        Commit(SubSeq(all, 1, m)) /\ held' = Cut(all, m) /\ from' = g
  BY <1>2 DEF x, g
<1>9. m \in 0..Min({Len(all), Capacity})
  BY <1>8 DEF Makes
<1>10. m \in 0..Len(all) /\ (Direct => m <= Below - Len(below))
  BY <1>7, <1>9, MadeIs DEF Sound, Strings
<1> DEFINE o == SubSeq(all, 1, m)
           e == Cut(all, m)
<1>11. /\ o \in Strings /\ e \in Strings /\ Len(o) = m /\ Then(o, e) = all
  BY <1>7, <1>10, CutIs DEF Strings, Then
<1>12. Commit(o) /\ held' = e
  BY <1>8
<1> HIDE DEF o, e, all
<1>13. /\ sink' \in Seq(Nat) /\ below' \in Seq(Nat) /\ Len(below') <= Below
       /\ Then(sink', below') = Then(Then(sink, below), o)
  BY <1>10, <1>11, <1>12, CommitIs DEF Sound, Strings
<1>14. Parts'
  BY <1>3, <1>6, <1>8, <1>11, <1>12, <1>13 DEF Sound, Parts, Strings
<1>15. Storage'
  BY <1>3, <1>13, SameStorage DEF Sound
<1>16. Behind(held, from, pub, rem, rest) = Then(o, Behind(held', from', pub', rem', rest'))
  <2> DEFINE t == Then(pub, Then(rem, rest))
  <2>1. t \in Strings
    <3>1. Then(rem, rest) \in Strings
      BY <1>6, ThenIs
    <3> QED BY <1>6, <3>1, ThenIs
  <2>2. Behind(held, from, pub, rem, rest) = Then(held, Then(from, t))
    BY DEF Behind
  <2>3. Behind(held', from', pub', rem', rest') = Then(e, Then(g, t))
    BY <1>3, <1>8, <1>12 DEF Behind
  <2> HIDE DEF t
  <2>4. Then(held, x) = Then(o, e)
    BY <1>7, <1>11
  <2>5. Then(held, Then(Then(x, g), t)) = Then(o, Then(e, Then(g, t)))
    BY <1>6, <1>11, <2>1, <2>4, Taken
  <2> QED BY <1>6, <2>2, <2>3, <2>5
<1>17. Whole' = All(given')
  <2>1. Sound /\ state = "open" /\ Parts' /\ given' = given
    BY <1>3, <1>4, <1>14
  <2> QED BY <1>11, <1>13, <1>16, <2>1, MovedWhole
<1>18. Course'
  BY <1>3 DEF Sound, Course
<1>19. Emptied'
  BY <1>1, <1>3, <1>4 DEF Sound, Course, Emptied
<1> QED BY <1>3, <1>4, <1>14, <1>15, <1>17, <1>18, <1>19, RunningSound DEF Shows

LEMMA DrainKeeps ==
  ASSUME Sound, Drain
  PROVE  Sound' /\ Shows
<1>1. stage = "drain"
  BY DEF Drain
<1>2. PICK m \in 0..Min({Len(held), Capacity}) :
        /\ m > 0 \/ held = <<>>
        /\ Commit(SubSeq(held, 1, m)) /\ held' = Cut(held, m)
        /\ stage' = IF Complete(Cut(held, m)) THEN "under" ELSE "drain"
  BY DEF Drain
<1>3. UNCHANGED <<state, pub, area, rem, op, from, rest, given>>
  BY DEF Drain, store
<1>4. state = "open" /\ pub = <<>> /\ from = <<>>
  BY <1>1 DEF Sound, Course, Emptied
<1>5. m \in 0..Len(held) /\ (Direct => m <= Below - Len(below))
  BY MadeIs DEF Sound, Parts
<1> DEFINE o == SubSeq(held, 1, m)
           e == Cut(held, m)
<1>6. /\ o \in Strings /\ e \in Strings /\ Len(o) = m /\ Then(o, e) = held /\ held \in Strings
      /\ pub \in Strings /\ rem \in Strings /\ rest \in Strings /\ from \in Strings
  BY <1>5, CutIs, PartsAre DEF Sound, Parts, Strings, Then
<1>7. Commit(o) /\ held' = e
  BY <1>2
<1> HIDE DEF o, e
<1>8. /\ sink' \in Seq(Nat) /\ below' \in Seq(Nat) /\ Len(below') <= Below
      /\ Then(sink', below') = Then(Then(sink, below), o)
  BY <1>5, <1>6, <1>7, CommitIs DEF Sound, Strings
<1>9. Parts'
  BY <1>3, <1>6, <1>7, <1>8 DEF Sound, Parts, Strings
<1>10. Storage'
  BY <1>3, <1>8, SameStorage DEF Sound
<1>11. Behind(held, from, pub, rem, rest) = Then(o, Behind(held', from', pub', rem', rest'))
  <2> DEFINE t == Then(from, Then(pub, Then(rem, rest)))
  <2>1. t \in Strings
    <3>1. Then(rem, rest) \in Strings
      BY <1>6, ThenIs
    <3>2. Then(pub, Then(rem, rest)) \in Strings
      BY <1>6, <3>1, ThenIs
    <3> QED BY <1>6, <3>2, ThenIs
  <2>2. Behind(held, from, pub, rem, rest) = Then(held, t)
    BY DEF Behind
  <2>3. Behind(held', from', pub', rem', rest') = Then(e, t)
    BY <1>3, <1>7 DEF Behind
  <2> HIDE DEF t
  <2>4. Then(Then(o, e), t) = Then(o, Then(e, t))
    BY <1>6, <2>1, ThenIs
  <2> QED BY <1>6, <2>2, <2>3, <2>4
<1>12. Whole' = All(given')
  <2>1. Sound /\ state = "open" /\ Parts' /\ given' = given
    BY <1>3, <1>4, <1>9
  <2> QED BY <1>6, <1>8, <1>11, <2>1, MovedWhole
<1>13. op \in {"flush", "finish"} /\ stage' \in {"under", "drain"}
  BY <1>1, <1>2 DEF Sound, Course
<1>14. Course'
  BY <1>1, <1>3, <1>13 DEF Sound, Course
<1>15. Emptied'
  <2>1. stage' = "under" => held' = <<>>
    BY <1>2 DEF Complete
  <2> QED BY <1>1, <1>3, <1>4, <1>13, <2>1 DEF Sound, Emptied
<1> QED BY <1>3, <1>4, <1>9, <1>10, <1>12, <1>13, <1>14, <1>15, RunningSound DEF Shows

LEMMA FlushBelowKeeps ==
  ASSUME Sound, FlushBelow
  PROVE  Sound' /\ Shows
<1>1. /\ stage = "under" /\ sink' = sink \o below /\ below' = <<>>
      /\ op' = "none" /\ stage' = "none"
      /\ state' = IF op = "finish" THEN "finished" ELSE state
  BY DEF FlushBelow
<1>2. UNCHANGED <<pub, area, rem, held, from, rest, given>>
  BY DEF FlushBelow, store
<1>3. /\ state = "open" /\ op \in {"flush", "finish"}
      /\ pub = <<>> /\ from = <<>> /\ held = <<>> /\ rest = <<>>
      /\ (op = "finish" => rem = <<>>)
  BY <1>1 DEF Sound, Course, Emptied
<1>4. sink \in Strings /\ below \in Strings /\ rem \in Strings
  BY PartsAre DEF Sound
<1>5. Then(sink, below) \in Strings /\ sink' = Then(sink, below)
  BY <1>1, <1>4, ThenIs DEF Then
<1>6. Parts'
  BY <1>1, <1>2, <1>5, JoinEmpty DEF Sound, Parts, Strings
<1>7. Storage'
  <2>1. Len(below') <= Below
    BY <1>1, JoinEmpty, SizesAre
  <2> QED BY <1>2, <2>1, SameStorage DEF Sound
<1>8. Course'
  BY <1>1, <1>3 DEF Course
<1>9. Emptied'
  BY <1>1, <1>2, <1>3 DEF Sound, Emptied
<1>10. Then(sink', below') = Then(Then(sink, below), <<>>)
  BY <1>1, <1>5
<1>11. Behind(held, from, pub, rem, rest) = Then(<<>>, Behind(held', from', pub', rem', rest'))
  <2> DEFINE b == Behind(held, from, pub, rem, rest)
  <2>1. b \in Strings
    BY WholeIs DEF Sound
  <2>2. Behind(held', from', pub', rem', rest') = b
    BY <1>2
  <2> HIDE DEF b
  <2>3. Then(<<>>, b) = b
    BY <2>1, ThenIs
  <2> QED BY <2>2, <2>3 DEF b
<1>12. Whole' = All(given')
  <2>1. Sound /\ state = "open" /\ Parts' /\ given' = given /\ <<>> \in Strings
    BY <1>2, <1>3, <1>6, ThenIs
  <2> QED BY <1>10, <1>11, <2>1, MovedWhole
<1>13. Then(sink', rem') = All(given')
  <2>1. Behind(held', from', pub', rem', rest') = rem
    <3>1. Then(rem, <<>>) = rem /\ Then(<<>>, rem) = rem
      BY <1>4, ThenIs
    <3> QED BY <1>2, <1>3, <3>1 DEF Behind
  <2>2. Whole' = Then(Then(sink', below'), rem)
    BY <1>6, <2>1, NextWholeIs
  <2>3. Then(Then(sink, below), <<>>) = Then(sink, below)
    BY <1>5, ThenIs
  <2>4. Then(sink', below') = sink'
    BY <1>5, <1>10, <2>3
  <2> QED BY <1>2, <1>12, <2>2, <2>4
<1>14. Shows
  BY <1>13 DEF Shows, Then
<1>15. FinishedIsAll'
  <2>1. CASE op = "finish"
    <3>1. sink' \in Strings /\ rem' = <<>>
      BY <1>2, <1>3, <1>5, <2>1
    <3>2. Then(sink', <<>>) = sink'
      BY <3>1, ThenIs
    <3> QED BY <1>13, <3>1, <3>2 DEF FinishedIsAll
  <2>2. CASE op # "finish"
    BY <1>1, <1>3, <2>2 DEF FinishedIsAll
  <2> QED BY <2>1, <2>2
<1> QED BY <1>6, <1>7, <1>8, <1>9, <1>12, <1>14, <1>15, PlacedSound

\* The put area's contents are through the engine.
LEMMA PrefixDoneKeeps ==
  ASSUME Sound, PrefixDone
  PROVE  Sound' /\ Shows
<1>1. stage = "prefix" /\ from = <<>>
  BY DEF PrefixDone
<1>2. UNCHANGED <<state, rem, held, below, sink, given>>
  BY DEF PrefixDone, stream
<1>3. state = "open" /\ pub = <<>> /\ op \in {"prepare", "typed", "bytes", "flush", "finish"}
  BY <1>1 DEF Sound, Course, Emptied
<1>4. /\ held \in Strings /\ rem \in Strings /\ rest \in Strings
      /\ Len(rem') <= Unit /\ Len(below') <= Below /\ area \in BOOLEAN
  BY <1>2, PartsAre DEF Sound, Storage
<1>5. CASE op = "prepare"
  <2>1. op' = "none" /\ stage' = "none" /\ area' = TRUE /\ UNCHANGED <<from, rest, pub>>
    BY <1>5 DEF PrefixDone
  <2>2. Parts'
    BY <1>2, <2>1 DEF Sound, Parts
  <2>3. Storage'
    BY <1>3, <1>4, <2>1, EmptyStored
  <2>4. Course'
    BY <1>2, <1>3, <2>1 DEF Course
  <2>5. Emptied'
    BY <1>1, <1>2, <1>3, <1>5, <2>1 DEF Sound, Emptied
  <2>6. Whole' = All(given')
    BY <1>2, <1>3, <2>1, <2>2, SameWhole
  <2> QED BY <1>2, <1>3, <1>5, <2>2, <2>3, <2>4, <2>5, <2>6, RunningSound DEF Shows
<1>6. CASE (op = "typed" /\ Large) \/ (op = "bytes" /\ Native)
  <2>1. stage' = "rest" /\ from' = rest /\ rest' = <<>> /\ UNCHANGED <<op, area, pub>>
    BY <1>6 DEF PrefixDone
  <2>2. rem = <<>>
    BY <1>6 DEF Sound, Emptied
  <2>3. Parts'
    BY <1>2, <2>1, JoinEmpty DEF Sound, Parts
  <2>4. Storage'
    BY <1>3, <1>4, <2>1, EmptyStored
  <2>5. Course'
    BY <1>2, <1>3, <1>6, <2>1 DEF Course
  <2>6. Emptied'
    <3>1. op' = "typed" => \E q \in Nat : Len(rest') = q * Unit
      <4>1. 0 \in Nat /\ Len(rest') = 0 * Unit
        BY <2>1, JoinEmpty, SizesAre
      <4> QED BY <4>1
    <3> QED BY <1>2, <1>3, <1>6, <2>1, <2>2, <3>1 DEF Emptied
  <2>7. Behind(held, from, pub, rem, rest) = Behind(held', from', pub', rem', rest')
    <3>1. Behind(held, <<>>, <<>>, <<>>, rest) = Behind(held, rest, <<>>, <<>>, <<>>)
      BY <1>4, RangeThrough
    <3> QED BY <1>1, <1>2, <1>3, <2>1, <2>2, <3>1
  <2>8. Whole' = All(given')
    BY <1>2, <1>3, <2>3, <2>7, SameWhole
  <2> QED BY <1>2, <1>3, <1>6, <2>1, <2>3, <2>4, <2>5, <2>6, <2>8, RunningSound DEF Shows
<1>7. CASE op = "typed" /\ ~Large
  <2>1. /\ pub' = rest /\ rest' = <<>> /\ area' = TRUE /\ op' = "none" /\ stage' = "none"
        /\ from' = from
    BY <1>7 DEF PrefixDone
  <2>2. rem = <<>>
    BY <1>7 DEF Sound, Emptied
  <2>3. Parts'
    BY <1>2, <2>1, JoinEmpty DEF Sound, Parts
  <2>4. Storage'
    <3>1. PICK q \in Nat : Len(rest) = q * Unit
      BY <1>7 DEF Sound, Emptied
    <3>2. q * Unit < Cap * Unit /\ Cap \in Nat /\ Unit \in Nat \ {0}
      <4>1. q * Unit \in Nat /\ Cap * Unit \in Nat
        BY SizesAre
      <4>2. ~(Len(rest) >= Cap * Unit)
        BY <1>7 DEF Large
      <4> QED BY <3>1, <4>1, <4>2, SizesAre
    <3>3. q < Cap
      BY <3>2, ProductsCompare
    <3>4. q \in 0..Cap
      BY <3>2, <3>3
    <3>5. Len(pub') = q * Unit
      BY <2>1, <3>1
    <3> QED BY <1>4, <2>1, <3>4, <3>5 DEF Storage
  <2>5. Course'
    BY <1>2, <1>3, <2>1 DEF Course
  <2>6. Emptied'
    BY <1>1, <1>2, <1>3, <2>1, <2>2 DEF Emptied
  <2>7. Behind(held, from, pub, rem, rest) = Behind(held', from', pub', rem', rest')
    <3>1. Behind(held, <<>>, <<>>, <<>>, rest) = Behind(held, <<>>, rest, <<>>, <<>>)
      BY <1>4, RangeThrough
    <3> QED BY <1>1, <1>2, <1>3, <2>1, <2>2, <3>1
  <2>8. Whole' = All(given')
    BY <1>2, <1>3, <2>3, <2>7, SameWhole
  <2> QED BY <1>2, <1>3, <1>7, <2>3, <2>4, <2>5, <2>6, <2>8, RunningSound DEF Shows
<1>8. CASE (op = "bytes" /\ ~Native) \/ op \in {"flush", "finish"}
  <2>1. /\ UNCHANGED <<op, from, rest, area, pub>>
        /\ op = "bytes" => stage' = "fill"
        /\ op # "bytes" => stage' = "drain"
    BY <1>8 DEF PrefixDone
  <2>2. Parts'
    BY <1>2, <2>1 DEF Sound, Parts
  <2>3. Storage'
    BY <1>3, <1>4, <2>1, EmptyStored
  <2>4. Course'
    BY <1>2, <1>3, <1>8, <2>1 DEF Course
  <2>5. Emptied'
    BY <1>1, <1>2, <1>3, <1>8, <2>1 DEF Sound, Emptied
  <2>6. Whole' = All(given')
    BY <1>2, <1>3, <2>1, <2>2, SameWhole
  <2> QED BY <1>2, <1>3, <1>8, <2>1, <2>2, <2>3, <2>4, <2>5, <2>6, RunningSound DEF Shows
<1>9. CASE op = "typed"
  <2>1. CASE Large
    BY <1>6, <1>9, <2>1
  <2>2. CASE ~Large
    BY <1>7, <1>9, <2>2
  <2> QED BY <2>1, <2>2
<1>10. CASE op = "bytes"
  BY <1>6, <1>8, <1>10
<1>11. CASE op \in {"flush", "finish"}
  BY <1>8, <1>11
<1> QED BY <1>3, <1>5, <1>9, <1>10, <1>11

LEMMA RestDoneKeeps ==
  ASSUME Sound, RestDone
  PROVE  Sound' /\ Shows
<1>1. stage = "rest" /\ from = <<>> /\ op' = "none" /\ stage' = "none"
  BY DEF RestDone
<1>2. UNCHANGED <<state, pub, area, rem, held, from, rest, below, sink, given>>
  BY DEF RestDone, store, stream
<1>3. state = "open" /\ rest = <<>> /\ op \in {"typed", "bytes"}
  BY <1>1 DEF Sound, Course, Emptied
<1>4. Parts'
  BY <1>2 DEF Sound, Parts
<1>5. Storage'
  <2>1. Len(below') <= Below
    BY <1>2 DEF Sound, Storage
  <2> QED BY <1>2, <2>1, SameStorage DEF Sound
<1>6. Course'
  BY <1>1, <1>2, <1>3 DEF Course
<1>7. Emptied'
  BY <1>1, <1>2, <1>3 DEF Sound, Emptied
<1>8. Whole' = All(given')
  BY <1>2, <1>3, <1>4, SameWhole
<1> QED BY <1>2, <1>3, <1>4, <1>5, <1>6, <1>7, <1>8, RunningSound DEF Shows

-----------------------------------------------------------------------------
(***************************************************************************)
(* Bytes for an engine that takes characters.                              *)
(***************************************************************************)

LEMMA Filling ==
  ASSUME Sound, stage = "fill"
  PROVE  /\ state = "open" /\ op = "bytes" /\ ~Native /\ from = <<>>
         /\ held \in Strings /\ pub \in Strings /\ rem \in Strings /\ rest \in Strings
BY PartsAre DEF Sound, Course, Emptied

LEMMA FillRemainderKeeps ==
  ASSUME Sound, FillRemainder
  PROVE  Sound' /\ Shows
<1> DEFINE k == Min({Unit - Len(rem), Len(rest)})
           x == SubSeq(rest, 1, k)
           y == Cut(rest, k)
<1>1. stage = "fill" /\ Len(rem) \in 1..(Unit - 1)
  BY DEF FillRemainder
<1>2. rem' = rem \o x /\ rest' = y
  BY DEF FillRemainder
<1>3. UNCHANGED <<state, pub, area, held, op, stage, from, below, sink, given>>
  BY DEF FillRemainder, stream
<1>4. /\ state = "open" /\ op = "bytes" /\ ~Native /\ from = <<>>
      /\ held \in Strings /\ pub \in Strings /\ rem \in Strings /\ rest \in Strings
  BY <1>1, Filling
<1>5. k \in 0..Len(rest) /\ k <= Unit - Len(rem) /\ Len(rem) \in Nat /\ Unit \in Nat
  <2>1. Len(rem) \in Nat /\ Len(rest) \in Nat /\ Unit \in Nat
    BY LengthsAre, SizesAre DEF Sound
  <2>2. Unit - Len(rem) \in Nat
    BY <1>1, <2>1
  <2>3. k \in Nat /\ k <= Unit - Len(rem) /\ k <= Len(rest)
    BY <2>1, <2>2, MinIs
  <2> QED BY <2>1, <2>3
<1> HIDE DEF k
<1>6. x \in Strings /\ y \in Strings /\ Len(x) = k /\ Then(x, y) = rest
  BY <1>4, <1>5, CutIs DEF Strings, Then
<1> HIDE DEF x, y
<1>7. rem' \in Strings /\ Len(rem') = Len(rem) + k /\ rem' = Then(rem, x)
  BY <1>2, <1>4, <1>6, ThenIs DEF Then
<1>8. Parts'
  BY <1>2, <1>3, <1>6, <1>7 DEF Sound, Parts, Strings
<1>9. Storage'
  <2>1. Len(rem') <= Unit
    BY <1>5, <1>7
  <2>2. \E q \in 0..Cap : Len(pub') = q * Unit
    BY <1>3 DEF Sound, Storage
  <2>3. area' \in BOOLEAN /\ (pub' # <<>> => area') /\ Len(below') <= Below
    BY <1>3 DEF Sound, Storage
  <2> QED BY <2>1, <2>2, <2>3 DEF Storage
<1>10. Course' /\ Emptied'
  BY <1>1, <1>3, <1>4 DEF Sound, Course, Emptied
<1>11. Whole' = All(given')
  <2>1. Behind(held, <<>>, pub, rem, Then(x, y)) = Behind(held, <<>>, pub, Then(rem, x), y)
    BY <1>4, <1>6, RemainderTakes
  <2>2. Behind(held, from, pub, rem, rest) = Behind(held', from', pub', rem', rest')
    BY <1>2, <1>3, <1>4, <1>6, <1>7, <2>1
  <2> QED BY <1>3, <1>4, <1>8, <2>2, SameWhole
<1> QED BY <1>3, <1>4, <1>8, <1>9, <1>10, <1>11, RunningSound DEF Shows

LEMMA FillFlushKeeps ==
  ASSUME Sound, FillFlush
  PROVE  Sound' /\ Shows
<1>1. stage = "fill" /\ stage' = "prefix" /\ from' = pub /\ pub' = <<>>
  BY DEF FillFlush
<1>2. UNCHANGED <<state, area, rem, held, op, rest, below, sink, given>>
  BY DEF FillFlush, stream
<1>3. /\ state = "open" /\ op = "bytes" /\ ~Native /\ from = <<>>
      /\ held \in Strings /\ pub \in Strings /\ rem \in Strings /\ rest \in Strings
  BY <1>1, Filling
<1>4. Parts'
  BY <1>1, <1>2, JoinEmpty DEF Sound, Parts
<1>5. Storage'
  <2>1. Len(rem') <= Unit /\ Len(below') <= Below
    BY <1>2 DEF Sound, Storage
  <2>2. area' \in BOOLEAN
    BY <1>2 DEF Sound, Storage
  <2> QED BY <1>1, <2>1, <2>2, EmptyStored
<1>6. Course' /\ Emptied'
  BY <1>1, <1>2, <1>3 DEF Sound, Course, Emptied
<1>7. Whole' = All(given')
  <2>1. Behind(held, <<>>, pub, rem, rest) = Behind(held, pub, <<>>, rem, rest)
    BY <1>3, AreaThrough
  <2>2. Behind(held, from, pub, rem, rest) = Behind(held', from', pub', rem', rest')
    BY <1>1, <1>2, <1>3, <2>1
  <2> QED BY <1>2, <1>3, <1>4, <2>2, SameWhole
<1> QED BY <1>2, <1>3, <1>4, <1>5, <1>6, <1>7, RunningSound DEF Shows

LEMMA FillPutKeeps ==
  ASSUME Sound, FillPut
  PROVE  Sound' /\ Shows
<1>1. stage = "fill" /\ Wants /\ Room > 0
  BY DEF FillPut
<1>2. UNCHANGED <<state, area, held, op, stage, from, below, sink, given>>
  BY DEF FillPut, stream
<1>3. /\ state = "open" /\ op = "bytes" /\ ~Native /\ from = <<>>
      /\ held \in Strings /\ pub \in Strings /\ rem \in Strings /\ rest \in Strings
  BY <1>1, Filling
<1>4. PICK q \in 0..Cap, n \in 0..Cap :
        Len(pub) = q * Unit /\ Room = n * Unit /\ q + n <= Cap /\ (n > 0 => area)
  BY RoomIs DEF Sound
<1>5. Unit \in Nat \ {0} /\ Cap \in Nat /\ q \in Nat /\ n \in Nat /\ Len(rest) \in Nat
  BY SizesAre, LengthsAre DEF Sound
<1>6. n > 0
  <2>1. CASE n = 0
    <3>1. Room = 0
      BY <1>4, <1>5, <2>1
    <3> QED BY <1>1, <3>1
  <2>2. n = 0 \/ n > 0
    BY <1>5
  <2> QED BY <2>1, <2>2
<1>7. area' /\ area' \in BOOLEAN /\ Len(below') <= Below
  BY <1>2, <1>4, <1>6 DEF Sound, Storage
<1>8. Course'
  BY <1>2 DEF Sound, Course
<1>9. Emptied'
  BY <1>1, <1>2, <1>3 DEF Sound, Emptied
<1>10. CASE rem # <<>>
  <2>1. pub' = Then(pub, rem) /\ rem' = <<>> /\ rest' = rest
    BY <1>10 DEF FillPut, Then
  <2>2. Len(rem) = Unit
    BY <1>1, <1>10 DEF Wants
  <2>3. pub' \in Strings /\ Len(pub') = Len(pub) + Len(rem)
    BY <1>3, <2>1, ThenIs
  <2>4. Parts'
    BY <1>2, <2>1, <2>3, JoinEmpty DEF Sound, Parts, Strings
  <2>5. Storage'
    <3>1. q + 1 \in 0..Cap
      BY <1>4, <1>5, <1>6
    <3>2. Len(pub') = (q + 1) * Unit
      BY <1>4, <1>5, <2>2, <2>3
    <3>3. Len(rem') <= Unit
      BY <1>5, <2>1, JoinEmpty
    <3> QED BY <1>7, <3>1, <3>2, <3>3 DEF Storage
  <2>6. Whole' = All(given')
    <3>1. Behind(held, <<>>, pub, rem, rest) = Behind(held, <<>>, Then(pub, rem), <<>>, rest)
      BY <1>3, RemainderPut
    <3>2. Behind(held, from, pub, rem, rest) = Behind(held', from', pub', rem', rest')
      BY <1>2, <1>3, <2>1, <3>1
    <3> QED BY <1>2, <1>3, <2>4, <3>2, SameWhole
  <2> QED BY <1>2, <1>3, <1>8, <1>9, <2>4, <2>5, <2>6, RunningSound DEF Shows
<1>11. CASE rem = <<>>
  <2> DEFINE d == Len(rest) \div Unit
             k == Min({Room, d * Unit})
             x == SubSeq(rest, 1, k)
             y == Cut(rest, k)
  <2>1. pub' = pub \o x /\ rest' = y /\ rem' = rem
    BY <1>11 DEF FillPut
  <2>2. d \in Nat /\ d * Unit <= Len(rest)
    BY <1>5, DivisionIs
  <2> HIDE DEF d
  <2>3. /\ k \in 0..Len(rest) /\ k <= n * Unit
        /\ k = n * Unit \/ k = d * Unit
    <3>1. n * Unit \in Nat /\ d * Unit \in Nat
      BY <1>5, <2>2
    <3>2. /\ k \in Nat /\ k <= n * Unit /\ k <= d * Unit
          /\ k = n * Unit \/ k = d * Unit
      BY <1>4, <3>1, MinIs
    <3> QED BY <1>5, <2>2, <3>1, <3>2
  <2> HIDE DEF k
  <2>4. PICK i \in 0..n : k = i * Unit
    <3>1. CASE k = n * Unit
      BY <1>5, <3>1
    <3>2. CASE k = d * Unit
      <4>1. d * Unit <= n * Unit
        BY <2>3, <3>2
      <4>2. d <= n
        BY <1>5, <2>2, <4>1, ProductsCompare
      <4> QED BY <1>5, <2>2, <3>2, <4>2
    <3> QED BY <2>3, <3>1, <3>2
  <2>5. x \in Strings /\ y \in Strings /\ Len(x) = k /\ Then(x, y) = rest
    BY <1>3, <2>3, CutIs DEF Strings, Then
  <2> HIDE DEF x, y
  <2>6. pub' = Then(pub, x) /\ pub' \in Strings /\ Len(pub') = Len(pub) + k
    BY <1>3, <2>1, <2>5, ThenIs DEF Then
  <2>7. Parts'
    BY <1>2, <2>1, <2>5, <2>6 DEF Sound, Parts, Strings
  <2>8. Storage'
    <3>1. q + i \in 0..Cap /\ i \in Nat
      BY <1>4, <1>5
    <3>2. Len(pub') = (q + i) * Unit
      BY <1>4, <1>5, <2>4, <2>6, <3>1
    <3>3. Len(rem') <= Unit
      BY <2>1 DEF Sound, Storage
    <3> QED BY <1>7, <3>1, <3>2, <3>3 DEF Storage
  <2>9. Whole' = All(given')
    <3>1. Behind(held, <<>>, pub, <<>>, Then(x, y)) = Behind(held, <<>>, Then(pub, x), <<>>, y)
      BY <1>3, <2>5, CharactersPut
    <3>2. Behind(held, from, pub, rem, rest) = Behind(held', from', pub', rem', rest')
      BY <1>2, <1>3, <1>11, <2>1, <2>5, <2>6, <3>1
    <3> QED BY <1>2, <1>3, <2>7, <3>2, SameWhole
  <2> QED BY <1>2, <1>3, <1>8, <1>9, <2>7, <2>8, <2>9, RunningSound DEF Shows
<1> QED BY <1>10, <1>11

LEMMA FillDoneKeeps ==
  ASSUME Sound, FillDone
  PROVE  Sound' /\ Shows
<1>1. /\ stage = "fill" /\ ~Wants /\ (rem = <<>> \/ rest = <<>>)
      /\ rest' = <<>> /\ op' = "none" /\ stage' = "none" /\ rem' = Then(rem, rest)
  BY DEF FillDone, Then
<1>2. UNCHANGED <<state, pub, area, held, from, below, sink, given>>
  BY DEF FillDone, stream
<1>3. /\ state = "open" /\ op = "bytes" /\ ~Native /\ from = <<>>
      /\ held \in Strings /\ pub \in Strings /\ rem \in Strings /\ rest \in Strings
  BY <1>1, Filling
<1>4. rem' \in Strings
  BY <1>1, <1>3, ThenIs
<1>5. Parts'
  BY <1>1, <1>2, <1>4, JoinEmpty DEF Sound, Parts, Strings
<1>6. Storage'
  <2>1. Len(rem') <= Unit
    <3>1. CASE rest = <<>>
      <4>1. rem' = rem
        BY <1>1, <1>3, <3>1, ThenIs
      <4> QED BY <4>1 DEF Sound, Storage
    <3>2. CASE rem = <<>>
      <4>1. rem' = rest
        BY <1>1, <1>3, <3>2, ThenIs
      <4>2. ~(Len(rest) >= Unit)
        BY <1>1, <3>2 DEF Wants
      <4>3. Len(rest) \in Nat /\ Unit \in Nat
        BY LengthsAre, SizesAre DEF Sound
      <4> QED BY <4>1, <4>2, <4>3
    <3> QED BY <1>1, <3>1, <3>2
  <2>2. \E q \in 0..Cap : Len(pub') = q * Unit
    BY <1>2 DEF Sound, Storage
  <2>3. area' \in BOOLEAN /\ (pub' # <<>> => area') /\ Len(below') <= Below
    BY <1>2 DEF Sound, Storage
  <2> QED BY <2>1, <2>2, <2>3 DEF Storage
<1>7. Course'
  BY <1>1, <1>2, <1>3 DEF Course
<1>8. Emptied'
  BY <1>1, <1>2, <1>3 DEF Emptied
<1>9. Whole' = All(given')
  <2>1. Behind(held, <<>>, pub, rem, Then(rest, <<>>)) = Behind(held, <<>>, pub, Then(rem, rest), <<>>)
    BY <1>3, ThenIs, RemainderTakes
  <2>2. Then(rest, <<>>) = rest
    BY <1>3, ThenIs
  <2>3. Behind(held, from, pub, rem, rest) = Behind(held', from', pub', rem', rest')
    BY <1>1, <1>2, <1>3, <2>1, <2>2
  <2> QED BY <1>2, <1>3, <1>5, <2>3, SameWhole
<1> QED BY <1>2, <1>3, <1>5, <1>6, <1>7, <1>8, <1>9, RunningSound DEF Shows

-----------------------------------------------------------------------------
(***************************************************************************)
(* Failure.                                                                *)
(***************************************************************************)

\* What a failing call has handed on is a beginning of the whole.
LEMMA GapsNotJumped ==
  ASSUME Sound, state = "open", NEW m \in 0..Len(held \o from),
         NEW all \in Strings, all = below \o SubSeq(held \o from, 1, m),
         NEW q \in 0..Len(all)
  PROVE  \E t \in Strings : Then(Then(sink, SubSeq(all, 1, q)), t) = All(given)
<1> DEFINE hf == held \o from
           x == SubSeq(hf, 1, m)
           y == Cut(hf, m)
           u == SubSeq(all, 1, q)
           v == Cut(all, q)
           w == Then(pub, Then(rem, rest))
<1>1. /\ sink \in Strings /\ below \in Strings /\ held \in Strings /\ from \in Strings
      /\ pub \in Strings /\ rem \in Strings /\ rest \in Strings
  BY PartsAre DEF Sound
<1>2. hf \in Strings /\ hf = Then(held, from)
  BY <1>1, ThenIs DEF Then
<1>3. x \in Strings /\ y \in Strings /\ Then(x, y) = hf
  BY <1>2, CutIs DEF Strings, Then
<1>4. u \in Strings /\ v \in Strings /\ Then(u, v) = all
  BY CutIs DEF Strings, Then
<1>5. w \in Strings
  <2>1. Then(rem, rest) \in Strings
    BY <1>1, ThenIs
  <2> QED BY <1>1, <2>1, ThenIs
<1>6. all = Then(below, x)
  BY DEF Then
<1>7. Then(Then(sink, below), Then(held, Then(from, w))) = All(given)
  <2>1. Whole = Then(Then(sink, below), Behind(held, from, pub, rem, rest))
    BY WholeIs DEF Sound
  <2>2. Whole = All(given)
    BY DEF Sound, InOrder, Whole
  <2> QED BY <2>1, <2>2 DEF Behind
<1> HIDE DEF hf, x, y, u, v, w
<1>8. Then(y, w) \in Strings /\ Then(Then(x, y), w) = Then(x, Then(y, w))
  BY <1>3, <1>5, ThenIs
<1>9. Then(held, Then(from, w)) = Then(Then(held, from), w) /\ Then(held, from) \in Strings
  BY <1>1, <1>5, ThenIs
<1>10. Then(held, Then(from, w)) = Then(x, Then(y, w))
  BY <1>2, <1>3, <1>8, <1>9
<1>11. Then(Then(sink, below), Then(x, Then(y, w))) = Then(sink, Then(below, Then(x, Then(y, w))))
  <2>1. Then(x, Then(y, w)) \in Strings
    BY <1>3, <1>8, ThenIs
  <2> QED BY <1>1, <2>1, ThenIs
<1>12. Then(below, Then(x, Then(y, w))) = Then(Then(below, x), Then(y, w))
  BY <1>1, <1>3, <1>8, ThenIs
<1>13. Then(Then(u, v), Then(y, w)) = Then(u, Then(v, Then(y, w))) /\ Then(v, Then(y, w)) \in Strings
  BY <1>4, <1>8, ThenIs
<1>14. Then(sink, Then(u, Then(v, Then(y, w)))) = Then(Then(sink, u), Then(v, Then(y, w)))
  BY <1>1, <1>4, <1>13, ThenIs
<1>15. Then(Then(sink, u), Then(v, Then(y, w))) = All(given)
  BY <1>4, <1>6, <1>7, <1>10, <1>11, <1>12, <1>13, <1>14
<1> QED BY <1>13, <1>15 DEF u

LEMMA ThrowsKeeps ==
  ASSUME Sound, Throws
  PROVE  Sound' /\ Shows
<1> DEFINE hf == held \o from
<1>1. stage \in {"prefix", "rest", "drain", "under"}
  BY DEF Throws
<1>2. PICK m \in 0..Min({Len(hf), Scratch}) :
        \E k \in 0..Len(below \o SubSeq(hf, 1, m)) :
          /\ sink' = sink \o SubSeq(below \o SubSeq(hf, 1, m), 1, k)
          /\ below' = SubSeq(below \o SubSeq(hf, 1, m), k + 1,
                             Min({k + Below, Len(below \o SubSeq(hf, 1, m))}))
  BY DEF Throws
<1>3. /\ state' = "failed" /\ op' = "none" /\ stage' = "none"
      /\ UNCHANGED <<pub, area, rem, held, from, rest, given>>
  BY DEF Throws, store
<1>4. state = "open"
  BY <1>1 DEF Sound, Course
<1>5. hf \in Strings /\ sink \in Strings /\ below \in Strings
  <2>1. held \in Strings /\ from \in Strings /\ sink \in Strings /\ below \in Strings
    BY PartsAre DEF Sound
  <2> QED BY <2>1, ThenIs DEF Then
<1>6. m \in 0..Len(hf)
  <2>1. Len(hf) \in Nat /\ Scratch \in Nat
    BY <1>5, LenProperties, SizesAre DEF Strings
  <2>2. Min({Len(hf), Scratch}) \in Nat /\ Min({Len(hf), Scratch}) <= Len(hf)
    BY <2>1, MinIs
  <2> QED BY <2>1, <2>2
<1> DEFINE all == below \o SubSeq(hf, 1, m)
<1>7. all \in Strings
  <2>1. SubSeq(hf, 1, m) \in Strings
    BY <1>5, <1>6, CutIs DEF Strings
  <2> QED BY <1>5, <2>1, ThenIs DEF Then
<1>8. PICK k \in 0..Len(all) :
        /\ sink' = sink \o SubSeq(all, 1, k)
        /\ below' = SubSeq(all, k + 1, Min({k + Below, Len(all)}))
  BY <1>2
<1> DEFINE q == Min({k + Below, Len(all)})
<1>9. m \in 0..Len(held \o from) /\ all = below \o SubSeq(held \o from, 1, m)
  BY <1>6
<1> HIDE DEF hf, all
<1>10. \A e \in 0..Len(all) : \E t \in Strings : Then(Then(sink, SubSeq(all, 1, e)), t) = All(given)
  BY <1>4, <1>7, <1>9, GapsNotJumped
<1>11. /\ k \in Nat /\ q \in Nat /\ Len(all) \in Nat /\ Below \in Nat
       /\ k <= Len(all) /\ k <= q /\ q <= Len(all) /\ q <= k + Below
  <2>1. Len(all) \in Nat /\ Below \in Nat
    BY <1>7, LenProperties, SizesAre DEF Strings
  <2>2. k \in Nat /\ k <= Len(all) /\ k + Below \in Nat /\ k <= k + Below
    BY <2>1
  <2>3. /\ q \in Nat /\ q <= k + Below /\ q <= Len(all)
        /\ q = k + Below \/ q = Len(all)
    BY <2>1, <2>2, MinIs
  <2> HIDE DEF q
  <2> QED BY <2>1, <2>2, <2>3
<1> HIDE DEF q
<1>12. sink' = sink \o SubSeq(all, 1, k) /\ below' = SubSeq(all, k + 1, q)
  BY <1>8 DEF q
<1> DEFINE x == SubSeq(all, 1, k)
           y == SubSeq(all, k + 1, q)
           u == SubSeq(all, 1, q)
<1>13. x \in Strings
  BY <1>7, CutIs DEF Strings
<1>14. y \in Strings /\ Len(y) = q - k
  <2>1. k + 1 \in Nat \ {0} /\ q \in 0..Len(all) /\ k + 1 <= q + 1 /\ q + 1 - (k + 1) = q - k
    BY <1>11
  <2> QED BY <1>7, <2>1, PieceIs DEF Strings
<1>15. Then(x, y) = u
  BY <1>7, <1>11, PiecesJoin DEF Strings, Then
<1>16. PICK t \in Strings : Then(Then(sink, u), t) = All(given)
  <2>1. q \in 0..Len(all)
    BY <1>11
  <2> QED BY <1>10, <2>1
<1>17. sink' = Then(sink, x) /\ below' = y
  BY <1>12 DEF Then
<1> HIDE DEF x, y, u
<1>18. sink' \in Strings /\ Then(sink', below') = Then(sink, u)
  BY <1>5, <1>13, <1>14, <1>15, <1>17, ThenIs
<1>19. Parts'
  BY <1>3, <1>14, <1>17, <1>18 DEF Sound, Parts, Strings
<1>20. Storage'
  <2>1. Len(below') <= Below
    BY <1>11, <1>14, <1>17
  <2> QED BY <1>3, <2>1, SameStorage DEF Sound
<1>21. Course'
  BY <1>3 DEF Course
<1>22. Emptied'
  BY <1>3 DEF Sound, Emptied
<1>23. Gapless'
  <2>1. (sink' \o below') \o t = All(given')
    BY <1>3, <1>16, <1>18 DEF Then
  <2>2. \E v \in Strings : (sink' \o below') \o v = All(given')
    BY <2>1
  <2> QED BY <2>2 DEF Gapless, Strings
<1>24. InOrder' /\ FinishedIsAll' /\ Shows
  BY <1>3 DEF InOrder, FinishedIsAll, Shows
<1> QED BY <1>19, <1>20, <1>21, <1>22, <1>23, <1>24 DEF Sound

-----------------------------------------------------------------------------
(***************************************************************************)
(* The theorems.                                                           *)
(***************************************************************************)

LEMMA StutterKeeps ==
  ASSUME Sound, UNCHANGED vars
  PROVE  Sound' /\ Shows
<1>1. UNCHANGED <<state, pub, area, rem, held, op, stage, from, rest, below, sink, given>>
  BY DEF vars
<1>2. Parts' /\ InOrder' /\ FinishedIsAll'
  BY <1>1 DEF Sound, Parts, InOrder, FinishedIsAll
<1>3. Storage'
  BY <1>1 DEF Sound, Storage
<1>4. Course' /\ Emptied'
  BY <1>1 DEF Sound, Course, Emptied
<1>5. Gapless'
  BY <1>1 DEF Sound, Gapless
<1>6. Shows
  BY <1>1 DEF Shows
<1> QED BY <1>2, <1>3, <1>4, <1>5, <1>6 DEF Sound

LEMMA StepSound ==
  ASSUME Sound, [Next]_vars
  PROVE  Sound' /\ Shows
<1>1. CASE Put \/ Prepare \/ WriteTyped \/ WriteBytes
  BY <1>1, PutKeeps, PrepareKeeps, WriteTypedKeeps, WriteBytesKeeps
<1>2. CASE Flush \/ Finish \/ Cancel
  BY <1>2, FlushKeeps, FinishKeeps, CancelKeeps
<1>3. CASE Process \/ PrefixDone \/ RestDone
  BY <1>3, ProcessKeeps, PrefixDoneKeeps, RestDoneKeeps
<1>4. CASE FillRemainder \/ FillFlush \/ FillPut \/ FillDone
  BY <1>4, FillRemainderKeeps, FillFlushKeeps, FillPutKeeps, FillDoneKeeps
<1>5. CASE Drain \/ FlushBelow \/ Throws
  BY <1>5, DrainKeeps, FlushBelowKeeps, ThrowsKeeps
<1>6. CASE UNCHANGED vars
  BY <1>6, StutterKeeps
<1> QED BY <1>1, <1>2, <1>3, <1>4, <1>5, <1>6 DEF Next, Step

LEMMA SoundIsOutput ==
  ASSUME Sound
  PROVE  OutputInOrder
<1>1. TypeOK
  <2>1. PICK q \in 0..Cap : Len(pub) = q * Unit
    BY DEF Sound, Storage
  <2>2. q \in Nat /\ q <= Cap /\ Cap \in Nat /\ Unit \in Nat \ {0}
    BY SizesAre
  <2>3. q * Unit <= Cap * Unit
    BY <2>2, ProductsGrow
  <2>4. (q * Unit) % Unit = 0
    BY <2>2
  <2>5. Len(pub) <= Cap * Unit /\ Len(pub) % Unit = 0
    BY <2>1, <2>3, <2>4
  <2>6. (pub # <<>> => area) /\ area \in BOOLEAN /\ Len(rem) <= Unit /\ Len(below) <= Below
    BY DEF Sound, Storage
  <2>7. given \in 0..Bytes
    BY DEF Sound, Parts
  <2>8. /\ state \in {"open", "finished", "cancelled", "failed"}
        /\ op \in {"none", "prepare", "typed", "bytes", "flush", "finish"}
        /\ stage \in {"none", "prefix", "rest", "fill", "drain", "under"}
    BY DEF Sound, Course
  <2> QED BY <2>5, <2>6, <2>7, <2>8 DEF TypeOK
<1>2. NoGap
  <2>1. PICK t \in Seq(Nat) : (sink \o below) \o t = All(given)
    BY DEF Sound, Gapless
  <2>2. sink \o below \in Seq(Nat)
    BY ReachedIs DEF Sound
  <2> DEFINE s == sink \o below
  <2>3. s \in Seq(Nat) /\ s \o t = All(given)
    BY <2>1, <2>2
  <2> HIDE DEF s
  <2>4. IsPrefix(s, s \o t)
    BY <2>3, PrefixOfJoin
  <2> QED BY <2>3, <2>4 DEF NoGap, s
<1> QED BY <1>1, <1>2 DEF Sound, OutputInOrder

LEMMA AlwaysSound == Spec => []Sound
<1>1. Init => Sound
  BY InitSound
<1>2. Sound /\ [Next]_vars => Sound'
  BY StepSound
<1> QED BY <1>1, <1>2, PTL DEF Spec

\* Every byte an adapter was given is in one place and in order; what a failure
\* leaves below is a beginning of it, and what a finished stream has handed on
\* is all: for every unit, put area and engine (basic_otranscoder).
THEOREM BytesInOrder == Spec => []OutputInOrder
<1>1. Sound => OutputInOrder
  BY SoundIsOutput
<1> QED BY <1>1, AlwaysSound, PTL

\* A flush that returns leaves nothing but part of a character behind
\* (sync_flush, drain, flush_underlying).
THEOREM FlushIsShown == Spec => FlushShows
<1>1. Sound /\ [Next]_vars =>
        [op = "flush" /\ op' = "none" /\ state' = "open" => sink' \o rem' = All(given')]_vars
  BY StepSound DEF Shows
<1> QED BY <1>1, AlwaysSound, PTL DEF Spec, FlushShows

-----------------------------------------------------------------------------
(***************************************************************************)
(* TranscodeInput: the inductive invariant.                                *)
(***************************************************************************)

ReadParts ==
  /\ gone \in Strings /\ public \in Strings /\ dest \in Strings /\ remainder \in Strings
  /\ trans \in Strings /\ kept \in Strings /\ raw \in Strings /\ unread \in Strings
  /\ total \in 0..Bytes

\* Where a read is.
Reading ==
  /\ exact \in Bindings
  /\ istate \in {"open", "finished", "cancelled", "failed"}
  /\ request \in {"none", "typed", "bytes", "drain"}
  /\ point \in {"none", "refill", "assemble", "deliver", "copy", "end"}
  /\ request = "none" <=> point = "none"
  /\ point \in {"refill", "assemble", "copy"} => istate = "open"
  /\ point = "deliver" => istate \in {"open", "finished"}
  /\ point = "end" => istate = "finished"
  /\ point = "assemble" => ~exact /\ request = "typed"
  /\ point = "deliver" => request = "typed"
  /\ point = "copy" => request = "bytes"
  /\ point \in {"refill", "assemble"} => ~prompt
  /\ prompt \in BOOLEAN

\* The places that are empty when others are filled from behind them.
Cleared ==
  /\ point \in {"refill", "end"} => public = <<>> /\ trans = <<>>
  /\ point \in {"refill", "end"} /\ request # "typed" => dest = <<>> /\ remainder = <<>>
  /\ point = "assemble" => public = <<>>
  /\ exact => dest = <<>> /\ remainder = <<>> /\ trans = <<>>
  /\ istate \in {"open", "finished"} /\ point \in {"none", "deliver", "copy"} => dest = <<>>

\* What the end of the source means.
Ends ==
  /\ eof \in BOOLEAN /\ ended \in BOOLEAN /\ told \in BOOLEAN
  /\ eof => raw = <<>> /\ unread = <<>>
  /\ ended => eof /\ kept = <<>>
  /\ istate = "finished" => ended
  /\ exact /\ istate = "finished" => public = <<>>
  /\ exact /\ told => istate = "finished"
  /\ point = "deliver" /\ public = <<>> => istate = "finished"

\* Characters are read from where a character of the stream begins.
Multiples == {q * Unit : q \in Nat}

Wholes ==
  /\ offset \in 0..(Unit - 1) /\ want \in 0..((Public + 1) * Unit)
  /\ request \in {"typed", "bytes"} => want > 0
  /\ Len(dest) \in Multiples
  /\ request = "typed" => offset = 0 /\ Len(gone) \in Multiples /\ want \in Multiples
  /\ istate = "open" /\ request # "drain" => Len(gone) - offset \in Multiples
  /\ istate = "open" /\ request # "drain" /\ (exact \/ public # <<>>) =>
       offset + Len(public) \in Multiples

Fits ==
  /\ Len(public) <= Public * Unit /\ Len(dest) <= Public * Unit /\ Len(remainder) < Unit
  /\ Len(trans) <= Transform /\ Len(raw) <= Source

ReadSound == ReadParts /\ Reading /\ Cleared /\ Ends /\ Wholes /\ Fits /\ BytesKept

Turns == PromptFirst /\ WholeCharacters

-----------------------------------------------------------------------------
(***************************************************************************)
(* Numbers and sequences.                                                  *)
(***************************************************************************)

LEMMA ReadSizesAre ==
  /\ Unit \in Nat \ {0} /\ Public \in Nat \ {0} /\ Transform \in Nat \ {0}
  /\ Source \in Nat \ {0} /\ Hold \in Nat /\ Bytes \in Nat /\ Bindings \subseteq BOOLEAN
BY TranscodeAssumption, TranscodeInputAssumption

LEMMA MultiplesAre ==
  /\ Multiples \subseteq Nat /\ 0 \in Multiples /\ Unit \in Multiples
  /\ \A n \in Nat : n * Unit \in Multiples
<1>1. Unit \in Nat \ {0}
  BY ReadSizesAre
<1>2. \A n \in Nat : n * Unit \in Nat
  BY <1>1
<1>3. 0 * Unit = 0 /\ 1 * Unit = Unit /\ 0 \in Nat /\ 1 \in Nat
  BY <1>1
<1> QED BY <1>2, <1>3 DEF Multiples

LEMMA MultiplesClosed ==
  ASSUME NEW a \in Multiples, NEW b \in Multiples
  PROVE  /\ a + b \in Multiples
         /\ a >= b => a - b \in Multiples
         /\ a < b => a + Unit <= b
<1>1. Unit \in Nat \ {0}
  BY ReadSizesAre
<1>2. PICK p \in Nat : a = p * Unit
  BY DEF Multiples
<1>3. PICK q \in Nat : b = q * Unit
  BY DEF Multiples
<1>4. a + b = (p + q) * Unit /\ p + q \in Nat
  BY <1>1, <1>2, <1>3
<1>5. ASSUME a >= b PROVE a - b \in Multiples
  <2>1. q <= p
    BY <1>1, <1>2, <1>3, <1>5, ProductsCompare
  <2>2. p - q \in Nat /\ a - b = (p - q) * Unit
    BY <1>1, <1>2, <1>3, <2>1
  <2> QED BY <2>2 DEF Multiples
<1>6. ASSUME a < b PROVE a + Unit <= b
  <2>1. ~(q <= p)
    <3> SUFFICES ASSUME q <= p PROVE FALSE
      OBVIOUS
    <3>1. q * Unit <= p * Unit /\ q * Unit \in Nat /\ p * Unit \in Nat
      BY <1>1, ProductsGrow
    <3> QED BY <1>2, <1>3, <1>6, <3>1
  <2>2. p + 1 \in Nat /\ p + 1 <= q
    BY <2>1
  <2>3. (p + 1) * Unit <= q * Unit
    BY <1>1, <2>2, ProductsGrow
  <2>4. (p + 1) * Unit = p * Unit + Unit
    BY <1>1
  <2> QED BY <1>2, <1>3, <2>3, <2>4
<1>7. a + b \in Multiples
  BY <1>4 DEF Multiples
<1> QED BY <1>5, <1>6, <1>7

LEMMA MultiplesDivide ==
  ASSUME NEW a \in Nat
  PROVE  /\ (a \div Unit) * Unit \in Multiples /\ (a \div Unit) * Unit <= a
         /\ a < (a \div Unit) * Unit + Unit
         /\ a % Unit \in 0..(Unit - 1) /\ a - (a % Unit) \in Multiples
         /\ a \in Multiples => a % Unit = 0
<1> DEFINE q == a \div Unit
           m == q * Unit
           r == a % Unit
<1>1. Unit \in Nat \ {0}
  BY ReadSizesAre
<1>2. q \in Nat /\ r \in 0..(Unit - 1) /\ a = m + r
  BY <1>1, DivisionSplits
<1>3. ASSUME a \in Multiples PROVE r = 0
  <2>1. PICK n \in Nat : a = n * Unit
    BY <1>3 DEF Multiples
  <2>2. (n * Unit) % Unit = 0
    BY <1>1
  <2> QED BY <2>1, <2>2
<1> HIDE DEF q, r
<1>4. m \in Nat /\ m \in Multiples
  BY <1>2, MultiplesAre
<1> HIDE DEF m
<1>5. m <= a /\ a < m + Unit /\ a - r = m
  BY <1>1, <1>2, <1>4
<1>6. a - r \in Multiples
  BY <1>4, <1>5
<1> QED BY <1>2, <1>3, <1>4, <1>5, <1>6 DEF q, m, r

\* What is less than a character and makes whole ones is nothing.
LEMMA LessThanUnit ==
  ASSUME NEW a \in Multiples, a < Unit
  PROVE  a = 0
<1>1. a \in Nat /\ 0 \in Multiples /\ Unit \in Nat
  BY MultiplesAre, ReadSizesAre
<1>2. 0 < a => 0 + Unit <= a
  BY <1>1, MultiplesClosed
<1> QED BY <1>1, <1>2

LEMMA FirstIs ==
  ASSUME NEW s \in Strings, NEW k \in 0..Len(s)
  PROVE  /\ First(s, k) \in Strings /\ Len(First(s, k)) = k
         /\ Cut(s, k) \in Strings /\ Len(Cut(s, k)) = Len(s) - k
         /\ Then(First(s, k), Cut(s, k)) = s
BY CutIs DEF First, Strings, Then

LEMMA NothingIs ==
  ASSUME NEW s \in Strings
  PROVE  Len(s) \in Nat /\ (s = <<>> <=> Len(s) = 0)
BY EmptyIs, LenProperties DEF Strings

LEMMA ReadLengthsAre ==
  ASSUME ReadParts
  PROVE  /\ Len(gone) \in Nat /\ Len(public) \in Nat /\ Len(dest) \in Nat
         /\ Len(remainder) \in Nat /\ Len(trans) \in Nat /\ Len(kept) \in Nat
         /\ Len(raw) \in Nat /\ Len(unread) \in Nat
BY NothingIs DEF ReadParts

\* The places of an adapter in their order; z is what its engine keeps and what
\* the source has.
Supply(k, w, u) == Then(k, Then(w, u))
Published(p, d, r, t, z) == Then(p, Then(d, Then(r, Then(t, z))))
Line(g, p, d, r, t, z) == Then(g, Published(p, d, r, t, z))
Row8(g, p, d, r, t, k, w, u) ==
  Then(Then(Then(Then(Then(Then(Then(g, p), d), r), t), k), w), u)

LEMMA SupplyIs ==
  ASSUME NEW k \in Strings, NEW w \in Strings, NEW u \in Strings
  PROVE  Supply(k, w, u) \in Strings
<1>1. Then(w, u) \in Strings
  BY ThenIs
<1> QED BY <1>1, ThenIs DEF Supply

LEMMA PublishedIs ==
  ASSUME NEW p \in Strings, NEW d \in Strings, NEW r \in Strings, NEW t \in Strings,
         NEW z \in Strings
  PROVE  Published(p, d, r, t, z) \in Strings
<1>1. Then(t, z) \in Strings
  BY ThenIs
<1>2. Then(r, Then(t, z)) \in Strings
  BY <1>1, ThenIs
<1>3. Then(d, Then(r, Then(t, z))) \in Strings
  BY <1>2, ThenIs
<1> QED BY <1>3, ThenIs DEF Published

LEMMA RowIsLine ==
  \A g, p, d, r, t, k, w, u :
    /\ g \in Strings /\ p \in Strings /\ d \in Strings /\ r \in Strings /\ t \in Strings
    /\ k \in Strings /\ w \in Strings /\ u \in Strings
    => Row8(g, p, d, r, t, k, w, u) = Line(g, p, d, r, t, Supply(k, w, u))
<1> TAKE g, p, d, r, t, k, w, u
<1> HAVE /\ g \in Strings /\ p \in Strings /\ d \in Strings /\ r \in Strings /\ t \in Strings
         /\ k \in Strings /\ w \in Strings /\ u \in Strings
<1> DEFINE a == Then(g, p)
           b == Then(a, d)
           c == Then(b, r)
           e == Then(c, t)
           z == Supply(k, w, u)
<1>1. a \in Strings
  BY ThenIs
<1> HIDE DEF a
<1>2. b \in Strings
  BY <1>1, ThenIs
<1> HIDE DEF b
<1>3. c \in Strings
  BY <1>2, ThenIs
<1> HIDE DEF c
<1>4. e \in Strings
  BY <1>3, ThenIs
<1> HIDE DEF e
<1>5. Then(w, u) \in Strings /\ z \in Strings
  BY ThenIs, SupplyIs
<1>6. Then(Then(Then(e, k), w), u) = Then(e, z)
  <2>1. Then(e, k) \in Strings
    BY <1>4, ThenIs
  <2>2. Then(Then(Then(e, k), w), u) = Then(Then(e, k), Then(w, u))
    BY <2>1, ThenIs
  <2>3. Then(Then(e, k), Then(w, u)) = Then(e, Then(k, Then(w, u)))
    BY <1>4, <1>5, ThenIs
  <2> QED BY <2>2, <2>3 DEF Supply
<1> HIDE DEF z
<1>7. Then(t, z) \in Strings /\ Then(e, z) = Then(c, Then(t, z))
  BY <1>3, <1>5, ThenIs DEF e
<1>8. Then(r, Then(t, z)) \in Strings /\ Then(c, Then(t, z)) = Then(b, Then(r, Then(t, z)))
  BY <1>2, <1>7, ThenIs DEF c
<1>9. /\ Then(d, Then(r, Then(t, z))) \in Strings
      /\ Then(b, Then(r, Then(t, z))) = Then(a, Then(d, Then(r, Then(t, z))))
  BY <1>1, <1>8, ThenIs DEF b
<1>10. Then(a, Then(d, Then(r, Then(t, z)))) = Then(g, Then(p, Then(d, Then(r, Then(t, z)))))
  BY <1>9, ThenIs DEF a
<1> QED BY <1>6, <1>7, <1>8, <1>9, <1>10 DEF Row8, Line, Published, a, b, c, e, z

ReadLine == Line(gone, public, dest, remainder, trans, Supply(kept, raw, unread))

LEMMA ReadLineIs ==
  ASSUME ReadParts
  PROVE  gone \o public \o dest \o remainder \o trans \o kept \o raw \o unread = ReadLine
<1>1. /\ gone \in Strings /\ public \in Strings /\ dest \in Strings /\ remainder \in Strings
      /\ trans \in Strings /\ kept \in Strings /\ raw \in Strings /\ unread \in Strings
  BY DEF ReadParts
<1>2. Row8(gone, public, dest, remainder, trans, kept, raw, unread) = ReadLine
  BY <1>1, RowIsLine DEF ReadLine
<1> QED BY <1>2 DEF Row8, Then

LEMMA NextReadLineIs ==
  ASSUME ReadParts'
  PROVE  (gone \o public \o dest \o remainder \o trans \o kept \o raw \o unread)' = ReadLine'
<1>1. /\ gone' \in Strings /\ public' \in Strings /\ dest' \in Strings /\ remainder' \in Strings
      /\ trans' \in Strings /\ kept' \in Strings /\ raw' \in Strings /\ unread' \in Strings
  BY DEF ReadParts
<1>2. Row8(gone', public', dest', remainder', trans', kept', raw', unread') = ReadLine'
  BY <1>1, RowIsLine DEF ReadLine
<1> QED BY <1>2 DEF Row8, Then

\* A step that moves bytes along the line keeps them.
LEMMA LineKept ==
  ASSUME ReadSound, istate \in {"open", "finished"}, ReadParts', total' = total,
         ReadLine' = ReadLine
  PROVE  BytesKept'
<1>1. ReadLine = All(total)
  BY ReadLineIs DEF ReadSound, BytesKept
<1>2. (gone \o public \o dest \o remainder \o trans \o kept \o raw \o unread)' = All(total)'
  <2>1. All(total)' = All(total)
    BY DEF All
  <2> QED BY <1>1, <2>1, NextReadLineIs
<1> QED BY <1>2 DEF BytesKept

\* So does one that leaves them where they are.
LEMMA LineSame ==
  ASSUME ReadSound, istate' \in {"open", "finished"} => istate \in {"open", "finished"},
         ReadParts', UNCHANGED <<gone, stores, kept, raw, unread, total>>
  PROVE  BytesKept'
<1>1. CASE istate' \in {"open", "finished"}
  <2>1. ReadLine' = ReadLine
    BY DEF ReadLine, stores
  <2> QED BY <1>1, <2>1, LineKept
<1>2. CASE istate' \notin {"open", "finished"}
  BY <1>2 DEF BytesKept
<1> QED BY <1>1, <1>2

-----------------------------------------------------------------------------
(***************************************************************************)
(* How bytes move along the line.                                          *)
(***************************************************************************)

\* From the get area to the caller.
LEMMA AreaRead ==
  \A g, x, y, d, r, t, z :
    /\ g \in Strings /\ x \in Strings /\ y \in Strings /\ d \in Strings /\ r \in Strings
    /\ t \in Strings /\ z \in Strings
    => Line(g, Then(x, y), d, r, t, z) = Line(Then(g, x), y, d, r, t, z)
<1> TAKE g, x, y, d, r, t, z
<1> HAVE /\ g \in Strings /\ x \in Strings /\ y \in Strings /\ d \in Strings /\ r \in Strings
         /\ t \in Strings /\ z \in Strings
<1> DEFINE v == Then(d, Then(r, Then(t, z)))
<1>1. v \in Strings
  <2>1. Then(t, z) \in Strings
    BY ThenIs
  <2>2. Then(r, Then(t, z)) \in Strings
    BY <2>1, ThenIs
  <2> QED BY <2>2, ThenIs
<1> HIDE DEF v
<1>2. Then(Then(x, y), v) = Then(x, Then(y, v)) /\ Then(y, v) \in Strings
  BY <1>1, ThenIs
<1>3. Then(g, Then(x, Then(y, v))) = Then(Then(g, x), Then(y, v))
  BY <1>2, ThenIs
<1> QED BY <1>2, <1>3 DEF Line, Published, v

\* From the remainder, and from the scratch storage, if what is before is empty.
LEMMA RemainderRead ==
  ASSUME NEW g \in Strings, NEW x \in Strings, NEW y \in Strings, NEW t \in Strings,
         NEW z \in Strings
  PROVE  Line(g, <<>>, <<>>, Then(x, y), t, z) = Line(Then(g, x), <<>>, <<>>, y, t, z)
<1> DEFINE v == Then(t, z)
<1>1. v \in Strings
  BY ThenIs
<1> HIDE DEF v
<1>2. Then(Then(x, y), v) = Then(x, Then(y, v)) /\ Then(y, v) \in Strings
  BY <1>1, ThenIs
<1>3. Then(x, Then(y, v)) \in Strings /\ Then(g, Then(x, Then(y, v))) = Then(Then(g, x), Then(y, v))
  BY <1>2, ThenIs
<1>4. /\ Then(<<>>, Then(x, Then(y, v))) = Then(x, Then(y, v))
      /\ Then(<<>>, Then(y, v)) = Then(y, v)
  BY <1>2, <1>3, ThenIs
<1> QED BY <1>2, <1>3, <1>4 DEF Line, Published, v

LEMMA ScratchRead ==
  ASSUME NEW g \in Strings, NEW x \in Strings, NEW y \in Strings, NEW z \in Strings
  PROVE  Line(g, <<>>, <<>>, <<>>, Then(x, y), z) = Line(Then(g, x), <<>>, <<>>, <<>>, y, z)
<1>1. Then(Then(x, y), z) = Then(x, Then(y, z)) /\ Then(y, z) \in Strings
  BY ThenIs
<1>2. Then(x, Then(y, z)) \in Strings /\ Then(g, Then(x, Then(y, z))) = Then(Then(g, x), Then(y, z))
  BY <1>1, ThenIs
<1>3. /\ Then(<<>>, Then(x, Then(y, z))) = Then(x, Then(y, z))
      /\ Then(<<>>, Then(y, z)) = Then(y, z)
  BY <1>1, <1>2, ThenIs
<1> QED BY <1>1, <1>2, <1>3 DEF Line, Published

\* All of what has come, in one piece.
LEMMA AllRead ==
  \A g, p, r, t, z :
    g \in Strings /\ p \in Strings /\ r \in Strings /\ t \in Strings /\ z \in Strings
    => Line(g, p, <<>>, r, t, z) = Line(Then(Then(Then(g, p), r), t), <<>>, <<>>, <<>>, <<>>, z)
<1> TAKE g, p, r, t, z
<1> HAVE g \in Strings /\ p \in Strings /\ r \in Strings /\ t \in Strings /\ z \in Strings
<1> DEFINE a == Then(g, p)
           b == Then(a, r)
           e == <<>>
<1>0. e \in Strings /\ Then(p, e) = p /\ Then(r, e) = r /\ Then(t, e) = t
  BY ThenIs
<1>1. a \in Strings
  BY ThenIs
<1> HIDE DEF a
<1>2. b \in Strings
  BY <1>1, ThenIs
<1> HIDE DEF b, e
<1>3. Line(g, Then(p, e), e, r, t, z) = Line(a, e, e, r, t, z)
  BY <1>0, AreaRead DEF a
<1>4. Line(a, e, e, Then(r, e), t, z) = Line(b, e, e, e, t, z)
  BY <1>0, <1>1, RemainderRead DEF b, e
<1>5. Line(b, e, e, e, Then(t, e), z) = Line(Then(b, t), e, e, e, e, z)
  BY <1>0, <1>2, ScratchRead DEF e
<1> QED BY <1>0, <1>3, <1>4, <1>5 DEF a, b, e

\* What the engine gives goes to the caller, into the get area or into the
\* scratch storage.
LEMMA BlockStored ==
  \A g, d, r, o, z :
    g \in Strings /\ d \in Strings /\ r \in Strings /\ o \in Strings /\ z \in Strings
    => /\ Line(g, <<>>, d, r, <<>>, Then(o, z)) = Line(g, <<>>, d, r, o, z)
       /\ Line(g, <<>>, <<>>, <<>>, <<>>, Then(o, z)) = Line(g, o, <<>>, <<>>, <<>>, z)
       /\ Line(g, <<>>, <<>>, <<>>, <<>>, Then(o, z)) = Line(Then(g, o), <<>>, <<>>, <<>>, <<>>, z)
<1> TAKE g, d, r, o, z
<1> HAVE g \in Strings /\ d \in Strings /\ r \in Strings /\ o \in Strings /\ z \in Strings
<1>1. /\ Then(o, z) \in Strings /\ <<>> \in Strings
      /\ Then(g, Then(o, z)) = Then(Then(g, o), z)
  BY ThenIs
<1>2. Then(<<>>, Then(o, z)) = Then(o, z) /\ Then(<<>>, z) = z
  BY <1>1, ThenIs
<1> QED BY <1>1, <1>2 DEF Line, Published

\* The characters that were assembled are published.
LEMMA CharactersPublished ==
  ASSUME NEW d \in Strings, NEW r \in Strings, NEW t \in Strings, NEW z \in Strings
  PROVE  Published(<<>>, d, r, t, z) = Published(d, <<>>, r, t, z)
<1>1. Then(t, z) \in Strings
  BY ThenIs
<1>2. Then(r, Then(t, z)) \in Strings
  BY <1>1, ThenIs
<1>3. Then(d, Then(r, Then(t, z))) \in Strings
  BY <1>2, ThenIs
<1> QED BY <1>2, <1>3, ThenIs DEF Published

\* The remainder takes what it lacks of the scratch storage.
LEMMA RemainderFilled ==
  \A p, d, r, x, y, z :
    /\ p \in Strings /\ d \in Strings /\ r \in Strings /\ x \in Strings /\ y \in Strings
    /\ z \in Strings
    => Published(p, d, r, Then(x, y), z) = Published(p, d, Then(r, x), y, z)
<1> TAKE p, d, r, x, y, z
<1> HAVE /\ p \in Strings /\ d \in Strings /\ r \in Strings /\ x \in Strings /\ y \in Strings
         /\ z \in Strings
<1>1. Then(y, z) \in Strings /\ Then(Then(x, y), z) = Then(x, Then(y, z))
  BY ThenIs
<1>2. Then(r, Then(x, Then(y, z))) = Then(Then(r, x), Then(y, z))
  BY <1>1, ThenIs
<1> QED BY <1>1, <1>2 DEF Published

\* A remainder that has become a character is assembled with the others.
LEMMA RemainderAssembled ==
  ASSUME NEW p \in Strings, NEW d \in Strings, NEW r \in Strings, NEW t \in Strings,
         NEW z \in Strings
  PROVE  Published(p, d, r, t, z) = Published(p, Then(d, r), <<>>, t, z)
<1>1. Then(t, z) \in Strings
  BY ThenIs
<1>2. /\ Then(r, Then(t, z)) \in Strings /\ Then(<<>>, Then(t, z)) = Then(t, z)
      /\ Then(Then(d, r), Then(t, z)) = Then(d, Then(r, Then(t, z)))
  BY <1>1, ThenIs
<1> QED BY <1>1, <1>2 DEF Published

\* Characters are copied, or what makes none becomes the remainder.
LEMMA CharactersCopied ==
  ASSUME NEW p \in Strings, NEW d \in Strings, NEW x \in Strings, NEW y \in Strings,
         NEW z \in Strings
  PROVE  /\ Published(p, d, <<>>, Then(x, y), z) = Published(p, Then(d, x), <<>>, y, z)
         /\ Published(p, d, <<>>, x, z) = Published(p, d, x, <<>>, z)
<1>1. /\ Then(y, z) \in Strings /\ Then(Then(x, y), z) = Then(x, Then(y, z))
      /\ Then(<<>>, z) = z /\ Then(x, z) \in Strings
  BY ThenIs
<1>2. /\ Then(x, Then(y, z)) \in Strings
      /\ Then(Then(d, x), Then(y, z)) = Then(d, Then(x, Then(y, z)))
      /\ Then(<<>>, Then(y, z)) = Then(y, z) /\ Then(<<>>, Then(x, z)) = Then(x, z)
  BY <1>1, ThenIs
<1>3. Then(<<>>, Then(x, Then(y, z))) = Then(x, Then(y, z))
  BY <1>2, ThenIs
<1> QED BY <1>1, <1>2, <1>3 DEF Published

\* A read of the source.
LEMMA SourceRead ==
  ASSUME NEW k \in Strings, NEW x \in Strings, NEW y \in Strings
  PROVE  Supply(k, <<>>, Then(x, y)) = Supply(k, x, y)
<1>1. Then(x, y) \in Strings
  BY ThenIs
<1> QED BY <1>1, ThenIs DEF Supply

-----------------------------------------------------------------------------
(***************************************************************************)
(* TranscodeInput: calls.                                                  *)
(***************************************************************************)

LEMMA ReadInitSound ==
  ASSUME InInit
  PROVE  ReadSound
<1>1. /\ gone = <<>> /\ public = <<>> /\ dest = <<>> /\ remainder = <<>> /\ trans = <<>>
      /\ kept = <<>> /\ raw = <<>> /\ unread = All(total) /\ total \in 0..Bytes
  BY DEF InInit
<1>2. total \in Nat
  BY <1>1, ReadSizesAre
<1>3. <<>> \in Strings /\ Len(<<>>) = 0 /\ unread \in Strings
  BY <1>1, <1>2, ThenIs, AllIs DEF Strings
<1>4. ReadParts
  BY <1>1, <1>3 DEF ReadParts
<1>5. Reading /\ Cleared /\ Ends
  BY <1>1 DEF InInit, Reading, Cleared, Ends
<1>6. Wholes
  <2>1. offset = 0 /\ want = 0 /\ request = "none" /\ (exact => total % Unit = 0)
    BY DEF InInit
  <2>2. 0 \in 0..(Unit - 1) /\ 0 \in 0..((Public + 1) * Unit) /\ 0 \in Multiples
    <3>1. Unit \in Nat \ {0} /\ Public + 1 \in Nat
      BY ReadSizesAre
    <3>2. (Public + 1) * Unit \in Nat
      BY <3>1
    <3> QED BY <3>1, <3>2, MultiplesAre
  <2>3. 0 - 0 = 0 /\ 0 + 0 = 0
    OBVIOUS
  <2> QED BY <1>1, <1>3, <2>1, <2>2, <2>3 DEF Wholes
<1>7. Fits
  <2>1. Public * Unit \in Nat /\ Unit > 0 /\ Transform \in Nat /\ Source \in Nat
    BY ReadSizesAre, ProductsGrow
  <2> QED BY <1>1, <1>3, <2>1 DEF Fits
<1>8. BytesKept
  <2>1. ReadLine = unread
    <3>1. Then(<<>>, unread) = unread
      BY <1>3, ThenIs
    <3> QED BY <1>1, <3>1 DEF ReadLine, Line, Published, Supply
  <2> QED BY <1>1, <1>4, <2>1, ReadLineIs DEF BytesKept
<1> QED BY <1>4, <1>5, <1>6, <1>7, <1>8 DEF ReadSound

LEMMA PromptKeeps ==
  ASSUME ReadSound, Prompt
  PROVE  ReadSound' /\ Turns
<1>1. request = "none" /\ prompt' = TRUE
  BY DEF Prompt
<1>2. UNCHANGED <<exact, istate, public, dest, remainder, trans, kept, raw, unread, total, eof, ended,
                  offset, request, point, want, gone, told>>
  BY DEF Prompt, stores, engine, call
<1>3. ReadParts' /\ Wholes' /\ Fits' /\ BytesKept'
  BY <1>2 DEF ReadSound, ReadParts, Wholes, Fits, BytesKept, Multiples
<1>4. Reading' /\ Cleared' /\ Ends'
  BY <1>1, <1>2 DEF ReadSound, Reading, Cleared, Ends
<1> QED BY <1>2, <1>3, <1>4 DEF ReadSound, Turns, PromptFirst, WholeCharacters

LEMMA ReadAtEndKeeps ==
  ASSUME ReadSound, ReadAtEnd
  PROVE  ReadSound' /\ Turns
<1>1. istate = "finished" /\ told' = TRUE
  BY DEF ReadAtEnd
<1>2. UNCHANGED <<exact, istate, public, dest, remainder, trans, kept, raw, unread, total, eof, ended,
                  offset, request, point, want, prompt, gone>>
  BY DEF ReadAtEnd, stores, engine, call
<1>3. ReadParts' /\ Wholes' /\ Fits' /\ BytesKept'
  BY <1>2 DEF ReadSound, ReadParts, Wholes, Fits, BytesKept, Multiples
<1>4. Reading' /\ Cleared' /\ Ends'
  BY <1>1, <1>2 DEF ReadSound, Reading, Cleared, Ends
<1> QED BY <1>2, <1>3, <1>4 DEF ReadSound, Turns, PromptFirst, WholeCharacters

LEMMA GetKeeps ==
  ASSUME ReadSound, Get
  PROVE  ReadSound' /\ Turns
<1>1. PICK n \in 1..Public :
        /\ n * Unit <= Len(public)
        /\ gone' = gone \o First(public, n * Unit) /\ public' = Cut(public, n * Unit)
  BY DEF Get
<1>2. request = "none" /\ istate \in {"open", "finished"} /\ offset = 0
  BY DEF Get, ReadBoundary
<1>3. UNCHANGED <<exact, istate, dest, remainder, trans, kept, raw, unread, total, eof, ended,
                  offset, request, point, want, prompt, told>>
  BY DEF Get, engine, call
<1> DEFINE k == n * Unit
           x == First(public, k)
           y == Cut(public, k)
<1>4. k \in Multiples /\ k \in Nat /\ k > 0
  <2>1. n \in Nat \ {0} /\ Unit \in Nat \ {0}
    BY ReadSizesAre
  <2>2. n * Unit > 0
    BY <2>1
  <2> QED BY <2>1, <2>2, MultiplesAre
<1>5. ReadParts /\ public \in Strings /\ gone \in Strings /\ Len(public) \in Nat /\ Len(gone) \in Nat
  BY ReadLengthsAre DEF ReadSound, ReadParts
<1>6. k <= Len(public) /\ gone' = gone \o x /\ public' = y
  BY <1>1
<1> HIDE DEF k
<1>7. x \in Strings /\ y \in Strings /\ Len(x) = k /\ Len(y) = Len(public) - k /\ Then(x, y) = public
  <2>1. k \in 0..Len(public)
    BY <1>4, <1>5, <1>6
  <2> QED BY <1>5, <2>1, FirstIs
<1> HIDE DEF x, y
<1>8. gone' \in Strings /\ gone' = Then(gone, x) /\ Len(gone') = Len(gone) + k
  BY <1>5, <1>6, <1>7, ThenIs DEF Then
<1>9. ReadParts'
  BY <1>3, <1>6, <1>7, <1>8 DEF ReadSound, ReadParts
<1>10. public # <<>> /\ point = "none" /\ dest = <<>>
  <2>1. public # <<>>
    BY <1>4, <1>5, <1>6, NothingIs
  <2> QED BY <1>2, <2>1 DEF ReadSound, Reading, Cleared
<1>11. Reading' /\ Cleared' /\ Ends'
  BY <1>2, <1>3, <1>10 DEF ReadSound, Reading, Cleared, Ends
<1>12. Wholes'
  <2>1. istate = "open" => Len(gone') - offset' \in Multiples /\ offset' + Len(public') \in Multiples
    <3> SUFFICES ASSUME istate = "open"
                 PROVE  Len(gone') - offset' \in Multiples /\ offset' + Len(public') \in Multiples
      OBVIOUS
    <3>1. Len(gone) - 0 \in Multiples /\ 0 + Len(public) \in Multiples
      BY <1>2, <1>10 DEF ReadSound, Wholes
    <3>2. Len(gone) - 0 = Len(gone) /\ 0 + Len(public) = Len(public)
      BY <1>5
    <3>3. Len(gone) + k \in Multiples /\ Len(public) - k \in Multiples
      BY <1>4, <1>5, <1>6, <3>1, <3>2, MultiplesClosed
    <3>4. Len(gone') - offset' = Len(gone) + k /\ offset' + Len(public') = Len(public) - k
      BY <1>2, <1>3, <1>4, <1>5, <1>6, <1>7, <1>8
    <3> QED BY <3>3, <3>4
  <2> QED BY <1>2, <1>3, <2>1 DEF ReadSound, Wholes, Multiples
<1>13. Fits'
  <2>1. Len(public') <= Len(public)
    BY <1>4, <1>5, <1>6, <1>7
  <2>2. Public * Unit \in Nat
    BY ReadSizesAre, ProductsGrow
  <2> QED BY <1>3, <1>4, <1>5, <1>6, <1>7, <2>1, <2>2 DEF ReadSound, Fits
<1>14. ReadLine' = ReadLine
  <2>1. Supply(kept, raw, unread) \in Strings
    BY SupplyIs DEF ReadSound, ReadParts
  <2>2. ReadLine = Line(gone, Then(x, y), dest, remainder, trans, Supply(kept, raw, unread))
    BY <1>7 DEF ReadLine
  <2>3. ReadLine' = Line(Then(gone, x), y, dest, remainder, trans, Supply(kept, raw, unread))
    BY <1>3, <1>6, <1>8 DEF ReadLine
  <2>4. dest \in Strings /\ remainder \in Strings /\ trans \in Strings
    BY DEF ReadSound, ReadParts
  <2> QED BY <1>5, <1>7, <2>1, <2>2, <2>3, <2>4, AreaRead
<1>15. BytesKept'
  BY <1>2, <1>3, <1>9, <1>14, LineKept
<1> QED BY <1>2, <1>3, <1>9, <1>11, <1>12, <1>13, <1>15 DEF ReadSound, Turns, PromptFirst, WholeCharacters

LEMMA ReadTypedKeeps ==
  ASSUME ReadSound, ReadTyped
  PROVE  ReadSound' /\ Turns
<1>1. PICK n \in 1..(Public + 1) :
        /\ n * Unit > Len(public) /\ request' = "typed" /\ want' = n * Unit
        /\ IF public # <<>> THEN point' = "deliver" /\ UNCHANGED prompt
           ELSE point' = (IF exact THEN "refill" ELSE "assemble") /\ FlushOutput
  BY DEF ReadTyped
<1>2. request = "none" /\ istate = "open" /\ offset = 0
  BY DEF ReadTyped, ReadBoundary
<1>3. UNCHANGED <<exact, istate, public, dest, remainder, trans, kept, raw, unread, total, eof, ended,
                  offset, gone, told>>
  BY DEF ReadTyped, stores, engine
<1>4. ReadParts' /\ Fits' /\ BytesKept'
  BY <1>3 DEF ReadSound, ReadParts, Fits, BytesKept
<1>5. point = "none" /\ dest = <<>>
  BY <1>2 DEF ReadSound, Reading, Cleared
<1>6. Reading' /\ Cleared' /\ Ends'
  BY <1>1, <1>2, <1>3, <1>5 DEF ReadSound, Reading, Cleared, Ends, FlushOutput
<1>7. Wholes'
  <2>1. n \in Nat \ {0} /\ n <= Public + 1 /\ Public + 1 \in Nat /\ Unit \in Nat \ {0}
    BY ReadSizesAre
  <2>2. want' \in 0..((Public + 1) * Unit)
    <3>1. n * Unit <= (Public + 1) * Unit /\ n * Unit \in Nat /\ (Public + 1) * Unit \in Nat
      BY <2>1, ProductsGrow
    <3> QED BY <1>1, <3>1
  <2>3. want' > 0
    BY <1>1, <2>1
  <2>4. want' \in Multiples
    BY <1>1, <2>1, MultiplesAre
  <2>5. Len(gone') \in Multiples
    <3>1. Len(gone) - 0 \in Multiples /\ Len(gone) \in Nat
      BY <1>2, ReadLengthsAre DEF ReadSound, Wholes
    <3>2. Len(gone) - 0 = Len(gone)
      BY <3>1
    <3> QED BY <1>3, <3>1, <3>2
  <2> QED BY <1>1, <1>2, <1>3, <2>2, <2>3, <2>4, <2>5 DEF ReadSound, Wholes, Multiples
<1> QED BY <1>1, <1>3, <1>4, <1>6, <1>7 DEF ReadSound, Turns, PromptFirst, WholeCharacters

LEMMA ReadBytesKeeps ==
  ASSUME ReadSound, ReadBytes
  PROVE  ReadSound' /\ Turns
<1>1. /\ request = "none" /\ istate = "open"
      /\ request' = "bytes" /\ want' \in 1..(Public * Unit + 1) /\ point' = "copy"
  BY DEF ReadBytes
<1>2. UNCHANGED <<exact, istate, public, dest, remainder, trans, kept, raw, unread, total, eof, ended,
                  offset, prompt, gone, told>>
  BY DEF ReadBytes, stores, engine
<1>3. ReadParts' /\ Fits' /\ BytesKept'
  BY <1>2 DEF ReadSound, ReadParts, Fits, BytesKept
<1>4. point = "none" /\ dest = <<>>
  BY <1>1 DEF ReadSound, Reading, Cleared
<1>5. Reading' /\ Cleared' /\ Ends'
  BY <1>1, <1>2, <1>4 DEF ReadSound, Reading, Cleared, Ends
<1>6. want' \in 0..((Public + 1) * Unit) /\ want' > 0
  <2>1. Public \in Nat /\ Unit \in Nat \ {0}
    BY ReadSizesAre
  <2>2. (Public + 1) * Unit = Public * Unit + Unit /\ Public * Unit \in Nat
    BY <2>1
  <2> DEFINE m == Public * Unit
  <2>3. m \in Nat /\ (Public + 1) * Unit = m + Unit /\ want' \in 1..(m + 1)
    BY <1>1, <2>2
  <2> HIDE DEF m
  <2>4. want' \in 0..(m + Unit) /\ want' > 0
    BY <2>1, <2>3
  <2> QED BY <2>3, <2>4
<1>7. Wholes'
  BY <1>1, <1>2, <1>6 DEF ReadSound, Wholes, Multiples
<1> QED BY <1>1, <1>2, <1>3, <1>5, <1>7 DEF ReadSound, Turns, PromptFirst, WholeCharacters

LEMMA DrainAndFinishKeeps ==
  ASSUME ReadSound, DrainAndFinish
  PROVE  ReadSound' /\ Turns
<1>1. /\ request = "none" /\ istate = "open" /\ request' = "drain" /\ point' = "refill"
      /\ gone' = gone \o public \o remainder \o trans
      /\ public' = <<>> /\ remainder' = <<>> /\ trans' = <<>> /\ offset' = 0 /\ prompt' = FALSE
  BY DEF DrainAndFinish, FlushOutput
<1>2. UNCHANGED <<exact, istate, dest, kept, raw, unread, total, eof, ended, want, told>>
  BY DEF DrainAndFinish, engine
<1>3. point = "none" /\ dest = <<>>
  BY <1>1 DEF ReadSound, Reading, Cleared
<1>4. /\ gone \in Strings /\ public \in Strings /\ remainder \in Strings /\ trans \in Strings
      /\ <<>> \in Strings /\ Len(<<>>) = 0
  BY ThenIs DEF ReadSound, ReadParts
<1>5. gone' = Then(Then(Then(gone, public), remainder), trans)
  BY <1>1 DEF Then
<1>6. gone' \in Strings
  <2>1. Then(gone, public) \in Strings
    BY <1>4, ThenIs
  <2>2. Then(Then(gone, public), remainder) \in Strings
    BY <1>4, <2>1, ThenIs
  <2> QED BY <1>4, <1>5, <2>2, ThenIs
<1>7. ReadParts'
  BY <1>1, <1>2, <1>4, <1>6 DEF ReadSound, ReadParts
<1>8. Reading' /\ Cleared' /\ Ends'
  BY <1>1, <1>2, <1>3 DEF ReadSound, Reading, Cleared, Ends
<1>9. Wholes'
  <2>1. 0 \in 0..(Unit - 1)
    BY ReadSizesAre
  <2> QED BY <1>1, <1>2, <2>1 DEF ReadSound, Wholes, Multiples
<1>10. Fits'
  <2>1. Public * Unit \in Nat /\ Unit > 0 /\ Transform \in Nat
    BY ReadSizesAre, ProductsGrow
  <2> QED BY <1>1, <1>2, <1>4, <2>1 DEF ReadSound, Fits
<1>11. ReadLine' = ReadLine
  <2> DEFINE z == Supply(kept, raw, unread)
  <2>1. z \in Strings
    BY SupplyIs DEF ReadSound, ReadParts
  <2>2. ReadLine = Line(gone, public, <<>>, remainder, trans, z)
    BY <1>3 DEF ReadLine
  <2>3. ReadLine' = Line(gone', <<>>, <<>>, <<>>, <<>>, z)
    BY <1>1, <1>2, <1>3 DEF ReadLine
  <2> HIDE DEF z
  <2> QED BY <1>4, <1>5, <2>1, <2>2, <2>3, AllRead
<1>12. BytesKept'
  BY <1>1, <1>2, <1>7, <1>11, LineKept
<1> QED BY <1>1, <1>2, <1>7, <1>8, <1>9, <1>10, <1>12 DEF ReadSound, Turns, PromptFirst, WholeCharacters

LEMMA CancelInputKeeps ==
  ASSUME ReadSound, CancelInput
  PROVE  ReadSound' /\ Turns
<1>1. /\ request = "none" /\ istate = "open" /\ istate' = "cancelled"
      /\ public' = <<>> /\ remainder' = <<>> /\ trans' = <<>> /\ offset' = 0
  BY DEF CancelInput
<1>2. UNCHANGED <<exact, dest, kept, raw, unread, total, eof, ended, request, point, want, prompt,
                  gone, told>>
  BY DEF CancelInput, engine, call
<1>3. <<>> \in Strings /\ Len(<<>>) = 0 /\ point = "none"
  BY <1>1, ThenIs DEF ReadSound, Reading
<1>4. ReadParts'
  BY <1>1, <1>2, <1>3 DEF ReadSound, ReadParts
<1>5. Reading' /\ Cleared' /\ Ends'
  BY <1>1, <1>2, <1>3 DEF ReadSound, Reading, Cleared, Ends
<1>6. Wholes'
  <2>1. 0 \in 0..(Unit - 1)
    BY ReadSizesAre
  <2> QED BY <1>1, <1>2, <2>1 DEF ReadSound, Wholes, Multiples
<1>7. Fits'
  <2>1. Public * Unit \in Nat /\ Unit > 0 /\ Transform \in Nat
    BY ReadSizesAre, ProductsGrow
  <2> QED BY <1>1, <1>2, <1>3, <2>1 DEF ReadSound, Fits
<1>8. BytesKept'
  BY <1>1 DEF BytesKept
<1> QED BY <1>1, <1>2, <1>4, <1>5, <1>6, <1>7, <1>8 DEF ReadSound, Turns, PromptFirst, WholeCharacters

-----------------------------------------------------------------------------
(***************************************************************************)
(* TranscodeInput: refills.                                                *)
(***************************************************************************)

LEMMA PrepareSourceKeeps ==
  ASSUME ReadSound, PrepareSource
  PROVE  ReadSound' /\ Turns
<1>1. /\ point = "refill" /\ ~ended /\ ~eof /\ raw = <<>>
      /\ IF unread = <<>> THEN eof' = TRUE /\ UNCHANGED <<raw, unread>>
         ELSE \E k \in 1..Min({Source, Len(unread)}) :
                raw' = First(unread, k) /\ unread' = Cut(unread, k) /\ UNCHANGED eof
  BY DEF PrepareSource
<1>2. UNCHANGED <<exact, istate, public, dest, remainder, trans, kept, total, ended, offset,
                  request, point, want, prompt, gone, told>>
  BY DEF PrepareSource, stores, call
<1>3. ~prompt /\ istate = "open"
  BY <1>1 DEF ReadSound, Reading
<1>4. Reading' /\ Cleared' /\ Wholes'
  BY <1>2 DEF ReadSound, Reading, Cleared, Wholes, Multiples
<1>5. Turns
  BY <1>1, <1>2, <1>3 DEF Turns, PromptFirst, WholeCharacters, ReadSound, Reading
<1>6. CASE unread = <<>>
  <2>1. eof' = TRUE /\ raw' = raw /\ unread' = unread
    BY <1>1, <1>6
  <2>2. ReadParts' /\ Fits' /\ BytesKept'
    BY <1>2, <2>1 DEF ReadSound, ReadParts, Fits, BytesKept
  <2>3. Ends'
    BY <1>1, <1>2, <1>3, <1>6, <2>1 DEF ReadSound, Ends
  <2> QED BY <1>4, <1>5, <2>2, <2>3 DEF ReadSound
<1>7. CASE unread # <<>>
  <2>1. PICK k \in 1..Min({Source, Len(unread)}) :
          raw' = First(unread, k) /\ unread' = Cut(unread, k) /\ UNCHANGED eof
    BY <1>1, <1>7
  <2>2. unread \in Strings /\ kept \in Strings /\ raw \in Strings
    BY DEF ReadSound, ReadParts
  <2>3. k \in 0..Len(unread) /\ k <= Source
    <3>1. Len(unread) \in Nat /\ Source \in Nat
      BY <2>2, NothingIs, ReadSizesAre
    <3>2. Min({Source, Len(unread)}) \in Nat /\ Min({Source, Len(unread)}) <= Source
          /\ Min({Source, Len(unread)}) <= Len(unread)
      BY <3>1, MinIs
    <3> QED BY <3>1, <3>2
  <2>4. raw' \in Strings /\ Len(raw') = k /\ unread' \in Strings /\ Then(raw', unread') = unread
    BY <2>1, <2>2, <2>3, FirstIs
  <2>5. ReadParts'
    BY <1>2, <2>4 DEF ReadSound, ReadParts
  <2>6. Fits'
    BY <1>2, <2>3, <2>4 DEF ReadSound, Fits
  <2>7. Ends'
    BY <1>1, <1>2, <1>3, <2>1 DEF ReadSound, Ends
  <2>8. ReadLine' = ReadLine
    <3>1. Supply(kept, <<>>, Then(raw', unread')) = Supply(kept, raw', unread')
      BY <2>2, <2>4, SourceRead
    <3> QED BY <1>1, <1>2, <2>4, <3>1 DEF ReadLine
  <2>9. BytesKept'
    BY <1>2, <1>3, <2>5, <2>8, LineKept
  <2> QED BY <1>4, <1>5, <2>5, <2>6, <2>7, <2>9 DEF ReadSound
<1> QED BY <1>6, <1>7

LEMMA NoMoreKeeps ==
  ASSUME ReadSound, NoMore
  PROVE  ReadSound' /\ Turns
<1>1. point = "refill" /\ ended /\ istate' = "finished" /\ point' = "end"
  BY DEF NoMore
<1>2. UNCHANGED <<exact, public, dest, remainder, trans, kept, raw, unread, total, eof, ended,
                  offset, request, want, prompt, gone, told>>
  BY DEF NoMore, stores, engine
<1>3. istate = "open"
  BY <1>1 DEF ReadSound, Reading
<1>4. ReadParts' /\ Fits'
  BY <1>2 DEF ReadSound, ReadParts, Fits
<1>5. BytesKept'
  BY <1>2, <1>3, <1>4, LineSame DEF stores
<1>6. Reading' /\ Cleared' /\ Ends'
  BY <1>1, <1>2, <1>3 DEF ReadSound, Reading, Cleared, Ends
<1>7. Wholes'
  BY <1>1, <1>2, <1>3 DEF ReadSound, Wholes, Multiples
<1> QED BY <1>1, <1>2, <1>4, <1>5, <1>6, <1>7 DEF ReadSound, Turns, PromptFirst, WholeCharacters

LEMMA BlocksAre ==
  ASSUME NEW s \in Strings, NEW m \in Blocks(s)
  PROVE  /\ m \in 0..Len(s)
         /\ exact => m <= Public * Unit /\ m \in Multiples
         /\ ~exact => m <= Transform
<1>1. Len(s) \in Nat /\ Window \in Nat
  <2>1. Public * Unit \in Nat /\ Transform \in Nat
    BY ReadSizesAre, ProductsGrow
  <2> QED BY <2>1, NothingIs DEF Window
<1>2. m \in 0..Min({Len(s), Window}) /\ (exact => m % Unit = 0)
  BY DEF Blocks
<1>3. Min({Len(s), Window}) \in Nat /\ Min({Len(s), Window}) <= Len(s) /\ Min({Len(s), Window}) <= Window
  BY <1>1, MinIs
<1> DEFINE least == Min({Len(s), Window})
<1>4. m \in Nat /\ m <= Len(s) /\ m <= Window
  <2>1. least \in Nat /\ m \in 0..least /\ least <= Len(s) /\ least <= Window
    BY <1>2, <1>3
  <2> HIDE DEF least
  <2> QED BY <1>1, <2>1
<1>5. exact => m \in Multiples
  <2> SUFFICES ASSUME exact PROVE m \in Multiples
    OBVIOUS
  <2>1. m - (m % Unit) \in Multiples /\ m % Unit = 0
    BY <1>2, <1>4, MultiplesDivide
  <2>2. m - 0 = m
    BY <1>4
  <2> QED BY <2>1, <2>2
<1> QED BY <1>1, <1>4, <1>5 DEF Window

\* Where a refill stands.
LEMMA Refilling ==
  ASSUME ReadSound, point = "refill"
  PROVE  /\ istate = "open" /\ request \in {"typed", "bytes", "drain"} /\ ~prompt
         /\ public = <<>> /\ trans = <<>>
         /\ request # "typed" \/ exact => dest = <<>> /\ remainder = <<>>
         /\ gone \in Strings /\ dest \in Strings /\ remainder \in Strings
         /\ kept \in Strings /\ raw \in Strings /\ unread \in Strings
         /\ exact /\ request # "drain" => offset = 0
<1>1. /\ istate = "open" /\ request \in {"typed", "bytes", "drain"} /\ ~prompt
      /\ public = <<>> /\ trans = <<>>
      /\ request # "typed" \/ exact => dest = <<>> /\ remainder = <<>>
  BY DEF ReadSound, Reading, Cleared
<1>2. ASSUME exact, request # "drain" PROVE offset = 0
  <2>1. offset + Len(public) \in Multiples /\ offset \in 0..(Unit - 1)
    BY <1>1, <1>2 DEF ReadSound, Wholes
  <2>2. Len(public) = 0 /\ offset + 0 = offset /\ offset < Unit
    BY <1>1, <2>1, ThenIs, ReadSizesAre
  <2> QED BY <2>1, <2>2, LessThanUnit
<1> QED BY <1>1, <1>2 DEF ReadSound, ReadParts

LEMMA NothingStored ==
  ASSUME ReadSound, point = "refill", Store(<<>>)
  PROVE  UNCHANGED <<gone, public, trans>>
<1>1. public = <<>> /\ trans = <<>> /\ gone \in Strings
  BY Refilling
<1>2. gone \o <<>> = gone
  BY <1>1, ThenIs DEF Then
<1> QED BY <1>1, <1>2 DEF Store

LEMMA BlockMoves ==
  ASSUME ReadSound, point = "refill", NEW b \in Strings, Store(b), NEW z \in Strings,
         UNCHANGED <<dest, remainder>>
  PROVE  /\ Line(gone', public', dest', remainder', trans', z)
            = Line(gone, public, dest, remainder, trans, Then(b, z))
         /\ gone' \in Strings /\ public' \in Strings /\ trans' \in Strings
<1>1. /\ public = <<>> /\ trans = <<>> /\ (request # "typed" \/ exact => dest = <<>> /\ remainder = <<>>)
      /\ gone \in Strings /\ dest \in Strings /\ remainder \in Strings /\ <<>> \in Strings
      /\ request \in {"typed", "bytes", "drain"}
  BY Refilling, ThenIs
<1>2. CASE request = "drain"
  <2>1. gone' = Then(gone, b) /\ public' = public /\ trans' = trans
    BY <1>2 DEF Store, Then
  <2>2. gone' \in Strings
    BY <1>1, <2>1, ThenIs
  <2> QED BY <1>1, <1>2, <2>1, <2>2, BlockStored
<1>3. CASE request # "drain" /\ exact
  <2>1. public' = b /\ gone' = gone /\ trans' = trans
    BY <1>3 DEF Store
  <2> QED BY <1>1, <1>3, <2>1, BlockStored
<1>4. CASE request # "drain" /\ ~exact
  <2>1. trans' = b /\ gone' = gone /\ public' = public
    BY <1>4 DEF Store
  <2> QED BY <1>1, <2>1, BlockStored
<1> QED BY <1>2, <1>3, <1>4

\* After a block that is not empty a refill goes on where it was asked for.
LEMMA BlockSound ==
  ASSUME ReadSound, point = "refill", NEW b \in Strings, b # <<>>, Store(b), point' = Given,
         exact => Len(b) <= Public * Unit /\ Len(b) \in Multiples,
         ~exact => Len(b) <= Transform,
         UNCHANGED <<exact, istate, dest, remainder, offset, request, want, prompt, told>>
  PROVE  /\ Reading' /\ Cleared' /\ Wholes'
         /\ Len(public') <= Public * Unit /\ Len(trans') <= Transform
         /\ point' = "deliver" => public' # <<>>
<1>1. /\ public = <<>> /\ trans = <<>> /\ (request # "typed" \/ exact => dest = <<>> /\ remainder = <<>>)
      /\ istate = "open" /\ request \in {"typed", "bytes", "drain"} /\ ~prompt
      /\ exact /\ request # "drain" => offset = 0
  BY Refilling
<1>2. Len(<<>>) = 0 /\ 0 <= Public * Unit /\ 0 <= Transform
  <2>1. Public * Unit \in Nat /\ Transform \in Nat
    BY ReadSizesAre, ProductsGrow
  <2> QED BY <2>1, ThenIs
<1>3. CASE request = "drain"
  <2>1. public' = <<>> /\ trans' = <<>> /\ point' = "refill"
    BY <1>1, <1>3 DEF Store, Given
  <2>2. Reading' /\ Cleared'
    BY <1>1, <1>3, <2>1 DEF ReadSound, Reading, Cleared
  <2>3. Wholes'
    BY <1>1, <1>3 DEF ReadSound, Wholes, Multiples
  <2> QED BY <1>2, <2>1, <2>2, <2>3
<1>4. CASE request # "drain" /\ exact
  <2>1. /\ public' = b /\ gone' = gone /\ trans' = <<>>
        /\ point' = (IF request = "typed" THEN "deliver" ELSE "copy")
    BY <1>1, <1>4 DEF Store, Given
  <2>2. Reading' /\ Cleared'
    BY <1>1, <1>4, <2>1 DEF ReadSound, Reading, Cleared
  <2>3. Wholes'
    <3>1. offset' + Len(public') = Len(b)
      <4>1. Len(b) \in Nat /\ offset' = 0
        BY <1>1, <1>4, NothingIs
      <4> QED BY <2>1, <4>1
    <3> QED BY <1>1, <1>4, <2>1, <3>1 DEF ReadSound, Wholes, Multiples
  <2> QED BY <1>2, <1>4, <2>1, <2>2, <2>3
<1>5. CASE request # "drain" /\ ~exact
  <2>1. /\ trans' = b /\ gone' = gone /\ public' = <<>>
        /\ point' = (IF request = "typed" THEN "assemble" ELSE "copy")
    BY <1>1, <1>5 DEF Store, Given
  <2>2. Reading' /\ Cleared'
    BY <1>1, <1>5, <2>1 DEF ReadSound, Reading, Cleared
  <2>3. Wholes'
    BY <1>1, <1>5, <2>1 DEF ReadSound, Wholes, Multiples
  <2> QED BY <1>2, <1>5, <2>1, <2>2, <2>3
<1> QED BY <1>3, <1>4, <1>5

LEMMA FillBlockKeeps ==
  ASSUME ReadSound, FillBlock
  PROVE  ReadSound' /\ Turns
<1>1. point = "refill" /\ ~ended /\ raw # <<>>
  BY DEF FillBlock
<1>2. PICK k \in 0..Len(raw) : \E m \in Blocks(kept \o First(raw, k)) :
        /\ raw' = Cut(raw, k) /\ kept' = Cut(kept \o First(raw, k), m)
        /\ Store(First(kept \o First(raw, k), m))
        /\ point' = IF m > 0 THEN Given ELSE "refill"
  BY DEF FillBlock, LeftOver
<1> DEFINE x == First(raw, k)
           y == Cut(raw, k)
           s == kept \o x
<1>3. PICK m \in Blocks(s) :
        /\ raw' = y /\ kept' = Cut(s, m) /\ Store(First(s, m))
        /\ point' = IF m > 0 THEN Given ELSE "refill"
  BY <1>2
<1>4. UNCHANGED <<exact, istate, dest, remainder, unread, total, eof, ended, offset, request, want,
                  prompt, told>>
  BY DEF FillBlock
<1>5. /\ istate = "open" /\ request \in {"typed", "bytes", "drain"} /\ ~prompt
      /\ public = <<>> /\ trans = <<>>
      /\ gone \in Strings /\ dest \in Strings /\ remainder \in Strings
      /\ kept \in Strings /\ raw \in Strings /\ unread \in Strings
  BY <1>1, Refilling
<1>6. x \in Strings /\ y \in Strings /\ Then(x, y) = raw /\ Len(y) <= Len(raw)
  <2>1. Len(raw) \in Nat /\ k \in Nat
    BY <1>5, NothingIs
  <2>2. x \in Strings /\ y \in Strings /\ Then(x, y) = raw /\ Len(y) = Len(raw) - k
    BY <1>5, FirstIs
  <2> QED BY <2>1, <2>2
<1> HIDE DEF x, y
<1>7. s \in Strings /\ s = Then(kept, x)
  BY <1>5, <1>6, ThenIs DEF Then
<1> HIDE DEF s
<1>8. /\ m \in 0..Len(s)
      /\ exact => m <= Public * Unit /\ m \in Multiples
      /\ ~exact => m <= Transform
  BY <1>7, BlocksAre
<1> DEFINE b == First(s, m)
<1>9. b \in Strings /\ Len(b) = m /\ kept' \in Strings /\ Then(b, kept') = s /\ Store(b)
  BY <1>3, <1>7, <1>8, FirstIs
<1> HIDE DEF b
<1>10. Supply(kept', y, unread) \in Strings
  BY <1>5, <1>6, <1>9, SupplyIs
<1>11. /\ Line(gone', public', dest', remainder', trans', Supply(kept', y, unread))
          = Line(gone, public, dest, remainder, trans, Then(b, Supply(kept', y, unread)))
       /\ gone' \in Strings /\ public' \in Strings /\ trans' \in Strings
  BY <1>1, <1>4, <1>9, <1>10, BlockMoves
<1>12. ReadParts'
  BY <1>3, <1>4, <1>6, <1>9, <1>11 DEF ReadSound, ReadParts
<1>13. ReadLine' = ReadLine
  <2>1. Then(kept, Then(Then(x, y), unread)) = Then(b, Then(kept', Then(y, unread)))
    BY <1>5, <1>6, <1>7, <1>9, Taken
  <2>2. Supply(kept, raw, unread) = Then(b, Supply(kept', y, unread))
    BY <1>6, <2>1 DEF Supply
  <2> QED BY <1>3, <1>4, <1>11, <2>2 DEF ReadLine
<1>14. BytesKept'
  BY <1>4, <1>5, <1>12, <1>13, LineKept
<1>15. ~eof
  BY <1>1 DEF ReadSound, Ends
<1>16. Turns
  BY <1>4, <1>5 DEF Turns, PromptFirst, WholeCharacters, ReadSound, Reading
<1>17. Len(raw') <= Source
  <2>1. Len(raw) \in Nat /\ Len(raw') \in Nat /\ Source \in Nat /\ Len(raw) <= Source
    BY <1>5, <1>3, <1>6, NothingIs, ReadSizesAre DEF ReadSound, Fits
  <2> QED BY <1>3, <1>6, <2>1
<1>18. CASE m > 0
  <2>1. point' = Given /\ b # <<>>
    <3>1. Len(<<>>) = 0 /\ ~(0 > 0)
      BY ThenIs
    <3> QED BY <1>3, <1>9, <1>18, <3>1
  <2>2. /\ Reading' /\ Cleared' /\ Wholes'
        /\ Len(public') <= Public * Unit /\ Len(trans') <= Transform
        /\ point' = "deliver" => public' # <<>>
    BY <1>1, <1>4, <1>8, <1>9, <2>1, BlockSound
  <2>3. Fits'
    BY <1>4, <1>17, <2>2 DEF ReadSound, Fits
  <2>4. Ends'
    BY <1>4, <1>5, <1>1, <1>15, <2>2 DEF ReadSound, Ends
  <2> QED BY <1>12, <1>14, <1>16, <2>2, <2>3, <2>4 DEF ReadSound
<1>19. CASE ~(m > 0)
  <2>1. m = 0
    <3>1. Len(s) \in Nat
      BY <1>7, NothingIs
    <3> QED BY <1>8, <1>19, <3>1
  <2>2. b = <<>> /\ point' = "refill"
    BY <1>3, <1>9, <1>19, <2>1, NothingIs
  <2>3. UNCHANGED <<gone, public, trans>>
    BY <1>1, <1>9, <2>2, NothingStored
  <2>4. Reading' /\ Cleared'
    BY <1>1, <1>4, <2>2, <2>3 DEF ReadSound, Reading, Cleared
  <2>5. Wholes'
    BY <1>4, <2>3 DEF ReadSound, Wholes, Multiples
  <2>6. Fits'
    BY <1>4, <1>17, <2>3 DEF ReadSound, Fits
  <2>7. Ends'
    BY <1>4, <1>1, <1>5, <1>15, <2>2, <2>3 DEF ReadSound, Ends
  <2> QED BY <1>12, <1>14, <1>16, <2>4, <2>5, <2>6, <2>7 DEF ReadSound
<1> QED BY <1>18, <1>19

LEMMA EngineFinishKeeps ==
  ASSUME ReadSound, EngineFinish
  PROVE  ReadSound' /\ Turns
<1>1. point = "refill" /\ ~ended /\ eof
  BY DEF EngineFinish
<1>2. PICK m \in Blocks(kept) :
        /\ m > 0 \/ kept = <<>>
        /\ kept' = Cut(kept, m) /\ ended' = (Cut(kept, m) = <<>>)
        /\ Store(First(kept, m)) /\ point' = (IF m > 0 THEN Given ELSE "end")
        /\ istate' = IF m > 0 THEN istate ELSE "finished"
  BY DEF EngineFinish, Finished, AfterFinish
<1>3. UNCHANGED <<exact, dest, remainder, raw, unread, total, eof, offset, request, want, prompt, told>>
  BY DEF EngineFinish
<1>4. /\ istate = "open" /\ request \in {"typed", "bytes", "drain"} /\ ~prompt
      /\ public = <<>> /\ trans = <<>>
      /\ gone \in Strings /\ dest \in Strings /\ remainder \in Strings
      /\ kept \in Strings /\ raw \in Strings /\ unread \in Strings
  BY <1>1, Refilling
<1>5. /\ m \in 0..Len(kept)
      /\ exact => m <= Public * Unit /\ m \in Multiples
      /\ ~exact => m <= Transform
  BY <1>4, BlocksAre
<1> DEFINE b == First(kept, m)
<1>6. b \in Strings /\ Len(b) = m /\ kept' \in Strings /\ Then(b, kept') = kept /\ Store(b)
  BY <1>2, <1>4, <1>5, FirstIs
<1> HIDE DEF b
<1> DEFINE z == Supply(kept', raw, unread)
<1>7. z \in Strings /\ Supply(kept, raw, unread) = Then(b, z)
  <2>1. Then(raw, unread) \in Strings
    BY <1>4, ThenIs
  <2>2. Then(Then(b, kept'), Then(raw, unread)) = Then(b, Then(kept', Then(raw, unread)))
    BY <1>6, <2>1, ThenIs
  <2> QED BY <1>4, <1>6, <2>2, SupplyIs DEF Supply
<1> HIDE DEF z
<1>8. /\ Line(gone', public', dest', remainder', trans', z)
         = Line(gone, public, dest, remainder, trans, Then(b, z))
      /\ gone' \in Strings /\ public' \in Strings /\ trans' \in Strings
  BY <1>1, <1>3, <1>6, <1>7, BlockMoves
<1>9. ReadParts'
  BY <1>3, <1>6, <1>8 DEF ReadSound, ReadParts
<1>10. ReadLine' = ReadLine
  BY <1>3, <1>7, <1>8 DEF ReadLine, z
<1>11. BytesKept'
  BY <1>3, <1>4, <1>9, <1>10, LineKept
<1>12. Turns
  BY <1>3, <1>4 DEF Turns, PromptFirst, WholeCharacters, ReadSound, Reading
<1>13. ended' \in BOOLEAN /\ (ended' => kept' = <<>>)
  BY <1>2
<1>14. CASE m > 0
  <2>1. point' = Given /\ b # <<>> /\ istate' = istate
    <3>1. Len(<<>>) = 0 /\ ~(0 > 0)
      BY ThenIs
    <3> QED BY <1>2, <1>6, <1>14, <3>1
  <2>2. /\ Reading' /\ Cleared' /\ Wholes'
        /\ Len(public') <= Public * Unit /\ Len(trans') <= Transform
        /\ point' = "deliver" => public' # <<>>
    BY <1>1, <1>3, <1>5, <1>6, <2>1, BlockSound
  <2>3. Fits'
    BY <1>3, <2>2 DEF ReadSound, Fits
  <2>4. Ends'
    BY <1>1, <1>3, <1>4, <1>13, <2>1, <2>2 DEF ReadSound, Ends
  <2> QED BY <1>9, <1>11, <1>12, <2>2, <2>3, <2>4 DEF ReadSound
<1>15. CASE ~(m > 0)
  <2>1. m = 0
    <3>1. Len(kept) \in Nat
      BY <1>4, NothingIs
    <3> QED BY <1>5, <1>15, <3>1
  <2>2. b = <<>> /\ point' = "end" /\ istate' = "finished" /\ kept = <<>>
    BY <1>2, <1>6, <1>15, <2>1, NothingIs
  <2>3. UNCHANGED <<gone, public, trans>>
    BY <1>1, <1>6, <2>2, NothingStored
  <2>4. kept' = <<>> /\ ended'
    <3>1. Then(<<>>, kept') = kept'
      BY <1>6, ThenIs
    <3> QED BY <1>2, <1>6, <2>2, <3>1
  <2>5. Reading' /\ Cleared'
    BY <1>1, <1>3, <1>4, <2>2, <2>3 DEF ReadSound, Reading, Cleared
  <2>6. Wholes'
    BY <1>3, <1>4, <2>2, <2>3 DEF ReadSound, Wholes, Multiples
  <2>7. Fits'
    BY <1>3, <2>3 DEF ReadSound, Fits
  <2>8. Ends'
    BY <1>1, <1>3, <1>4, <2>2, <2>3, <2>4 DEF ReadSound, Ends
  <2> QED BY <1>9, <1>11, <1>12, <2>5, <2>6, <2>7, <2>8 DEF ReadSound
<1> QED BY <1>14, <1>15

-----------------------------------------------------------------------------
(***************************************************************************)
(* TranscodeInput: assembling characters.                                  *)
(***************************************************************************)

LEMMA Assembling ==
  ASSUME ReadSound, point = "assemble"
  PROVE  /\ istate = "open" /\ request = "typed" /\ ~exact /\ public = <<>> /\ ~prompt
         /\ offset = 0 /\ Len(gone) \in Multiples /\ Len(dest) \in Multiples
         /\ gone \in Strings /\ dest \in Strings /\ remainder \in Strings /\ trans \in Strings
         /\ Supply(kept, raw, unread) \in Strings
BY SupplyIs DEF ReadSound, Reading, Cleared, Wholes, ReadParts

\* Of a get area that is not full, a character at least is free.
LEMMA NotFullIs ==
  ASSUME ReadSound, ~Full
  PROVE  /\ Len(dest) + Unit <= Public * Unit /\ Public * Unit - Len(dest) \in Multiples
         /\ Public * Unit \in Nat /\ Len(dest) \in Nat
<1>1. Public * Unit \in Multiples /\ Len(dest) \in Multiples /\ Len(dest) <= Public * Unit
  BY MultiplesAre, ReadSizesAre DEF ReadSound, Wholes, Fits
<1> DEFINE m == Public * Unit
<1>2. m \in Multiples /\ Len(dest) \in Multiples /\ Len(dest) <= m /\ Len(dest) # m
  BY <1>1 DEF Full
<1> HIDE DEF m
<1>3. m \in Nat /\ Len(dest) \in Nat
  BY <1>2, MultiplesAre
<1>4. Len(dest) + Unit <= m /\ m - Len(dest) \in Multiples
  BY <1>2, <1>3, MultiplesClosed
<1> QED BY <1>3, <1>4 DEF m

LEMMA AssembleEndsKeeps ==
  ASSUME ReadSound, AssembleEnds
  PROVE  ReadSound' /\ Turns
<1>1. /\ point = "assemble" /\ (Full \/ (Short /\ dest # <<>>))
      /\ public' = dest /\ dest' = <<>> /\ point' = "deliver"
  BY DEF AssembleEnds, Publish
<1>2. UNCHANGED <<exact, istate, remainder, trans, kept, raw, unread, total, eof, ended, offset,
                  request, want, prompt, gone, told>>
  BY DEF AssembleEnds, engine
<1>3. /\ istate = "open" /\ request = "typed" /\ ~exact /\ public = <<>> /\ ~prompt
      /\ offset = 0 /\ Len(gone) \in Multiples /\ Len(dest) \in Multiples
      /\ gone \in Strings /\ dest \in Strings /\ remainder \in Strings /\ trans \in Strings
      /\ Supply(kept, raw, unread) \in Strings
  BY <1>1, Assembling
<1>4. <<>> \in Strings /\ Len(<<>>) = 0 /\ 0 \in Multiples
  BY ThenIs, MultiplesAre
<1>5. dest # <<>>
  <2>1. Public * Unit > 0
    <3>1. Public >= 1 /\ Public \in Nat /\ Unit \in Nat \ {0}
      BY ReadSizesAre
    <3>2. 1 * Unit <= Public * Unit /\ 1 * Unit = Unit
      BY <3>1, ProductsGrow
    <3> QED BY <3>1, <3>2, ProductsGrow
  <2> QED BY <1>1, <1>4, <2>1 DEF Full
<1>6. ReadParts'
  BY <1>1, <1>2, <1>3, <1>4 DEF ReadSound, ReadParts
<1>7. Reading' /\ Cleared' /\ Ends'
  BY <1>1, <1>2, <1>3, <1>5 DEF ReadSound, Reading, Cleared, Ends
<1>8. Wholes'
  <2>1. offset' + Len(public') \in Multiples
    <3>1. Len(dest) \in Nat
      BY <1>3, NothingIs
    <3> QED BY <1>1, <1>2, <1>3, <3>1
  <2>2. Len(dest') \in Multiples
    BY <1>1, <1>4
  <2> QED BY <1>1, <1>2, <1>3, <2>1, <2>2 DEF ReadSound, Wholes, Multiples
<1>9. Fits'
  <2>1. 0 <= Public * Unit
    BY ReadSizesAre, ProductsGrow
  <2> QED BY <1>1, <1>2, <1>4, <2>1 DEF ReadSound, Fits
<1>10. ReadLine' = ReadLine
  BY <1>1, <1>2, <1>3, CharactersPublished DEF ReadLine, Line
<1>11. BytesKept'
  BY <1>2, <1>3, <1>6, <1>10, LineKept
<1> QED BY <1>1, <1>2, <1>3, <1>6, <1>7, <1>8, <1>9, <1>11 DEF ReadSound, Turns, PromptFirst, WholeCharacters

LEMMA AssembleRefillsKeeps ==
  ASSUME ReadSound, AssembleRefills
  PROVE  ReadSound' /\ Turns
<1>1. point = "assemble" /\ trans = <<>> /\ point' = "refill"
  BY DEF AssembleRefills
<1>2. UNCHANGED <<exact, istate, public, dest, remainder, trans, kept, raw, unread, total, eof, ended,
                  offset, request, want, prompt, gone, told>>
  BY DEF AssembleRefills, stores, engine
<1>3. istate = "open" /\ request = "typed" /\ ~exact /\ public = <<>> /\ ~prompt
  BY <1>1, Assembling
<1>4. ReadParts' /\ Fits' /\ BytesKept'
  BY <1>2 DEF ReadSound, ReadParts, Fits, BytesKept
<1>5. Reading' /\ Cleared' /\ Ends'
  BY <1>1, <1>2, <1>3 DEF ReadSound, Reading, Cleared, Ends
<1>6. Wholes'
  BY <1>2 DEF ReadSound, Wholes, Multiples
<1> QED BY <1>2, <1>3, <1>4, <1>5, <1>6 DEF ReadSound, Turns, PromptFirst, WholeCharacters

\* Assembling goes on with other characters, remainder and scratch storage.
LEMMA StillAssembling ==
  ASSUME ReadSound, point = "assemble",
         UNCHANGED <<exact, istate, public, kept, raw, unread, total, eof, ended, offset, request,
                     point, want, prompt, gone, told>>,
         dest' \in Strings, remainder' \in Strings, trans' \in Strings,
         Len(dest') \in Multiples, Len(dest') <= Public * Unit, Len(remainder') < Unit,
         Len(trans') <= Len(trans),
         Published(public, dest', remainder', trans', Supply(kept, raw, unread))
           = Published(public, dest, remainder, trans, Supply(kept, raw, unread))
  PROVE  ReadSound' /\ Turns
<1>1. istate = "open" /\ request = "typed" /\ ~exact /\ public = <<>> /\ ~prompt /\ trans \in Strings
  BY Assembling
<1>2. ReadParts'
  BY DEF ReadSound, ReadParts
<1>3. Reading' /\ Cleared' /\ Ends'
  BY <1>1 DEF ReadSound, Reading, Cleared, Ends
<1>4. Wholes'
  BY <1>1 DEF ReadSound, Wholes, Multiples
<1>5. Fits'
  <2>1. Len(trans) \in Nat /\ Len(trans') \in Nat /\ Transform \in Nat /\ Len(trans) <= Transform
    BY <1>1, NothingIs, ReadSizesAre DEF ReadSound, Fits
  <2>2. Len(trans') <= Transform
    BY <2>1
  <2> QED BY <2>2 DEF ReadSound, Fits
<1>6. ReadLine' = ReadLine
  BY DEF ReadLine, Line
<1>7. BytesKept'
  BY <1>1, <1>2, <1>6, LineKept
<1> QED BY <1>1, <1>2, <1>3, <1>4, <1>5, <1>7 DEF ReadSound, Turns, PromptFirst, WholeCharacters

LEMMA AssembleRemainderKeeps ==
  ASSUME ReadSound, AssembleRemainder
  PROVE  ReadSound' /\ Turns
<1> DEFINE k == Min({Unit - Len(remainder), Len(trans)})
           x == First(trans, k)
           y == Cut(trans, k)
           s == remainder \o x
<1>1. /\ point = "assemble" /\ ~Full /\ remainder # <<>> /\ trans # <<>>
      /\ trans' = y
      /\ IF Len(s) = Unit THEN dest' = dest \o s /\ remainder' = <<>>
         ELSE remainder' = s /\ UNCHANGED dest
  BY DEF AssembleRemainder
<1>2. UNCHANGED <<exact, istate, public, kept, raw, unread, total, eof, ended, offset, request,
                  point, want, prompt, gone, told>>
  BY DEF AssembleRemainder, engine, call
<1>3. /\ public = <<>> /\ dest \in Strings /\ remainder \in Strings /\ trans \in Strings
      /\ Len(dest) \in Multiples /\ Supply(kept, raw, unread) \in Strings /\ public \in Strings
  BY <1>1, Assembling, ThenIs
<1>4. /\ Unit \in Nat \ {0} /\ Len(remainder) \in Nat /\ Len(trans) \in Nat /\ Len(remainder) < Unit
  BY <1>3, NothingIs, ReadSizesAre DEF ReadSound, Fits
<1>5. k \in 0..Len(trans) /\ k <= Unit - Len(remainder) /\ k \in Nat
  <2>1. Unit - Len(remainder) \in Nat
    BY <1>4
  <2>2. k \in Nat /\ k <= Unit - Len(remainder) /\ k <= Len(trans)
    BY <1>4, <2>1, MinIs
  <2> QED BY <1>4, <2>2
<1> HIDE DEF k
<1>6. x \in Strings /\ y \in Strings /\ Len(x) = k /\ Len(y) = Len(trans) - k /\ Then(x, y) = trans
  BY <1>3, <1>5, FirstIs
<1> HIDE DEF x, y
<1>7. s \in Strings /\ s = Then(remainder, x) /\ Len(s) = Len(remainder) + k
  BY <1>3, <1>6, ThenIs DEF Then
<1> HIDE DEF s
<1>8. Len(trans') <= Len(trans) /\ trans' \in Strings
  BY <1>1, <1>4, <1>5, <1>6
<1> DEFINE z == Supply(kept, raw, unread)
<1>9. z \in Strings
  BY <1>3
<1> HIDE DEF z
<1>10. Published(public, dest, remainder, trans, z) = Published(public, dest, s, y, z)
  <2>1. Published(public, dest, remainder, Then(x, y), z)
        = Published(public, dest, Then(remainder, x), y, z)
    BY <1>3, <1>6, <1>9, RemainderFilled
  <2> QED BY <1>6, <1>7, <2>1
<1>11. CASE Len(s) = Unit
  <2>1. dest' = Then(dest, s) /\ remainder' = <<>>
    BY <1>1, <1>11 DEF Then
  <2>2. dest' \in Strings /\ Len(dest') = Len(dest) + Unit /\ remainder' \in Strings /\ Len(remainder') = 0
    BY <1>3, <1>7, <1>11, <2>1, ThenIs
  <2>3. Len(dest') \in Multiples
    BY <1>3, <2>2, MultiplesAre, MultiplesClosed
  <2>4. Len(dest') <= Public * Unit /\ Len(remainder') < Unit
    BY <1>1, <1>4, <2>2, NotFullIs
  <2>5. Published(public, dest', remainder', trans', z) = Published(public, dest, remainder, trans, z)
    BY <1>1, <1>3, <1>6, <1>7, <1>9, <1>10, <2>1, RemainderAssembled
  <2> QED BY <1>1, <1>2, <1>8, <2>2, <2>3, <2>4, <2>5, StillAssembling DEF z
<1>12. CASE Len(s) # Unit
  <2>1. remainder' = s /\ dest' = dest
    BY <1>1, <1>12
  <2>2. remainder' \in Strings /\ dest' \in Strings /\ Len(dest') \in Multiples
    BY <1>3, <1>7, <2>1
  <2>3. Len(remainder') < Unit
    BY <1>4, <1>5, <1>7, <1>12, <2>1
  <2>4. Len(dest') <= Public * Unit
    BY <2>1 DEF ReadSound, Fits
  <2>5. Published(public, dest', remainder', trans', z) = Published(public, dest, remainder, trans, z)
    BY <1>1, <1>10, <2>1
  <2> QED BY <1>1, <1>2, <1>8, <2>2, <2>3, <2>4, <2>5, StillAssembling DEF z
<1> QED BY <1>11, <1>12

LEMMA AssembleCopyKeeps ==
  ASSUME ReadSound, AssembleCopy
  PROVE  ReadSound' /\ Turns
<1> DEFINE w == (Len(trans) \div Unit) * Unit
           r == Public * Unit - Len(dest)
           k == Min({Public * Unit - Len(dest), (Len(trans) \div Unit) * Unit})
           x == First(trans, k)
           y == Cut(trans, k)
           z == Supply(kept, raw, unread)
<1>1. /\ point = "assemble" /\ ~Full /\ remainder = <<>> /\ trans # <<>>
      /\ IF k > 0 THEN dest' = dest \o x /\ trans' = y /\ UNCHANGED remainder
         ELSE remainder' = trans /\ trans' = <<>> /\ UNCHANGED dest
  BY DEF AssembleCopy, Rest
<1>2. UNCHANGED <<exact, istate, public, kept, raw, unread, total, eof, ended, offset, request,
                  point, want, prompt, gone, told>>
  BY DEF AssembleCopy, engine, call
<1>3. /\ public = <<>> /\ dest \in Strings /\ remainder \in Strings /\ trans \in Strings
      /\ Len(dest) \in Multiples /\ z \in Strings /\ public \in Strings /\ <<>> \in Strings
  BY <1>1, Assembling, ThenIs
<1> HIDE DEF z
<1>4. /\ Unit \in Nat \ {0} /\ Len(trans) \in Nat /\ Len(dest) \in Nat
  BY <1>3, NothingIs, ReadSizesAre
<1>5. /\ r \in Multiples /\ r >= Unit /\ r \in Nat /\ Len(dest) + r = Public * Unit
  <2>1. /\ Len(dest) + Unit <= Public * Unit /\ r \in Multiples /\ Public * Unit \in Nat
    BY <1>1, NotFullIs
  <2> QED BY <1>4, <2>1
<1>6. w \in Multiples /\ w <= Len(trans) /\ Len(trans) < w + Unit /\ w \in Nat
  BY <1>4, MultiplesDivide, MultiplesAre
<1>7. k \in Nat /\ k <= r /\ k <= w /\ (k = r \/ k = w)
  <2>1. k = Min({r, w})
    OBVIOUS
  <2> HIDE DEF k, r, w
  <2> QED BY <1>5, <1>6, <2>1, MinIs
<1> HIDE DEF w, r, k
<1>8. k \in Multiples /\ k \in 0..Len(trans) /\ Len(dest) + k <= Public * Unit
  BY <1>4, <1>5, <1>6, <1>7
<1>9. x \in Strings /\ y \in Strings /\ Len(x) = k /\ Len(y) = Len(trans) - k /\ Then(x, y) = trans
  BY <1>3, <1>8, FirstIs
<1> HIDE DEF x, y
<1>10. CASE k > 0
  <2>1. dest' = Then(dest, x) /\ trans' = y /\ remainder' = <<>>
    BY <1>1, <1>10 DEF Then
  <2>2. dest' \in Strings /\ Len(dest') = Len(dest) + k /\ trans' \in Strings /\ remainder' \in Strings
    BY <1>3, <1>9, <2>1, ThenIs
  <2>3. Len(dest') \in Multiples
    BY <1>3, <1>8, <2>2, MultiplesClosed
  <2>4. Len(remainder') < Unit
    BY <1>4, <2>1, ThenIs
  <2>5. Len(trans') <= Len(trans)
    BY <1>4, <1>7, <1>9, <2>1
  <2>6. Published(public, dest', remainder', trans', z) = Published(public, dest, remainder, trans, z)
    BY <1>1, <1>3, <1>9, <2>1, CharactersCopied
  <2> QED BY <1>1, <1>2, <1>8, <2>2, <2>3, <2>4, <2>5, <2>6, StillAssembling DEF z
<1>11. CASE ~(k > 0)
  <2>1. remainder' = trans /\ trans' = <<>> /\ dest' = dest
    BY <1>1, <1>11
  <2>2. Len(trans) < Unit
    BY <1>4, <1>5, <1>6, <1>7, <1>11
  <2>3. Len(trans') <= Len(trans)
    BY <1>4, <2>1, ThenIs
  <2>4. Len(dest') <= Public * Unit
    BY <2>1 DEF ReadSound, Fits
  <2>5. Published(public, dest', remainder', trans', z) = Published(public, dest, remainder, trans, z)
    BY <1>1, <1>3, <2>1, CharactersCopied
  <2> QED BY <1>1, <1>2, <1>3, <2>1, <2>2, <2>3, <2>4, <2>5, StillAssembling DEF z
<1> QED BY <1>10, <1>11

-----------------------------------------------------------------------------
(***************************************************************************)
(* TranscodeInput: what the caller gets.                                   *)
(***************************************************************************)

LEMMA FirstOfThen ==
  ASSUME NEW x \in Strings, NEW y \in Strings
  PROVE  First(Then(x, y), Len(x)) = x
<1> DEFINE s == Then(x, y)
           f == First(s, Len(x))
<1>1. /\ s \in Seq(Nat) /\ Len(s) = Len(x) + Len(y) /\ Len(x) \in Nat /\ Len(y) \in Nat
      /\ \A i \in 1..Len(x) : s[i] = x[i]
  <2>1. x \in Seq(Nat) /\ y \in Seq(Nat)
    BY DEF Strings
  <2>2. /\ s \in Seq(Nat) /\ Len(s) = Len(x) + Len(y) /\ Len(x) \in Nat /\ Len(y) \in Nat
        /\ \A i \in 1..(Len(x) + Len(y)) : s[i] = IF i <= Len(x) THEN x[i] ELSE y[i - Len(x)]
    BY <2>1, JoinIs DEF Then
  <2> HIDE DEF s
  <2> QED BY <2>2
<1>2. f \in Strings /\ Len(f) = Len(x)
  <2>1. s \in Strings /\ Len(x) \in 0..Len(s)
    BY <1>1 DEF Strings
  <2> QED BY <2>1, FirstIs
<1>3. \A i \in 1..Len(x) : f[i] = s[i]
  <2>1. f = SubSeq(s, 1, Len(x))
    BY DEF First
  <2> HIDE DEF s, f
  <2> QED BY <1>1, <2>1
<1> HIDE DEF s, f
<1>4. \A i \in 1..Len(x) : f[i] = x[i]
  BY <1>1, <1>3
<1>5. f \in Seq(Nat) /\ x \in Seq(Nat)
  BY <1>2 DEF Strings
<1>6. f = x
  BY <1>2, <1>4, <1>5
<1> QED BY <1>6 DEF f, s

\* The stores are read in their order: of one that is not empty afterwards,
\* nothing behind it has been taken.
LEMMA StoresRead ==
  \A g, a, b, c, d, e, f, z :
    /\ g \in Strings /\ a \in Strings /\ b \in Strings /\ c \in Strings /\ d \in Strings
    /\ e \in Strings /\ f \in Strings /\ z \in Strings
    /\ b # <<>> => c = <<>> /\ e = <<>>
    /\ d # <<>> => e = <<>>
    => Line(g, Then(a, b), <<>>, Then(c, d), Then(e, f), z)
       = Line(Then(g, Then(Then(a, c), e)), b, <<>>, d, f, z)
<1> TAKE g, a, b, c, d, e, f, z
<1> HAVE /\ g \in Strings /\ a \in Strings /\ b \in Strings /\ c \in Strings /\ d \in Strings
         /\ e \in Strings /\ f \in Strings /\ z \in Strings
         /\ b # <<>> => c = <<>> /\ e = <<>>
         /\ d # <<>> => e = <<>>
<1> DEFINE n == <<>>
           g1 == Then(g, a)
           g2 == Then(g1, c)
           cd == Then(c, d)
           ef == Then(e, f)
<1>1. n \in Strings /\ g1 \in Strings /\ cd \in Strings /\ ef \in Strings
  BY ThenIs
<1>2. g2 \in Strings
  BY <1>1, ThenIs
<1>3. Then(g, Then(Then(a, c), e)) = Then(g2, e)
  <2>1. Then(a, c) \in Strings
    BY ThenIs
  <2>2. Then(g, Then(Then(a, c), e)) = Then(Then(g, Then(a, c)), e)
    BY <2>1, ThenIs
  <2>3. Then(g, Then(a, c)) = g2
    BY ThenIs
  <2> QED BY <2>2, <2>3
<1>4. Line(g, Then(a, b), n, cd, ef, z) = Line(g1, b, n, cd, ef, z)
  BY <1>1, AreaRead
<1>5. CASE b # n
  <2>1. c = n /\ e = n
    BY <1>5
  <2>2. g2 = g1 /\ Then(g2, e) = g1 /\ cd = d /\ ef = f
    <3>1. Then(g1, n) = g1 /\ Then(n, d) = d /\ Then(n, f) = f
      BY <1>1, ThenIs
    <3> QED BY <2>1, <3>1
  <2> HIDE DEF n, g1, g2, cd, ef
  <2>3. Line(g, Then(a, b), n, cd, ef, z) = Line(Then(g2, e), b, n, d, f, z)
    BY <1>4, <2>2
  <2> QED BY <1>3, <2>3 DEF n, cd, ef
<1>6. CASE b = n
  <2>1. Line(g1, n, n, cd, ef, z) = Line(g2, n, n, d, ef, z)
    <3> HIDE DEF g1, ef
    <3>1. g1 \in Strings /\ ef \in Strings /\ c \in Strings /\ d \in Strings /\ z \in Strings
      BY <1>1
    <3>2. Line(g1, <<>>, <<>>, Then(c, d), ef, z) = Line(Then(g1, c), <<>>, <<>>, d, ef, z)
      BY <3>1, RemainderRead
    <3> QED BY <3>2
  <2>2. Line(g2, n, n, d, ef, z) = Line(Then(g2, e), n, n, d, f, z)
    <3>1. CASE d # n
      <4>1. Then(g2, n) = g2 /\ Then(n, f) = f /\ e = n
        BY <1>2, <3>1, ThenIs
      <4> HIDE DEF n, g2
      <4> QED BY <4>1
    <3>2. CASE d = n
      BY <1>2, <3>2, ScratchRead
    <3> QED BY <3>1, <3>2
  <2> HIDE DEF n, g1, g2, cd, ef
  <2>3. Line(g, Then(a, b), n, cd, ef, z) = Line(Then(g2, e), b, n, d, f, z)
    BY <1>4, <1>6, <2>1, <2>2
  <2> QED BY <1>3, <2>3 DEF n, cd, ef
<1> QED BY <1>5, <1>6

LEMMA DeliverKeeps ==
  ASSUME ReadSound, Deliver
  PROVE  ReadSound' /\ Turns
<1> DEFINE k == Min({want, Len(public)})
           x == First(public, k)
           y == Cut(public, k)
           z == Supply(kept, raw, unread)
<1>1. /\ point = "deliver" /\ gone' = gone \o x /\ public' = y /\ told' = (told \/ k = 0)
      /\ request' = "none" /\ point' = "none" /\ want' = 0
  BY DEF Deliver
<1>2. UNCHANGED <<exact, istate, dest, remainder, trans, kept, raw, unread, total, eof, ended, offset,
                  prompt>>
  BY DEF Deliver, engine
<1>3. /\ istate \in {"open", "finished"} /\ request = "typed" /\ dest = <<>>
      /\ public = <<>> => istate = "finished"
      /\ offset = 0 /\ Len(gone) \in Multiples /\ want \in Multiples /\ want > 0
  BY <1>1 DEF ReadSound, Reading, Cleared, Ends, Wholes
<1>4. /\ gone \in Strings /\ public \in Strings /\ dest \in Strings /\ remainder \in Strings
      /\ trans \in Strings /\ z \in Strings
  BY SupplyIs DEF ReadSound, ReadParts
<1> HIDE DEF z
<1>5. /\ Len(gone) \in Nat /\ Len(public) \in Nat /\ want \in Nat
      /\ (public = <<>> <=> Len(public) = 0)
  BY <1>3, <1>4, NothingIs, MultiplesAre
<1>6. k \in Nat /\ k <= Len(public) /\ (k = want \/ k = Len(public))
  BY <1>5, MinIs
<1> HIDE DEF k
<1>7. k \in 0..Len(public)
  BY <1>5, <1>6
<1>8. x \in Strings /\ y \in Strings /\ Len(x) = k /\ Len(y) = Len(public) - k /\ Then(x, y) = public
  BY <1>4, <1>7, FirstIs
<1> HIDE DEF x, y
<1>9. gone' \in Strings /\ gone' = Then(gone, x) /\ Len(gone') = Len(gone) + k
  BY <1>1, <1>4, <1>8, ThenIs DEF Then
<1>10. ReadParts'
  BY <1>1, <1>2, <1>8, <1>9 DEF ReadSound, ReadParts
<1>11. k = 0 <=> public = <<>>
  BY <1>3, <1>5, <1>6
<1>12. public = <<>> => public' = <<>>
  <2>1. public = <<>> => Len(y) = 0
    BY <1>5, <1>6, <1>8
  <2> QED BY <1>1, <1>8, <2>1, NothingIs
<1>13. Reading' /\ Cleared'
  BY <1>1, <1>2, <1>3 DEF ReadSound, Reading, Cleared
<1>14. Ends'
  BY <1>1, <1>2, <1>3, <1>11, <1>12 DEF ReadSound, Ends
<1>15. Wholes'
  <2>1. istate = "open" => Len(gone') - offset' \in Multiples /\ offset' + Len(public') \in Multiples
    <3> SUFFICES ASSUME istate = "open"
                 PROVE  Len(gone') - offset' \in Multiples /\ offset' + Len(public') \in Multiples
      OBVIOUS
    <3>1. 0 + Len(public) \in Multiples
      BY <1>3 DEF ReadSound, Wholes
    <3>2. 0 + Len(public) = Len(public)
      BY <1>5
    <3>3. Len(public) \in Multiples
      BY <3>1, <3>2
    <3>4. k \in Multiples
      BY <1>3, <1>6, <3>3
    <3>5. Len(gone) + k \in Multiples /\ Len(public) - k \in Multiples
      BY <1>3, <1>5, <1>6, <3>3, <3>4, MultiplesClosed
    <3>6. Len(gone') - offset' = Len(gone) + k /\ offset' + Len(public') = Len(public) - k
      BY <1>1, <1>2, <1>3, <1>5, <1>6, <1>8, <1>9
    <3> QED BY <3>5, <3>6
  <2>2. 0 \in 0..((Public + 1) * Unit)
    <3>1. Public + 1 \in Nat /\ Unit \in Nat
      BY ReadSizesAre
    <3>2. (Public + 1) * Unit \in Nat
      BY <3>1
    <3> QED BY <3>2
  <2> QED BY <1>1, <1>2, <2>1, <2>2 DEF ReadSound, Wholes, Multiples
<1>16. Fits'
  <2>1. Public * Unit \in Nat /\ Len(public) <= Public * Unit
    BY ReadSizesAre, ProductsGrow DEF ReadSound, Fits
  <2>2. Len(public') <= Public * Unit
    BY <1>1, <1>5, <1>6, <1>8, <2>1
  <2> QED BY <1>2, <2>2 DEF ReadSound, Fits
<1>17. ReadLine' = ReadLine
  <2>1. ReadLine = Line(gone, Then(x, y), dest, remainder, trans, z)
    BY <1>8 DEF ReadLine, z
  <2>2. ReadLine' = Line(Then(gone, x), y, dest, remainder, trans, z)
    BY <1>1, <1>2, <1>9 DEF ReadLine, z
  <2> QED BY <1>4, <1>8, <2>1, <2>2, AreaRead
<1>18. BytesKept'
  BY <1>2, <1>3, <1>10, <1>17, LineKept
<1>19. Turns
  <2>1. Len(gone) % Unit = 0
    BY <1>3, <1>5, MultiplesDivide
  <2> QED BY <1>2, <2>1 DEF Turns, PromptFirst, WholeCharacters
<1> QED BY <1>10, <1>13, <1>14, <1>15, <1>16, <1>18, <1>19 DEF ReadSound

LEMMA EndKeeps ==
  ASSUME ReadSound, End
  PROVE  ReadSound' /\ Turns
<1>1. /\ point = "end"
      /\ UNCHANGED <<exact, remainder, trans, kept, raw, unread, total, eof, ended, offset, prompt, gone>>
  BY DEF End, engine
<1>2. /\ istate = "finished" /\ public = <<>> /\ trans = <<>>
      /\ exact \/ request # "typed" => dest = <<>> /\ remainder = <<>>
      /\ request \in {"typed", "bytes", "drain"}
  BY <1>1 DEF ReadSound, Reading, Cleared
<1>3. Turns
  BY <1>1 DEF Turns, PromptFirst, WholeCharacters
<1>4. <<>> \in Strings /\ Len(<<>>) = 0 /\ 0 <= Public * Unit /\ 0 \in Multiples
  BY ThenIs, ReadSizesAre, ProductsGrow, MultiplesAre
<1>5. 0 \in 0..((Public + 1) * Unit)
  <2>1. Public + 1 \in Nat /\ Unit \in Nat
    BY ReadSizesAre
  <2>2. (Public + 1) * Unit \in Nat
    BY <2>1
  <2> QED BY <2>2
<1>6. CASE request = "typed" /\ remainder # <<>>
  <2>1. /\ istate' = "failed" /\ request' = "none" /\ point' = "none" /\ want' = 0
        /\ UNCHANGED <<public, dest, told>>
    BY <1>6 DEF End
  <2>2. ReadParts' /\ Fits'
    BY <1>1, <2>1 DEF ReadSound, ReadParts, Fits
  <2>3. Reading' /\ Cleared' /\ Ends'
    BY <1>1, <1>2, <1>6, <2>1 DEF ReadSound, Reading, Cleared, Ends
  <2>4. Wholes'
    BY <1>1, <1>5, <2>1 DEF ReadSound, Wholes, Multiples
  <2>5. BytesKept'
    BY <2>1 DEF BytesKept
  <2> QED BY <1>3, <2>2, <2>3, <2>4, <2>5 DEF ReadSound
<1>7. CASE request = "typed" /\ remainder = <<>>
  <2>1. /\ public' = dest /\ dest' = <<>> /\ point' = "deliver"
        /\ UNCHANGED <<istate, request, want, told>>
    BY <1>7 DEF End, Publish
  <2>2. ReadParts'
    BY <1>1, <1>4, <2>1 DEF ReadSound, ReadParts
  <2>3. Fits'
    BY <1>1, <1>4, <2>1 DEF ReadSound, Fits
  <2>4. Reading' /\ Cleared' /\ Ends'
    BY <1>1, <1>2, <1>7, <2>1 DEF ReadSound, Reading, Cleared, Ends
  <2>5. Wholes'
    <3>1. Len(dest') \in Multiples /\ istate' # "open"
      BY <1>2, <1>4, <2>1
    <3> QED BY <1>1, <2>1, <3>1 DEF ReadSound, Wholes, Multiples
  <2>6. ReadLine' = ReadLine
    <3>1. /\ Supply(kept, raw, unread) \in Strings /\ dest \in Strings /\ remainder \in Strings
          /\ trans \in Strings
      BY SupplyIs DEF ReadSound, ReadParts
    <3> QED BY <1>1, <1>2, <2>1, <3>1, CharactersPublished DEF ReadLine, Line
  <2>7. BytesKept'
    BY <1>1, <1>2, <2>2, <2>6, LineKept
  <2> QED BY <1>3, <2>2, <2>3, <2>4, <2>5, <2>7 DEF ReadSound
<1>8. CASE request # "typed"
  <2>1. /\ request' = "none" /\ point' = "none" /\ want' = 0
        /\ told' = (told \/ request = "bytes")
        /\ UNCHANGED <<istate, public, dest>>
    BY <1>8 DEF End
  <2>2. ReadParts' /\ Fits' /\ BytesKept'
    BY <1>1, <2>1 DEF ReadSound, ReadParts, Fits, BytesKept
  <2>3. Reading' /\ Cleared' /\ Ends'
    BY <1>1, <1>2, <1>8, <2>1 DEF ReadSound, Reading, Cleared, Ends
  <2>4. Wholes'
    BY <1>1, <1>2, <1>5, <2>1 DEF ReadSound, Wholes, Multiples
  <2> QED BY <1>3, <2>2, <2>3, <2>4 DEF ReadSound
<1> QED BY <1>6, <1>7, <1>8

LEMMA InThrowsKeeps ==
  ASSUME ReadSound, InThrows
  PROVE  ReadSound' /\ Turns
<1>1. /\ point = "refill"
      /\ istate' = "failed" /\ request' = "none" /\ point' = "none" /\ want' = 0
  BY DEF InThrows
<1>2. UNCHANGED <<exact, public, dest, remainder, trans, kept, raw, unread, total, eof, ended,
                  offset, prompt, gone, told>>
  BY DEF InThrows, stores, engine
<1>3. ReadParts' /\ Fits'
  BY <1>2 DEF ReadSound, ReadParts, Fits
<1>4. Reading' /\ Cleared' /\ Ends'
  BY <1>1, <1>2 DEF ReadSound, Reading, Cleared, Ends
<1>5. Wholes'
  <2>1. Public + 1 \in Nat /\ Unit \in Nat
    BY ReadSizesAre
  <2>2. (Public + 1) * Unit \in Nat
    BY <2>1
  <2>3. 0 \in 0..((Public + 1) * Unit)
    BY <2>2
  <2> QED BY <1>1, <1>2, <2>3 DEF ReadSound, Wholes, Multiples
<1>6. BytesKept'
  BY <1>1 DEF BytesKept
<1> QED BY <1>2, <1>3, <1>4, <1>5, <1>6 DEF ReadSound, Turns, PromptFirst, WholeCharacters

\* How much of each store goes to the caller.
LEMMA SharesAre ==
  ASSUME NEW w \in Nat, NEW p \in Nat, NEW r \in Nat, NEW t \in Nat,
         NEW k \in Nat, NEW a \in Nat, NEW b \in Nat,
         k <= w, k <= p + r + t, k = w \/ k = p + r + t,
         a <= k, a <= p, a = k \/ a = p,
         b <= k - a, b <= r, b = k - a \/ b = r
  PROVE  /\ a \in 0..p /\ b \in 0..r /\ k - a - b \in 0..t
         /\ a < p => b = 0 /\ k - a - b = 0
         /\ b < r => k - a - b = 0
         /\ k < w => a = p /\ b = r /\ k - a - b = t
<1>1. a \in 0..p /\ b \in 0..r
  OBVIOUS
<1>2. k - a - b \in 0..t
  OBVIOUS
<1>3. a < p => b = 0 /\ k - a - b = 0
  OBVIOUS
<1>4. b < r => k - a - b = 0
  OBVIOUS
<1>5. k < w => a = p /\ b = r /\ k - a - b = t
  OBVIOUS
<1> QED BY <1>1, <1>2, <1>3, <1>4, <1>5

LEMMA CopyKeeps ==
  ASSUME ReadSound, Copy
  PROVE  ReadSound' /\ Turns
<1> DEFINE k == Min({want, Len(Queued)})
           a == Min({k, Len(public)})
           b == Min({k - a, Len(remainder)})
           c == k - a - b
           x1 == First(public, a)
           x2 == First(remainder, b)
           x3 == First(trans, c)
           y1 == Cut(public, a)
           y2 == Cut(remainder, b)
           y3 == Cut(trans, c)
           x == Then(Then(x1, x2), x3)
           z == Supply(kept, raw, unread)
<1>1. /\ point = "copy" /\ gone' = gone \o First(Queued, k)
      /\ public' = y1 /\ remainder' = y2 /\ trans' = y3
      /\ want' = want - k /\ offset' = (offset + k) % Unit
      /\ IF k = want THEN request' = "none" /\ point' = "none" /\ UNCHANGED prompt
         ELSE point' = "refill" /\ prompt' = FALSE /\ UNCHANGED request
  BY DEF Copy, FlushOutput
<1>2. UNCHANGED <<exact, istate, dest, kept, raw, unread, total, eof, ended, told>>
  BY DEF Copy, engine
<1>3. /\ istate = "open" /\ request = "bytes" /\ dest = <<>> /\ want > 0
      /\ want \in 0..((Public + 1) * Unit) /\ offset \in 0..(Unit - 1)
      /\ exact => remainder = <<>> /\ trans = <<>>
  BY <1>1 DEF ReadSound, Reading, Cleared, Wholes
<1>4. /\ gone \in Strings /\ public \in Strings /\ remainder \in Strings /\ trans \in Strings
      /\ z \in Strings /\ <<>> \in Strings
  BY SupplyIs, ThenIs DEF ReadSound, ReadParts
<1> HIDE DEF z
<1>5. /\ Len(gone) \in Nat /\ Len(public) \in Nat /\ Len(remainder) \in Nat /\ Len(trans) \in Nat
  BY <1>4, NothingIs
<1>6. want \in Nat /\ offset \in Nat /\ Unit \in Nat \ {0} /\ (Public + 1) * Unit \in Nat
  <2>1. Unit \in Nat \ {0} /\ Public + 1 \in Nat
    BY ReadSizesAre
  <2>2. (Public + 1) * Unit \in Nat
    BY <2>1
  <2> DEFINE m == (Public + 1) * Unit
  <2>3. m \in Nat /\ want \in 0..m
    BY <1>3, <2>2
  <2> HIDE DEF m
  <2>4. want \in Nat
    BY <2>3
  <2> QED BY <1>3, <2>1, <2>2, <2>4
<1>7. Queued = Then(Then(public, remainder), trans) /\ Len(Queued) = Len(public) + Len(remainder) + Len(trans)
  <2>1. Queued = Then(Then(public, remainder), trans)
    BY DEF Queued, Then
  <2>2. Then(public, remainder) \in Strings /\ Len(Then(public, remainder)) = Len(public) + Len(remainder)
    BY <1>4, ThenIs
  <2>3. Len(Queued) = Len(Then(public, remainder)) + Len(trans)
    BY <1>4, <2>1, <2>2, ThenIs
  <2> QED BY <2>1, <2>2, <2>3
<1>8. /\ k \in Nat /\ k <= want /\ a \in 0..Len(public) /\ b \in 0..Len(remainder) /\ c \in 0..Len(trans)
      /\ a < Len(public) => b = 0 /\ c = 0
      /\ b < Len(remainder) => c = 0
      /\ k < want => a = Len(public) /\ b = Len(remainder) /\ c = Len(trans)
  <2> DEFINE n == Len(public) + Len(remainder) + Len(trans)
  <2>1. k = Min({want, n}) /\ n \in Nat
    BY <1>5, <1>7
  <2>2. a = Min({k, Len(public)}) /\ b = Min({k - a, Len(remainder)}) /\ c = k - a - b
    OBVIOUS
  <2> HIDE DEF k, a, b, c
  <2>3. k \in Nat /\ k <= want /\ k <= n /\ (k = want \/ k = n)
    <3> HIDE DEF n
    <3> QED BY <1>6, <2>1, MinIs
  <2>4. a \in Nat /\ a <= k /\ a <= Len(public) /\ (a = k \/ a = Len(public))
    BY <1>5, <2>2, <2>3, MinIs
  <2>5. b \in Nat /\ b <= k - a /\ b <= Len(remainder) /\ (b = k - a \/ b = Len(remainder))
    <3>1. k - a \in Nat
      BY <2>3, <2>4
    <3> QED BY <1>5, <2>2, <3>1, MinIs
  <2>6. /\ a \in 0..Len(public) /\ b \in 0..Len(remainder) /\ k - a - b \in 0..Len(trans)
        /\ a < Len(public) => b = 0 /\ k - a - b = 0
        /\ b < Len(remainder) => k - a - b = 0
        /\ k < want => a = Len(public) /\ b = Len(remainder) /\ k - a - b = Len(trans)
    BY <1>5, <1>6, <2>3, <2>4, <2>5, SharesAre
  <2> QED BY <2>2, <2>3, <2>6
<1>9. k = a + b + c
  <2>1. c = k - a - b
    OBVIOUS
  <2> HIDE DEF k, a, b, c
  <2> QED BY <1>5, <1>8, <2>1
<1> HIDE DEF k, a, b, c
<1>10. x1 \in Strings /\ y1 \in Strings /\ Len(x1) = a /\ Len(y1) = Len(public) - a /\ Then(x1, y1) = public
  BY <1>4, <1>8, FirstIs
<1>11. /\ x2 \in Strings /\ y2 \in Strings /\ Len(x2) = b /\ Len(y2) = Len(remainder) - b
       /\ Then(x2, y2) = remainder
  BY <1>4, <1>8, FirstIs
<1>12. x3 \in Strings /\ y3 \in Strings /\ Len(x3) = c /\ Len(y3) = Len(trans) - c /\ Then(x3, y3) = trans
  BY <1>4, <1>8, FirstIs
<1> HIDE DEF x1, x2, x3, y1, y2, y3
<1>13. x \in Strings /\ Len(x) = k
  <2>1. Then(x1, x2) \in Strings /\ Len(Then(x1, x2)) = a + b
    BY <1>10, <1>11, ThenIs
  <2> QED BY <1>9, <1>12, <2>1, ThenIs
<1>14. /\ y1 # <<>> => a < Len(public)
       /\ y2 # <<>> => b < Len(remainder)
       /\ b = 0 => x2 = <<>>
       /\ c = 0 => x3 = <<>>
  <2>1. Len(y1) = 0 => y1 = <<>>
    BY <1>10, NothingIs
  <2>2. Len(y2) = 0 => y2 = <<>>
    BY <1>11, NothingIs
  <2>3. (b = 0 => x2 = <<>>) /\ (c = 0 => x3 = <<>>)
    BY <1>11, <1>12, NothingIs
  <2>4. Len(y1) # 0 => a < Len(public)
    BY <1>5, <1>8, <1>10
  <2>5. Len(y2) # 0 => b < Len(remainder)
    BY <1>5, <1>8, <1>11
  <2> QED BY <2>1, <2>2, <2>3, <2>4, <2>5
<1>15. /\ y1 # <<>> => x2 = <<>> /\ x3 = <<>>
       /\ y2 # <<>> => x3 = <<>>
  BY <1>8, <1>14
<1>16. \A g, s \in Strings :
         Line(g, public, <<>>, remainder, trans, s) = Line(Then(g, x), y1, <<>>, y2, y3, s)
  <2> TAKE g, s \in Strings
  <2> QED BY <1>10, <1>11, <1>12, <1>15, StoresRead
<1> HIDE DEF x
<1>17. First(Queued, k) = x
  <2> DEFINE n == <<>>
             q == Published(y1, n, y2, y3, n)
  <2>1. q \in Strings /\ n \in Strings
    BY <1>4, <1>10, <1>11, <1>12, PublishedIs
  <2>2. Line(n, public, n, remainder, trans, n) = Then(Then(public, remainder), trans)
    <3>1. Then(trans, n) = trans /\ Then(remainder, trans) \in Strings
      BY <1>4, ThenIs
    <3>2. Then(n, Then(remainder, trans)) = Then(remainder, trans)
      BY <3>1, ThenIs
    <3>3. Then(public, Then(remainder, trans)) \in Strings
      BY <1>4, <3>1, ThenIs
    <3>4. /\ Then(n, Then(public, Then(remainder, trans))) = Then(public, Then(remainder, trans))
          /\ Then(public, Then(remainder, trans)) = Then(Then(public, remainder), trans)
      BY <1>4, <3>3, ThenIs
    <3> HIDE DEF n
    <3> QED BY <3>1, <3>2, <3>4 DEF Line, Published
  <2>3. Then(n, x) = x
    BY <1>13, ThenIs
  <2>4. Line(n, public, n, remainder, trans, n) = Line(Then(n, x), y1, n, y2, y3, n)
    BY <2>1, <1>16
  <2>5. Line(x, y1, n, y2, y3, n) = Then(x, q)
    BY DEF Line
  <2> HIDE DEF n, q
  <2>6. Queued = Then(x, q)
    BY <1>7, <2>2, <2>3, <2>4, <2>5
  <2>7. First(Then(x, q), Len(x)) = x
    BY <1>13, <2>1, FirstOfThen
  <2> QED BY <1>13, <2>6, <2>7
<1>18. gone' \in Strings /\ gone' = Then(gone, x) /\ Len(gone') = Len(gone) + k
  BY <1>1, <1>4, <1>13, <1>17, ThenIs DEF Then
<1>19. ReadParts'
  BY <1>1, <1>2, <1>10, <1>11, <1>12, <1>18 DEF ReadSound, ReadParts
<1>20. ReadLine' = ReadLine
  <2>1. Line(gone, public, <<>>, remainder, trans, z) = Line(Then(gone, x), y1, <<>>, y2, y3, z)
    BY <1>4, <1>16
  <2> QED BY <1>1, <1>2, <1>3, <1>18, <2>1 DEF ReadLine, z
<1>21. BytesKept'
  BY <1>2, <1>3, <1>19, <1>20, LineKept
<1>22. k # want => public' = <<>> /\ remainder' = <<>> /\ trans' = <<>>
  <2> SUFFICES ASSUME k # want PROVE public' = <<>> /\ remainder' = <<>> /\ trans' = <<>>
    OBVIOUS
  <2>1. a = Len(public) /\ b = Len(remainder) /\ c = Len(trans)
    BY <1>6, <1>8
  <2>2. Len(y1) = 0 /\ Len(y2) = 0 /\ Len(y3) = 0
    BY <1>5, <1>10, <1>11, <1>12, <2>1
  <2> QED BY <1>1, <1>10, <1>11, <1>12, <2>2, NothingIs
<1>23. exact => remainder' = <<>> /\ trans' = <<>>
  <2> SUFFICES ASSUME exact PROVE remainder' = <<>> /\ trans' = <<>>
    OBVIOUS
  <2>1. Len(remainder) = 0 /\ Len(trans) = 0
    BY <1>3, <1>4, NothingIs
  <2>2. b = 0 /\ c = 0
    BY <1>8, <2>1
  <2>3. Len(y2) = 0 /\ Len(y3) = 0
    BY <1>11, <1>12, <2>1, <2>2
  <2> QED BY <1>1, <1>11, <1>12, <2>3, NothingIs
<1>24. Reading' /\ Cleared'
  BY <1>1, <1>2, <1>3, <1>22, <1>23 DEF ReadSound, Reading, Cleared
<1>25. Ends'
  BY <1>1, <1>2, <1>3 DEF ReadSound, Ends
<1>26. Fits'
  <2>1. Public * Unit \in Nat /\ Transform \in Nat
    BY ReadSizesAre, ProductsGrow
  <2>2. Len(public) <= Public * Unit /\ Len(remainder) < Unit /\ Len(trans) <= Transform
    BY DEF ReadSound, Fits
  <2>3. Len(public') <= Public * Unit
    BY <1>1, <1>5, <1>8, <1>10, <2>1, <2>2
  <2>4. Len(remainder') < Unit
    BY <1>1, <1>5, <1>6, <1>8, <1>11, <2>2
  <2>5. Len(trans') <= Transform
    BY <1>1, <1>5, <1>8, <1>12, <2>1, <2>2
  <2> QED BY <1>2, <2>3, <2>4, <2>5 DEF ReadSound, Fits
<1>27. Wholes'
  <2> DEFINE o == offset + k
  <2>1. o \in Nat
    BY <1>6, <1>8
  <2>2. offset' \in 0..(Unit - 1) /\ o - offset' \in Multiples
    BY <1>1, <2>1, MultiplesDivide
  <2>3. offset' \in Nat
    BY <1>6, <2>2
  <2>4. Len(gone') - offset' \in Multiples
    <3>1. Len(gone) - offset \in Multiples
      BY <1>3 DEF ReadSound, Wholes
    <3>2. (Len(gone) - offset) + (o - offset') \in Multiples
      BY <2>2, <3>1, MultiplesClosed
    <3>3. (Len(gone) - offset) + (o - offset') = Len(gone') - offset'
      BY <1>5, <1>6, <1>8, <1>18, <2>3
    <3> QED BY <3>2, <3>3
  <2>5. exact \/ public' # <<>> => offset' + Len(public') \in Multiples
    <3> SUFFICES ASSUME exact \/ public' # <<>> PROVE offset' + Len(public') \in Multiples
      OBVIOUS
    <3>1. b = 0 /\ c = 0
      <4>1. CASE exact
        <5>1. Len(remainder) = 0 /\ Len(trans) = 0
          BY <1>3, <4>1, <1>4, NothingIs
        <5> QED BY <1>8, <5>1
      <4>2. CASE public' # <<>>
        BY <1>1, <1>8, <1>14, <4>2
      <4> QED BY <4>1, <4>2
    <3>2. a = k
      BY <1>8, <1>9, <3>1, <1>5
    <3>3. exact \/ public # <<>>
      <4>1. CASE public' # <<>>
        <5>1. a < Len(public)
          BY <1>1, <1>14, <4>1
        <5>2. Len(public) # 0
          BY <1>5, <1>8, <5>1
        <5> QED BY <1>4, <5>2, NothingIs
      <4> QED BY <4>1
    <3>4. offset + Len(public) \in Multiples
      BY <1>3, <3>3 DEF ReadSound, Wholes
    <3>5. Len(public') = Len(public) - k /\ k <= Len(public)
      BY <1>1, <1>8, <1>10, <3>2
    <3>6. offset + Len(public) >= o - offset'
      BY <1>5, <1>6, <1>8, <2>3, <3>5
    <3>7. (offset + Len(public)) - (o - offset') \in Multiples
      BY <2>2, <3>4, <3>6, MultiplesClosed
    <3>8. (offset + Len(public)) - (o - offset') = offset' + Len(public')
      BY <1>5, <1>6, <1>8, <2>3, <3>5
    <3> QED BY <3>7, <3>8
  <2>6. want' \in 0..((Public + 1) * Unit) /\ (k # want => want' > 0)
    <3> DEFINE m == (Public + 1) * Unit
    <3>1. m \in Nat /\ want \in 0..m
      BY <1>3, <1>6
    <3> HIDE DEF m
    <3>2. want' \in 0..m /\ (k # want => want' > 0)
      BY <1>1, <1>6, <1>8, <3>1
    <3> QED BY <3>2 DEF m
  <2>7. Len(dest') \in Multiples
    BY <1>2 DEF ReadSound, Wholes
  <2> QED BY <1>1, <1>2, <1>3, <2>2, <2>4, <2>5, <2>6, <2>7 DEF Wholes, Multiples
<1>28. Turns
  BY <1>1, <1>2, <1>3 DEF Turns, PromptFirst, WholeCharacters
<1> QED BY <1>19, <1>21, <1>24, <1>25, <1>26, <1>27, <1>28 DEF ReadSound

-----------------------------------------------------------------------------
(***************************************************************************)
(* TranscodeInput: the theorems.                                           *)
(***************************************************************************)

LEMMA StutterReadKeeps ==
  ASSUME ReadSound, UNCHANGED inVars
  PROVE  ReadSound' /\ Turns
<1>1. UNCHANGED <<exact, istate, public, dest, remainder, trans, kept, raw, unread, total, eof, ended,
                  offset, request, point, want, prompt, gone, told>>
  BY DEF inVars
<1>2. ReadParts' /\ Reading' /\ Cleared' /\ Ends' /\ Wholes' /\ Fits' /\ BytesKept'
  BY <1>1 DEF ReadSound, ReadParts, Reading, Cleared, Ends, Wholes, Fits, BytesKept, Multiples
<1> QED BY <1>1, <1>2 DEF ReadSound, Turns, PromptFirst, WholeCharacters

LEMMA ReadStepSound ==
  ASSUME ReadSound, [InNext]_inVars
  PROVE  ReadSound' /\ Turns
<1>1. CASE UNCHANGED inVars
  BY <1>1, StutterReadKeeps
<1>2. CASE Prompt \/ Get \/ ReadAtEnd \/ ReadTyped \/ ReadBytes \/ DrainAndFinish \/ CancelInput
  BY <1>2, PromptKeeps, GetKeeps, ReadAtEndKeeps, ReadTypedKeeps, ReadBytesKeeps,
     DrainAndFinishKeeps, CancelInputKeeps
<1>3. CASE PrepareSource \/ FillBlock \/ EngineFinish \/ NoMore
  BY <1>3, PrepareSourceKeeps, FillBlockKeeps, EngineFinishKeeps, NoMoreKeeps
<1>4. CASE AssembleEnds \/ AssembleRefills \/ AssembleRemainder \/ AssembleCopy
  BY <1>4, AssembleEndsKeeps, AssembleRefillsKeeps, AssembleRemainderKeeps, AssembleCopyKeeps
<1>5. CASE Deliver \/ Copy \/ End \/ InThrows
  BY <1>5, DeliverKeeps, CopyKeeps, EndKeeps, InThrowsKeeps
<1> QED BY <1>1, <1>2, <1>3, <1>4, <1>5 DEF InNext, InStep

LEMMA ReadSoundIsInput ==
  ASSUME ReadSound
  PROVE  InputInOrder
<1>1. InTypeOK
  BY DEF ReadSound, Reading, Ends, Wholes, Fits, InTypeOK
<1>2. exact /\ istate = "finished" => Left = <<>>
  <2> SUFFICES ASSUME exact, istate = "finished" PROVE Left = <<>>
    OBVIOUS
  <2>1. /\ public = <<>> /\ dest = <<>> /\ remainder = <<>> /\ trans = <<>>
        /\ kept = <<>> /\ raw = <<>> /\ unread = <<>>
    BY DEF ReadSound, Cleared, Ends
  <2>2. <<>> \o <<>> = <<>>
    BY ThenIs DEF Then
  <2> QED BY <2>1, <2>2 DEF Left
<1>3. exact /\ told => istate = "finished"
  BY DEF ReadSound, Ends
<1> QED BY <1>1, <1>2, <1>3 DEF ReadSound, InputInOrder, EndIsTrue, FinishedIsDrained

LEMMA AlwaysReadSound == InSpec => []ReadSound
<1>1. InInit => ReadSound
  BY ReadInitSound
<1>2. ReadSound /\ [InNext]_inVars => ReadSound'
  BY ReadStepSound
<1> QED BY <1>1, <1>2, PTL DEF InSpec

\* Every byte of the source is in one place and in order, whether it is read as
\* characters or as bytes; over an engine that gives whole characters nothing is
\* left when a reader is told of the end: for every unit, get area, scratch
\* storage and engine (basic_itranscoder).
THEOREM SourceInOrder == InSpec => []InputInOrder
<1>1. ReadSound => InputInOrder
  BY ReadSoundIsInput
<1> QED BY <1>1, AlwaysReadSound, PTL

\* The output side is flushed before the source is read, and characters are read
\* from where a character begins (before_source_refill,
\* require_typed_read_boundary).
THEOREM ReadsKeepTurns == InSpec => ReadsInTurn
<1>1. ReadSound /\ [InNext]_inVars => [PromptFirst /\ WholeCharacters]_inVars
  BY ReadStepSound DEF Turns
<1> QED BY <1>1, AlwaysReadSound, PTL DEF InSpec, ReadsInTurn

-----------------------------------------------------------------------------
(***************************************************************************)
(* Ends of lines: what a text becomes, one unit after the other.           *)
(***************************************************************************)

Words == Seq(Units)

LEMMA UnitsAre == CR \in Units /\ LF \in Units /\ CR # LF
BY EolAssumption DEF CR, LF

LEMMA WordIs ==
  ASSUME NEW s \in Words
  PROVE  /\ Len(s) \in Nat /\ DOMAIN s = 1..Len(s)
         /\ \A i \in 1..Len(s) : s[i] \in Units
         /\ s # <<>> <=> Len(s) > 0
<1>1. Len(s) \in Nat /\ DOMAIN s = 1..Len(s)
  BY LenProperties DEF Words
<1>2. \A i \in 1..Len(s) : s[i] \in Units
  BY ElementOfSeq DEF Words
<1>3. s # <<>> => Len(s) \in Nat \ {0}
  BY EmptySeq DEF Words
<1>4. s = <<>> => Len(s) = 0
  BY EmptySeq
<1> QED BY <1>1, <1>2, <1>3, <1>4

LEMMA WordsEqual ==
  ASSUME NEW s \in Words, NEW t \in Words, Len(s) = Len(t), \A i \in 1..Len(s) : s[i] = t[i]
  PROVE  s = t
BY SeqEqual DEF Words

LEMMA NoWord == <<>> \in Words /\ Len(<<>>) = 0
BY EmptySeq DEF Words

LEMMA AppendedIs ==
  ASSUME NEW s \in Words, NEW c \in Units
  PROVE  /\ Append(s, c) \in Words /\ Len(Append(s, c)) = Len(s) + 1
         /\ \A i \in 1..Len(s) : Append(s, c)[i] = s[i]
         /\ Append(s, c)[Len(s) + 1] = c
         /\ Append(s, c) = s \o <<c>> /\ <<c>> \in Words
<1>1. Append(s, c) = s \o <<c>>
  BY AppendIsConcat DEF Words
<1>2. <<c>> \in Words
  BY DEF Words
<1> QED BY <1>1, <1>2, AppendProperties DEF Words

LEMMA JoinedIs ==
  ASSUME NEW s \in Words, NEW t \in Words
  PROVE  /\ s \o t \in Words /\ Len(s \o t) = Len(s) + Len(t)
         /\ \A i \in 1..(Len(s) + Len(t)) : (s \o t)[i] = IF i <= Len(s) THEN s[i] ELSE t[i - Len(s)]
BY ConcatProperties DEF Words

LEMMA JoinedWith ==
  ASSUME NEW s \in Words, NEW t \in Words, NEW u \in Words
  PROVE  (s \o t) \o u = s \o (t \o u) /\ s \o <<>> = s /\ <<>> \o s = s
<1>1. (s \o t) \o u = s \o (t \o u)
  BY ConcatAssociative DEF Words
<1>2. s \o <<>> = s /\ <<>> \o s = s
  BY ConcatEmptySeq DEF Words
<1> QED BY <1>1, <1>2

\* How the beginning of a word is a word that ends in one of its units.
LEMMA FirstUnits ==
  ASSUME NEW s \in Words, NEW k \in 0..Len(s)
  PROVE  /\ SubSeq(s, 1, k) \in Words /\ Len(SubSeq(s, 1, k)) = k
         /\ k > 0 => /\ SubSeq(s, 1, k) = Append(SubSeq(s, 1, k - 1), s[k])
                     /\ s[k] \in Units
         /\ k = 0 => SubSeq(s, 1, k) = <<>>
         /\ k = Len(s) => SubSeq(s, 1, k) = s
<1>1. Len(s) \in Nat /\ \A i \in 1..Len(s) : s[i] \in Units
  BY WordIs
<1>2. ASSUME NEW j \in 0..Len(s)
      PROVE  /\ SubSeq(s, 1, j) \in Words /\ Len(SubSeq(s, 1, j)) = j
             /\ \A i \in 1..j : SubSeq(s, 1, j)[i] = s[i]
  <2>1. \A i \in 1..j : s[i] \in Units
    BY <1>1
  <2>2. /\ SubSeq(s, 1, j) \in Seq(Units)
        /\ Len(SubSeq(s, 1, j)) = IF 1 <= j THEN j - 1 + 1 ELSE 0
        /\ \A i \in 1..(j - 1 + 1) : SubSeq(s, 1, j)[i] = s[1 + i - 1]
    BY <1>1, <2>1, SubSeqProperties
  <2> QED BY <1>1, <2>2 DEF Words
<1>3. k > 0 => SubSeq(s, 1, k) = Append(SubSeq(s, 1, k - 1), s[k])
  <2> SUFFICES ASSUME k > 0 PROVE SubSeq(s, 1, k) = Append(SubSeq(s, 1, k - 1), s[k])
    OBVIOUS
  <2> DEFINE a == SubSeq(s, 1, k)
             v == SubSeq(s, 1, k - 1)
  <2>1. k - 1 \in 0..Len(s) /\ k \in 1..Len(s) /\ s[k] \in Units /\ (k - 1) + 1 = k
    BY <1>1
  <2>2. a \in Words /\ Len(a) = k /\ \A i \in 1..k : a[i] = s[i]
    BY <1>2
  <2>3. v \in Words /\ Len(v) = k - 1 /\ \A i \in 1..(k - 1) : v[i] = s[i]
    BY <1>2, <2>1
  <2> HIDE DEF a, v
  <2> DEFINE b == Append(v, s[k])
  <2>4. /\ b \in Words /\ Len(b) = Len(v) + 1
        /\ \A i \in 1..Len(v) : b[i] = v[i]
        /\ b[Len(v) + 1] = s[k]
    BY <2>1, <2>3, AppendedIs
  <2> HIDE DEF b
  <2>5. Len(b) = k /\ b[k] = s[k] /\ \A i \in 1..(k - 1) : b[i] = s[i]
    BY <2>1, <2>3, <2>4
  <2>6. \A i \in 1..k : a[i] = b[i]
    <3> SUFFICES ASSUME NEW i \in 1..k PROVE a[i] = b[i]
      OBVIOUS
    <3>1. i = k \/ i \in 1..(k - 1)
      OBVIOUS
    <3> QED BY <2>2, <2>5, <3>1
  <2>7. a = b
    BY <2>2, <2>4, <2>5, <2>6, WordsEqual
  <2> QED BY <2>7 DEF a, b, v
<1>4. k = 0 => SubSeq(s, 1, k) = <<>>
  BY SubSeqEmpty
<1>5. k = Len(s) => SubSeq(s, 1, k) = s
  BY SubSeqFull DEF Words
<1> QED BY <1>1, <1>2, <1>3, <1>4, <1>5

\* What a beginning of a word is.
LEMMA BeginningIs ==
  ASSUME NEW s \in Words, NEW w \in Words, Len(s) <= Len(w), \A i \in 1..Len(s) : w[i] = s[i]
  PROVE  IsPrefix(s, w)
<1>1. Len(s) \in Nat /\ Len(w) \in Nat /\ Len(s) \in 0..Len(w)
  BY WordIs
<1> DEFINE v == SubSeq(w, 1, Len(s))
<1>2. v \in Words /\ Len(v) = Len(s) /\ \A i \in 1..Len(s) : v[i] = w[i]
  <2>1. \A i \in 1..Len(s) : w[i] \in Units
    BY <1>1, WordIs
  <2>2. /\ v \in Seq(Units) /\ Len(v) = IF 1 <= Len(s) THEN Len(s) - 1 + 1 ELSE 0
        /\ \A i \in 1..(Len(s) - 1 + 1) : v[i] = w[1 + i - 1]
    BY <1>1, <2>1, SubSeqProperties
  <2> QED BY <1>1, <2>2 DEF Words
<1> HIDE DEF v
<1>3. v = s
  BY <1>2, WordsEqual
<1>4. SubSeq(s, 1, Len(s)) = s
  BY SubSeqFull DEF Words
<1> QED BY <1>3, <1>4 DEF v, IsPrefix

LEMMA PartOfJoined ==
  ASSUME NEW s \in Words, NEW t \in Words
  PROVE  IsPrefix(s, s \o t)
<1>1. Len(s) \in Nat /\ Len(t) \in Nat
  BY WordIs
<1> DEFINE w == s \o t
<1>2. /\ w \in Words /\ Len(w) = Len(s) + Len(t)
      /\ \A i \in 1..(Len(s) + Len(t)) : w[i] = IF i <= Len(s) THEN s[i] ELSE t[i - Len(s)]
  BY JoinedIs
<1> HIDE DEF w
<1>3. Len(s) <= Len(w) /\ \A i \in 1..Len(s) : w[i] = s[i]
  BY <1>1, <1>2
<1> QED BY <1>2, <1>3, BeginningIs DEF w

-----------------------------------------------------------------------------
(***************************************************************************)
(* Counting.                                                               *)
(***************************************************************************)

LEMMA CountUp ==
  ASSUME NEW S, NEW k \in Nat
  PROVE  /\ IsFiniteSet(S \cap 1..k) /\ Cardinality(S \cap 1..k) \in Nat
         /\ k = 0 => Cardinality(S \cap 1..k) = 0
         /\ k > 0 => Cardinality(S \cap 1..k)
                       = Cardinality(S \cap 1..(k - 1)) + (IF k \in S THEN 1 ELSE 0)
<1>1. ASSUME NEW n \in Nat PROVE IsFiniteSet(S \cap 1..n) /\ Cardinality(S \cap 1..n) \in Nat
  <2>1. IsFiniteSet(1..n)
    BY FS_Interval
  <2>2. S \cap 1..n \in SUBSET (1..n)
    OBVIOUS
  <2> QED BY <2>1, <2>2, FS_Subset, FS_CardinalityType
<1>2. k = 0 => Cardinality(S \cap 1..k) = 0
  <2>1. k = 0 => S \cap 1..k = {}
    OBVIOUS
  <2> QED BY <2>1, FS_EmptySet
<1>3. k > 0 => Cardinality(S \cap 1..k)
                 = Cardinality(S \cap 1..(k - 1)) + (IF k \in S THEN 1 ELSE 0)
  <2> SUFFICES ASSUME k > 0
      PROVE Cardinality(S \cap 1..k) = Cardinality(S \cap 1..(k - 1)) + (IF k \in S THEN 1 ELSE 0)
    OBVIOUS
  <2> DEFINE before == S \cap 1..(k - 1)
  <2>1. k \notin before /\ k - 1 \in Nat
    OBVIOUS
  <2>2. IsFiniteSet(before) /\ Cardinality(before) \in Nat
    BY <1>1, <2>1
  <2>3. CASE k \in S
    <3>1. S \cap 1..k = before \cup {k}
      BY <2>3
    <3>2. Cardinality(before \cup {k}) = Cardinality(before) + 1
      BY <2>1, <2>2, FS_AddElement
    <3> QED BY <2>3, <3>1, <3>2
  <2>4. CASE k \notin S
    <3>1. S \cap 1..k = before
      BY <2>4
    <3>2. Cardinality(S \cap 1..k) = Cardinality(before)
      BY <3>1
    <3> HIDE DEF before
    <3>3. Cardinality(S \cap 1..k) = Cardinality(before) + (IF k \in S THEN 1 ELSE 0)
      BY <2>2, <2>4, <3>2
    <3> QED BY <3>3 DEF before
  <2> QED BY <2>3, <2>4
<1> QED BY <1>1, <1>2, <1>3

LEMMA CountGrows ==
  ASSUME NEW S, NEW k \in Nat, NEW l \in Nat, k <= l
  PROVE  /\ Cardinality(S \cap 1..k) <= Cardinality(S \cap 1..l)
         /\ k < l /\ l \in S => Cardinality(S \cap 1..k) < Cardinality(S \cap 1..l)
<1>1. ASSUME NEW m \in Nat, NEW n \in Nat, m <= n
      PROVE  Cardinality(S \cap 1..m) <= Cardinality(S \cap 1..n)
  <2>1. IsFiniteSet(S \cap 1..n)
    BY CountUp
  <2>2. S \cap 1..m \in SUBSET (S \cap 1..n)
    BY <1>1
  <2> QED BY <2>1, <2>2, FS_Subset
<1>2. k < l /\ l \in S => Cardinality(S \cap 1..k) < Cardinality(S \cap 1..l)
  <2> SUFFICES ASSUME k < l, l \in S PROVE Cardinality(S \cap 1..k) < Cardinality(S \cap 1..l)
    OBVIOUS
  <2>1. l - 1 \in Nat /\ k <= l - 1 /\ l > 0
    OBVIOUS
  <2>2. Cardinality(S \cap 1..l) = Cardinality(S \cap 1..(l - 1)) + 1
    BY <2>1, CountUp
  <2>3. Cardinality(S \cap 1..k) <= Cardinality(S \cap 1..(l - 1))
    BY <1>1, <2>1
  <2>4. Cardinality(S \cap 1..k) \in Nat /\ Cardinality(S \cap 1..(l - 1)) \in Nat
    BY <2>1, CountUp
  <2> QED BY <2>2, <2>3, <2>4
<1> QED BY <1>1, <1>2

-----------------------------------------------------------------------------
(***************************************************************************)
(* What a text is encoded to.                                              *)
(***************************************************************************)

LinesOf(t) == {i \in 1..Len(t) : t[i] = LF}

LEMMA PlaceIs ==
  ASSUME NEW t \in Words, NEW k \in 0..Len(t)
  PROVE  /\ At(t, k) = k + Cardinality(LinesOf(t) \cap 1..k)
         /\ At(t, k) \in Nat /\ Cardinality(LinesOf(t) \cap 1..k) \in Nat
         /\ k = 0 => At(t, k) = 0
         /\ k > 0 => At(t, k) = At(t, k - 1) + (IF t[k] = LF THEN 2 ELSE 1)
<1>1. Len(t) \in Nat /\ k \in Nat
  BY WordIs
<1>2. ASSUME NEW j \in 0..Len(t)
      PROVE  At(t, j) = j + Cardinality(LinesOf(t) \cap 1..j)
  <2>1. {i \in 1..j : t[i] = LF} = LinesOf(t) \cap 1..j
    BY <1>1 DEF LinesOf
  <2> QED BY <2>1 DEF At
<1>3. /\ Cardinality(LinesOf(t) \cap 1..k) \in Nat
      /\ k = 0 => Cardinality(LinesOf(t) \cap 1..k) = 0
      /\ k > 0 => Cardinality(LinesOf(t) \cap 1..k)
                    = Cardinality(LinesOf(t) \cap 1..(k - 1)) + (IF k \in LinesOf(t) THEN 1 ELSE 0)
  BY <1>1, CountUp
<1>4. k > 0 => At(t, k) = At(t, k - 1) + (IF t[k] = LF THEN 2 ELSE 1)
  <2> SUFFICES ASSUME k > 0 PROVE At(t, k) = At(t, k - 1) + (IF t[k] = LF THEN 2 ELSE 1)
    OBVIOUS
  <2>1. k - 1 \in 0..Len(t) /\ k - 1 \in Nat /\ k \in 1..Len(t)
    BY <1>1
  <2>2. k \in LinesOf(t) <=> t[k] = LF
    BY <2>1 DEF LinesOf
  <2>3. At(t, k - 1) = (k - 1) + Cardinality(LinesOf(t) \cap 1..(k - 1))
    BY <1>2, <2>1
  <2>4. Cardinality(LinesOf(t) \cap 1..(k - 1)) \in Nat
    BY <2>1, CountUp
  <2>5. At(t, k) = k + Cardinality(LinesOf(t) \cap 1..k)
    BY <1>2
  <2> QED BY <1>1, <1>3, <2>2, <2>3, <2>4, <2>5
<1>5. At(t, k) = k + Cardinality(LinesOf(t) \cap 1..k)
  BY <1>2
<1> QED BY <1>1, <1>3, <1>4, <1>5

LEMMA PlacesGrow ==
  ASSUME NEW t \in Words, NEW k \in 0..Len(t), NEW l \in 0..Len(t), k < l
  PROVE  At(t, k) < At(t, l)
<1>1. Len(t) \in Nat /\ k \in Nat /\ l \in Nat
  BY WordIs
<1>2. /\ At(t, k) = k + Cardinality(LinesOf(t) \cap 1..k)
      /\ Cardinality(LinesOf(t) \cap 1..k) \in Nat
  BY PlaceIs
<1>3. /\ At(t, l) = l + Cardinality(LinesOf(t) \cap 1..l)
      /\ Cardinality(LinesOf(t) \cap 1..l) \in Nat
  BY PlaceIs
<1>4. Cardinality(LinesOf(t) \cap 1..k) <= Cardinality(LinesOf(t) \cap 1..l)
  <2>1. k <= l
    BY <1>1
  <2> QED BY <1>1, <2>1, CountGrows
<1> QED BY <1>1, <1>2, <1>3, <1>4

LEMMA EncodedIs ==
  ASSUME NEW t \in Words
  PROVE  /\ Encoded(t) \in Words /\ Len(Encoded(t)) = At(t, Len(t))
         /\ \A p \in 1..At(t, Len(t)) :
              Encoded(t)[p] = IF Sources(t, p) = {} THEN CR
                              ELSE t[CHOOSE k \in Sources(t, p) : TRUE]
<1> DEFINE n == At(t, Len(t))
           e == [p \in 1..n |-> IF Sources(t, p) = {} THEN CR
                                ELSE t[CHOOSE k \in Sources(t, p) : TRUE]]
<1>1. n \in Nat
  <2>1. Len(t) \in 0..Len(t)
    BY WordIs
  <2> QED BY <2>1, PlaceIs
<1>2. ASSUME NEW p \in 1..n
      PROVE  (IF Sources(t, p) = {} THEN CR ELSE t[CHOOSE k \in Sources(t, p) : TRUE]) \in Units
  <2>1. CASE Sources(t, p) = {}
    BY <2>1, UnitsAre
  <2>2. CASE Sources(t, p) # {}
    <3>1. (CHOOSE k \in Sources(t, p) : TRUE) \in Sources(t, p)
      BY <2>2
    <3>2. (CHOOSE k \in Sources(t, p) : TRUE) \in 1..Len(t)
      BY <3>1 DEF Sources
    <3> QED BY <2>2, <3>2, WordIs
  <2> QED BY <2>1, <2>2
<1> HIDE DEF n
<1>3. e \in Words /\ Len(e) = n
  <2>1. e \in [1..n -> Units]
    BY <1>2
  <2> HIDE DEF e
  <2> QED BY <1>1, <2>1 DEF Words
<1>4. \A p \in 1..n : e[p] = IF Sources(t, p) = {} THEN CR
                             ELSE t[CHOOSE k \in Sources(t, p) : TRUE]
  OBVIOUS
<1>5. e = Encoded(t)
  BY DEF e, n, Encoded
<1> HIDE DEF e
<1> QED BY <1>3, <1>4, <1>5 DEF n

\* A longer text begins with what its beginning is encoded to.
LEMMA EncodedBegins ==
  ASSUME NEW s \in Words, NEW w \in Words, Len(s) <= Len(w), \A i \in 1..Len(s) : w[i] = s[i]
  PROVE  /\ At(w, Len(s)) = At(s, Len(s)) /\ At(s, Len(s)) <= At(w, Len(w))
         /\ \A p \in 1..At(s, Len(s)) : Encoded(w)[p] = Encoded(s)[p]
<1>1. Len(s) \in Nat /\ Len(w) \in Nat
  BY WordIs
<1> DEFINE n == Len(s)
<1>2. ASSUME NEW k \in 0..n PROVE At(w, k) = At(s, k) /\ At(w, k) \in Nat
  <2>1. {i \in 1..k : w[i] = LF} = {i \in 1..k : s[i] = LF}
    <3>1. \A i \in 1..k : w[i] = s[i]
      BY <1>1
    <3> QED BY <3>1
  <2>2. k \in 0..Len(w)
    BY <1>1
  <2> QED BY <2>1, <2>2, PlaceIs DEF At
<1>3. At(w, n) = At(s, n) /\ At(s, n) \in Nat /\ At(w, Len(w)) \in Nat
  <2>1. n \in 0..n /\ Len(w) \in 0..Len(w)
    BY <1>1
  <2> QED BY <1>2, <2>1, PlaceIs
<1>4. At(s, n) <= At(w, Len(w))
  <2>1. CASE n = Len(w)
    BY <1>3, <2>1
  <2>2. CASE n < Len(w)
    BY <1>1, <1>3, <2>2, PlacesGrow
  <2> QED BY <1>1, <2>1, <2>2
<1>5. ASSUME NEW p \in 1..At(s, n) PROVE Encoded(w)[p] = Encoded(s)[p]
  <2>1. Sources(w, p) = Sources(s, p)
    <3>1. ASSUME NEW k \in Sources(w, p) PROVE k \in Sources(s, p)
      <4>1. k \in 1..Len(w) /\ At(w, k) = p
        BY DEF Sources
      <4>2. k <= n
        <5> SUFFICES ASSUME n < k PROVE FALSE
          BY <1>1, <4>1
        <5>1. n \in 0..Len(w) /\ k \in 0..Len(w)
          BY <1>1, <4>1
        <5>2. At(w, n) < At(w, k)
          BY <5>1, PlacesGrow
        <5> QED BY <1>3, <4>1, <5>2
      <4>3. k \in 0..n /\ k \in 1..Len(s)
        BY <1>1, <4>1, <4>2
      <4> QED BY <1>2, <4>1, <4>3 DEF Sources
    <3>2. ASSUME NEW k \in Sources(s, p) PROVE k \in Sources(w, p)
      <4>1. k \in 1..Len(s) /\ At(s, k) = p
        BY DEF Sources
      <4>2. k \in 0..n /\ k \in 1..Len(w)
        BY <1>1, <4>1
      <4> QED BY <1>2, <4>1, <4>2 DEF Sources
    <3> QED BY <3>1, <3>2
  <2>2. p \in 1..At(w, Len(w)) /\ p \in 1..At(s, Len(s))
    BY <1>3, <1>4
  <2>3. Encoded(w)[p] = IF Sources(w, p) = {} THEN CR ELSE w[CHOOSE k \in Sources(w, p) : TRUE]
    BY <2>2, EncodedIs
  <2>4. Encoded(s)[p] = IF Sources(s, p) = {} THEN CR ELSE s[CHOOSE k \in Sources(s, p) : TRUE]
    BY <2>2, EncodedIs
  <2>5. CASE Sources(s, p) = {}
    BY <2>1, <2>3, <2>4, <2>5
  <2>6. CASE Sources(s, p) # {}
    <3>1. (CHOOSE k \in Sources(s, p) : TRUE) \in 1..Len(s)
      BY <2>6 DEF Sources
    <3> QED BY <2>1, <2>3, <2>4, <2>6, <3>1
  <2> QED BY <2>5, <2>6
<1> QED BY <1>3, <1>4, <1>5

LEMMA EncodedStarts ==
  ASSUME NEW s \in Words, NEW u \in Words
  PROVE  IsPrefix(Encoded(s), Encoded(s \o u))
<1> DEFINE w == s \o u
<1>1. Len(s) \in Nat /\ Len(u) \in Nat
  BY WordIs
<1>2. /\ w \in Words /\ Len(w) = Len(s) + Len(u)
      /\ \A i \in 1..(Len(s) + Len(u)) : w[i] = IF i <= Len(s) THEN s[i] ELSE u[i - Len(s)]
  BY JoinedIs
<1> HIDE DEF w
<1>3. Len(s) <= Len(w) /\ \A i \in 1..Len(s) : w[i] = s[i]
  BY <1>1, <1>2
<1>4. /\ At(s, Len(s)) <= At(w, Len(w))
      /\ \A p \in 1..At(s, Len(s)) : Encoded(w)[p] = Encoded(s)[p]
  BY <1>2, <1>3, EncodedBegins
<1>5. /\ Encoded(s) \in Words /\ Len(Encoded(s)) = At(s, Len(s))
      /\ Encoded(w) \in Words /\ Len(Encoded(w)) = At(w, Len(w))
  BY <1>2, EncodedIs
<1> QED BY <1>4, <1>5, BeginningIs DEF w

LEMMA TwoUnits ==
  ASSUME NEW a \in Units, NEW b \in Units
  PROVE  <<a>> \o <<b>> = <<a, b>>
<1> DEFINE x == <<a>>
           y == <<b>>
           z == <<a, b>>
<1>1. /\ x \in Words /\ Len(x) = 1 /\ x[1] = a
      /\ y \in Words /\ Len(y) = 1 /\ y[1] = b
      /\ z \in Words /\ Len(z) = 2 /\ z[1] = a /\ z[2] = b
  BY DEF Words
<1> HIDE DEF x, y, z
<1>2. /\ x \o y \in Words /\ Len(x \o y) = Len(x) + Len(y)
      /\ \A i \in 1..(Len(x) + Len(y)) : (x \o y)[i] = IF i <= Len(x) THEN x[i] ELSE y[i - Len(x)]
  BY <1>1, JoinedIs
<1>3. (x \o y)[1] = a /\ (x \o y)[2] = b /\ Len(x \o y) = 2
  BY <1>1, <1>2
<1>4. \A i \in 1..Len(x \o y) : (x \o y)[i] = z[i]
  <2>1. \A i \in 1..2 : i = 1 \/ i = 2
    OBVIOUS
  <2> QED BY <1>1, <1>3, <2>1
<1>5. x \o y = z
  BY <1>1, <1>2, <1>3, <1>4, WordsEqual
<1> QED BY <1>5 DEF x, y, z

\* What one more unit makes.
Made(c) == IF c = LF THEN <<CR, LF>> ELSE <<c>>

LEMMA MadeOf ==
  ASSUME NEW c \in Units
  PROVE  /\ Made(c) \in Words
         /\ c = LF => Len(Made(c)) = 2 /\ Made(c)[1] = CR /\ Made(c)[2] = LF
         /\ c # LF => Len(Made(c)) = 1 /\ Made(c)[1] = c
BY UnitsAre DEF Made, Words

LEMMA EncodedGrows ==
  ASSUME NEW t \in Words, NEW c \in Units
  PROVE  Encoded(Append(t, c)) = Encoded(t) \o Made(c)
<1> DEFINE w == Append(t, c)
           n == Len(t)
           a == At(t, n)
           e == Encoded(w)
           f == Encoded(t) \o Made(c)
<1>1. n \in Nat /\ a \in Nat
  <2>1. n \in Nat /\ n \in 0..Len(t)
    BY WordIs
  <2> QED BY <2>1, PlaceIs
<1>2. /\ w \in Words /\ Len(w) = n + 1
      /\ \A i \in 1..n : w[i] = t[i]
      /\ w[n + 1] = c
  BY AppendedIs
<1> HIDE DEF w
<1>3. /\ At(w, n) = a
      /\ \A p \in 1..a : e[p] = Encoded(t)[p]
  BY <1>1, <1>2, EncodedBegins
<1>4. At(w, n + 1) = a + (IF c = LF THEN 2 ELSE 1)
  <2>1. n + 1 \in 0..Len(w) /\ n + 1 > 0 /\ (n + 1) - 1 = n
    BY <1>1, <1>2
  <2>2. At(w, n + 1) = At(w, (n + 1) - 1) + (IF w[n + 1] = LF THEN 2 ELSE 1)
    BY <1>2, <2>1, PlaceIs
  <2> QED BY <1>2, <1>3, <2>1, <2>2
<1>5. /\ e \in Words /\ Len(e) = At(w, n + 1)
      /\ \A p \in 1..At(w, n + 1) : e[p] = IF Sources(w, p) = {} THEN CR
                                           ELSE w[CHOOSE k \in Sources(w, p) : TRUE]
  BY <1>2, EncodedIs
<1>6. \A k \in 1..n : At(w, k) <= a
  <2> SUFFICES ASSUME NEW k \in 1..n PROVE At(w, k) <= a
    OBVIOUS
  <2>1. k \in 0..Len(w) /\ n \in 0..Len(w)
    BY <1>1, <1>2
  <2>2. k < n => At(w, k) < At(w, n)
    BY <1>2, <2>1, PlacesGrow
  <2>3. At(w, k) \in Nat
    BY <1>2, <2>1, PlaceIs
  <2> QED BY <1>1, <1>3, <2>2, <2>3
<1>7. /\ Sources(w, At(w, n + 1)) = {n + 1}
      /\ c = LF => Sources(w, a + 1) = {}
  <2>1. \A k \in 1..Len(w) : k = n + 1 \/ k \in 1..n
    BY <1>1, <1>2
  <2>2. n + 1 \in 1..Len(w)
    BY <1>1, <1>2
  <2> HIDE DEF n, a
  <2> QED BY <1>1, <1>4, <1>6, <2>1, <2>2 DEF Sources
<1>8. e[At(w, n + 1)] = c
  <2>1. At(w, n + 1) \in 1..At(w, n + 1)
    BY <1>1, <1>4
  <2>2. (CHOOSE k \in {n + 1} : TRUE) = n + 1
    OBVIOUS
  <2> QED BY <1>2, <1>5, <1>7, <2>1, <2>2
<1>9. c = LF => e[a + 1] = CR
  <2>1. c = LF => a + 1 \in 1..At(w, n + 1)
    BY <1>1, <1>4
  <2> QED BY <1>5, <1>7, <2>1
<1>10. /\ Encoded(t) \in Words /\ Len(Encoded(t)) = a /\ Made(c) \in Words
       /\ c = LF => Len(Made(c)) = 2 /\ Made(c)[1] = CR /\ Made(c)[2] = LF
       /\ c # LF => Len(Made(c)) = 1 /\ Made(c)[1] = c
  BY EncodedIs, MadeOf
<1>11. /\ f \in Words /\ Len(f) = a + Len(Made(c))
       /\ \A i \in 1..(a + Len(Made(c))) : f[i] = IF i <= a THEN Encoded(t)[i] ELSE Made(c)[i - a]
  <2> DEFINE v == Encoded(t)
             m == Made(c)
  <2>1. v \in Words /\ m \in Words /\ Len(v) = a
    BY <1>10
  <2> HIDE DEF v, m
  <2>2. /\ v \o m \in Words /\ Len(v \o m) = Len(v) + Len(m)
        /\ \A i \in 1..(Len(v) + Len(m)) : (v \o m)[i] = IF i <= Len(v) THEN v[i] ELSE m[i - Len(v)]
    BY <2>1, JoinedIs
  <2> QED BY <2>1, <2>2 DEF v, m
<1> HIDE DEF e, f, a
<1>12. Len(e) = Len(f)
  BY <1>4, <1>5, <1>10, <1>11
<1>13. ASSUME NEW i \in 1..Len(e) PROVE e[i] = f[i]
  <2>1. i \in 1..(a + Len(Made(c)))
    BY <1>4, <1>5, <1>10
  <2>2. CASE i <= a
    BY <1>1, <1>3, <1>11, <2>1, <2>2
  <2>3. CASE c # LF /\ i > a
    <3>1. i = a + 1 /\ i - a = 1 /\ At(w, n + 1) = i
      BY <1>1, <1>4, <1>5, <2>3
    <3> QED BY <1>1, <1>8, <1>10, <1>11, <2>1, <2>3, <3>1
  <2>4. CASE c = LF /\ i = a + 1
    <3>1. i - a = 1
      BY <1>1, <2>4
    <3> QED BY <1>1, <1>9, <1>10, <1>11, <2>1, <2>4, <3>1
  <2>5. CASE c = LF /\ i = a + 2
    <3>1. i - a = 2 /\ At(w, n + 1) = i
      BY <1>1, <1>4, <2>5
    <3> QED BY <1>1, <1>8, <1>10, <1>11, <2>1, <2>5, <3>1
  <2>6. c = LF => i <= a \/ i = a + 1 \/ i = a + 2
    BY <1>1, <1>4, <1>5
  <2> QED BY <1>1, <2>2, <2>3, <2>4, <2>5, <2>6
<1>14. e = f
  BY <1>5, <1>11, <1>12, <1>13, WordsEqual
<1> QED BY <1>14 DEF e, f, w

LEMMA EncodedEmpty == Encoded(<<>>) = <<>>
<1>1. <<>> \in Words /\ Len(<<>>) = 0
  BY NoWord
<1>2. At(<<>>, 0) = 0
  <2>1. 0 \in 0..Len(<<>>)
    BY <1>1
  <2> QED BY <1>1, <2>1, PlaceIs
<1>3. Encoded(<<>>) \in Words /\ Len(Encoded(<<>>)) = 0
  BY <1>1, <1>2, EncodedIs
<1> QED BY <1>3, WordIs

-----------------------------------------------------------------------------
(***************************************************************************)
(* What a stream is decoded to.                                            *)
(***************************************************************************)

LEMMA RankIs ==
  ASSUME NEW s \in Words, NEW k \in 0..Len(s)
  PROVE  /\ To(s, k) \in Nat
         /\ k = 0 => To(s, k) = 0
         /\ k > 0 => To(s, k) = To(s, k - 1) + (IF k \in Stays(s) THEN 1 ELSE 0)
<1>1. Len(s) \in Nat /\ k \in Nat
  BY WordIs
<1> QED BY <1>1, CountUp DEF To

LEMMA RanksGrow ==
  ASSUME NEW s \in Words, NEW k \in 0..Len(s), NEW l \in 0..Len(s), k <= l
  PROVE  /\ To(s, k) <= To(s, l)
         /\ k < l /\ l \in Stays(s) => To(s, k) < To(s, l)
<1>1. Len(s) \in Nat /\ k \in Nat /\ l \in Nat
  BY WordIs
<1> QED BY <1>1, CountGrows DEF To

LEMMA OriginsAre ==
  ASSUME NEW s \in Words, NEW p \in 1..To(s, Len(s))
  PROVE  Origins(s, p) # {} /\ Origins(s, p) \subseteq 1..Len(s)
<1>1. Len(s) \in Nat /\ Len(s) \in 0..Len(s)
  BY WordIs
<1>2. p \in Nat /\ To(s, Len(s)) \in Nat
  BY <1>1, RankIs
<1> DEFINE T == {i \in 0..Len(s) : To(s, i) >= p}
<1>3. T \in SUBSET Nat /\ T # {}
  <2>1. Len(s) \in T
    BY <1>1, <1>2
  <2> QED BY <2>1
<1>4. PICK i \in T : \A j \in T : i <= j
  BY <1>3, LeastElement
<1>5. i \in 0..Len(s) /\ To(s, i) >= p
  OBVIOUS
<1>6. i > 0
  <2>1. i = 0 => To(s, i) = 0
    BY <1>5, RankIs
  <2> QED BY <1>2, <1>5, <2>1
<1>7. i - 1 \in 0..Len(s) /\ i \in 1..Len(s)
  BY <1>1, <1>5, <1>6
<1>8. To(s, i - 1) < p
  <2>1. i - 1 \notin T
    BY <1>4, <1>7
  <2>2. To(s, i - 1) \in Nat
    BY <1>7, RankIs
  <2> QED BY <1>2, <1>7, <2>1, <2>2
<1>9. To(s, i) = To(s, i - 1) + (IF i \in Stays(s) THEN 1 ELSE 0)
  BY <1>5, <1>6, RankIs
<1>10. To(s, i - 1) \in Nat /\ To(s, i) \in Nat
  BY <1>5, <1>7, RankIs
<1>11. i \in Stays(s) /\ To(s, i) = p
  BY <1>2, <1>5, <1>8, <1>9, <1>10
<1>12. i \in Origins(s, p)
  BY <1>11 DEF Origins
<1> QED BY <1>12 DEF Origins, Stays

LEMMA DecodedIs ==
  ASSUME NEW s \in Words
  PROVE  /\ Decoded(s) \in Words /\ Len(Decoded(s)) = To(s, Len(s)) /\ To(s, Len(s)) \in Nat
         /\ \A p \in 1..To(s, Len(s)) : Decoded(s)[p] = s[CHOOSE i \in Origins(s, p) : TRUE]
<1> DEFINE n == To(s, Len(s))
           d == [p \in 1..n |-> s[CHOOSE i \in Origins(s, p) : TRUE]]
<1>1. n \in Nat
  <2>1. Len(s) \in 0..Len(s)
    BY WordIs
  <2> QED BY <2>1, RankIs
<1>2. ASSUME NEW p \in 1..n
      PROVE  s[CHOOSE i \in Origins(s, p) : TRUE] \in Units
  <2>1. (CHOOSE i \in Origins(s, p) : TRUE) \in 1..Len(s)
    <3>1. Origins(s, p) # {} /\ Origins(s, p) \subseteq 1..Len(s)
      BY OriginsAre
    <3> QED BY <3>1
  <2> QED BY <2>1, WordIs
<1> HIDE DEF n
<1>3. d \in Words /\ Len(d) = n
  <2>1. d \in [1..n -> Units]
    BY <1>2
  <2> HIDE DEF d
  <2> QED BY <1>1, <2>1 DEF Words
<1>4. \A p \in 1..n : d[p] = s[CHOOSE i \in Origins(s, p) : TRUE]
  OBVIOUS
<1>5. d = Decoded(s)
  BY DEF d, n, Decoded
<1> HIDE DEF d
<1> QED BY <1>1, <1>3, <1>4, <1>5 DEF n

\* A longer stream begins with what its beginning is decoded to, if the same
\* units stay of that.
LEMMA DecodedBegins ==
  ASSUME NEW s \in Words, NEW w \in Words, Len(s) <= Len(w), \A i \in 1..Len(s) : w[i] = s[i],
         Stays(w) \cap 1..Len(s) = Stays(s)
  PROVE  /\ To(w, Len(s)) = To(s, Len(s)) /\ To(s, Len(s)) <= To(w, Len(w))
         /\ \A p \in 1..To(s, Len(s)) : Decoded(w)[p] = Decoded(s)[p]
<1>1. Len(s) \in Nat /\ Len(w) \in Nat /\ Len(s) \in 0..Len(w) /\ Len(w) \in 0..Len(w)
  BY WordIs
<1> DEFINE n == Len(s)
<1>2. ASSUME NEW k \in 0..n PROVE To(w, k) = To(s, k) /\ To(w, k) \in Nat /\ k \in 0..Len(w)
  <2>1. Stays(w) \cap 1..k = Stays(s) \cap 1..k
    <3>1. \A i \in 1..k : i \in 1..n
      BY <1>1
    <3> QED BY <3>1
  <2>2. k \in 0..Len(w)
    BY <1>1
  <2> QED BY <2>1, <2>2, RankIs DEF To
<1>3. To(w, n) = To(s, n) /\ To(s, n) \in Nat /\ To(w, Len(w)) \in Nat
  <2>1. n \in 0..n
    BY <1>1
  <2> QED BY <1>1, <1>2, <2>1, RankIs
<1>4. To(s, n) <= To(w, Len(w))
  <2>1. To(w, n) <= To(w, Len(w))
    BY <1>1, RanksGrow
  <2> QED BY <1>3, <2>1
<1>5. ASSUME NEW p \in 1..To(s, n) PROVE Decoded(w)[p] = Decoded(s)[p]
  <2>1. Origins(w, p) = Origins(s, p)
    <3>1. ASSUME NEW k \in Origins(w, p) PROVE k \in Origins(s, p)
      <4>1. k \in Stays(w) /\ k \in 1..Len(w) /\ To(w, k) = p
        BY DEF Origins, Stays
      <4>2. k <= n
        <5> SUFFICES ASSUME n < k PROVE FALSE
          BY <1>1, <4>1
        <5>1. n \in 0..Len(w) /\ k \in 0..Len(w) /\ n <= k
          BY <1>1, <4>1
        <5>2. To(w, n) < To(w, k)
          BY <4>1, <5>1, RanksGrow
        <5> QED BY <1>3, <4>1, <5>2
      <4>3. k \in 0..n /\ k \in 1..Len(s)
        BY <1>1, <4>1, <4>2
      <4>4. k \in Stays(s)
        BY <4>1, <4>3
      <4> QED BY <1>2, <4>1, <4>3, <4>4 DEF Origins
    <3>2. ASSUME NEW k \in Origins(s, p) PROVE k \in Origins(w, p)
      <4>1. k \in Stays(s) /\ k \in 1..Len(s) /\ To(s, k) = p
        BY DEF Origins, Stays
      <4>2. k \in 0..n /\ k \in Stays(w)
        BY <1>1, <4>1
      <4> QED BY <1>2, <4>1, <4>2 DEF Origins
    <3> QED BY <3>1, <3>2
  <2>2. p \in 1..To(w, Len(w)) /\ p \in 1..To(s, Len(s))
    BY <1>3, <1>4
  <2>3. Decoded(w)[p] = w[CHOOSE k \in Origins(w, p) : TRUE]
    BY <2>2, DecodedIs
  <2>4. Decoded(s)[p] = s[CHOOSE k \in Origins(s, p) : TRUE]
    BY <2>2, DecodedIs
  <2>5. (CHOOSE k \in Origins(s, p) : TRUE) \in 1..Len(s)
    <3>1. Origins(s, p) # {} /\ Origins(s, p) \subseteq 1..Len(s)
      BY <2>2, OriginsAre
    <3> QED BY <3>1
  <2> QED BY <2>1, <2>3, <2>4, <2>5
<1> QED BY <1>3, <1>4, <1>5

\* What follows may be decoded on its own, unless it begins with the LF of a CR.
Apart(s, u) == Len(s) > 0 /\ Len(u) > 0 => ~(s[Len(s)] = CR /\ u[1] = LF)

LEMMA StaysOfJoined ==
  ASSUME NEW s \in Words, NEW u \in Words, Apart(s, u)
  PROVE  Stays(s \o u) \cap 1..Len(s) = Stays(s)
<1> DEFINE w == s \o u
<1>1. Len(s) \in Nat /\ Len(u) \in Nat
  BY WordIs
<1>2. /\ w \in Words /\ Len(w) = Len(s) + Len(u)
      /\ \A i \in 1..(Len(s) + Len(u)) : w[i] = IF i <= Len(s) THEN s[i] ELSE u[i - Len(s)]
  BY JoinedIs
<1> HIDE DEF w
<1>3. ASSUME NEW i \in 1..Len(s)
      PROVE  i \in Stays(w) <=> i \in Stays(s)
  <2>1. i \in 1..(Len(s) + Len(u)) /\ i <= Len(s)
    BY <1>1
  <2>2. w[i] = s[i]
    BY <1>2, <2>1
  <2>3. CASE i < Len(s)
    <3>1. i + 1 \in 1..(Len(s) + Len(u)) /\ i + 1 <= Len(s) /\ i < Len(w) /\ i \in 1..Len(w)
      BY <1>1, <1>2, <2>3
    <3>2. w[i + 1] = s[i + 1]
      BY <1>2, <3>1
    <3> QED BY <2>2, <2>3, <3>1, <3>2 DEF Stays
  <2>4. CASE i = Len(s)
    <3>1. i \in Stays(s)
      BY <2>4 DEF Stays
    <3>2. CASE Len(u) = 0
      <4>1. i \in 1..Len(w) /\ ~(i < Len(w))
        BY <1>1, <1>2, <2>4, <3>2
      <4> QED BY <3>1, <4>1 DEF Stays
    <3>3. CASE Len(u) > 0
      <4>1. i + 1 \in 1..(Len(s) + Len(u)) /\ ~(i + 1 <= Len(s)) /\ (i + 1) - Len(s) = 1
            /\ i \in 1..Len(w)
        BY <1>1, <1>2, <2>4, <3>3
      <4>2. w[i + 1] = u[1]
        BY <1>2, <4>1
      <4>3. Len(s) > 0
        BY <1>1, <2>4
      <4>4. ~(w[i] = CR /\ w[i + 1] = LF)
        BY <2>2, <2>4, <3>3, <4>2, <4>3 DEF Apart
      <4> QED BY <3>1, <4>1, <4>4 DEF Stays
    <3> QED BY <1>1, <3>2, <3>3
  <2> QED BY <1>1, <2>3, <2>4
<1>4. Stays(s) \subseteq 1..Len(s)
  BY DEF Stays
<1>5. Stays(w) \cap 1..Len(s) = Stays(s)
  BY <1>3, <1>4
<1> QED BY <1>5 DEF w

LEMMA DecodedStarts ==
  ASSUME NEW s \in Words, NEW u \in Words, Apart(s, u)
  PROVE  IsPrefix(Decoded(s), Decoded(s \o u))
<1> DEFINE w == s \o u
<1>1. Len(s) \in Nat /\ Len(u) \in Nat
  BY WordIs
<1>2. /\ w \in Words /\ Len(w) = Len(s) + Len(u)
      /\ \A i \in 1..(Len(s) + Len(u)) : w[i] = IF i <= Len(s) THEN s[i] ELSE u[i - Len(s)]
  BY JoinedIs
<1>3. Stays(w) \cap 1..Len(s) = Stays(s)
  BY StaysOfJoined
<1> HIDE DEF w
<1>4. Len(s) <= Len(w) /\ \A i \in 1..Len(s) : w[i] = s[i]
  BY <1>1, <1>2
<1>5. /\ To(s, Len(s)) <= To(w, Len(w))
      /\ \A p \in 1..To(s, Len(s)) : Decoded(w)[p] = Decoded(s)[p]
  BY <1>2, <1>3, <1>4, DecodedBegins
<1>6. /\ Decoded(s) \in Words /\ Len(Decoded(s)) = To(s, Len(s))
      /\ Decoded(w) \in Words /\ Len(Decoded(w)) = To(w, Len(w))
  BY <1>2, DecodedIs
<1> QED BY <1>5, <1>6, BeginningIs DEF w

\* One more unit that stays, after the same that stayed before.
LEMMA DecodedExtends ==
  ASSUME NEW s \in Words, NEW w \in Words, Len(s) < Len(w), \A i \in 1..Len(s) : w[i] = s[i],
         Stays(w) = Stays(s) \cup {Len(w)}
  PROVE  Decoded(w) = Append(Decoded(s), w[Len(w)])
<1> DEFINE n == Len(s)
           l == Len(w)
           a == To(s, n)
           d == Decoded(w)
           f == Append(Decoded(s), w[l])
<1>1. n \in Nat /\ l \in Nat /\ n \in 0..l /\ l \in 0..l /\ l \in 1..l /\ n <= l
  BY WordIs
<1>2. Stays(w) \cap 1..n = Stays(s)
  <2>1. Stays(s) \subseteq 1..n
    BY DEF Stays
  <2>2. l \notin 1..n
    BY <1>1
  <2> QED BY <2>1, <2>2
<1>3. /\ To(w, n) = a
      /\ \A p \in 1..a : d[p] = Decoded(s)[p]
  BY <1>1, <1>2, DecodedBegins
<1>4. a \in Nat /\ Decoded(s) \in Words /\ Len(Decoded(s)) = a
  BY DecodedIs
<1>5. To(w, l) = a + 1
  <2>1. Stays(w) \cap 1..l = (Stays(w) \cap 1..n) \cup {l}
    <3>1. Stays(s) \subseteq 1..n /\ 1..n \subseteq 1..l
      BY <1>1 DEF Stays
    <3> QED BY <1>1, <1>2, <3>1
  <2>2. IsFiniteSet(Stays(w) \cap 1..n)
    BY <1>1, CountUp
  <2>3. l \notin Stays(w) \cap 1..n
    BY <1>1
  <2>4. Cardinality((Stays(w) \cap 1..n) \cup {l}) = Cardinality(Stays(w) \cap 1..n) + 1
    BY <2>2, <2>3, FS_AddElement
  <2>5. To(w, n) = Cardinality(Stays(w) \cap 1..n) /\ To(w, l) = Cardinality(Stays(w) \cap 1..l)
    BY DEF To
  <2> QED BY <1>3, <2>1, <2>4, <2>5
<1>6. /\ d \in Words /\ Len(d) = a + 1
      /\ \A p \in 1..(a + 1) : d[p] = w[CHOOSE i \in Origins(w, p) : TRUE]
  BY <1>5, DecodedIs
<1>7. Origins(w, a + 1) = {l}
  <2>1. l \in Origins(w, a + 1)
    BY <1>5 DEF Origins
  <2>2. ASSUME NEW i \in Origins(w, a + 1) PROVE i = l
    <3> SUFFICES ASSUME i # l PROVE FALSE
      OBVIOUS
    <3>1. i \in Stays(w) /\ To(w, i) = a + 1
      BY DEF Origins
    <3>2. i \in 1..n
      BY <3>1 DEF Stays
    <3>3. i \in 0..Len(w) /\ n \in 0..Len(w) /\ i <= n
      BY <1>1, <3>2
    <3>4. To(w, i) <= To(w, n)
      BY <3>3, RanksGrow
    <3> QED BY <1>3, <1>4, <3>1, <3>4
  <2> QED BY <2>1, <2>2
<1>8. d[a + 1] = w[l]
  <2>1. (CHOOSE i \in {l} : TRUE) = l
    OBVIOUS
  <2>2. a + 1 \in 1..(a + 1)
    BY <1>4
  <2> QED BY <1>6, <1>7, <2>1, <2>2
<1>9. w[l] \in Units
  BY <1>1, WordIs
<1> HIDE DEF d, a, l, n
<1>10. /\ f \in Words /\ Len(f) = a + 1 /\ f[a + 1] = w[l]
       /\ \A i \in 1..a : f[i] = Decoded(s)[i]
  <2> DEFINE v == Decoded(s)
  <2>1. v \in Words /\ Len(v) = a
    BY <1>4
  <2> HIDE DEF v
  <2>2. /\ Append(v, w[l]) \in Words /\ Len(Append(v, w[l])) = Len(v) + 1
        /\ \A i \in 1..Len(v) : Append(v, w[l])[i] = v[i]
        /\ Append(v, w[l])[Len(v) + 1] = w[l]
    BY <1>9, <2>1, AppendedIs
  <2> QED BY <2>1, <2>2 DEF v
<1> HIDE DEF f
<1>11. ASSUME NEW i \in 1..Len(d) PROVE d[i] = f[i]
  <2>1. i \in 1..a \/ i = a + 1
    BY <1>4, <1>6
  <2> QED BY <1>3, <1>8, <1>10, <2>1
<1>12. d = f
  <2>1. Len(d) = Len(f)
    BY <1>6, <1>10
  <2> QED BY <1>6, <1>10, <1>11, <2>1, WordsEqual
<1> QED BY <1>12 DEF d, f, l

LEMMA DecodedGrows ==
  ASSUME NEW s \in Words, NEW c \in Units, Len(s) > 0 => ~(s[Len(s)] = CR /\ c = LF)
  PROVE  Decoded(Append(s, c)) = Append(Decoded(s), c)
<1> DEFINE w == Append(s, c)
           u == <<c>>
<1>1. Len(s) \in Nat
  BY WordIs
<1>2. /\ w \in Words /\ Len(w) = Len(s) + 1
      /\ \A i \in 1..Len(s) : w[i] = s[i]
      /\ w[Len(s) + 1] = c /\ w = s \o u /\ u \in Words
  BY AppendedIs
<1>3. Len(u) = 1 /\ u[1] = c
  OBVIOUS
<1> HIDE DEF w, u
<1>4. Stays(w) \cap 1..Len(s) = Stays(s)
  <2>1. Apart(s, u)
    BY <1>3 DEF Apart
  <2> QED BY <1>2, <2>1, StaysOfJoined
<1>5. Stays(w) = Stays(s) \cup {Len(w)}
  <2>1. Stays(w) \subseteq 1..Len(w)
    BY DEF Stays
  <2>2. Len(w) \in Stays(w)
    <3>1. Len(w) \in 1..Len(w) /\ ~(Len(w) < Len(w))
      BY <1>1, <1>2
    <3> QED BY <3>1 DEF Stays
  <2>3. \A i \in 1..Len(w) : i \in 1..Len(s) \/ i = Len(w)
    BY <1>1, <1>2
  <2> QED BY <1>4, <2>1, <2>2, <2>3
<1>6. Len(s) < Len(w)
  BY <1>1, <1>2
<1>7. Decoded(w) = Append(Decoded(s), w[Len(w)])
  BY <1>2, <1>5, <1>6, DecodedExtends
<1> QED BY <1>2, <1>7 DEF w

\* Of CR LF the LF stays.
LEMMA DecodedJoins ==
  ASSUME NEW s \in Words
  PROVE  Decoded(Append(Append(s, CR), LF)) = Append(Decoded(s), LF)
<1> DEFINE v == Append(s, CR)
           w == Append(v, LF)
           n == Len(s)
<1>1. n \in Nat /\ CR \in Units /\ LF \in Units /\ CR # LF
  BY WordIs, UnitsAre
<1>2. v \in Words /\ Len(v) = n + 1 /\ v[n + 1] = CR /\ \A i \in 1..n : v[i] = s[i]
  BY <1>1, AppendedIs
<1> HIDE DEF v
<1>3. /\ w \in Words /\ Len(w) = Len(v) + 1 /\ w[Len(v) + 1] = LF
      /\ \A i \in 1..Len(v) : w[i] = v[i]
  BY <1>1, <1>2, AppendedIs
<1> HIDE DEF w
<1>4. Len(w) = n + 2 /\ w[n + 2] = LF /\ w[n + 1] = CR /\ \A i \in 1..n : w[i] = s[i]
  <2>1. Len(v) + 1 = n + 2 /\ n + 1 \in 1..Len(v) /\ \A i \in 1..n : i \in 1..Len(v)
    BY <1>1, <1>2
  <2> QED BY <1>2, <1>3, <2>1
<1>5. ASSUME NEW i \in 1..n PROVE i \in Stays(w) <=> i \in Stays(s)
  <2>1. i \in 1..Len(w) /\ i < Len(w) /\ w[i] = s[i]
    BY <1>1, <1>4
  <2>2. CASE i < n
    <3>1. i + 1 \in 1..n
      BY <1>1, <2>2
    <3>2. w[i + 1] = s[i + 1]
      BY <1>4, <3>1
    <3> QED BY <2>1, <2>2, <3>2 DEF Stays
  <2>3. CASE i = n
    <3>1. w[i + 1] # LF
      BY <1>1, <1>4, <2>3
    <3> QED BY <2>1, <2>3, <3>1 DEF Stays
  <2> QED BY <1>1, <2>2, <2>3
<1>6. n + 1 \notin Stays(w) /\ n + 2 \in Stays(w)
  <2>1. n + 1 < Len(w) /\ (n + 1) + 1 = n + 2 /\ ~(n + 2 < Len(w)) /\ n + 2 \in 1..Len(w)
    BY <1>1, <1>4
  <2> QED BY <1>4, <2>1 DEF Stays
<1>7. Stays(w) = Stays(s) \cup {Len(w)}
  <2>1. Stays(w) \subseteq 1..Len(w) /\ Stays(s) \subseteq 1..n
    BY DEF Stays
  <2>2. \A i \in 1..Len(w) : i \in 1..n \/ i = n + 1 \/ i = n + 2
    BY <1>1, <1>4
  <2> QED BY <1>4, <1>5, <1>6, <2>1, <2>2
<1>8. n < Len(w)
  BY <1>1, <1>4
<1>9. Decoded(w) = Append(Decoded(s), w[Len(w)])
  BY <1>3, <1>4, <1>7, <1>8, DecodedExtends
<1> QED BY <1>4, <1>9 DEF v, w

LEMMA DecodedEmpty == Decoded(<<>>) = <<>>
<1>1. <<>> \in Words /\ Len(<<>>) = 0
  BY NoWord
<1>2. To(<<>>, 0) = 0
  <2>1. 0 \in 0..Len(<<>>)
    BY <1>1
  <2> QED BY <1>1, <2>1, RankIs
<1>3. Decoded(<<>>) \in Words /\ Len(Decoded(<<>>)) = 0
  BY <1>1, <1>2, DecodedIs
<1> QED BY <1>3, WordIs

-----------------------------------------------------------------------------
\* What is encoded and decoded again, is as it was.
LEMMA BackAgain ==
  ASSUME NEW t \in Words
  PROVE  Decoded(Encoded(t)) = t
<1> DEFINE Begun(k) == SubSeq(t, 1, k)
           T == {k \in 0..Len(t) : Decoded(Encoded(Begun(k))) # Begun(k)}
<1>1. Len(t) \in Nat /\ Len(t) \in 0..Len(t)
  BY WordIs
<1>2. SUFFICES ASSUME T # {} PROVE FALSE
  <2>1. Begun(Len(t)) = t
    BY <1>1, FirstUnits
  <2> QED BY <1>1, <1>2, <2>1
<1>3. PICK k \in T : \A j \in T : k <= j
  <2>1. T \in SUBSET Nat
    BY <1>1
  <2> QED BY <1>2, <2>1, LeastElement
<1>4. k \in 0..Len(t) /\ Decoded(Encoded(Begun(k))) # Begun(k)
  OBVIOUS
<1>5. k # 0
  <2>1. k = 0 => Begun(k) = <<>>
    BY <1>4, FirstUnits
  <2> QED BY <1>4, <2>1, EncodedEmpty, DecodedEmpty
<1> DEFINE v == Begun(k - 1)
           c == t[k]
<1>6. v \in Words /\ c \in Units /\ Begun(k) = Append(v, c) /\ Decoded(Encoded(v)) = v
  <2>1. k - 1 \in 0..Len(t) /\ k > 0 /\ k - 1 < k
    BY <1>1, <1>4, <1>5
  <2>2. v \in Words
    BY <2>1, FirstUnits
  <2>3. Begun(k) = Append(v, c) /\ c \in Units
    BY <1>4, <2>1, FirstUnits
  <2>4. k - 1 \notin T
    BY <1>1, <1>3, <1>4, <2>1
  <2>5. Decoded(Encoded(v)) = v
    BY <2>1, <2>4
  <2> QED BY <2>2, <2>3, <2>5
<1> HIDE DEF v, c, Begun
<1> DEFINE e == Encoded(v)
<1>7. e \in Words
  BY <1>6, EncodedIs
<1>8. Encoded(Append(v, c)) = e \o Made(c)
  BY <1>6, EncodedGrows
<1> HIDE DEF e
<1>9. CASE c = LF
  <2>1. e \o Made(c) = Append(Append(e, CR), LF)
    <3>1. CR \in Units /\ LF \in Units /\ <<CR>> \in Words /\ <<LF>> \in Words
      BY UnitsAre DEF Words
    <3>2. Append(e, CR) = e \o <<CR>> /\ Append(e, CR) \in Words
      BY <1>7, <3>1, AppendedIs
    <3>3. Append(Append(e, CR), LF) = Append(e, CR) \o <<LF>>
      BY <3>1, <3>2, AppendedIs
    <3>4. (e \o <<CR>>) \o <<LF>> = e \o (<<CR>> \o <<LF>>)
      BY <1>7, <3>1, JoinedWith
    <3>5. <<CR>> \o <<LF>> = Made(c)
      BY <1>9, <3>1, TwoUnits DEF Made
    <3> QED BY <3>2, <3>3, <3>4, <3>5
  <2>2. Decoded(Append(Append(e, CR), LF)) = Append(Decoded(e), LF)
    BY <1>7, DecodedJoins
  <2> QED BY <1>4, <1>6, <1>8, <1>9, <2>1, <2>2 DEF e
<1>10. CASE c # LF
  <2>1. e \o Made(c) = Append(e, c)
    BY <1>6, <1>7, <1>10, AppendedIs DEF Made
  <2>2. Decoded(Append(e, c)) = Append(Decoded(e), c)
    BY <1>6, <1>7, <1>10, DecodedGrows
  <2> QED BY <1>4, <1>6, <1>8, <2>1, <2>2 DEF e
<1> QED BY <1>9, <1>10

-----------------------------------------------------------------------------
(***************************************************************************)
(* The first unit of a word, and the rest.                                 *)
(***************************************************************************)

LEMMA HeadOff ==
  ASSUME NEW s \in Words, Len(s) > 0
  PROVE  /\ Head(s) \in Units /\ Head(s) = s[1]
         /\ Tail(s) \in Words /\ Len(Tail(s)) = Len(s) - 1
         /\ \A i \in 1..(Len(s) - 1) : Tail(s)[i] = s[i + 1]
         /\ s = <<Head(s)>> \o Tail(s)
<1>1. s # <<>> /\ Len(s) \in Nat
  BY WordIs
<1>2. /\ Head(s) \in Units /\ Tail(s) \in Words /\ Len(Tail(s)) = Len(s) - 1
      /\ \A i \in 1..Len(Tail(s)) : Tail(s)[i] = s[i + 1]
  BY <1>1, HeadTailProperties DEF Words
<1>3. Head(s) = s[1]
  OBVIOUS
<1>4. s = <<Head(s)>> \o Tail(s)
  <2> DEFINE h == <<Head(s)>>
             t == Tail(s)
  <2>1. h \in Words /\ Len(h) = 1 /\ h[1] = s[1]
    BY <1>2, <1>3 DEF Words
  <2>2. t \in Words /\ Len(t) = Len(s) - 1 /\ \A i \in 1..Len(t) : t[i] = s[i + 1]
    BY <1>2
  <2> HIDE DEF h, t
  <2>3. /\ h \o t \in Words /\ Len(h \o t) = Len(h) + Len(t)
        /\ \A i \in 1..(Len(h) + Len(t)) : (h \o t)[i] = IF i <= Len(h) THEN h[i] ELSE t[i - Len(h)]
    BY <2>1, <2>2, JoinedIs
  <2>4. Len(h \o t) = Len(s)
    BY <1>1, <2>1, <2>2, <2>3
  <2>5. ASSUME NEW i \in 1..Len(s) PROVE (h \o t)[i] = s[i]
    <3>1. CASE i = 1
      BY <1>1, <2>1, <2>2, <2>3, <3>1
    <3>2. CASE i > 1
      <4>1. i - 1 \in 1..Len(t) /\ ~(i <= 1) /\ (i - 1) + 1 = i /\ i \in 1..(Len(h) + Len(t))
        BY <1>1, <2>1, <2>2, <3>2
      <4>2. (h \o t)[i] = t[i - 1]
        BY <2>1, <2>3, <4>1
      <4> QED BY <2>2, <4>1, <4>2
    <3>3. i = 1 \/ i > 1
      BY <1>1
    <3> QED BY <3>1, <3>2, <3>3
  <2>6. h \o t = s
    BY <2>3, <2>4, <2>5, WordsEqual
  <2> QED BY <2>6 DEF h, t
<1> QED BY <1>1, <1>2, <1>3, <1>4

\* A unit may be the last of one word or the first of the next.
LEMMA HeadOver ==
  ASSUME NEW t \in Words, NEW s \in Words, Len(s) > 0
  PROVE  Append(t, Head(s)) \in Words /\ t \o s = Append(t, Head(s)) \o Tail(s)
<1> DEFINE h == Head(s)
           r == Tail(s)
<1>1. h \in Units /\ r \in Words /\ s = <<h>> \o r
  BY HeadOff
<1> HIDE DEF h, r
<1>2. Append(t, h) = t \o <<h>> /\ <<h>> \in Words /\ Append(t, h) \in Words
  BY <1>1, AppendedIs
<1>3. (t \o <<h>>) \o r = t \o (<<h>> \o r)
  BY <1>1, <1>2, JoinedWith
<1>4. t \o s = Append(t, h) \o r
  BY <1>1, <1>2, <1>3
<1> QED BY <1>2, <1>4 DEF h, r

LEMMA LastOver ==
  ASSUME NEW t \in Words, NEW h \in Units, NEW r \in Words
  PROVE  \E v \in Words : Append(t, h) \o r = t \o v /\ v[1] = h
<1>1. Append(t, h) = t \o <<h>> /\ <<h>> \in Words
  BY AppendedIs
<1>2. (t \o <<h>>) \o r = t \o (<<h>> \o r)
  BY <1>1, JoinedWith
<1>3. <<h>> \o r \in Words /\ (<<h>> \o r)[1] = h
  <2> DEFINE a == <<h>>
  <2>1. a \in Words /\ Len(a) = 1 /\ a[1] = h /\ Len(r) \in Nat
    BY <1>1, WordIs
  <2> HIDE DEF a
  <2>2. /\ a \o r \in Words
        /\ \A i \in 1..(Len(a) + Len(r)) : (a \o r)[i] = IF i <= Len(a) THEN a[i] ELSE r[i - Len(a)]
    BY <2>1, JoinedIs
  <2>3. 1 \in 1..(Len(a) + Len(r)) /\ 1 <= Len(a)
    BY <2>1
  <2> QED BY <2>1, <2>2, <2>3 DEF a
<1> QED BY <1>1, <1>2, <1>3

LEMMA TwoOff ==
  ASSUME NEW s \in Words, Len(s) > 1
  PROVE  /\ Unread(s, 2) = Tail(Tail(s))
         /\ Tail(s) \in Words /\ Len(Tail(s)) = Len(s) - 1 /\ Len(Tail(s)) > 0
         /\ Head(Tail(s)) = s[2]
<1>1. Len(s) \in Nat
  BY WordIs
<1> DEFINE t == Tail(s)
           u == SubSeq(s, 2 + 1, Len(s))
<1>2. t \in Words /\ Len(t) = Len(s) - 1 /\ \A i \in 1..(Len(s) - 1) : t[i] = s[i + 1]
  <2>1. Len(s) > 0
    BY <1>1
  <2>2. /\ Tail(s) \in Words /\ Len(Tail(s)) = Len(s) - 1
        /\ \A i \in 1..(Len(s) - 1) : Tail(s)[i] = s[i + 1]
    BY <2>1, HeadOff
  <2> QED BY <2>2
<1> HIDE DEF t
<1>3. Len(t) > 0 /\ Head(t) = t[1] /\ t[1] = s[2]
  <2>1. Len(t) > 0 /\ 1 \in 1..(Len(s) - 1) /\ 1 + 1 = 2
    BY <1>1, <1>2
  <2>2. Head(t) = t[1]
    BY <1>2, <2>1, HeadOff
  <2> QED BY <1>2, <2>1, <2>2
<1>4. /\ Tail(t) \in Words /\ Len(Tail(t)) = Len(s) - 2
      /\ \A i \in 1..(Len(s) - 2) : Tail(t)[i] = s[i + 2]
  <2>1. /\ Tail(t) \in Words /\ Len(Tail(t)) = Len(t) - 1
        /\ \A i \in 1..(Len(t) - 1) : Tail(t)[i] = t[i + 1]
    BY <1>2, <1>3, HeadOff
  <2>2. Len(t) - 1 = Len(s) - 2
    BY <1>1, <1>2
  <2>3. ASSUME NEW i \in 1..(Len(s) - 2) PROVE Tail(t)[i] = s[i + 2]
    <3>1. i + 1 \in 1..(Len(s) - 1) /\ (i + 1) + 1 = i + 2
      BY <1>1
    <3> QED BY <1>2, <2>1, <2>2, <3>1
  <2> QED BY <2>1, <2>2, <2>3
<1>5. /\ u \in Words /\ Len(u) = Len(s) - 2
      /\ \A i \in 1..(Len(s) - 2) : u[i] = s[i + 2]
  <2>1. \A i \in (2 + 1)..Len(s) : s[i] \in Units
    BY <1>1, WordIs
  <2>2. /\ u \in Seq(Units)
        /\ Len(u) = IF 2 + 1 <= Len(s) THEN Len(s) - (2 + 1) + 1 ELSE 0
        /\ \A i \in 1..(Len(s) - (2 + 1) + 1) : u[i] = s[(2 + 1) + i - 1]
    BY <1>1, <2>1, SubSeqProperties
  <2>3. Len(s) - (2 + 1) + 1 = Len(s) - 2 /\ \A i \in 1..(Len(s) - 2) : (2 + 1) + i - 1 = i + 2
    BY <1>1
  <2> HIDE DEF u
  <2>4. Len(u) = Len(s) - 2
    <3>1. CASE 2 + 1 <= Len(s)
      BY <1>1, <2>2, <3>1
    <3>2. CASE Len(s) = 2
      BY <2>2, <3>2
    <3>3. 2 + 1 <= Len(s) \/ Len(s) = 2
      <4>1. \A k \in Nat : k > 1 => 2 + 1 <= k \/ k = 2
        OBVIOUS
      <4> QED BY <1>1, <4>1
    <3> QED BY <3>1, <3>2, <3>3
  <2> QED BY <2>2, <2>3, <2>4 DEF Words
<1> HIDE DEF u
<1>6. u = Tail(t)
  <2>1. Len(u) = Len(Tail(t)) /\ \A i \in 1..Len(u) : u[i] = Tail(t)[i]
    BY <1>4, <1>5
  <2> QED BY <1>4, <1>5, <2>1, WordsEqual
<1> QED BY <1>2, <1>3, <1>6 DEF t, u, Unread

LEMMA PartOfPart ==
  ASSUME NEW s \in Words, NEW t \in Words, NEW u \in Words, IsPrefix(s, t), IsPrefix(t, u)
  PROVE  IsPrefix(s, u)
<1>1. ASSUME NEW a \in Words, NEW b \in Words, IsPrefix(a, b)
      PROVE  Len(a) \in Nat /\ Len(a) <= Len(b) /\ Len(b) \in Nat /\ \A i \in 1..Len(a) : b[i] = a[i]
  <2>1. Len(a) \in Nat /\ Len(b) \in Nat
    BY WordIs
  <2>2. Len(a) <= Len(b) /\ SubSeq(a, 1, Len(a)) = SubSeq(b, 1, Len(a))
    BY <1>1 DEF IsPrefix
  <2>3. SubSeq(a, 1, Len(a)) = a
    BY SubSeqFull DEF Words
  <2>4. \A i \in 1..Len(a) : SubSeq(b, 1, Len(a))[i] = b[i]
    <3>1. \A i \in 1..Len(a) : b[i] \in Units
      BY <2>1, <2>2, WordIs
    <3>2. \A i \in 1..(Len(a) - 1 + 1) : SubSeq(b, 1, Len(a))[i] = b[1 + i - 1]
      BY <2>1, <2>2, <3>1, SubSeqProperties
    <3> QED BY <2>1, <3>2
  <2> QED BY <2>1, <2>2, <2>3, <2>4
<1>2. Len(s) \in Nat /\ Len(s) <= Len(t) /\ Len(t) \in Nat /\ \A i \in 1..Len(s) : t[i] = s[i]
  BY <1>1
<1>3. Len(t) <= Len(u) /\ Len(u) \in Nat /\ \A i \in 1..Len(t) : u[i] = t[i]
  BY <1>1
<1>4. Len(s) <= Len(u) /\ \A i \in 1..Len(s) : u[i] = s[i]
  BY <1>2, <1>3
<1> QED BY <1>4, BeginningIs

-----------------------------------------------------------------------------
(***************************************************************************)
(* Ends of lines: the invariant.                                           *)
(***************************************************************************)

Loops == [in : {"none", "encode", "decode"}, left : Nat, room : Nat, moved : BOOLEAN]

EolParts ==
  /\ {text, src, encoded, mid, decoded} \subseteq Words
  /\ loop \in Loops
  /\ EolTypeOK

\* What an engine has made, with what it owes, is what the units it has taken
\* become.
Owed(pending) == IF pending THEN <<LF>> ELSE <<>>

Encodes(t, s, e, p) ==
  t # <<>> => \E taken \in Words : t = taken \o s /\ e \o Owed(p) = Encoded(taken)

\* The decoder has a CR of which it does not know yet what it is, or it has not,
\* and then what follows cannot be the LF of its last CR.
Clean(c) == Len(c) > 0 => c[Len(c)] # CR
Settled(c, m, p, d, over) ==
  IF p THEN \E b \in Words : c = Append(b, CR) /\ d = Decoded(b)
  ELSE d = Decoded(c) /\ Apart(c, m) /\ (Len(m) = 0 => Clean(c) \/ over)

Decodes(e, m, p, d, over) ==
  \E c \in Words : e = c \o m /\ Settled(c, m, p, d, over)

\* A call that has not moved anything has room and units left.
Underway == loop.in # "none" /\ ~loop.moved => loop.room > 0 /\ loop.left > 0

EolSound ==
  /\ EolParts
  /\ Encodes(text, src, encoded, encPending)
  /\ Decodes(encoded, mid, decPending, decoded, decEnded)
  /\ Underway

LEMMA CleanIsApart ==
  ASSUME NEW c \in Words, NEW m, Clean(c)
  PROVE  Apart(c, m)
BY DEF Clean, Apart

LEMMA SettledAnyway ==
  ASSUME NEW c \in Words, NEW m \in Words, NEW o \in Words, NEW p \in BOOLEAN, NEW d,
         NEW over \in BOOLEAN, Settled(c, m, p, d, over), over => o = <<>>
  PROVE  IsPrefix(d, Decoded((c \o m) \o o)) /\ d \in Words
<1> DEFINE u == m \o o
<1>1. u \in Words /\ (c \o m) \o o = c \o u
  <2>1. m \o o \in Words
    BY JoinedIs
  <2>2. (c \o m) \o o = c \o (m \o o)
    BY JoinedWith
  <2> QED BY <2>1, <2>2
<1>2. Len(m) > 0 => Len(u) > 0 /\ u[1] = m[1]
  <2>1. Len(m) \in Nat /\ Len(o) \in Nat
    BY WordIs
  <2>2. /\ Len(u) = Len(m) + Len(o)
        /\ \A i \in 1..(Len(m) + Len(o)) : u[i] = IF i <= Len(m) THEN m[i] ELSE o[i - Len(m)]
    BY JoinedIs
  <2> HIDE DEF u
  <2> QED BY <2>1, <2>2
<1>3. Len(m) = 0 => u = o
  <2>1. Len(m) = 0 => m = <<>>
    BY WordIs
  <2> QED BY <2>1, JoinedWith
<1> HIDE DEF u
<1>4. CASE p
  <2>1. PICK b \in Words : c = Append(b, CR) /\ d = Decoded(b)
    BY <1>4 DEF Settled
  <2>2. CR \in Units /\ CR # LF
    BY UnitsAre
  <2>3. PICK v \in Words : Append(b, CR) \o u = b \o v /\ v[1] = CR
    BY <1>1, <2>2, LastOver
  <2>4. c \o u = b \o v /\ v[1] = CR
    BY <2>1, <2>3
  <2>5. Apart(b, v)
    BY <2>2, <2>4 DEF Apart
  <2>6. IsPrefix(Decoded(b), Decoded(b \o v))
    BY <2>4, <2>5, DecodedStarts
  <2> QED BY <1>1, <2>1, <2>4, <2>6, DecodedIs
<1>5. CASE ~p
  <2>1. d = Decoded(c) /\ Apart(c, m) /\ (Len(m) = 0 => Clean(c) \/ over)
    BY <1>5 DEF Settled
  <2>2. Apart(c, u)
    <3>1. CASE Len(m) = 0 /\ over
      <4>1. Len(u) = 0
        BY <1>3, <3>1, NoWord
      <4> QED BY <4>1 DEF Apart
    <3>2. CASE Len(m) = 0 /\ Clean(c)
      BY <3>2, CleanIsApart
    <3>3. CASE Len(m) > 0
      BY <1>2, <2>1, <3>3 DEF Apart
    <3>4. Len(m) \in Nat
      BY WordIs
    <3> QED BY <2>1, <3>1, <3>2, <3>3, <3>4
  <2>3. IsPrefix(Decoded(c), Decoded(c \o u))
    BY <1>1, <2>2, DecodedStarts
  <2> QED BY <1>1, <2>1, <2>3, DecodedIs
<1> QED BY <1>4, <1>5

LEMMA OwedIs ==
  ASSUME NEW p \in BOOLEAN
  PROVE  Owed(p) \in Words /\ (~p => Owed(p) = <<>>) /\ (p => Owed(p) = <<LF>>)
<1>1. <<LF>> \in Words /\ <<>> \in Words
  BY UnitsAre, NoWord DEF Words
<1> QED BY <1>1 DEF Owed

LEMMA EolTypes ==
  ASSUME EolParts
  PROVE  /\ text \in Words /\ src \in Words /\ encoded \in Words /\ mid \in Words /\ decoded \in Words
         /\ encPending \in BOOLEAN /\ encEnded \in BOOLEAN
         /\ decPending \in BOOLEAN /\ decEnded \in BOOLEAN
         /\ loop \in Loops
         /\ loop.in \in {"none", "encode", "decode"} /\ loop.left \in Nat /\ loop.room \in Nat
         /\ loop.moved \in BOOLEAN
         /\ loop.in = "encode" => loop.left <= Len(src)
         /\ loop.in = "decode" => loop.left <= Len(mid)
         /\ encPending => encoded # <<>> /\ Last(encoded) = CR
         /\ encEnded => src = <<>> /\ ~encPending
         /\ decEnded => encEnded /\ mid = <<>> /\ ~decPending
<1>1. encPending \in BOOLEAN /\ encEnded \in BOOLEAN /\ decPending \in BOOLEAN /\ decEnded \in BOOLEAN
  BY DEF EolParts, EolTypeOK
<1>2. loop.in \in {"none", "encode", "decode"} /\ loop.left \in Nat /\ loop.room \in Nat
      /\ loop.moved \in BOOLEAN
  BY DEF EolParts, Loops
<1> QED BY <1>1, <1>2 DEF EolParts, EolTypeOK

\* The invariant says what is claimed.
LEMMA SoundIsLines ==
  ASSUME EolSound
  PROVE  EndsOfLines
<1>1. /\ text \in Words /\ src \in Words /\ encoded \in Words /\ mid \in Words
      /\ encPending \in BOOLEAN /\ decPending \in BOOLEAN /\ decEnded \in BOOLEAN /\ encEnded \in BOOLEAN
      /\ encEnded => src = <<>> /\ ~encPending
      /\ decEnded => encEnded /\ mid = <<>> /\ ~decPending
  BY EolTypes DEF EolSound
<1> DEFINE o == Owed(encPending)
<1>2. o \in Words /\ (~encPending => o = <<>>)
  BY <1>1, OwedIs
<1> HIDE DEF o
<1>3. PICK c \in Words : encoded = c \o mid /\ Settled(c, mid, decPending, decoded, decEnded)
  BY DEF EolSound, Decodes
<1>4. IsPrefix(decoded, Decoded(encoded \o o)) /\ decoded \in Words
  BY <1>1, <1>2, <1>3, SettledAnyway
<1>5. IsPrefix(decoded, Decoded(encoded))
  <2> DEFINE e == <<>>
  <2>1. e \in Words /\ encoded \o e = encoded
    BY <1>1, NoWord, JoinedWith
  <2>2. IsPrefix(decoded, Decoded((c \o mid) \o e))
    BY <1>1, <1>3, <2>1, SettledAnyway
  <2> QED BY <1>3, <2>1, <2>2
<1>6. decEnded => decoded = Decoded(encoded)
  <2>1. decEnded => c = encoded
    BY <1>1, <1>3, JoinedWith
  <2> QED BY <1>1, <1>3, <2>1 DEF Settled
<1>7. EncodesText /\ RoundTrip
  <2> SUFFICES ASSUME text # <<>> PROVE EncodesText /\ RoundTrip
    BY DEF EncodesText, RoundTrip
  <2>1. PICK taken \in Words : text = taken \o src /\ encoded \o o = Encoded(taken)
    BY DEF EolSound, Encodes, o
  <2>2. Encoded(taken) \in Words /\ Encoded(text) \in Words
    BY <1>1, EncodedIs
  <2>3. IsPrefix(encoded, Encoded(text))
    <3>1. IsPrefix(encoded, encoded \o o)
      BY <1>1, <1>2, PartOfJoined
    <3>2. IsPrefix(Encoded(taken), Encoded(taken \o src))
      BY <1>1, EncodedStarts
    <3> QED BY <1>1, <2>1, <2>2, <3>1, <3>2, PartOfPart
  <2>4. encEnded => encoded = Encoded(text) /\ text = taken
    <3>1. encoded \o <<>> = encoded /\ taken \o <<>> = taken
      BY <1>1, JoinedWith
    <3> QED BY <1>1, <1>2, <2>1, <3>1
  <2>5. Decoded(Encoded(taken)) = taken
    BY BackAgain
  <2>6. IsPrefix(decoded, text)
    <3>1. IsPrefix(taken, taken \o src)
      BY <1>1, PartOfJoined
    <3> QED BY <1>1, <1>4, <2>1, <2>5, <3>1, PartOfPart
  <2>7. decEnded => decoded = text
    BY <1>1, <1>6, <2>4, <2>5
  <2> QED BY <2>3, <2>4, <2>6, <2>7 DEF EncodesText, RoundTrip
<1>8. DecodesStream
  BY <1>5, <1>6 DEF DecodesStream
<1>9. Moves
  <2> SUFFICES ASSUME CallEnds("encode", encPending) \/ CallEnds("decode", FALSE), ~loop.moved
      PROVE FALSE
    BY DEF Moves
  <2>1. loop.in # "none" /\ (loop.room = 0 \/ loop.left = 0)
    BY DEF CallEnds
  <2>2. loop.room > 0 /\ loop.left > 0
    BY <2>1 DEF EolSound, Underway
  <2> QED BY <2>1, <2>2
<1>10. EolTypeOK
  BY DEF EolSound, EolParts
<1> QED BY <1>7, <1>8, <1>9, <1>10 DEF EndsOfLines

LEMMA EolInitSound ==
  ASSUME EolInit
  PROVE  EolSound
<1>1. <<>> \in Words /\ Len(<<>>) = 0
  BY NoWord
<1>2. /\ encPending = FALSE /\ decPending = FALSE /\ decoded = <<>> /\ decEnded = FALSE
      /\ loop = NoLoop
  BY DEF EolInit
<1>3. loop \in Loops /\ loop.in = "none"
  BY <1>2 DEF NoLoop, Loops
<1>4. /\ {text, src, encoded, mid} \subseteq Words /\ mid = encoded
      /\ encEnded \in BOOLEAN /\ (encEnded => src = <<>>)
      /\ text # <<>> => src = text /\ encoded = <<>>
  BY <1>1, EolAssumption DEF EolInit, Words
<1>5. EolParts
  BY <1>1, <1>2, <1>3, <1>4 DEF EolParts, EolTypeOK, NoLoop
<1>6. Encodes(text, src, encoded, encPending)
  <2> SUFFICES ASSUME text # <<>>
      PROVE \E taken \in Words : text = taken \o src /\ encoded \o Owed(encPending) = Encoded(taken)
    BY DEF Encodes
  <2>1. text = <<>> \o src
    BY <1>4, JoinedWith
  <2>2. encoded \o Owed(encPending) = Encoded(<<>>)
    <3>1. Owed(encPending) = <<>>
      BY <1>2 DEF Owed
    <3>2. <<>> \o <<>> = <<>>
      BY <1>1, JoinedWith
    <3> QED BY <1>4, <3>1, <3>2, EncodedEmpty
  <2> QED BY <1>1, <2>1, <2>2
<1>7. Decodes(encoded, mid, decPending, decoded, decEnded)
  <2>1. encoded = <<>> \o mid
    BY <1>4, JoinedWith
  <2>2. Clean(<<>>) /\ Apart(<<>>, mid)
    BY <1>1 DEF Clean, Apart
  <2>3. Settled(<<>>, mid, decPending, decoded, decEnded)
    BY <1>2, <2>2, DecodedEmpty DEF Settled
  <2> QED BY <1>1, <2>1, <2>3 DEF Decodes
<1> QED BY <1>3, <1>5, <1>6, <1>7 DEF EolSound, Underway

-----------------------------------------------------------------------------
(***************************************************************************)
(* Ends of lines: the rounds keep the invariant.                           *)
(***************************************************************************)

LEMMA RoundIs ==
  ASSUME loop \in Loops, NEW taken \in 0..loop.left, NEW made \in 0..loop.room, Round(taken, made)
  PROVE  /\ loop' \in Loops /\ loop'.in = loop.in /\ loop'.left = loop.left - taken
         /\ loop'.room = loop.room - made /\ loop'.moved = TRUE
<1>1. loop.left \in Nat /\ loop.room \in Nat
  BY DEF Loops
<1>2. loop.left - taken \in Nat /\ loop.room - made \in Nat
  BY <1>1
<1>3. loop' = [loop EXCEPT !.left = loop.left - taken, !.room = loop.room - made, !.moved = TRUE]
  BY DEF Round
<1> QED BY <1>2, <1>3 DEF Loops

LEMMA RoundUnderway ==
  ASSUME loop'.moved = TRUE
  PROVE  Underway'
BY DEF Underway

LEMMA BeginsKeeps ==
  ASSUME EolSound, NEW which \in {"encode", "decode"}, NEW s \in Words,
         which = "encode" => s = src, which = "decode" => s = mid, Begins(which, s)
  PROVE  EolSound'
<1>1. Len(s) \in Nat /\ loop = NoLoop
  BY WordIs DEF Begins
<1>2. PICK n \in Windows \cap 1..Len(s), room \in Windows \ {0} :
        loop' = [in |-> which, left |-> n, room |-> room, moved |-> FALSE]
  BY DEF Begins
<1>3. n \in Nat /\ n > 0 /\ n <= Len(s) /\ room \in Nat /\ room > 0
  BY <1>1, EolAssumption
<1>4. loop' \in Loops /\ loop'.in = which /\ loop'.left = n /\ loop'.room = room /\ loop'.moved = FALSE
  BY <1>2, <1>3 DEF Loops
<1>5. /\ text' = text /\ src' = src /\ encPending' = encPending /\ encoded' = encoded
      /\ encEnded' = encEnded /\ mid' = mid /\ decPending' = decPending /\ decoded' = decoded
      /\ decEnded' = decEnded
  BY DEF Begins, enc, dec
<1>6. EolParts'
  <2>1. EolParts
    BY DEF EolSound
  <2> QED BY <1>3, <1>4, <1>5, <2>1 DEF EolParts, EolTypeOK, Loops
<1>7. Underway'
  BY <1>3, <1>4 DEF Underway
<1>8. /\ Encodes(text', src', encoded', encPending')
      /\ Decodes(encoded', mid', decPending', decoded', decEnded')
  BY <1>5 DEF EolSound
<1> QED BY <1>6, <1>7, <1>8 DEF EolSound

LEMMA ReturnKeeps ==
  ASSUME EolSound, loop' = NoLoop, UNCHANGED <<enc, dec>>
  PROVE  EolSound'
<1>1. loop' \in Loops /\ loop'.in = "none"
  BY DEF NoLoop, Loops
<1>2. /\ text' = text /\ src' = src /\ encPending' = encPending /\ encoded' = encoded
      /\ encEnded' = encEnded /\ mid' = mid /\ decPending' = decPending /\ decoded' = decoded
      /\ decEnded' = decEnded
  BY DEF enc, dec
<1>3. EolParts'
  <2>1. EolParts
    BY DEF EolSound
  <2> QED BY <1>1, <1>2, <2>1 DEF EolParts, EolTypeOK, Loops
<1>4. Underway'
  BY <1>1 DEF Underway
<1>5. /\ Encodes(text', src', encoded', encPending')
      /\ Decodes(encoded', mid', decPending', decoded', decEnded')
  BY <1>2 DEF EolSound
<1> QED BY <1>3, <1>4, <1>5 DEF EolSound

\* What the encoder makes joins what the decoder has not taken.
LEMMA EmitKeeps ==
  ASSUME EolSound, NEW made \in Words, Len(made) > 0, Emit(made), ~decEnded,
         UNCHANGED <<decPending, decoded, decEnded>>
  PROVE  /\ encoded' \in Words /\ mid' \in Words
         /\ encoded' # <<>> /\ Last(encoded') = made[Len(made)]
         /\ Len(mid') >= Len(mid)
         /\ Decodes(encoded', mid', decPending', decoded', decEnded')
<1>1. encoded \in Words /\ mid \in Words /\ decPending \in BOOLEAN
  BY EolTypes DEF EolSound
<1>2. encoded' = encoded \o made /\ mid' = mid \o made
  BY DEF Emit
<1>3. Len(encoded) \in Nat /\ Len(mid) \in Nat /\ Len(made) \in Nat
  BY <1>1, WordIs
<1>4. /\ encoded' \in Words /\ Len(encoded') = Len(encoded) + Len(made)
      /\ \A i \in 1..(Len(encoded) + Len(made)) :
           encoded'[i] = IF i <= Len(encoded) THEN encoded[i] ELSE made[i - Len(encoded)]
  BY <1>1, <1>2, JoinedIs
<1>5. /\ mid' \in Words /\ Len(mid') = Len(mid) + Len(made)
      /\ \A i \in 1..(Len(mid) + Len(made)) :
           mid'[i] = IF i <= Len(mid) THEN mid[i] ELSE made[i - Len(mid)]
  BY <1>1, <1>2, JoinedIs
<1>6. encoded' # <<>> /\ Last(encoded') = made[Len(made)]
  <2> DEFINE l == Len(encoded) + Len(made)
  <2>1. l \in 1..l /\ ~(l <= Len(encoded)) /\ l - Len(encoded) = Len(made)
    BY <1>3
  <2>2. encoded'[l] = made[Len(made)]
    BY <1>4, <2>1
  <2>3. encoded' # <<>>
    BY <1>3, <1>4, WordIs
  <2> QED BY <1>4, <2>2, <2>3 DEF Last
<1>7. Decodes(encoded', mid', decPending', decoded', decEnded')
  <2>1. PICK c \in Words : encoded = c \o mid /\ Settled(c, mid, decPending, decoded, decEnded)
    BY DEF EolSound, Decodes
  <2>2. encoded' = c \o mid'
    <3>1. (c \o mid) \o made = c \o (mid \o made)
      BY <1>1, JoinedWith
    <3> QED BY <1>2, <2>1, <3>1
  <2>3. Settled(c, mid', decPending, decoded, decEnded)
    <3>1. CASE decPending
      BY <2>1, <3>1 DEF Settled
    <3>2. CASE ~decPending
      <4>1. decoded = Decoded(c) /\ Apart(c, mid) /\ (Len(mid) = 0 => Clean(c))
        BY <2>1, <3>2 DEF Settled
      <4>2. Len(mid') > 0
        BY <1>3, <1>5
      <4>3. CASE Len(mid) = 0
        BY <3>2, <4>1, <4>2, <4>3, CleanIsApart DEF Settled
      <4>4. CASE Len(mid) > 0
        <5>1. 1 \in 1..(Len(mid) + Len(made)) /\ 1 <= Len(mid)
          BY <1>3, <4>4
        <5>2. mid'[1] = mid[1]
          BY <1>5, <5>1
        <5> QED BY <3>2, <4>1, <4>2, <4>4, <5>2 DEF Settled, Apart
      <4> QED BY <1>3, <4>3, <4>4
    <3> QED BY <3>1, <3>2
  <2> QED BY <2>2, <2>3 DEF Decodes
<1> QED BY <1>3, <1>4, <1>5, <1>6, <1>7

\* The encoder has taken one unit more, and made what that makes or owes a part.
LEMMA UnitEncoded ==
  ASSUME EolSound, ~encPending, Len(src) > 0, src' = Tail(src), text' = text,
         encoded' \o Owed(encPending') = encoded \o Made(Head(src))
  PROVE  Encodes(text', src', encoded', encPending')
<1> SUFFICES ASSUME text' # <<>>
    PROVE  \E taken \in Words : text' = taken \o src' /\ encoded' \o Owed(encPending') = Encoded(taken)
  BY DEF Encodes
<1>1. src \in Words /\ encoded \in Words /\ Head(src) \in Units
  BY EolTypes, HeadOff DEF EolSound
<1>2. PICK taken \in Words : text = taken \o src /\ encoded \o Owed(encPending) = Encoded(taken)
  BY DEF EolSound, Encodes
<1> DEFINE more == Append(taken, Head(src))
<1>3. more \in Words /\ text' = more \o src'
  BY <1>1, <1>2, HeadOver
<1>4. Encoded(taken) = encoded
  <2>1. Owed(encPending) = <<>>
    BY DEF Owed
  <2> QED BY <1>1, <1>2, <2>1, JoinedWith
<1>5. Encoded(more) = Encoded(taken) \o Made(Head(src))
  BY <1>1, EncodedGrows
<1> QED BY <1>3, <1>4, <1>5

\* The encoder has made what it owed.
LEMMA OwedEncoded ==
  ASSUME EolSound, encPending, ~encPending', UNCHANGED <<text, src>>, encoded' = encoded \o <<LF>>
  PROVE  Encodes(text', src', encoded', encPending')
<1>1. encoded \in Words /\ <<LF>> \in Words
  BY EolTypes, UnitsAre DEF EolSound, Words
<1>2. encoded' \in Words
  BY <1>1, JoinedIs
<1>3. Owed(encPending) = <<LF>> /\ Owed(encPending') = <<>>
  BY DEF Owed
<1>4. encoded' \o Owed(encPending') = encoded \o Owed(encPending)
  <2>1. encoded' \o <<>> = encoded'
    BY <1>2, JoinedWith
  <2> QED BY <1>3, <2>1
<1> QED BY <1>4 DEF EolSound, Encodes

LEMMA EncodeSecondKeeps == EolSound /\ EncodeSecond => EolSound'
<1> SUFFICES ASSUME EolSound, EncodeSecond PROVE EolSound'
  OBVIOUS
<1> DEFINE m == <<LF>>
<1>1. m \in Words /\ Len(m) = 1
  BY UnitsAre DEF Words
<1>2. EolParts /\ loop.in = "encode" /\ encPending /\ loop.room > 0 /\ encPending' = FALSE
  BY DEF EncodeSecond, EolSound
<1>3. Round(0, 1) /\ Emit(m) /\ src' = src /\ text' = text /\ encEnded' = encEnded
      /\ decPending' = decPending /\ decoded' = decoded /\ decEnded' = decEnded
  BY DEF EncodeSecond, EncoderOnly
<1>4. ~encEnded /\ ~decEnded
  BY <1>2, EolTypes
<1> HIDE DEF m
<1>5. /\ encoded' \in Words /\ mid' \in Words
      /\ Decodes(encoded', mid', decPending', decoded', decEnded')
  BY <1>1, <1>3, <1>4, EmitKeeps
<1>6. loop' \in Loops /\ loop'.in = loop.in /\ loop'.left = loop.left /\ loop'.moved = TRUE
  <2>1. loop \in Loops /\ 0 \in 0..loop.left /\ 1 \in 0..loop.room /\ loop.left - 0 = loop.left
    BY <1>2, EolTypes
  <2> QED BY <1>3, <2>1, RoundIs
<1>7. Encodes(text', src', encoded', encPending')
  <2>1. encoded' = encoded \o <<LF>>
    BY <1>3 DEF Emit, m
  <2> QED BY <1>2, <1>3, <2>1, OwedEncoded
<1>8. EolParts'
  BY <1>2, <1>3, <1>4, <1>5, <1>6 DEF EolParts, EolTypeOK, Loops
<1> QED BY <1>5, <1>6, <1>7, <1>8, RoundUnderway DEF EolSound

\* A round of the encoder that takes a unit.
LEMMA EncodeTakes ==
  ASSUME EolSound, Encoding, NEW made \in Words, Len(made) > 0, NEW k \in 1..loop.room,
         Round(1, k), Emit(made), src' = Tail(src), encPending' \in BOOLEAN, EncoderOnly,
         encPending' => made[Len(made)] = CR,
         (encoded \o made) \o Owed(encPending') = encoded \o Made(Head(src))
  PROVE  EolSound'
<1>1. /\ EolParts /\ loop.in = "encode" /\ ~encPending /\ loop.left > 0 /\ loop.room > 0
  BY DEF Encoding, EolSound
<1>2. src \in Words /\ loop.left \in Nat /\ loop.room \in Nat /\ loop \in Loops
      /\ loop.left <= Len(src) /\ Len(src) \in Nat
  BY <1>1, EolTypes, WordIs
<1>3. Len(src) > 0
  BY <1>1, <1>2
<1>4. ~encEnded /\ ~decEnded
  <2>1. src # <<>>
    BY <1>2, <1>3, WordIs
  <2> QED BY <1>1, <2>1, EolTypes
<1>5. /\ text' = text /\ encEnded' = encEnded
      /\ decPending' = decPending /\ decoded' = decoded /\ decEnded' = decEnded
  BY DEF EncoderOnly
<1>6. /\ encoded' \in Words /\ mid' \in Words
      /\ encoded' # <<>> /\ Last(encoded') = made[Len(made)]
      /\ Decodes(encoded', mid', decPending', decoded', decEnded')
  BY <1>4, <1>5, EmitKeeps
<1>7. loop' \in Loops /\ loop'.in = "encode" /\ loop'.left = loop.left - 1 /\ loop'.moved = TRUE
  <2>1. 1 \in 0..loop.left /\ k \in 0..loop.room
    BY <1>1, <1>2
  <2> QED BY <1>1, <1>2, <2>1, RoundIs
<1>8. src' \in Words /\ Len(src') = Len(src) - 1
  BY <1>2, <1>3, HeadOff
<1>9. Encodes(text', src', encoded', encPending')
  <2>1. encoded' = encoded \o made
    BY DEF Emit
  <2> QED BY <1>1, <1>3, <1>5, <2>1, UnitEncoded
<1>10. EolParts'
  <2>1. loop'.left <= Len(src')
    BY <1>2, <1>7, <1>8
  <2> QED BY <1>1, <1>4, <1>5, <1>6, <1>7, <1>8, <2>1 DEF EolParts, EolTypeOK, Loops
<1> QED BY <1>6, <1>7, <1>9, <1>10, RoundUnderway DEF EolSound

LEMMA EncodeUnitKeeps == EolSound /\ (EncodePlain \/ EncodePair \/ EncodeFirst) => EolSound'
<1> SUFFICES ASSUME EolSound, EncodePlain \/ EncodePair \/ EncodeFirst PROVE EolSound'
  OBVIOUS
<1>1. Encoding /\ src' = Tail(src) /\ EncoderOnly
  BY DEF EncodePlain, EncodePair, EncodeFirst
<1>2. /\ src \in Words /\ encoded \in Words /\ Len(src) > 0 /\ ~encPending
      /\ loop.room \in Nat /\ loop.room > 0
  <2>1. src \in Words /\ encoded \in Words /\ loop.left \in Nat /\ loop.room \in Nat
        /\ (loop.in = "encode" => loop.left <= Len(src)) /\ Len(src) \in Nat
    BY EolTypes, WordIs DEF EolSound
  <2> QED BY <1>1, <2>1 DEF Encoding
<1>3. Head(src) \in Units /\ CR \in Units /\ LF \in Units
  BY <1>2, HeadOff, UnitsAre
<1>4. ASSUME NEW made \in Words PROVE (encoded \o made) \o <<>> = encoded \o made
  <2>1. encoded \o made \in Words
    BY <1>2, JoinedIs
  <2> QED BY <2>1, JoinedWith
<1>5. CASE EncodePlain
  <2> DEFINE m == <<Head(src)>>
  <2>1. m \in Words /\ Len(m) = 1 /\ m = Made(Head(src))
    BY <1>3, <1>5 DEF Words, Made, EncodePlain
  <2>2. Round(1, 1) /\ Emit(m) /\ encPending' = FALSE
    BY <1>2, <1>5, EolTypes DEF EncodePlain, EolSound
  <2> HIDE DEF m
  <2>3. 1 \in 1..loop.room
    BY <1>2
  <2>4. (encoded \o m) \o Owed(encPending') = encoded \o Made(Head(src))
    <3>1. Owed(encPending') = <<>>
      BY <2>2 DEF Owed
    <3>2. (encoded \o m) \o <<>> = encoded \o m
      BY <1>4, <2>1
    <3> QED BY Zenon, <2>1, <3>1, <3>2
  <2>5. encPending' \in BOOLEAN /\ ~encPending'
    BY Zenon, <2>2
  <2>6. Len(m) > 0
    BY <2>1
  <2> QED BY <1>1, <2>1, <2>2, <2>3, <2>4, <2>5, <2>6, EncodeTakes
<1>6. CASE EncodePair
  <2> DEFINE m == <<CR, LF>>
  <2>1. m \in Words /\ Len(m) = 2 /\ m = Made(Head(src))
    BY <1>3, <1>6 DEF Words, Made, EncodePair
  <2>2. Round(1, 2) /\ Emit(m) /\ encPending' = FALSE /\ loop.room > 1
    BY <1>2, <1>6, EolTypes DEF EncodePair, EolSound
  <2> HIDE DEF m
  <2>3. 2 \in 1..loop.room
    BY <1>2, <2>2
  <2>4. (encoded \o m) \o Owed(encPending') = encoded \o Made(Head(src))
    <3>1. Owed(encPending') = <<>>
      BY <2>2 DEF Owed
    <3>2. (encoded \o m) \o <<>> = encoded \o m
      BY <1>4, <2>1
    <3> QED BY Zenon, <2>1, <3>1, <3>2
  <2>5. encPending' \in BOOLEAN /\ ~encPending'
    BY Zenon, <2>2
  <2>6. Len(m) > 0
    BY <2>1
  <2> QED BY <1>1, <2>1, <2>2, <2>3, <2>4, <2>5, <2>6, EncodeTakes
<1>7. CASE EncodeFirst
  <2> DEFINE m == <<CR>>
             o == <<LF>>
  <2>1. m \in Words /\ Len(m) = 1 /\ m[1] = CR /\ o \in Words
    BY <1>3 DEF Words
  <2>2. Round(1, 1) /\ Emit(m) /\ encPending' = TRUE /\ Head(src) = LF
    BY <1>7 DEF EncodeFirst
  <2>3. Owed(encPending') = o /\ m \o o = Made(Head(src))
    BY <1>3, <2>2, TwoUnits DEF Owed, Made
  <2> HIDE DEF m, o
  <2>4. 1 \in 1..loop.room
    BY <1>2
  <2>5. (encoded \o m) \o o = encoded \o (m \o o)
    BY <1>2, <2>1, JoinedWith
  <2>6. (encoded \o m) \o Owed(encPending') = encoded \o Made(Head(src))
    BY <2>3, <2>5
  <2>7. Len(m) > 0 /\ encPending' \in BOOLEAN /\ m[Len(m)] = CR
    BY <2>1, <2>2
  <2> QED BY <1>1, <2>1, <2>2, <2>4, <2>6, <2>7, EncodeTakes
<1> QED BY <1>5, <1>6, <1>7

LEMMA EncodeDrainKeeps == EolSound /\ EncodeDrain => EolSound'
<1> SUFFICES ASSUME EolSound, EncodeDrain PROVE EolSound'
  OBVIOUS
<1> DEFINE m == <<LF>>
<1>1. m \in Words /\ Len(m) = 1
  BY UnitsAre DEF Words
<1>2. /\ EolParts /\ loop = NoLoop /\ ~encEnded
      /\ text' = text /\ src' = src /\ loop' = loop
      /\ decPending' = decPending /\ decoded' = decoded /\ decEnded' = decEnded
  BY DEF EncodeDrain, EolSound
<1>3. ~decEnded /\ encPending \in BOOLEAN
  BY <1>2, EolTypes
<1>4. encEnded' \in BOOLEAN /\ (encEnded' => src = <<>> /\ ~encPending')
  <2>1. encEnded \in BOOLEAN /\ encEnded = FALSE
    BY <1>2, EolTypes
  <2>2. encEnded' = encEnded \/ encEnded' = (src = <<>> /\ ~encPending')
    BY Zenon DEF EncodeDrain
  <2> QED BY Zenon, <2>1, <2>2
<1>5. Underway'
  BY <1>2 DEF Underway, NoLoop
<1>6. CASE encPending /\ encPending' = FALSE /\ Emit(m)
  <2> HIDE DEF m
  <2>1. /\ encoded' \in Words /\ mid' \in Words
        /\ Decodes(encoded', mid', decPending', decoded', decEnded')
    BY <1>1, <1>2, <1>3, <1>6, EmitKeeps
  <2>2. Encodes(text', src', encoded', encPending')
    <3>1. encoded' = encoded \o <<LF>>
      BY <1>6 DEF Emit, m
    <3> QED BY <1>2, <1>6, <3>1, OwedEncoded
  <2>3. EolParts'
    BY <1>2, <1>3, <1>4, <1>6, <2>1 DEF EolParts, EolTypeOK, NoLoop
  <2> QED BY <1>5, <2>1, <2>2, <2>3 DEF EolSound
<1>7. CASE UNCHANGED <<encPending, encoded, mid>>
  <2>1. EolParts'
    BY <1>2, <1>3, <1>4, <1>7 DEF EolParts, EolTypeOK, NoLoop
  <2>2. /\ Encodes(text', src', encoded', encPending')
        /\ Decodes(encoded', mid', decPending', decoded', decEnded')
    BY <1>2, <1>7 DEF EolSound
  <2> QED BY <1>5, <2>1, <2>2 DEF EolSound
<1> QED BY <1>6, <1>7 DEF EncodeDrain

LEMMA DecodingIs ==
  ASSUME EolSound, Decoding
  PROVE  /\ mid \in Words /\ decoded \in Words /\ decPending \in BOOLEAN /\ encoded \in Words
         /\ loop.left \in Nat /\ loop.room \in Nat /\ loop.left > 0 /\ loop.room > 0
         /\ loop.left <= Len(mid) /\ Len(mid) \in Nat /\ Len(mid) > 0
         /\ Head(mid) \in Units /\ Head(mid) = mid[1] /\ ~decEnded
         /\ Tail(mid) \in Words /\ Len(Tail(mid)) = Len(mid) - 1
<1>1. /\ mid \in Words /\ decoded \in Words /\ decPending \in BOOLEAN /\ encoded \in Words
      /\ loop.left \in Nat /\ loop.room \in Nat
      /\ loop.in = "decode" => loop.left <= Len(mid)
      /\ decEnded => mid = <<>>
  BY EolTypes DEF EolSound
<1>2. loop.in = "decode" /\ loop.left > 0 /\ loop.room > 0
  BY DEF Decoding
<1>3. Len(mid) \in Nat /\ Len(mid) > 0
  BY <1>1, <1>2, WordIs
<1>4. ~decEnded
  BY <1>1, <1>3, NoWord
<1> QED BY <1>1, <1>2, <1>3, <1>4, HeadOff

\* A round of the decoder leaves what it should of its source.
LEMMA DecoderRound ==
  ASSUME EolSound, Decoding, NEW taken \in 0..loop.left, NEW made \in 0..loop.room,
         Round(taken, made), UNCHANGED <<enc, decEnded>>, decPending' \in BOOLEAN,
         mid' \in Words, Len(mid') = Len(mid) - taken, decoded' \in Words,
         Decodes(encoded, mid', decPending', decoded', decEnded)
  PROVE  EolSound'
<1>1. EolParts /\ loop \in Loops /\ loop.in = "decode"
  BY DEF EolSound, EolParts, Decoding
<1>2. loop.left \in Nat /\ loop.left <= Len(mid) /\ Len(mid) \in Nat /\ ~decEnded
  BY DecodingIs
<1>3. /\ text' = text /\ src' = src /\ encPending' = encPending /\ encoded' = encoded
      /\ encEnded' = encEnded /\ decEnded' = decEnded
  BY DEF enc
<1>4. loop' \in Loops /\ loop'.in = "decode" /\ loop'.left = loop.left - taken /\ loop'.moved = TRUE
  BY <1>1, RoundIs
<1>5. loop'.left <= Len(mid')
  BY <1>2, <1>4
<1>6. EolParts'
  BY <1>1, <1>2, <1>3, <1>4, <1>5 DEF EolParts, EolTypeOK, Loops
<1>7. /\ Encodes(text', src', encoded', encPending')
      /\ Decodes(encoded', mid', decPending', decoded', decEnded')
  BY <1>3 DEF EolSound
<1> QED BY <1>4, <1>6, <1>7, RoundUnderway DEF EolSound

LEMMA DecodeJoinedKeeps == EolSound /\ DecodeJoined => EolSound'
<1> SUFFICES ASSUME EolSound, DecodeJoined PROVE EolSound'
  OBVIOUS
<1>1. /\ Decoding /\ decPending /\ Head(mid) = LF /\ Round(1, 1) /\ decoded' = Append(decoded, LF)
      /\ decPending' = FALSE /\ mid' = Tail(mid) /\ UNCHANGED <<enc, decEnded>>
  BY DEF DecodeJoined
<1>2. /\ mid \in Words /\ decoded \in Words /\ Len(mid) > 0
      /\ 1 \in 0..loop.left /\ 1 \in 0..loop.room
      /\ Tail(mid) \in Words /\ Len(Tail(mid)) = Len(mid) - 1
  BY <1>1, DecodingIs
<1>3. LF \in Units /\ CR \in Units /\ CR # LF
  BY UnitsAre
<1>4. PICK c \in Words : encoded = c \o mid /\ Settled(c, mid, decPending, decoded, decEnded)
  BY DEF EolSound, Decodes
<1>5. PICK b \in Words : c = Append(b, CR) /\ decoded = Decoded(b)
  BY <1>1, <1>4 DEF Settled
<1> DEFINE more == Append(c, LF)
<1>6. more \in Words /\ encoded = more \o mid'
  <2>1. Append(c, Head(mid)) \in Words /\ c \o mid = Append(c, Head(mid)) \o Tail(mid)
    BY <1>2, HeadOver
  <2> QED BY <1>1, <1>4, <2>1
<1>7. Clean(more)
  <2>1. Len(c) \in Nat /\ Len(more) = Len(c) + 1 /\ more[Len(c) + 1] = LF
    BY <1>3, AppendedIs, WordIs
  <2> HIDE DEF more
  <2> QED BY <1>3, <2>1 DEF Clean
<1>8. decoded' = Decoded(more)
  BY <1>1, <1>5, DecodedJoins
<1> HIDE DEF more
<1>9. Settled(more, mid', decPending', decoded', decEnded)
  <2>1. Apart(more, mid')
    BY <1>6, <1>7, CleanIsApart
  <2> QED BY <1>1, <1>7, <1>8, <2>1 DEF Settled
<1>10. Decodes(encoded, mid', decPending', decoded', decEnded)
  BY <1>6, <1>9 DEF Decodes
<1>11. decoded' \in Words /\ decPending' \in BOOLEAN /\ mid' \in Words /\ Len(mid') = Len(mid) - 1
  BY <1>1, <1>2, <1>6, <1>8, DecodedIs
<1> QED BY <1>1, <1>2, <1>10, <1>11, DecoderRound

LEMMA DecodeLoneKeeps == EolSound /\ DecodeLone => EolSound'
<1> SUFFICES ASSUME EolSound, DecodeLone PROVE EolSound'
  OBVIOUS
<1>1. /\ Decoding /\ decPending /\ Head(mid) # LF /\ Round(0, 1) /\ decoded' = Append(decoded, CR)
      /\ decPending' = FALSE /\ mid' = mid /\ UNCHANGED <<enc, decEnded>>
  BY DEF DecodeLone, enc
<1>2. /\ mid \in Words /\ Len(mid) > 0 /\ Len(mid) \in Nat /\ Head(mid) = mid[1]
      /\ 0 \in 0..loop.left /\ 1 \in 0..loop.room
  BY <1>1, DecodingIs
<1>3. CR \in Units /\ CR # LF
  BY UnitsAre
<1>4. PICK c \in Words : encoded = c \o mid /\ Settled(c, mid, decPending, decoded, decEnded)
  BY DEF EolSound, Decodes
<1>5. PICK b \in Words : c = Append(b, CR) /\ decoded = Decoded(b)
  BY <1>1, <1>4 DEF Settled
<1>6. decoded' = Decoded(c)
  BY <1>1, <1>3, <1>5, DecodedGrows
<1>7. Settled(c, mid', decPending', decoded', decEnded)
  <2>1. Apart(c, mid')
    BY <1>1, <1>2 DEF Apart
  <2>2. Len(mid') # 0
    BY <1>1, <1>2
  <2> QED BY <1>1, <1>6, <2>1, <2>2 DEF Settled
<1>8. Decodes(encoded, mid', decPending', decoded', decEnded)
  BY <1>1, <1>4, <1>7 DEF Decodes
<1>9. Len(mid') = Len(mid) - 0
  BY <1>1, <1>2
<1>10. decoded' \in Words /\ decPending' \in BOOLEAN /\ mid' \in Words
  BY <1>1, <1>2, <1>6, DecodedIs
<1> QED BY <1>1, <1>2, <1>8, <1>9, <1>10, DecoderRound

LEMMA DecodePlainKeeps == EolSound /\ DecodePlain => EolSound'
<1> SUFFICES ASSUME EolSound, DecodePlain PROVE EolSound'
  OBVIOUS
<1> DEFINE h == Head(mid)
<1>1. /\ Decoding /\ ~decPending /\ h # CR /\ Round(1, 1) /\ decoded' = Append(decoded, h)
      /\ decPending' = decPending /\ mid' = Tail(mid) /\ UNCHANGED <<enc, decEnded>>
  BY DEF DecodePlain
<1>2. /\ mid \in Words /\ Len(mid) > 0 /\ Len(mid) \in Nat /\ h = mid[1] /\ h \in Units
      /\ decPending \in BOOLEAN
      /\ 1 \in 0..loop.left /\ 1 \in 0..loop.room
      /\ Tail(mid) \in Words /\ Len(Tail(mid)) = Len(mid) - 1
  BY <1>1, DecodingIs
<1>3. PICK c \in Words : encoded = c \o mid /\ Settled(c, mid, decPending, decoded, decEnded)
  BY DEF EolSound, Decodes
<1>4. decoded = Decoded(c) /\ Apart(c, mid)
  BY <1>1, <1>3 DEF Settled
<1> DEFINE more == Append(c, h)
<1>5. more \in Words /\ encoded = more \o mid'
  BY <1>1, <1>2, <1>3, HeadOver
<1> HIDE DEF h
<1>6. Clean(more)
  <2>1. Len(c) \in Nat /\ Len(more) = Len(c) + 1 /\ more[Len(c) + 1] = h
    BY <1>2, AppendedIs, WordIs
  <2> HIDE DEF more
  <2> QED BY <1>1, <2>1 DEF Clean
<1>7. decoded' = Decoded(more)
  <2>1. Len(c) > 0 => ~(c[Len(c)] = CR /\ h = LF)
    BY <1>2, <1>4 DEF Apart
  <2> QED BY <1>1, <1>2, <1>4, <2>1, DecodedGrows
<1> HIDE DEF more
<1>8. Settled(more, mid', decPending', decoded', decEnded)
  <2>1. Apart(more, mid')
    BY <1>5, <1>6, CleanIsApart
  <2> QED BY <1>1, <1>6, <1>7, <2>1 DEF Settled
<1>9. Decodes(encoded, mid', decPending', decoded', decEnded)
  BY <1>5, <1>8 DEF Decodes
<1>10. decoded' \in Words /\ decPending' \in BOOLEAN /\ mid' \in Words /\ Len(mid') = Len(mid) - 1
  BY <1>1, <1>2, <1>5, <1>7, DecodedIs
<1> QED BY <1>1, <1>2, <1>9, <1>10, DecoderRound

LEMMA DecodeLastKeeps == EolSound /\ DecodeLast => EolSound'
<1> SUFFICES ASSUME EolSound, DecodeLast PROVE EolSound'
  OBVIOUS
<1>1. /\ Decoding /\ ~decPending /\ Head(mid) = CR /\ Round(1, 0) /\ decoded' = decoded
      /\ decPending' = TRUE /\ mid' = Tail(mid) /\ UNCHANGED <<enc, decEnded>>
  BY DEF DecodeLast, enc
<1>2. /\ mid \in Words /\ decoded \in Words /\ Len(mid) > 0 /\ Len(mid) \in Nat
      /\ 1 \in 0..loop.left /\ 0 \in 0..loop.room
      /\ Tail(mid) \in Words /\ Len(Tail(mid)) = Len(mid) - 1
  BY <1>1, DecodingIs
<1>3. PICK c \in Words : encoded = c \o mid /\ Settled(c, mid, decPending, decoded, decEnded)
  BY DEF EolSound, Decodes
<1>4. decoded' = Decoded(c)
  BY <1>1, <1>3 DEF Settled
<1>5. Append(c, CR) \in Words /\ encoded = Append(c, CR) \o mid'
  <2>1. Append(c, Head(mid)) \in Words /\ c \o mid = Append(c, Head(mid)) \o Tail(mid)
    BY <1>2, HeadOver
  <2> QED BY <1>1, <1>3, <2>1
<1>6. Settled(Append(c, CR), mid', decPending', decoded', decEnded)
  BY <1>1, <1>4 DEF Settled
<1>7. Decodes(encoded, mid', decPending', decoded', decEnded)
  BY <1>5, <1>6 DEF Decodes
<1>8. decoded' \in Words /\ decPending' \in BOOLEAN /\ mid' \in Words /\ Len(mid') = Len(mid) - 1
  BY <1>1, <1>2
<1> QED BY <1>1, <1>2, <1>7, <1>8, DecoderRound

LEMMA DecodePairKeeps == EolSound /\ DecodePair => EolSound'
<1> SUFFICES ASSUME EolSound, DecodePair PROVE EolSound'
  OBVIOUS
<1>1. /\ Decoding /\ ~decPending /\ Head(mid) = CR /\ loop.left > 1
      /\ decPending' = decPending /\ UNCHANGED <<enc, decEnded>>
  BY DEF DecodePair
<1>2. /\ mid \in Words /\ Len(mid) > 1 /\ Len(mid) \in Nat /\ decPending \in BOOLEAN
      /\ 1 \in 0..loop.left /\ 2 \in 0..loop.left /\ 1 \in 0..loop.room
      /\ Tail(mid) \in Words /\ Len(Tail(mid)) = Len(mid) - 1
  BY <1>1, DecodingIs
<1>3. PICK c \in Words : encoded = c \o mid /\ Settled(c, mid, decPending, decoded, decEnded)
  BY DEF EolSound, Decodes
<1>4. decoded = Decoded(c)
  BY <1>1, <1>3 DEF Settled
<1>5. CR \in Units /\ LF \in Units /\ CR # LF
  BY UnitsAre
<1> DEFINE one == Append(c, CR)
           after == Tail(mid)
<1>6. one \in Words /\ encoded = one \o after
  <2>1. Append(c, Head(mid)) \in Words /\ c \o mid = Append(c, Head(mid)) \o Tail(mid)
    <3>1. Len(mid) > 0
      BY <1>2
    <3> QED BY <1>2, <3>1, HeadOver
  <2> QED BY <1>1, <1>3, <2>1
<1>7. /\ after \in Words /\ Len(after) = Len(mid) - 1 /\ Len(after) > 0
      /\ Head(after) = mid[2] /\ after[1] = mid[2] /\ Unread(mid, 2) = Tail(after)
  <2>1. /\ after \in Words /\ Len(after) = Len(mid) - 1 /\ Len(after) > 0
        /\ Head(after) = mid[2] /\ Unread(mid, 2) = Tail(after)
    BY <1>2, TwoOff
  <2> HIDE DEF after
  <2> QED BY <2>1, HeadOff
<1>8. CASE mid[2] = LF
  <2>1. Round(2, 1) /\ decoded' = Append(decoded, LF) /\ mid' = Tail(after)
    BY <1>7, <1>8 DEF DecodePair
  <2> DEFINE two == Append(one, LF)
  <2>2. two \in Words /\ encoded = two \o mid' /\ mid' \in Words /\ Len(mid') = Len(mid) - 2
    <3> HIDE DEF one, after
    <3>1. Append(one, Head(after)) \in Words /\ one \o after = Append(one, Head(after)) \o Tail(after)
      BY <1>6, <1>7, HeadOver
    <3>2. Tail(after) \in Words /\ Len(Tail(after)) = Len(after) - 1
      BY <1>7, HeadOff
    <3>3. Len(mid') = Len(mid) - 2
      BY <1>2, <1>7, <2>1, <3>2
    <3> QED BY <1>6, <1>7, <1>8, <2>1, <3>1, <3>2, <3>3
  <2>3. Clean(two)
    <3>1. Len(one) \in Nat /\ Len(two) = Len(one) + 1 /\ two[Len(one) + 1] = LF
      BY <1>5, <1>6, AppendedIs, WordIs
    <3> HIDE DEF two
    <3> QED BY <1>5, <3>1 DEF Clean
  <2>4. decoded' = Decoded(two)
    BY <1>4, <2>1, DecodedJoins
  <2> HIDE DEF two
  <2>5. Settled(two, mid', decPending', decoded', decEnded)
    <3>1. Apart(two, mid')
      BY <2>2, <2>3, CleanIsApart
    <3> QED BY <1>1, <2>3, <2>4, <3>1 DEF Settled
  <2>6. Decodes(encoded, mid', decPending', decoded', decEnded)
    BY <2>2, <2>5 DEF Decodes
  <2>7. decoded' \in Words /\ decPending' \in BOOLEAN
    BY <1>1, <1>2, <2>2, <2>4, DecodedIs
  <2> QED BY <1>1, <1>2, <2>1, <2>2, <2>6, <2>7, DecoderRound
<1>9. CASE mid[2] # LF
  <2>1. Round(1, 1) /\ decoded' = Append(decoded, CR) /\ mid' = after
    BY <1>9 DEF DecodePair
  <2>2. decoded' = Decoded(one)
    BY <1>4, <1>5, <2>1, DecodedGrows
  <2> HIDE DEF one, after
  <2>3. Settled(one, mid', decPending', decoded', decEnded)
    <3>1. Apart(one, mid')
      BY <1>7, <1>9, <2>1 DEF Apart
    <3>2. Len(mid') # 0
      BY <1>2, <1>7, <2>1
    <3> QED BY <1>1, <2>2, <3>1, <3>2 DEF Settled
  <2>4. Decodes(encoded, mid', decPending', decoded', decEnded)
    BY <1>6, <2>1, <2>3 DEF Decodes
  <2>5. decoded' \in Words /\ decPending' \in BOOLEAN /\ mid' \in Words /\ Len(mid') = Len(mid) - 1
    BY <1>1, <1>2, <1>6, <1>7, <2>1, <2>2, DecodedIs
  <2> QED BY <1>1, <1>2, <2>1, <2>4, <2>5, DecoderRound
<1> QED BY <1>8, <1>9

LEMMA DecodeFinishKeeps == EolSound /\ DecodeFinish => EolSound'
<1> SUFFICES ASSUME EolSound, DecodeFinish PROVE EolSound'
  OBVIOUS
<1>1. /\ EolParts /\ loop = NoLoop /\ encEnded /\ mid = <<>> /\ ~decEnded
      /\ text' = text /\ src' = src /\ encPending' = encPending /\ encoded' = encoded
      /\ encEnded' = encEnded /\ mid' = mid /\ loop' = loop
  BY DEF DecodeFinish, EolSound, enc
<1>2. decPending \in BOOLEAN /\ decoded \in Words
  BY <1>1, EolTypes
<1>3. Underway'
  BY <1>1 DEF Underway, NoLoop
<1>4. Encodes(text', src', encoded', encPending')
  BY <1>1 DEF EolSound
<1>5. CASE UNCHANGED <<decPending, decoded, decEnded>>
  <2>1. EolParts'
    BY <1>1, <1>5 DEF EolParts, EolTypeOK
  <2>2. Decodes(encoded', mid', decPending', decoded', decEnded')
    BY <1>1, <1>5 DEF EolSound
  <2> QED BY <1>3, <1>4, <2>1, <2>2 DEF EolSound
<1>6. CASE /\ decoded' = (IF decPending THEN Append(decoded, CR) ELSE decoded)
           /\ decPending' = FALSE /\ decEnded' = TRUE
  <2>1. PICK c \in Words : encoded = c \o mid /\ Settled(c, mid, decPending, decoded, decEnded)
    BY DEF EolSound, Decodes
  <2>2. decoded' = Decoded(c)
    <3>1. CASE decPending
      <4>1. PICK b \in Words : c = Append(b, CR) /\ decoded = Decoded(b)
        BY <2>1, <3>1 DEF Settled
      <4> QED BY <1>6, <3>1, <4>1, UnitsAre, DecodedGrows
    <3>2. CASE ~decPending
      BY <1>6, <2>1, <3>2 DEF Settled
    <3> QED BY <3>1, <3>2
  <2>3. Settled(c, mid', decPending', decoded', decEnded')
    <3>1. Apart(c, mid')
      BY <1>1, NoWord DEF Apart
    <3> QED BY <1>6, <2>2, <3>1 DEF Settled
  <2>4. Decodes(encoded', mid', decPending', decoded', decEnded')
    BY <1>1, <2>1, <2>3 DEF Decodes
  <2>5. decoded' \in Words
    BY <2>2, DecodedIs
  <2>6. EolParts'
    BY <1>1, <1>6, <2>5 DEF EolParts, EolTypeOK
  <2> QED BY <1>3, <1>4, <2>4, <2>6 DEF EolSound
<1> QED BY <1>5, <1>6 DEF DecodeFinish

LEMMA EolStepSound == EolSound /\ [EolNext]_eolVars => EolSound'
<1> SUFFICES ASSUME EolSound, [EolNext]_eolVars PROVE EolSound'
  OBVIOUS
<1>1. src \in Words /\ mid \in Words
  BY EolTypes DEF EolSound
<1>2. CASE Encode
  <2>1. CASE Begins("encode", src)
    BY <1>1, <2>1, BeginsKeeps
  <2>2. CASE EncodeReturn
    BY <2>2, ReturnKeeps DEF EncodeReturn
  <2> QED BY <1>2, <2>1, <2>2, EncodeSecondKeeps, EncodeUnitKeeps DEF Encode
<1>3. CASE Decode
  <2>1. CASE Begins("decode", mid)
    BY <1>1, <2>1, BeginsKeeps
  <2>2. CASE DecodeReturn
    BY <2>2, ReturnKeeps DEF DecodeReturn
  <2> QED BY <1>3, <2>1, <2>2, DecodeJoinedKeeps, DecodeLoneKeeps, DecodePlainKeeps, DecodeLastKeeps,
             DecodePairKeeps DEF Decode
<1>4. CASE UNCHANGED eolVars
  <2>1. /\ text' = text /\ src' = src /\ encPending' = encPending /\ encoded' = encoded
        /\ encEnded' = encEnded /\ mid' = mid /\ decPending' = decPending /\ decoded' = decoded
        /\ decEnded' = decEnded /\ loop' = loop
    BY <1>4 DEF eolVars, enc, dec
  <2>2. EolParts' /\ Underway'
    BY <2>1 DEF EolSound, EolParts, EolTypeOK, Underway
  <2>3. /\ Encodes(text', src', encoded', encPending')
        /\ Decodes(encoded', mid', decPending', decoded', decEnded')
    BY <2>1 DEF EolSound
  <2> QED BY <2>2, <2>3 DEF EolSound
<1> QED BY <1>2, <1>3, <1>4, EncodeDrainKeeps, DecodeFinishKeeps DEF EolNext

\* process() of both end-of-line engines, and their drains: in whatever windows
\* they are called, the encoder makes of a text what the whole of it becomes,
\* the decoder likewise of any stream, what is encoded and decoded is the text
\* again, and no call leaves its windows or is in vain.
THEOREM LinesEndAlways == EolSpec => []EndsOfLines
<1>1. EolSpec => []EolSound
  BY EolInitSound, EolStepSound, PTL DEF EolSpec
<1>2. EolSound => EndsOfLines
  BY SoundIsLines
<1> QED BY <1>1, <1>2, PTL

==============================================================================
