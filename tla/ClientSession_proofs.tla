------------------------ MODULE ClientSession_proofs ------------------------
(***************************************************************************)
(* What a client typed, was told and read back: the properties of          *)
(* ClientSession for every width of a word, every size of a sector, every  *)
(* limit, every number typed, every layout of a disk and every room an     *)
(* answer may have.                                                        *)
(***************************************************************************)
EXTENDS ClientSession, Dataplane_proofs, ProofFacts

-----------------------------------------------------------------------------
(* Arithmetic of the width *)

\* Adding multiples of the width changes nothing.
LEMMA WrapOfMultiple ==
  ASSUME NEW q \in Int, NEW r \in Words
  PROVE  (q * Word + r) % Word = r
  <1> DEFINE x == q * Word + r
             p == x \div Word
             s == x % Word
  <1>1. Word \in Nat \ {0} /\ r \in Nat /\ r < Word /\ q * Word \in Int
    BY WordAssumption DEF Words
  <1>2. x \in Int
    BY <1>1
  <1> HIDE DEF x
  <1>3. p \in Int /\ s \in 0 .. Word - 1 /\ x = p * Word + s
    BY <1>1, <1>2
  <1> HIDE DEF p, s
  <1>4. (q - p) * Word = s - r
    BY <1>1, <1>3 DEF x
  <1>5. q - p = 0
    <2>1. PICK e \in Int : e = q - p
      BY <1>3
    <2>2. e * Word = s - r
      BY <1>4, <2>1
    <2>3. e >= 1 => e * Word >= Word
      BY <1>1
    <2>4. e <= -1 => e * Word <= -Word
      BY <1>1
    <2>5. s - r < Word /\ s - r > -Word
      BY <1>1, <1>3
    <2> QED
      BY <1>1, <1>3, <2>1, <2>2, <2>3, <2>4, <2>5
  <1> QED
    BY <1>1, <1>3, <1>4, <1>5 DEF x, s

\* The product of a number that passes a division test is below the width.
LEMMA TimesFits ==
  ASSUME NEW v \in Words, NEW t \in Nat \ {0}, v <= MaxWord \div t
  PROVE  v * t \in Words
  <1> DEFINE q == MaxWord \div t
  <1>1. q \in Nat /\ q * t <= MaxWord /\ v <= q /\ v \in Nat /\ MaxWord \in Nat
    BY WordAssumption DEF MaxWord, Words
  <1>2. v * t <= q * t
    <2> HIDE DEF q
    <2> QED
      BY <1>1
  <1>3. v * t \in Nat
    BY <1>1
  <1>4. q * t \in Nat
    BY <1>1
  <1> HIDE DEF q
  <1> QED
    BY <1>1, <1>2, <1>3, <1>4, WordAssumption DEF MaxWord, Words

\* What is typed for a size.
SizeText == [minus : BOOLEAN, digits : Nat, unit : {"", "k", "m", "g", "?"}]

LEMMA NumberTypes ==
  ASSUME NEW n, n.minus \in BOOLEAN, n.digits \in Nat, Fits(n)
  PROVE  /\ NumberOf(n) \in Words
         /\ \E q \in Int : (IF n.minus THEN -n.digits ELSE n.digits)
                             = q * Word + NumberOf(n)
         /\ ~n.minus => NumberOf(n) = n.digits
         /\ n.minus => -n.digits <= 0
  <1>1. Word \in Nat \ {0}
    BY WordAssumption
  <1>2. CASE n.minus
    <2> DEFINE x == -n.digits
    <2>1. x \in Int
      OBVIOUS
    <2>2. x % Word \in 0 .. Word - 1 /\ x \div Word \in Int
          /\ x = (x \div Word) * Word + (x % Word)
      <3> HIDE DEF x
      <3> QED
        BY <1>1, <2>1
    <2> QED
      BY <1>2, <2>2 DEF NumberOf, Wrap, Words
  <1>3. CASE ~n.minus
    <2>1. NumberOf(n) = n.digits /\ n.digits \in Words
      BY <1>1, <1>3 DEF NumberOf, Fits, MaxWord, Words
    <2>2. n.digits = 0 * Word + n.digits
      BY <1>1
    <2> QED
      BY <1>3, <2>1, <2>2
  <1> QED
    BY <1>2, <1>3

LEMMA TimesType ==
  ASSUME NEW u
  PROVE  Times(u) \in Nat \ {0}
  <1>1. Kilo \in Nat \ {0}
    BY WireAssumption
  <1>2. Kilo * Kilo \in Nat \ {0}
    BY <1>1
  <1>3. Kilo * Kilo * Kilo \in Nat \ {0}
    BY <1>1, <1>2
  <1> QED
    BY <1>1, <1>2, <1>3 DEF Times

\* A size that parse_size takes is what was meant, modulo the width, and
\* never less.
LEMMA SizeArrives ==
  ASSUME NEW t \in SizeText, SizeParses(t)
  PROVE  /\ SizeOf(t) \in Words
         /\ SizeOf(t) >= Meant(t)
         /\ SizeOf(t) % Word = Meant(t) % Word
  <1> DEFINE v == NumberOf(t)
             f == Times(t.unit)
             x == IF t.minus THEN -t.digits ELSE t.digits
  <1>1. t.minus \in BOOLEAN /\ t.digits \in Nat /\ Fits(t)
    BY DEF SizeText, SizeParses
  <1>2. /\ v \in Words
        /\ \E q \in Int : x = q * Word + v
        /\ ~t.minus => v = x
        /\ t.minus => x <= 0
    BY <1>1, NumberTypes
  <1>3. f \in Nat \ {0}
    BY TimesType
  <1>4. v <= MaxWord \div f
    BY DEF SizeParses
  <1>5. x \in Int
    BY <1>1
  <1>6. SizeOf(t) = (v * f) % Word /\ Meant(t) = x * f
    BY DEF SizeOf, Wrap, Meant
  <1> HIDE DEF v, f, x
  <1>7. v * f \in Words
    BY <1>2, <1>3, <1>4, TimesFits
  <1>8. (v * f) % Word = v * f
    BY <1>7, WrapOfWord DEF Wrap
  <1>9. (x * f) % Word = v * f
    <2>1. PICK q \in Int : x = q * Word + v
      BY <1>2
    <2>2. PICK y \in Words : y = v * f
      BY <1>7
    <2>3. Word \in Nat /\ v \in Nat
      BY <1>2, WordAssumption DEF Words
    <2>4. x * f = (q * f) * Word + v * f
      BY <1>3, <2>1, <2>3
    <2>5. q * f \in Int
      BY <1>3
    <2>6. ((q * f) * Word + y) % Word = y
      BY <2>2, <2>5, WrapOfMultiple
    <2> QED
      BY <2>2, <2>4, <2>6
  <1>10. v * f >= x * f
    <2>1. v \in Nat /\ (v = x \/ x <= 0)
      BY <1>1, <1>2 DEF Words
    <2>2. CASE v = x
      BY <1>3, <2>1, <2>2
    <2>3. CASE x <= 0
      <3>1. x * f <= 0 /\ v * f >= 0
        BY <1>3, <1>5, <2>1, <2>3
      <3> QED
        BY <1>3, <1>5, <2>1, <3>1
    <2> QED
      BY <2>1, <2>2, <2>3
  <1> QED
    BY <1>6, <1>7, <1>8, <1>9, <1>10

\* Sequences of length one, one behind the other.
LEMMA FlattenOfSingles ==
  ASSUME NEW S, NEW s \in Seq(Seq(S)), s # <<>>, \A i \in DOMAIN s : Len(s[i]) = 1
  PROVE  FlattenSeq(s) = [i \in DOMAIN s |-> s[i][1]]
  <1> DEFINE n == Len(s)
             Firsts(i) == [j \in 1 .. i |-> s[j][1]]
             w == [i \in 1 .. n |-> Firsts(i)]
             Step(f) == [i \in 1 .. n |-> IF i = 1 THEN s[i] ELSE f[i - 1] \o s[i]]
             flat == CHOOSE f : f = Step(f)
  <1>1. n \in Nat \ {0} /\ DOMAIN s = 1 .. n
    BY EmptySeq, LenProperties
  <1>2. \A i \in 1 .. n : /\ s[i] \in Seq(S) /\ Len(s[i]) = 1
                          /\ s[i] = <<s[i][1]>> /\ s[i][1] \in S
    <2> SUFFICES ASSUME NEW i \in 1 .. n
                 PROVE  /\ s[i] \in Seq(S) /\ Len(s[i]) = 1
                        /\ s[i] = <<s[i][1]>> /\ s[i][1] \in S
      OBVIOUS
    <2>1. s[i] \in Seq(S) /\ Len(s[i]) = 1
      BY <1>1
    <2>2. 1 \in 1 .. Len(s[i])
      BY <2>1
    <2> QED
      BY <2>1, <2>2
  <1>3. w = Step(w)
    <2> SUFFICES ASSUME NEW i \in 1 .. n
                 PROVE  Firsts(i) = IF i = 1 THEN s[i] ELSE w[i - 1] \o s[i]
      BY DEF w
    <2>1. CASE i = 1
      <3>1. Firsts(1) = <<s[1][1]>>
        OBVIOUS
      <3> QED
        BY <1>2, <2>1, <3>1
    <2>2. CASE i # 1
      <3>1. i - 1 \in 1 .. n /\ i \in 2 .. n
        BY <1>1, <2>2
      <3>2. w[i - 1] = Firsts(i - 1)
        BY <3>1
      <3>3. Firsts(i - 1) \in Seq(S) /\ Len(Firsts(i - 1)) = i - 1
        <4>1. \A j \in 1 .. i - 1 : s[j][1] \in S
          BY <1>1, <1>2, <3>1
        <4>2. i - 1 \in Nat /\ DOMAIN Firsts(i - 1) = 1 .. i - 1
          BY <3>1
        <4>3. Firsts(i - 1) \in [1 .. i - 1 -> S]
          BY <4>1
        <4> HIDE DEF Firsts
        <4> QED
          BY <4>2, <4>3
      <3>4. \A j \in 1 .. i : Firsts(i)[j] = IF j <= i - 1 THEN Firsts(i - 1)[j] ELSE s[i][1]
        BY <3>1
      <3>5. Firsts(i) \in [1 .. i -> S]
        BY <1>1, <1>2
      <3>6. s[i] \in Seq(S) /\ Len(s[i]) = 1
        BY <1>2
      <3> DEFINE c == Firsts(i - 1) \o s[i]
      <3>7. /\ c \in Seq(S) /\ Len(c) = i
            /\ \A j \in 1 .. i : c[j] = IF j <= i - 1 THEN Firsts(i - 1)[j] ELSE s[i][1]
        <4>1. PICK a \in Seq(S) : a = Firsts(i - 1) /\ Len(a) = i - 1
          BY <3>3
        <4>2. PICK b \in Seq(S) : b = s[i] /\ Len(b) = 1
          BY <3>6
        <4>3. /\ a \o b \in Seq(S) /\ Len(a \o b) = (i - 1) + 1
              /\ \A j \in 1 .. (i - 1) + 1 : (a \o b)[j] = IF j <= i - 1 THEN a[j] ELSE b[j - (i - 1)]
          <5>1. /\ a \o b \in Seq(S) /\ Len(a \o b) = Len(a) + Len(b)
                /\ \A j \in 1 .. Len(a) + Len(b) :
                     (a \o b)[j] = IF j <= Len(a) THEN a[j] ELSE b[j - Len(a)]
            BY ConcatProperties
          <5> QED
            BY <4>1, <4>2, <5>1
        <4>4. (i - 1) + 1 = i /\ \A j \in 1 .. i : j <= i - 1 \/ j - (i - 1) = 1
          BY <3>1
        <4> HIDE DEF Firsts
        <4> QED
          BY <4>1, <4>2, <4>3, <4>4
      <3>8. c \in [1 .. i -> S]
        <4> HIDE DEF c
        <4> QED
          BY <3>1, <3>7
      <3>9. \A j \in 1 .. i : c[j] = Firsts(i)[j]
        <4> HIDE DEF c, Firsts
        <4> QED
          BY <3>1, <3>4, <3>7
      <3>10. c = Firsts(i)
        <4> HIDE DEF c, Firsts
        <4> QED
          BY <3>5, <3>8, <3>9
      <3> HIDE DEF Firsts, w
      <3> QED
        BY <2>2, <3>2, <3>10
    <2> QED
      BY <2>1, <2>2
  <1> HIDE DEF w
  <1>4. flat = Step(flat)
    <2> HIDE DEF Step
    <2> QED
      BY <1>3
  <1>5. FlattenSeq(s) = flat[n]
    BY <1>1 DEF FlattenSeq
  <1> HIDE DEF flat
  <1>6. flat[n] = w[n]
    <2> DEFINE Bad == {i \in 1 .. n : flat[i] # w[i]}
    <2> SUFFICES ASSUME n \in Bad
                 PROVE  FALSE
      BY <1>1
    <2>1. PICK i \in Bad : \A j \in Bad : i <= j
      <3>1. Bad \in SUBSET Nat
        BY <1>1
      <3>2. n \in Bad
        OBVIOUS
      <3> HIDE DEF Bad
      <3> QED
        BY <3>1, <3>2, MinIn
    <2>2. i # 1
      <3>1. flat[1] = s[1] /\ w[1] = s[1]
        BY <1>1, <1>3, <1>4
      <3> QED
        BY <2>1, <3>1
    <2>3. i - 1 \in 1 .. n /\ i - 1 \notin Bad /\ i \in 1 .. n
      <3>1. i \in 1 .. n /\ i - 1 \in 1 .. n /\ ~(i <= i - 1)
        BY <1>1, <2>1, <2>2
      <3> HIDE DEF Bad
      <3> QED
        BY ONLY <2>1, <3>1
    <2>4. flat[i - 1] = w[i - 1]
      BY <2>3
    <2>5. flat[i] = flat[i - 1] \o s[i] /\ w[i] = w[i - 1] \o s[i]
      BY <1>3, <1>4, <2>2, <2>3
    <2> QED
      BY <2>1, <2>4, <2>5
  <1>7. w[n] = Firsts(n)
    BY <1>1 DEF w
  <1> QED
    BY <1>1, <1>5, <1>6, <1>7

-----------------------------------------------------------------------------
(* Requests *)

\* What the manager makes is what was typed.
Arrives(typed, c, made) ==
  /\ made.size >= Meant(typed.size)
  /\ made.size % Word = Meant(typed.size) % Word
  /\ c.op = "ALLOCATE" =>
       /\ made.disks = CountOf(typed.disks)
       /\ made.hosts \in {<<"local">>} \cup
            {[i \in DOMAIN typed.hosts |-> typed.hosts[i][1]]}
       /\ made.name \in {"", typed.name.base}
       /\ made.name = "" => typed.name.base \in {"", Dash}

LEMMA TypedParts ==
  ASSUME NEW typed \in Typed
  PROVE  /\ typed.size \in SizeText
         /\ typed.hosts \in Seq(Seq({"h", "i"}))
  <1>1. Capacity \in Nat /\ Digits \subseteq Nat
    BY SessionAssumption DEF Words
  <1>2. Usual.size \in SizeText /\ Usual.hosts = <<>>
    BY <1>1 DEF Usual, SizeText
  <1>3. \A t \in SizeTexts : t \in SizeText
    BY <1>1 DEF SizeTexts, SizeText
  <1>4. \A t \in HostTexts : t \in Seq(Seq({"h", "i"}))
    <2> SUFFICES ASSUME NEW t \in HostTexts
                 PROVE  t \in Seq(Seq({"h", "i"}))
      OBVIOUS
    <2> DEFINE Hosts == {<<"h">>, <<"h", "i">>}
    <2>1. Hosts \subseteq Seq({"h", "i"})
      OBVIOUS
    <2>2. PICK n \in 0 .. HostsMax + 1 : t \in [1 .. n -> Hosts]
      BY DEF HostTexts
    <2>3. n \in Nat
      BY WireAssumption
    <2> HIDE DEF Hosts
    <2>4. t \in [1 .. n -> Seq({"h", "i"})]
      BY <2>1, <2>2
    <2> QED
      BY <2>3, <2>4
  <1>5. <<>> \in Seq(Seq({"h", "i"}))
    OBVIOUS
  <1>6. CASE \E t \in SizeTexts : typed = [Usual EXCEPT !.size = t]
    <2>1. PICK t \in SizeTexts : typed = [Usual EXCEPT !.size = t]
      BY <1>6
    <2>2. typed.size = t /\ typed.hosts = <<>>
      BY <2>1 DEF Usual
    <2> QED
      BY <1>3, <1>5, <2>2
  <1>7. CASE \E t \in CountTexts : typed = [Usual EXCEPT !.disks = t]
    <2>1. typed.size = Usual.size /\ typed.hosts = <<>>
      BY <1>7 DEF Usual
    <2> QED
      BY <1>2, <1>5, <2>1
  <1>8. CASE \E t \in HostTexts : typed = [Usual EXCEPT !.hosts = t]
    <2>1. PICK t \in HostTexts : typed = [Usual EXCEPT !.hosts = t]
      BY <1>8
    <2>2. typed.size = Usual.size /\ typed.hosts = t
      BY <2>1 DEF Usual
    <2> QED
      BY <1>2, <1>4, <2>2
  <1>9. CASE \E t \in NameTexts : typed = [Usual EXCEPT !.name = t]
    <2>1. typed.size = Usual.size /\ typed.hosts = <<>>
      BY <1>9 DEF Usual
    <2> QED
      BY <1>2, <1>5, <2>1
  <1> QED
    BY <1>6, <1>7, <1>8, <1>9 DEF Typed

\* The command of an allocate says what was typed.
LEMMA AllocateArrives ==
  ASSUME NEW typed \in Typed, SizeParses(typed.size), SdkSends(Options(typed))
  PROVE  LET c == AllocateCommand(Options(typed))
         IN  Arrives(typed, c, Decoded(c))
  <1> DEFINE c == AllocateCommand(Options(typed))
             made == Decoded(c)
  <1>1. /\ made.size = SizeOf(typed.size) /\ made.disks = CountOf(typed.disks)
        /\ made.hosts = HostsInCommand(typed.hosts)
        /\ made.name = IF NameInCommand(typed.name) = Dash THEN ""
                       ELSE NameInCommand(typed.name)
    BY DEF Decoded, AllocateCommand, Options
  <1>2. typed.size \in SizeText /\ typed.hosts \in Seq(Seq({"h", "i"}))
    BY TypedParts
  <1>3. SizeOf(typed.size) >= Meant(typed.size)
        /\ SizeOf(typed.size) % Word = Meant(typed.size) % Word
    BY <1>2, SizeArrives
  <1>4. HostsInCommand(typed.hosts) \in {<<"local">>} \cup
          {[i \in DOMAIN typed.hosts |-> typed.hosts[i][1]]}
    <2>1. CASE typed.hosts = <<>>
      BY <2>1 DEF HostsInCommand
    <2>2. CASE typed.hosts # <<>>
      <3>1. \A i \in DOMAIN typed.hosts : Len(typed.hosts[i]) = 1
        BY DEF SdkSends, ListsHosts, Options
      <3>2. FlattenSeq(typed.hosts) = [i \in DOMAIN typed.hosts |-> typed.hosts[i][1]]
        BY <1>2, <2>2, <3>1, FlattenOfSingles
      <3> QED
        BY <2>2, <3>2 DEF HostsInCommand
    <2> QED
      BY <2>1, <2>2
  <1>5. /\ made.name \in {"", typed.name.base}
        /\ made.name = "" => typed.name.base \in {"", Dash}
    BY <1>1 DEF NameInCommand
  <1> HIDE DEF c, made
  <1>6. Arrives(typed, c, made)
    BY <1>1, <1>3, <1>4, <1>5 DEF Arrives
  <1> QED
    BY <1>6 DEF c, made

\* So does that of the older alloc, of the size.
LEMMA AllocArrives ==
  ASSUME NEW size \in SizeTexts, SizeParses(size)
  PROVE  Arrives([Usual EXCEPT !.size = size], AllocCommand(size),
                 Decoded(AllocCommand(size)))
  <1>1. size \in SizeText
    BY SessionAssumption DEF SizeTexts, SizeText
  <1>2. [Usual EXCEPT !.size = size].size = size
    BY DEF Usual
  <1>3. /\ Decoded(AllocCommand(size)).size = SizeOf(size)
        /\ AllocCommand(size).op # "ALLOCATE"
    BY DEF Decoded, AllocCommand
  <1>4. SizeOf(size) >= Meant(size) /\ SizeOf(size) % Word = Meant(size) % Word
    BY <1>1, SizeArrives
  <1> QED
    BY <1>2, <1>3, <1>4 DEF Arrives

\* The request on its way: nothing is made before it is served, and what is
\* asked is what was typed.
OnTheWay ==
  /\ at = "start" => served = NoRequest
  /\ at = "asked" => Arrives(asked, cmd, Decoded(cmd))
  /\ served # NoRequest => Arrives(asked, cmd, served)

LEMMA AskKeeps ==
  ASSUME NEW typed, NEW c, Ask(typed, c), OnTheWay,
         c # NoCommand => Arrives(typed, c, Decoded(c))
  PROVE  OnTheWay'
  <1> HIDE DEF Decoded
  <1> QED
    BY DEF Ask, OnTheWay, diskVars, Arrives

\* A request is served as it was meant, for every width, every limit, and
\* every number typed: with no fewer bytes, for the hosts named, under the
\* name given.
THEOREM RequestsArrive == Spec => []RequestArrives
  <1>1. Init => OnTheWay
    BY DEF Init, OnTheWay
  <1>2. OnTheWay => RequestArrives
    BY DEF OnTheWay, Arrives, RequestArrives
  <1>3. OnTheWay /\ [Next]_vars => OnTheWay'
    <2> SUFFICES ASSUME OnTheWay, [Next]_vars
                 PROVE  OnTheWay'
      OBVIOUS
    <2>1. ASSUME NEW typed \in Typed, Allocate(typed)
          PROVE  OnTheWay'
      <3> DEFINE c == IF ToolTakes(typed) /\ SdkSends(Options(typed))
                        THEN AllocateCommand(Options(typed)) ELSE NoCommand
      <3>1. c # NoCommand => Arrives(typed, c, Decoded(c))
        BY AllocateArrives DEF ToolTakes
      <3>2. Ask(typed, c)
        BY <2>1 DEF Allocate
      <3> HIDE DEF c
      <3> QED
        BY <3>1, <3>2, AskKeeps
    <2>2. ASSUME NEW typed \in Typed, SdkAllocate(typed)
          PROVE  OnTheWay'
      <3> DEFINE c == IF SdkSends(Options(typed))
                        THEN AllocateCommand(Options(typed)) ELSE NoCommand
      <3>1. SizeParses(typed.size)
        <4>1. /\ Fits(typed.size) /\ typed.size.unit = ""
              /\ NumberOf(typed.size) = typed.size.digits
          BY <2>2 DEF SdkAllocate, NumberOf
        <4>2. Times("") = 1
          BY DEF Times
        <4>3. MaxWord \div 1 = MaxWord
          BY WordAssumption DEF MaxWord
        <4> QED
          BY <4>1, <4>2, <4>3 DEF SizeParses, Fits
      <3>2. c # NoCommand => Arrives(typed, c, Decoded(c))
        BY <3>1, AllocateArrives
      <3>3. Ask(typed, c)
        BY <2>2 DEF SdkAllocate
      <3> HIDE DEF c
      <3> QED
        BY <3>2, <3>3, AskKeeps
    <2>3. ASSUME NEW size \in SizeTexts, Alloc(size)
          PROVE  OnTheWay'
      <3> DEFINE c == IF SizeParses(size) THEN AllocCommand(size) ELSE NoCommand
                 typed == [Usual EXCEPT !.size = size]
      <3>1. c # NoCommand => Arrives(typed, c, Decoded(c))
        BY AllocArrives
      <3>2. Ask(typed, c)
        BY <2>3 DEF Alloc
      <3> HIDE DEF c, typed
      <3> QED
        BY <3>1, <3>2, AskKeeps
    <2>4. ASSUME Serve
          PROVE  OnTheWay'
      <3>1. UNCHANGED <<asked, cmd>> /\ at = "asked" /\ at' \in {"has", "exit"}
            /\ (served' = Decoded(cmd) \/ served' = served)
        BY <2>4 DEF Serve
      <3> QED
        BY <3>1 DEF OnTheWay, Arrives
    <2>5. ASSUME UNCHANGED <<asked, cmd, served>>, at' \notin {"start", "asked"}
          PROVE  OnTheWay'
      BY <2>5 DEF OnTheWay, Arrives
    <2>6. ASSUME UNCHANGED <<asked, cmd, served, at>>
          PROVE  OnTheWay'
      BY <2>6 DEF OnTheWay, Arrives, Decoded
    <2>7. Release => UNCHANGED <<asked, cmd, served, at>>
      BY DEF Release
    <2>8. ASSUME NEW room \in Rooms, NEW bytes, NEW mode, NEW capacity
          PROVE  /\ ResultGet(room) => UNCHANGED <<asked, cmd, served>> /\ at' = "exit"
                 /\ List(room, capacity) => UNCHANGED <<asked, cmd, served>> /\ at' = "exit"
                 /\ Collect(room, bytes, mode) =>
                      UNCHANGED <<asked, cmd, served>> /\ at' \in {"exit", "reads", "writes"}
      BY DEF ResultGet, List, Collect, Answer
    <2>9. NextSegment => UNCHANGED <<asked, cmd, served>> /\ (at' = at \/ at' = "exit")
      BY DEF NextSegment, diskVars
    <2>10. ASSUME NEW n
           PROVE  /\ WriteSome(n) => UNCHANGED <<asked, cmd, served, at>>
                  /\ ReadSome(n) => UNCHANGED <<asked, cmd, served, at>>
      BY DEF WriteSome, ReadSome, diskVars
    <2>11. ReadEnd => UNCHANGED <<asked, cmd, served, at>>
      BY DEF ReadEnd, diskVars
    <2>12. Fail => UNCHANGED <<asked, cmd, served>> /\ at' = "exit"
      BY DEF Fail, diskVars
    <2>13. Written \/ Compare =>
             /\ UNCHANGED <<asked, cmd, served>>
             /\ at' \in {"written", "reads", "same", "differs"}
      BY DEF Written, Compare, Finishes, diskVars
    <2>14. UNCHANGED vars => UNCHANGED <<asked, cmd, served, at>>
      BY DEF vars
    <2> HIDE DEF OnTheWay
    <2>15. CASE \/ \E typed \in Typed : Allocate(typed) \/ SdkAllocate(typed)
                \/ \E size \in SizeTexts : Alloc(size)
                \/ Serve
      BY <2>1, <2>2, <2>3, <2>4, <2>15
    <2>16. CASE Release \/ ReadEnd \/ UNCHANGED vars
                \/ \E n \in 1 .. Capacity : WriteSome(n) \/ ReadSome(n)
      BY <2>6, <2>7, <2>10, <2>11, <2>14, <2>16
    <2>17. CASE \E room \in Rooms :
                  \/ ResultGet(room)
                  \/ \E capacity \in 0 .. 2 : List(room, capacity)
                  \/ \E bytes \in 1 .. served.size + 1, mode \in {"write", "read", "verify"} :
                       Collect(room, bytes, mode)
      <3>1. UNCHANGED <<asked, cmd, served>> /\ at' \in {"exit", "reads", "writes"}
        BY <2>8, <2>17
      <3> QED
        BY <2>5, <3>1
    <2>18. CASE NextSegment
      BY <2>5, <2>6, <2>9, <2>18
    <2>19. CASE Fail \/ Written \/ Compare
      <3>1. /\ UNCHANGED <<asked, cmd, served>>
            /\ at' \in {"exit", "written", "reads", "same", "differs"}
        BY <2>12, <2>13, <2>19
      <3> QED
        BY <2>5, <3>1
    <2> QED
      BY <2>15, <2>16, <2>17, <2>18, <2>19 DEF Next
  <1> QED
    BY <1>1, <1>2, <1>3, PTL DEF Spec

-----------------------------------------------------------------------------
(* Answers *)

\* The rows of disks.
DiskRows == [off : Words, len : Words, sector : Words, dev : Devs]

LEMMA DigitsType ==
  ASSUME NEW n \in Words
  PROVE  DigitsOf(n) \in 1 .. 20
  BY DigitsAssumption DEF DigitsOf

LEMMA RowTypes ==
  ASSUME NEW rows \in Seq(DiskRows), NEW i \in 1 .. Len(rows)
  PROVE  /\ rows[i] \in DiskRows
         /\ DigitsOf(rows[i].sector) \in Nat
         /\ DigitsOf(rows[i].sector) >= 1
  <1>1. rows[i] \in DiskRows
    BY ElementOfSeq
  <1>2. PICK s \in Words : s = rows[i].sector
    BY <1>1 DEF DiskRows
  <1>3. PICK d \in 1 .. 20 : d = DigitsOf(s)
    BY DigitsType
  <1>4. d \in Nat /\ d >= 1
    OBVIOUS
  <1> QED
    BY ONLY <1>1, <1>2, <1>3, <1>4

\* The characters of the rows, one more row at a time.
LEMMA CharsStep ==
  ASSUME NEW rows \in Seq(DiskRows)
  PROVE  /\ CharsOf(rows, 0) = 0
         /\ \A i \in 0 .. Len(rows) : CharsOf(rows, i) \in Nat
         /\ \A i \in 1 .. Len(rows) :
              CharsOf(rows, i) =
                CharsOf(rows, i - 1) + LineStart + DigitsOf(rows[i].sector) + 1
  <1> DEFINE Line(i) == LineStart + DigitsOf(rows[i].sector) + 1
             L(n) == [i \in 0 .. n - 1 |-> Line(i + 1)]
  <1>1. Len(rows) \in Nat /\ DOMAIN rows = 1 .. Len(rows)
    BY LenProperties
  <1>2. \A i \in 1 .. Len(rows) : Line(i) \in Nat
    <2> SUFFICES ASSUME NEW i \in 1 .. Len(rows)
                 PROVE  Line(i) \in Nat
      OBVIOUS
    <2>1. DigitsOf(rows[i].sector) \in Nat
      BY RowTypes
    <2> QED
      BY <2>1, WireAssumption
  <1>3. \A n : CharsOf(rows, n) = SumOf(L(n), n)
    BY DEF CharsOf
  <1>4. CharsOf(rows, 0) = 0
    BY <1>3, SumStep
  <1> HIDE DEF Line
  <1>5. ASSUME NEW n \in 0 .. Len(rows)
        PROVE  /\ n \in Nat /\ \A k \in 0 .. n - 1 : L(n)[k] \in Nat
    BY <1>1, <1>2
  <1>6. ASSUME NEW n \in 0 .. Len(rows)
        PROVE  CharsOf(rows, n) \in Nat
    <2> HIDE DEF L
    <2> QED
      BY <1>3, <1>5, SumType
  <1>7. ASSUME NEW i \in 1 .. Len(rows)
        PROVE  CharsOf(rows, i) = CharsOf(rows, i - 1) + Line(i)
    <2>1. PICK m \in Nat : i = m + 1 /\ m \in 0 .. Len(rows)
      <3>1. i - 1 \in Nat /\ i = (i - 1) + 1 /\ i - 1 \in 0 .. Len(rows)
        BY <1>1
      <3> QED
        BY <3>1
    <2>2. SumOf(L(i), m + 1) = SumOf(L(i), m) + L(i)[m]
      BY SumStep
    <2>3. L(i)[m] = Line(i)
      BY <2>1
    <2>4. \A k \in 0 .. m - 1 : /\ L(i)[k] \in Nat /\ L(m)[k] \in Nat
                                /\ L(m)[k] = L(i)[k]
      BY <1>1, <1>2, <2>1
    <2>5. i - 1 = m
      BY <2>1
    <2> HIDE DEF L
    <2>6. SumOf(L(i), m) = SumOf(L(m), m)
      BY <2>4, SumSame
    <2> QED
      BY <1>3, <2>1, <2>2, <2>3, <2>5, <2>6
  <1>8. \A i : Line(i) = LineStart + DigitsOf(rows[i].sector) + 1
    BY DEF Line
  <1>9. \A i \in 1 .. Len(rows) : CharsOf(rows, i - 1) \in Nat /\ DigitsOf(rows[i].sector) \in Nat
    <2> SUFFICES ASSUME NEW i \in 1 .. Len(rows)
                 PROVE  CharsOf(rows, i - 1) \in Nat /\ DigitsOf(rows[i].sector) \in Nat
      OBVIOUS
    <2>1. i - 1 \in 0 .. Len(rows)
      BY <1>1
    <2> QED
      BY <1>6, <2>1, RowTypes
  <1> QED
    BY <1>4, <1>6, <1>7, <1>8, <1>9, WireAssumption

\* Rows further back begin further back.
LEMMA CharsGrow ==
  ASSUME NEW rows \in Seq(DiskRows), NEW i \in 0 .. Len(rows), NEW j \in 0 .. i
  PROVE  CharsOf(rows, j) <= CharsOf(rows, i)
  <1> DEFINE Bad == {k \in j .. i : ~(CharsOf(rows, j) <= CharsOf(rows, k))}
  <1>1. Len(rows) \in Nat
    BY LenProperties
  <1> SUFFICES ASSUME i \in Bad
               PROVE  FALSE
    BY <1>1
  <1>2. PICK k \in Bad : \A m \in Bad : k <= m
    <2>1. Bad \in SUBSET Nat
      BY <1>1
    <2>2. i \in Bad
      OBVIOUS
    <2> HIDE DEF Bad
    <2> QED
      BY <2>1, <2>2, MinIn
  <1>3. CharsOf(rows, j) \in Nat
    BY <1>1, CharsStep
  <1>4. k # j
    BY <1>2, <1>3
  <1>5. k \in 1 .. Len(rows) /\ k - 1 \in j .. i /\ k - 1 \notin Bad
    BY <1>1, <1>2, <1>4
  <1>6. CharsOf(rows, j) <= CharsOf(rows, k - 1)
    BY <1>5
  <1>7. CharsOf(rows, k) = CharsOf(rows, k - 1) + LineStart + DigitsOf(rows[k].sector) + 1
    BY <1>5, CharsStep
  <1>8. CharsOf(rows, k - 1) \in Nat /\ DigitsOf(rows[k].sector) \in Nat /\ LineStart \in Nat
    <2>1. k - 1 \in 0 .. Len(rows)
      BY <1>1, <1>5
    <2>2. DigitsOf(rows[k].sector) \in Nat
      BY <1>5, RowTypes
    <2> QED
      BY <2>1, <2>2, CharsStep, WireAssumption
  <1>9. ~(CharsOf(rows, j) <= CharsOf(rows, k))
    BY <1>2
  <1> QED
    BY <1>3, <1>6, <1>7, <1>8, <1>9

\* The lines told are those of the first rows, and all but the last are whole.
LEMMA LinesShape ==
  ASSUME NEW rows \in Seq(DiskRows), NEW room \in Nat
  PROVE  \E m \in 0 .. Len(rows) :
           /\ DOMAIN LinesTold(rows, room) = 1 .. m
           /\ Len(LinesTold(rows, room)) = m
           /\ \A i \in 1 .. m : i < m => LinesTold(rows, room)[i] = rows[i]
  <1> DEFINE lines == LinesTold(rows, room)
             n == Len(rows)
             Cut == {i \in 1 .. n + 1 : i = n + 1 \/ ~(CharsOf(rows, i - 1) < room)}
  <1>1. n \in Nat /\ DOMAIN rows = 1 .. n
    BY LenProperties
  <1>2. PICK c \in Cut : \A i \in Cut : c <= i
    <2>1. Cut \in SUBSET Nat /\ n + 1 \in Cut
      BY <1>1
    <2> HIDE DEF Cut
    <2> QED
      BY <2>1, MinIn
  <1>3. PICK m \in 0 .. n : c = m + 1
    <2>1. c - 1 \in 0 .. n /\ c = (c - 1) + 1
      BY <1>1, <1>2
    <2> QED
      BY <2>1
  <1>4. \A i \in 1 .. m : CharsOf(rows, i - 1) < room
    <2> SUFFICES ASSUME NEW i \in 1 .. m
                 PROVE  CharsOf(rows, i - 1) < room
      OBVIOUS
    <2>1. i \in 1 .. n + 1 /\ i # n + 1 /\ i < c
      BY <1>1, <1>3
    <2>2. i \notin Cut
      BY <1>1, <1>2, <1>3, <2>1
    <2> QED
      BY <2>1, <2>2
  <1>5. \A i \in m + 1 .. n : ~(CharsOf(rows, i - 1) < room)
    <2> SUFFICES ASSUME NEW i \in m + 1 .. n
                 PROVE  ~(CharsOf(rows, i - 1) < room)
      OBVIOUS
    <2>1. i - 1 \in 0 .. n /\ m \in 0 .. i - 1 /\ m # n
      <3> HIDE DEF n
      <3>1. m \in Nat /\ i \in Int /\ m + 1 <= i /\ i <= n
        BY <1>1
      <3> QED
        BY <1>1, <3>1
    <2>2. ~(CharsOf(rows, m) < room)
      <3>1. c = n + 1 \/ ~(CharsOf(rows, c - 1) < room)
        BY <1>2
      <3>2. c - 1 = m /\ c # n + 1
        <4>1. m \in Nat /\ c = m + 1
          BY <1>1, <1>3
        <4> HIDE DEF n
        <4> QED
          BY <1>1, <2>1, <4>1
      <3> QED
        BY <3>1, <3>2
    <2>3. CharsOf(rows, m) <= CharsOf(rows, i - 1)
      BY <2>1, CharsGrow
    <2>4. CharsOf(rows, m) \in Nat /\ CharsOf(rows, i - 1) \in Nat
      BY <2>1, CharsStep
    <2> QED
      BY <2>2, <2>3, <2>4
  <1> HIDE DEF Cut
  <1>6. DOMAIN lines = 1 .. m
    <2>1. DOMAIN lines = {i \in 1 .. n : CharsOf(rows, i - 1) < room}
      BY <1>1 DEF LinesTold
    <2> HIDE DEF lines
    <2> QED
      BY <1>1, <1>4, <1>5, <2>1
  <1>7. \A i \in 1 .. m : lines[i] = Left(rows, i, room)
    BY <1>6 DEF LinesTold
  <1>8. Len(lines) = m
    <2>1. lines = [i \in DOMAIN lines |-> lines[i]]
      BY DEF LinesTold
    <2> DEFINE V == {lines[i] : i \in 1 .. m}
    <2>2. lines \in [1 .. m -> V]
      <3> HIDE DEF lines
      <3> QED
        BY <1>6, <2>1
    <2> HIDE DEF lines, V
    <2> QED
      BY <1>1, <2>2
  <1> HIDE DEF lines
  <1>9. ASSUME NEW i \in 1 .. m, i < m
        PROVE  lines[i] = rows[i]
    <2>1. i \in 1 .. n /\ i + 1 \in 1 .. m /\ (i + 1) - 1 = i /\ i - 1 \in 0 .. n
      BY <1>1, <1>9
    <2>2. CharsOf(rows, i) < room
      BY <1>4, <2>1
    <2>3. CharsOf(rows, i) = CharsOf(rows, i - 1) + LineStart + DigitsOf(rows[i].sector) + 1
      BY <2>1, CharsStep
    <2>4. CharsOf(rows, i - 1) \in Nat /\ LineStart \in Nat
      BY <2>1, CharsStep, WireAssumption
    <2>5. DigitsOf(rows[i].sector) \in Nat /\ DigitsOf(rows[i].sector) >= 1
      BY <2>1, RowTypes
    <2>6. room - CharsOf(rows, i - 1) - LineStart >= DigitsOf(rows[i].sector)
          /\ ~(room - CharsOf(rows, i - 1) - LineStart <= 0)
      BY <2>2, <2>3, <2>4, <2>5
    <2> QED
      BY <1>7, <2>6 DEF Left
  <1> QED
    BY <1>6, <1>8, <1>9 DEF lines

\* A client reads the lines told, but for the last if it is torn.
LEMMA HeardShape ==
  ASSUME NEW rows \in Seq(DiskRows), NEW room \in Nat
  PROVE  \E k \in 0 .. Len(rows) :
           /\ RowsHeard(rows, room) = [j \in 1 .. k |-> LinesTold(rows, room)[j]]
           /\ \A j \in 1 .. k : /\ j \in DOMAIN LinesTold(rows, room)
                                /\ Understood(LinesTold(rows, room)[j])
           /\ ListOk(rows, room) => k = Len(rows)
  <1> DEFINE lines == LinesTold(rows, room)
  <1>1. PICK m \in 0 .. Len(rows) :
          /\ DOMAIN lines = 1 .. m
          /\ Len(lines) = m
          /\ \A i \in 1 .. m : i < m => lines[i] = rows[i]
    BY LinesShape
  <1>2. m \in Nat /\ Len(rows) \in Nat
    BY LenProperties
  <1>3. \A i \in 1 .. m : i < m => Understood(lines[i])
    <2> SUFFICES ASSUME NEW i \in 1 .. m, i < m
                 PROVE  Understood(rows[i])
      BY <1>1
    <2>1. rows[i] \in DiskRows
      BY <1>2, RowTypes
    <2>2. rows[i] # [torn |-> TRUE]
      <3>1. "off" \in DOMAIN rows[i]
        BY <2>1 DEF DiskRows
      <3>2. "off" \notin DOMAIN [torn |-> TRUE]
        OBVIOUS
      <3> QED
        BY <3>1, <3>2
    <2> QED
      BY <2>2 DEF Understood, Torn
  <1> DEFINE Kept(i) == IF i = m /\ i > 0 /\ ~Understood(lines[i]) THEN i - 1 ELSE i
             First(k) == [j \in 1 .. k |-> lines[j]]
             w == [i \in 0 .. m |-> First(Kept(i))]
             Step(f) == [i \in 0 .. m |->
                           IF i = 0 THEN <<>>
                           ELSE IF Understood(lines[i]) THEN Append(f[i - 1], lines[i])
                           ELSE f[i - 1]]
             read == CHOOSE f : f = Step(f)
             V == {lines[j] : j \in 1 .. m}
  <1>4. RowsHeard(rows, room) = read[m]
    BY <1>1 DEF RowsHeard
  <1> HIDE DEF lines
  <1>5. ASSUME NEW k \in 0 .. m
        PROVE  First(k) \in Seq(V) /\ Len(First(k)) = k
    <2>1. First(k) \in [1 .. k -> V] /\ k \in Nat
      BY <1>2
    <2> HIDE DEF First, V
    <2> QED
      BY <2>1
  <1>6. ASSUME NEW i \in 1 .. m
        PROVE  Append(First(i - 1), lines[i]) = First(i)
    <2>1. i - 1 \in 0 .. m /\ i \in 0 .. m /\ (i - 1) + 1 = i /\ i \in Nat
      BY <1>2
    <2>2. /\ First(i - 1) \in Seq(V) /\ Len(First(i - 1)) = i - 1
          /\ First(i) \in Seq(V) /\ Len(First(i)) = i /\ lines[i] \in V
      BY <1>5, <2>1
    <2> DEFINE a == Append(First(i - 1), lines[i])
    <2>3. /\ a \in Seq(V) /\ Len(a) = i
          /\ \A j \in 1 .. i : a[j] = IF j <= i - 1 THEN First(i - 1)[j] ELSE lines[i]
      <3>1. PICK b \in Seq(V) : b = First(i - 1) /\ Len(b) = i - 1
        BY <2>2
      <3>2. /\ Append(b, lines[i]) \in Seq(V) /\ Len(Append(b, lines[i])) = Len(b) + 1
            /\ \A j \in 1 .. Len(b) : Append(b, lines[i])[j] = b[j]
            /\ Append(b, lines[i])[Len(b) + 1] = lines[i]
        BY <2>2, AppendProperties
      <3>3. Len(b) + 1 = i /\ \A j \in 1 .. i : j \in 1 .. Len(b) \/ j = i
        BY <2>1, <3>1
      <3> HIDE DEF First, V
      <3> QED
        BY <2>1, <3>1, <3>2, <3>3
    <2>4. \A j \in 1 .. i : First(i)[j] = IF j <= i - 1 THEN First(i - 1)[j] ELSE lines[i]
      BY <2>1
    <2>5. DOMAIN a = 1 .. i /\ DOMAIN First(i) = 1 .. i
      <3>1. DOMAIN a = 1 .. Len(a)
        <4> HIDE DEF a, V
        <4> QED
          BY <2>3, LenProperties
      <3> QED
        BY <2>3, <3>1
    <2>6. a = [j \in 1 .. i |-> a[j]]
      <3> HIDE DEF a, V
      <3> QED
        BY <2>3, <2>5
    <2> HIDE DEF a, V
    <2>7. \A j \in 1 .. i : a[j] = First(i)[j]
      <3> HIDE DEF First
      <3> QED
        BY <2>3, <2>4
    <2>8. First(i) = [j \in 1 .. i |-> First(i)[j]]
      OBVIOUS
    <2>9. a = First(i)
      <3> HIDE DEF First
      <3> QED
        BY <2>6, <2>7, <2>8
    <2> QED
      BY <2>9 DEF a
  <1>7. w = Step(w)
    <2> SUFFICES ASSUME NEW i \in 0 .. m
                 PROVE  w[i] = IF i = 0 THEN <<>>
                               ELSE IF Understood(lines[i])
                                 THEN Append(w[i - 1], lines[i]) ELSE w[i - 1]
      <3>1. w = [i \in 0 .. m |-> w[i]]
        OBVIOUS
      <3> HIDE DEF w
      <3> QED
        BY <3>1
    <2>1. w[i] = First(Kept(i))
      OBVIOUS
    <2>2. CASE i = 0
      <3>1. Kept(0) = 0 /\ First(0) = <<>>
        OBVIOUS
      <3> QED
        BY <2>1, <2>2, <3>1
    <2>3. CASE i # 0
      <3>1. i \in 1 .. m /\ i - 1 \in 0 .. m /\ i - 1 < m /\ i > 0
        BY <1>2, <2>3
      <3>2. Kept(i - 1) = i - 1
        BY <1>2, <3>1
      <3>3. w[i - 1] = First(i - 1)
        BY <3>1, <3>2
      <3>4. CASE Understood(lines[i])
        <4>1. Kept(i) = i
          BY <3>4
        <4> HIDE DEF w, First
        <4> QED
          BY <1>6, <2>1, <2>3, <3>1, <3>3, <3>4, <4>1
      <3>5. CASE ~Understood(lines[i])
        <4>1. i = m
          BY <1>2, <1>3, <3>1, <3>5
        <4>2. Kept(i) = i - 1
          BY <3>1, <3>5, <4>1
        <4> HIDE DEF w, First
        <4> QED
          BY <2>1, <2>3, <3>3, <3>5, <4>2
      <3> QED
        BY <3>4, <3>5
    <2> QED
      BY <2>2, <2>3
  <1>8. w[m] = First(Kept(m))
    BY <1>2
  <1> HIDE DEF w
  <1>9. read = Step(read)
    <2> HIDE DEF Step
    <2> QED
      BY <1>7
  <1> HIDE DEF read
  <1>10. read[m] = w[m]
    <2> DEFINE Bad == {i \in 0 .. m : read[i] # w[i]}
    <2> SUFFICES ASSUME m \in Bad
                 PROVE  FALSE
      BY <1>2
    <2>1. PICK i \in Bad : \A j \in Bad : i <= j
      <3>1. Bad \in SUBSET Nat
        BY <1>2
      <3>2. m \in Bad
        OBVIOUS
      <3> HIDE DEF Bad
      <3> QED
        BY <3>1, <3>2, MinIn
    <2>2. i # 0
      <3>1. read[0] = <<>> /\ w[0] = <<>>
        BY <1>2, <1>7, <1>9
      <3> QED
        BY <2>1, <3>1
    <2>3. i \in 0 .. m /\ i - 1 \in 0 .. m /\ i - 1 \notin Bad
      BY <1>2, <2>1, <2>2
    <2>4. read[i - 1] = w[i - 1]
      BY <2>3
    <2>5. /\ read[i] = IF Understood(lines[i]) THEN Append(read[i - 1], lines[i]) ELSE read[i - 1]
          /\ w[i] = IF Understood(lines[i]) THEN Append(w[i - 1], lines[i]) ELSE w[i - 1]
      BY <1>7, <1>9, <2>2, <2>3
    <2> QED
      BY <2>1, <2>4, <2>5
  <1>11. PICK k \in 0 .. m : k = Kept(m)
    <2>1. Kept(m) \in 0 .. m
      BY <1>2
    <2> QED
      BY <2>1
  <1>12. \A j \in 1 .. k : j \in 1 .. m /\ Understood(lines[j])
    <2> SUFFICES ASSUME NEW j \in 1 .. k
                 PROVE  j \in 1 .. m /\ Understood(lines[j])
      OBVIOUS
    <2>1. j \in 1 .. m
      BY <1>2
    <2>2. CASE j < m
      BY <1>3, <2>1, <2>2
    <2>3. CASE ~(j < m)
      <3>1. j = m /\ k = m /\ m > 0
        BY <1>2, <2>1, <2>3
      <3>2. Understood(lines[m])
        BY <1>2, <1>11, <3>1
      <3> QED
        BY <2>1, <3>1, <3>2
    <2> QED
      BY <2>2, <2>3
  <1>13. ListOk(rows, room) => k = Len(rows)
    <2> SUFFICES ASSUME ListOk(rows, room)
                 PROVE  k = Len(rows)
      OBVIOUS
    <2>1. m = Len(rows) /\ \A i \in 1 .. m : Understood(lines[i])
      BY <1>1 DEF ListOk, ResultOk, lines
    <2>2. Kept(m) = m
      BY <1>2, <2>1
    <2> QED
      BY <1>11, <2>1, <2>2
  <1>14. /\ k \in 0 .. Len(rows)
         /\ RowsHeard(rows, room) = [j \in 1 .. k |-> lines[j]]
    <2>1. RowsHeard(rows, room) = First(k)
      <3> HIDE DEF First
      <3> QED
        BY <1>4, <1>8, <1>10, <1>11
    <2> QED
      BY <1>2, <2>1
  <1> QED
    BY <1>1, <1>12, <1>13, <1>14 DEF lines

\* A client hears no more rows than there are, and hears them as they are but
\* for lost digits.
LEMMA HeardTrue ==
  ASSUME NEW rows \in Seq(DiskRows), NEW room \in Nat
  PROVE  LET heard == RowsHeard(rows, room)
         IN  /\ Len(heard) \in 0 .. Len(rows)
             /\ ListOk(rows, room) => Len(heard) = Len(rows)
             /\ NumbersWhole(rows, room) =>
                  /\ heard \in Seq(DiskRows)
                  /\ \A i \in 1 .. Len(heard) : heard[i] = rows[i]
  <1> DEFINE heard == RowsHeard(rows, room)
             lines == LinesTold(rows, room)
  <1>1. PICK k \in 0 .. Len(rows) :
          /\ heard = [j \in 1 .. k |-> lines[j]]
          /\ \A j \in 1 .. k : j \in DOMAIN lines /\ Understood(lines[j])
          /\ ListOk(rows, room) => k = Len(rows)
    BY HeardShape
  <1>2. k \in Nat /\ Len(rows) \in Nat
    BY LenProperties
  <1>3. NumbersWhole(rows, room) => \A j \in 1 .. k : lines[j] = rows[j]
    BY <1>1 DEF NumbersWhole, Understood
  <1> HIDE DEF heard, lines
  <1>4. Len(heard) = k /\ \A j \in 1 .. k : heard[j] = lines[j]
    <2> DEFINE V == {lines[j] : j \in 1 .. k}
    <2>1. heard \in [1 .. k -> V]
      BY <1>1
    <2> HIDE DEF V
    <2>2. Len(heard) = k
      BY <1>2, <2>1
    <2> QED
      BY <1>1, <2>2
  <1>5. NumbersWhole(rows, room) => heard \in Seq(DiskRows)
    <2> SUFFICES ASSUME NumbersWhole(rows, room)
                 PROVE  heard \in Seq(DiskRows)
      OBVIOUS
    <2>1. \A j \in 1 .. k : lines[j] \in DiskRows
      BY <1>2, <1>3, RowTypes
    <2>2. heard \in [1 .. k -> DiskRows]
      BY <1>1, <2>1
    <2> QED
      BY <1>2, <2>2
  <1> QED
    BY <1>1, <1>3, <1>4, <1>5 DEF heard

\* Rows that agree with the first rows of a sequence are a prefix of it.
LEMMA FirstRows ==
  ASSUME NEW s \in Seq(DiskRows), NEW t \in Seq(DiskRows), Len(s) <= Len(t),
         \A i \in 1 .. Len(s) : s[i] = t[i]
  PROVE  IsPrefix(s, t)
  <1>1. Len(s) \in Nat /\ Len(t) \in Nat
    BY LenProperties
  <1>2. SubSeq(s, 1, Len(s)) = SubSeq(t, 1, Len(s))
    BY <1>1
  <1> QED
    BY <1>2 DEF IsPrefix
-----------------------------------------------------------------------------
(* The invariant *)

\* What the client was told are the first rows of the disk.
Told ==
  /\ answer.rows \in Seq(DiskRows)
  /\ Len(answer.rows) <= Len(disk)
  /\ \A i \in 1 .. Len(answer.rows) : answer.rows[i] = disk[i]

\* Answers are about a disk that is there, and only lost digits make one that
\* is not its first rows.
Answers ==
  /\ disk \in Seq(DiskRows)
  /\ at \in {"start", "asked", "has"} => answer = NoAnswer
  /\ NumbersWhole(disk, answer.room) => Told
  /\ answer.ok =>
       /\ Len(answer.rows) <= Len(disk)
       /\ answer.kind = "list" => Len(answer.rows) = Len(disk)

IoStates == [mode : {"write", "read", "verify"}, cursor : Nat, chunk : Nat,
             done : Nat, bytes : Nat, row : Nat]

\* A request under way is one that translate_offset has let pass.
Passed ==
  /\ io \in IoStates
  /\ io.bytes \in 1 .. Word
  /\ io.cursor \in 0 .. io.bytes
  /\ io.chunk \in 0 .. io.bytes - io.cursor
  /\ IF io.chunk = 0
     THEN io.done = 0
     ELSE /\ io.done \in 0 .. io.chunk - 1
          /\ io.row \in 1 .. Len(answer.rows)
          /\ Translates(Row, io.cursor, io.chunk)

\* No byte of the pattern is anywhere but in its place.
InPlace ==
  \A d \in Devs, p \in 0 .. DevSize - 1 :
    media[d][p] >= 0 => <<d, p>> \in PlaceOf(media[d][p])

\* Nothing is written before the client has been told where.
Data ==
  /\ at \in {"start", "asked", "has"} =>
       /\ io = NoIo /\ buffer = <<>>
       /\ \A d \in Devs, p \in 0 .. DevSize - 1 : media[d][p] < 0
  /\ at = "writes" => buffer = <<>>
  /\ at \in {"has", "writes", "reads"} => served.size \in 1 .. Capacity
  /\ Told =>
       /\ media \in [Devs -> [0 .. DevSize - 1 -> Int]]
       /\ InPlace
       /\ at \in {"writes", "reads"} => Passed

\* The rows of a disk tile it, and each has room on a device of its own.
Tiles(rows, size) ==
  /\ \A i \in 1 .. Len(rows) :
       /\ rows[i].len > 0
       /\ rows[i].off + rows[i].len <= size
       /\ Holds(rows[i])
  /\ \A b \in 0 .. size - 1 :
       \E i \in 1 .. Len(rows) : b - rows[i].off \in 0 .. rows[i].len - 1
  /\ \A i, j \in 1 .. Len(rows) :
       i # j => /\ rows[i].dev # rows[j].dev
                /\ \A b \in 0 .. size - 1 :
                     ~( /\ b - rows[i].off \in 0 .. rows[i].len - 1
                        /\ b - rows[j].off \in 0 .. rows[j].len - 1 )

\* The first n bytes of the pattern are on the devices.
ByteStored(i, b) ==
  LET p == disk[i].sector * Sector + (b - disk[i].off)
  IN  media[disk[i].dev][p] = b /\ p < ends[disk[i].dev]

Stored(n) ==
  \A i \in 1 .. Len(disk), b \in 0 .. n - 1 :
    b - disk[i].off \in 0 .. disk[i].len - 1 => ByteStored(i, b)

\* The first n bytes of the pattern, read.
Pattern(n) == [k \in 1 .. n |-> k - 1]

\* A client that was told all of its disk, and keeps it.
Undisturbed ==
  /\ io.mode = "verify"
  /\ answer.rows = disk
  /\ io.bytes <= served.size
  /\ ~taken
  /\ ~faults

\* What it has written is there, and what it has read is what it wrote.
Verifies ==
  /\ at \in {"has", "writes", "reads"} => Tiles(disk, served.size)
  /\ Told /\ ~taken => ends \in [Devs -> Int]
  /\ Undisturbed =>
       /\ at \in {"writes", "reads", "same"}
       /\ at = "writes" => Stored(io.cursor + io.done)
       /\ at = "reads" =>
            /\ Stored(io.bytes)
            /\ buffer = Pattern(io.cursor + io.done)

LEMMA RowOfType ==
  ASSUME NEW d \in Devs, NEW off \in Words, NEW len \in Words, NEW s \in Sectors
  PROVE  /\ RowOf(d, off, len, s) \in DiskRows
         /\ RowOf(d, off, len, s).off = off
         /\ RowOf(d, off, len, s).len = len
         /\ RowOf(d, off, len, s).dev = d
  BY SessionAssumption DEF RowOf, DiskRows

\* What the manager makes tiles the size it was asked for.
LEMMA DiskTiles ==
  ASSUME NEW size \in 1 .. Capacity, NEW rows \in DiskOf(size)
  PROVE  rows \in Seq(DiskRows) /\ Tiles(rows, size)
  <1>1. Capacity \in Nat /\ Word \in Nat /\ Capacity < Word
    BY SessionAssumption, WordAssumption DEF Words
  <1>2. /\ rows \in Layouts(size)
        /\ \A i \in DOMAIN rows : Holds(rows[i])
        /\ \A i, j \in DOMAIN rows : i # j => rows[i].dev # rows[j].dev
    BY DEF DiskOf
  <1>3. ASSUME NEW d \in Devs, NEW s \in Sectors, rows = <<RowOf(d, 0, size, s)>>
        PROVE  rows \in Seq(DiskRows) /\ Tiles(rows, size)
    <2>1. PICK r \in DiskRows : r = RowOf(d, 0, size, s) /\ r.off = 0 /\ r.len = size
      <3>1. 0 \in Words /\ size \in Words
        BY <1>1 DEF Words
      <3> QED
        BY <3>1, RowOfType
    <2>2. rows = <<r>>
      BY <1>3, <2>1
    <2> HIDE DEF Holds
    <2>3. Len(rows) = 1 /\ rows[1] = r /\ DOMAIN rows = 1 .. 1
      BY <2>2
    <2>4. rows \in Seq(DiskRows)
      BY <2>2
    <2>5. \A i \in 1 .. Len(rows) : i = 1
      BY <2>3
    <2>6. Holds(r)
      BY <1>2, <2>3
    <2> QED
      BY <1>1, <2>1, <2>3, <2>4, <2>5, <2>6 DEF Tiles
  <1>4. ASSUME NEW len \in 1 .. size - 1, NEW d \in Devs, NEW e \in Devs,
               NEW s \in Sectors, NEW t \in Sectors,
               rows = <<RowOf(d, 0, len, s), RowOf(e, len, size - len, t)>>
        PROVE  rows \in Seq(DiskRows) /\ Tiles(rows, size)
    <2>1. PICK q \in DiskRows : q = RowOf(d, 0, len, s) /\ q.off = 0 /\ q.len = len
      <3>1. 0 \in Words /\ len \in Words
        BY <1>1 DEF Words
      <3> QED
        BY <3>1, RowOfType
    <2>2. PICK r \in DiskRows :
            r = RowOf(e, len, size - len, t) /\ r.off = len /\ r.len = size - len
      <3>1. len \in Words /\ size - len \in Words
        BY <1>1 DEF Words
      <3> QED
        BY <3>1, RowOfType
    <2>3. rows = <<q, r>>
      BY <1>4, <2>1, <2>2
    <2> HIDE DEF Holds
    <2>4. Len(rows) = 2 /\ rows[1] = q /\ rows[2] = r /\ DOMAIN rows = 1 .. 2
      BY <2>3
    <2>5. rows \in Seq(DiskRows)
      BY <2>3
    <2>6. \A i \in 1 .. Len(rows) : i = 1 \/ i = 2
      BY <2>4
    <2>7. Holds(q) /\ Holds(r) /\ q.dev # r.dev
      BY <1>2, <2>4
    <2>8. \A i \in 1 .. Len(rows) :
            rows[i].len > 0 /\ rows[i].off + rows[i].len <= size /\ Holds(rows[i])
      BY <1>1, <2>1, <2>2, <2>4, <2>6, <2>7
    <2>9. ASSUME NEW b \in 0 .. size - 1
          PROVE  \E i \in 1 .. Len(rows) : b - rows[i].off \in 0 .. rows[i].len - 1
      <3>1. b - q.off \in 0 .. q.len - 1 \/ b - r.off \in 0 .. r.len - 1
        BY <1>1, <2>1, <2>2
      <3> QED
        BY <2>4, <3>1
    <2>10. ASSUME NEW b \in 0 .. size - 1
           PROVE  ~(b - q.off \in 0 .. q.len - 1 /\ b - r.off \in 0 .. r.len - 1)
      BY <1>1, <2>1, <2>2
    <2>11. ASSUME NEW i \in 1 .. Len(rows), NEW j \in 1 .. Len(rows), i # j
           PROVE  /\ rows[i].dev # rows[j].dev
                  /\ \A b \in 0 .. size - 1 :
                       ~( /\ b - rows[i].off \in 0 .. rows[i].len - 1
                          /\ b - rows[j].off \in 0 .. rows[j].len - 1 )
      BY <2>4, <2>6, <2>7, <2>10, <2>11
    <2> QED
      BY <2>5, <2>8, <2>9, <2>11 DEF Tiles
  <1> QED
    BY <1>2, <1>3, <1>4 DEF Layouts

LEMMA NothingTold ==
  ASSUME answer'.rows = <<>>, Len(disk') \in Nat
  PROVE  Told'
  BY DEF Told

\* An answer with what RowsHeard makes of the rows, or with none.
LEMMA AnswerTold ==
  ASSUME disk \in Seq(DiskRows), UNCHANGED disk, NEW room \in Rooms,
         NEW kind, NEW ok \in BOOLEAN,
         answer' = [kind |-> kind, ok |-> ok, room |-> room,
                    rows |-> IF ok THEN RowsHeard(disk, room) ELSE <<>>],
         ok /\ kind = "list" => ListOk(disk, room)
  PROVE  /\ NumbersWhole(disk', answer'.room) => Told'
         /\ answer'.ok =>
              /\ Len(answer'.rows) <= Len(disk')
              /\ answer'.kind = "list" => Len(answer'.rows) = Len(disk')
  <1>1. /\ answer'.kind = kind /\ answer'.ok = ok /\ answer'.room = room
        /\ answer'.rows = IF ok THEN RowsHeard(disk, room) ELSE <<>>
    OBVIOUS
  <1>2. room \in Nat /\ Len(disk) \in Nat
    BY SessionAssumption, LenProperties
  <1>3. CASE ok
    <2> DEFINE heard == RowsHeard(disk, room)
    <2>1. /\ Len(heard) \in 0 .. Len(disk)
          /\ ListOk(disk, room) => Len(heard) = Len(disk)
          /\ NumbersWhole(disk, room) =>
               /\ heard \in Seq(DiskRows)
               /\ \A i \in 1 .. Len(heard) : heard[i] = disk[i]
      BY <1>2, HeardTrue
    <2>2. answer'.rows = heard
      BY <1>1, <1>3
    <2> HIDE DEF heard
    <2> QED
      BY <1>1, <1>2, <1>3, <2>1, <2>2 DEF Told
  <1>4. CASE ~ok
    <2>1. answer'.rows = <<>>
      BY <1>1, <1>4
    <2>2. Told'
      BY <1>2, <2>1, NothingTold
    <2> QED
      BY <1>1, <1>4, <2>2
  <1> QED
    BY <1>3, <1>4

\* What the steps of the data path leave alone.
LEMMA AnswersKept ==
  ASSUME Answers, UNCHANGED <<disk, answer>>,
         at' = at \/ at' \notin {"start", "asked", "has"}
  PROVE  Answers'
  <1>1. NumbersWhole(disk, answer.room) => Told'
    BY DEF Answers, Told
  <1> HIDE DEF Told
  <1> QED
    BY <1>1 DEF Answers

\* Which parts of the state a step may touch.
LEMMA DataSteps ==
  ASSUME NEW n
  PROVE  /\ NextSegment => UNCHANGED <<asked, cmd, served, disk, taken, answer>>
                           /\ (at' = at \/ at' = "exit")
         /\ WriteSome(n) => UNCHANGED <<asked, cmd, served, disk, taken, answer, at>>
         /\ ReadSome(n) => UNCHANGED <<asked, cmd, served, disk, taken, answer, at>>
         /\ ReadEnd => UNCHANGED <<asked, cmd, served, disk, taken, answer, at>>
         /\ Fail => UNCHANGED <<asked, cmd, served, disk, taken, answer>> /\ at' = "exit"
         /\ Written \/ Compare =>
              /\ UNCHANGED <<asked, cmd, served, disk, taken, answer>>
              /\ at' \in {"written", "reads", "same", "differs"}
  BY DEF NextSegment, WriteSome, ReadSome, ReadEnd, Fail, Written, Compare,
         Finishes, diskVars

LEMMA AskSteps ==
  ASSUME NEW typed, NEW size,
         Allocate(typed) \/ SdkAllocate(typed) \/ Alloc(size)
  PROVE  /\ at = "start" /\ at' \in {"exit", "asked"}
         /\ UNCHANGED <<served, disk, taken, answer, io, media, ends, buffer, faults>>
  <1>1. ASSUME NEW t, NEW c, Ask(t, c)
        PROVE  /\ at = "start" /\ at' \in {"exit", "asked"}
               /\ UNCHANGED <<served, disk, taken, answer, io, media, ends, buffer, faults>>
    BY <1>1 DEF Ask, diskVars, ioVars
  <1>2. \E t, c : Ask(t, c)
    BY DEF Allocate, SdkAllocate, Alloc
  <1> QED
    BY <1>1, <1>2

LEMMA AnswersInit == Init => Answers
  <1>1. ASSUME disk = <<>>, answer = NoAnswer
        PROVE  disk \in Seq(DiskRows) /\ Told /\ ~answer.ok
    BY <1>1 DEF Told, NoAnswer
  <1> QED
    BY <1>1 DEF Init, Answers

LEMMA AnswersStep ==
  ASSUME Answers, [Next]_vars
  PROVE  Answers'
  <1>1. ASSUME NEW typed, Allocate(typed) \/ SdkAllocate(typed)
        PROVE  Answers'
    <2>1. /\ at = "start" /\ at' \in {"exit", "asked"}
          /\ UNCHANGED <<disk, answer>>
      BY <1>1, AskSteps
    <2>2. NumbersWhole(disk, answer.room) => Told'
      BY <2>1 DEF Answers, Told
    <2> QED
      BY <2>1, <2>2 DEF Answers
  <1>2. ASSUME NEW size, Alloc(size)
        PROVE  Answers'
    <2>1. /\ at = "start" /\ at' \in {"exit", "asked"}
          /\ UNCHANGED <<disk, answer>>
      BY <1>2, AskSteps
    <2>2. NumbersWhole(disk, answer.room) => Told'
      BY <2>1 DEF Answers, Told
    <2> QED
      BY <2>1, <2>2 DEF Answers
  <1>3. ASSUME Serve
        PROVE  Answers'
    <2>1. at = "asked" /\ answer = NoAnswer /\ answer' = NoAnswer
      BY <1>3 DEF Serve, Answers
    <2>2. disk' \in Seq(DiskRows)
      <3>1. disk' = disk \/ (cmd.size \in 1 .. Capacity /\ disk' \in DiskOf(cmd.size))
        BY <1>3 DEF Serve
      <3> QED
        BY <3>1, DiskTiles DEF Answers
    <2>3. Told' /\ ~answer'.ok
      <3>1. answer'.rows = <<>> /\ ~answer'.ok
        BY <2>1 DEF NoAnswer
      <3>2. Len(disk') \in Nat
        BY <2>2, LenProperties
      <3> QED
        BY <3>1, <3>2 DEF Told
    <2> QED
      BY <2>1, <2>2, <2>3 DEF Answers
  <1>4. ASSUME Release
        PROVE  Answers'
    <2>1. UNCHANGED <<disk, answer, at>>
      BY <1>4 DEF Release
    <2> QED
      BY <2>1, AnswersKept
  <1>5. ASSUME NEW room \in Rooms, ResultGet(room)
        PROVE  Answers'
    <2>1. /\ at' = "exit" /\ UNCHANGED disk
          /\ answer' = [kind |-> "result", ok |-> ResultOk(disk, room), room |-> room,
                        rows |-> IF ResultOk(disk, room) THEN RowsHeard(disk, room)
                                 ELSE <<>>]
      BY <1>5 DEF ResultGet, Answer
    <2>2. ResultOk(disk, room) \in BOOLEAN
      BY DEF ResultOk
    <2>3. disk \in Seq(DiskRows)
      BY DEF Answers
    <2> QED
      BY <2>1, <2>2, <2>3, AnswerTold DEF Answers
  <1>6. ASSUME NEW room \in Rooms, NEW capacity, List(room, capacity)
        PROVE  Answers'
    <2> DEFINE ok == capacity >= Len(disk) /\ ListOk(disk, room)
    <2>1. /\ at' = "exit" /\ UNCHANGED disk
          /\ answer' = [kind |-> "list", ok |-> ok, room |-> room,
                        rows |-> IF ok THEN RowsHeard(disk, room) ELSE <<>>]
      BY <1>6 DEF List, Answer
    <2>2. ok \in BOOLEAN /\ (ok => ListOk(disk, room))
      OBVIOUS
    <2>3. disk \in Seq(DiskRows)
      BY DEF Answers
    <2> HIDE DEF ok
    <2> QED
      BY <2>1, <2>2, <2>3, AnswerTold DEF Answers
  <1>7. ASSUME NEW room \in Rooms, NEW bytes, NEW mode, Collect(room, bytes, mode)
        PROVE  Answers'
    <2> DEFINE heard == RowsHeard(disk, room)
               ok == heard # <<>>
    <2>1. /\ at' \in {"exit", "reads", "writes"} /\ UNCHANGED disk
          /\ answer' = [kind |-> "logdev", ok |-> ok, room |-> room, rows |-> heard]
      BY <1>7 DEF Collect
    <2>2. heard = IF ok THEN heard ELSE <<>>
      OBVIOUS
    <2>3. answer' = [kind |-> "logdev", ok |-> ok, room |-> room,
                     rows |-> IF ok THEN RowsHeard(disk, room) ELSE <<>>]
      BY <2>1, <2>2
    <2>4. disk \in Seq(DiskRows) /\ ok \in BOOLEAN
      BY DEF Answers
    <2> HIDE DEF ok, heard
    <2> QED
      BY <2>1, <2>3, <2>4, AnswerTold DEF Answers
  <1>8. ASSUME NEW n, NextSegment \/ WriteSome(n) \/ ReadSome(n) \/ ReadEnd \/ Fail
                      \/ Written \/ Compare
        PROVE  Answers'
    <2>1. UNCHANGED <<disk, answer>> /\ (at' = at \/ at' \notin {"start", "asked", "has"})
      BY <1>8, DataSteps
    <2> QED
      BY <2>1, AnswersKept
  <1>9. CASE UNCHANGED vars
    <2>1. UNCHANGED <<disk, answer, at>>
      BY <1>9 DEF vars
    <2> QED
      BY <2>1, AnswersKept
  <1> QED
    BY <1>1, <1>2, <1>3, <1>4, <1>5, <1>6, <1>7, <1>8, <1>9 DEF Next

\* An answer that is said to be good tells the first rows of the disk, and the
\* list tells them all, for every room the manager may have for its answer.
THEOREM AnswersAreTrue == Spec => []AnswerTrue
  <1>1. Answers => AnswerTrue
    <2> SUFFICES ASSUME Answers, answer.ok
                 PROVE  /\ NumbersWhole(disk, answer.room) => IsPrefix(answer.rows, disk)
                        /\ answer.kind = "list" => Len(answer.rows) = Len(disk)
                        /\ Len(answer.rows) <= Len(disk)
      BY DEF AnswerTrue
    <2>1. Told => IsPrefix(answer.rows, disk)
      BY FirstRows DEF Told, Answers
    <2> QED
      BY <2>1 DEF Answers
  <1>2. Answers /\ [Next]_vars => Answers'
    BY AnswersStep
  <1> QED
    BY <1>1, <1>2, AnswersInit, PTL DEF Spec

-----------------------------------------------------------------------------
(* The data *)

\* The bytes that a request reaches are those of its row.
LEMMA Reached ==
  ASSUME Answers, Told, Passed, io.chunk > 0
  PROVE  /\ io.row \in 1 .. Len(disk) /\ Row = disk[io.row] /\ Row \in DiskRows
         /\ \A k \in 0 .. io.chunk - 1 :
              /\ ByteAt(Row, io.cursor, k) =
                   Row.sector * Sector + (io.cursor + k - Row.off)
              /\ io.cursor + k - Row.off \in 0 .. Row.len - 1
  <1>1. /\ io.row \in 1 .. Len(answer.rows) /\ Translates(Row, io.cursor, io.chunk)
        /\ io.cursor \in Nat /\ io.chunk \in Nat /\ io.bytes \in Nat
        /\ io.cursor + io.chunk <= io.bytes /\ io.bytes <= Word
    BY WordAssumption DEF Passed, IoStates
  <1>2. /\ answer.rows \in Seq(DiskRows) /\ disk \in Seq(DiskRows)
        /\ Len(answer.rows) <= Len(disk)
        /\ \A i \in 1 .. Len(answer.rows) : answer.rows[i] = disk[i]
    BY DEF Told, Answers
  <1>3. Len(answer.rows) \in Nat /\ Len(disk) \in Nat
    BY <1>2, LenProperties
  <1>4. io.row \in 1 .. Len(disk) /\ Row = disk[io.row]
    BY <1>1, <1>2, <1>3 DEF Row
  <1>5. PICK r \in DiskRows : r = Row
    BY <1>1, <1>2, ElementOfSeq DEF Row
  <1>6. /\ r.off \in Words /\ r.len \in Words /\ r.sector \in Words
        /\ Word \in Nat /\ Sector \in Nat
    BY WordAssumption DEF DiskRows
  <1>7. PICK x \in Words : x = io.cursor
    BY <1>1, WordAssumption DEF Words
  <1>8. PICK c \in Words : c = io.chunk
    <2>1. io.chunk <= Wrap(r.len - Relative(r, x))
      BY <1>1, <1>5, <1>7 DEF Translates, Covers
    <2>2. r.len - Relative(r, x) \in Int
      BY <1>6 DEF Relative, Wrap, Words
    <2>3. Wrap(r.len - Relative(r, x)) \in Words
      BY <2>2, WordAssumption DEF Wrap, Words
    <2> QED
      BY <1>1, <1>6, <2>1, <2>3 DEF Words
  <1>9. Translates(r, x, c)
    BY <1>1, <1>5, <1>7, <1>8
  <1>10. PICK q \in Rows : q.off = r.off /\ q.len = r.len /\ q.sector = r.sector
    <2>1. [off |-> r.off, len |-> r.len, sector |-> r.sector] \in Rows
      BY <1>6 DEF Rows
    <2> QED
      BY <2>1
  <1>11. Translates(q, x, c) /\ \A k : ByteAt(q, x, k) = ByteAt(r, x, k)
    BY <1>9, <1>10 DEF Translates, Covers, Addressable, Relative, PhysBase,
                       PhysOffset, ByteAt
  <1>12. q.off <= x
    BY <1>11 DEF Translates, Covers
  <1>13. ASSUME NEW k \in 0 .. c - 1
         PROVE  /\ ByteAt(r, x, k) = r.sector * Sector + (x + k - r.off)
                /\ x + k - r.off \in 0 .. r.len - 1
    <2> DEFINE base == q.sector * Sector
    <2>1. /\ ByteAt(q, x, k) = base + (x - q.off) + k
          /\ ByteAt(q, x, k) < base + q.len
      BY <1>11, TranslatedRangeInExtent
    <2>2. base \in Int
      BY <1>6, <1>10 DEF Words
    <2>3. x \in Nat /\ k \in Nat /\ q.off \in Nat /\ q.len \in Nat
      BY <1>6, <1>10 DEF Words
    <2>4. ByteAt(r, x, k) = ByteAt(q, x, k) /\ base = r.sector * Sector
      BY <1>10, <1>11
    <2> HIDE DEF base
    <2>5. base + (x - q.off) + k = base + (x + k - q.off)
      BY <2>2, <2>3
    <2>6. x + k - q.off < q.len /\ x + k - q.off >= 0
      BY <1>12, <2>1, <2>2, <2>3, <2>5
    <2> QED
      BY <1>10, <2>1, <2>3, <2>4, <2>5, <2>6
  <1> QED
    BY <1>4, <1>5, <1>7, <1>8, <1>13

\* A request goes on where it stopped.
LEMMA GoesOn ==
  ASSUME Passed, io.chunk > 0, NEW n \in 1 .. io.chunk - io.done, Advance(n),
         UNCHANGED answer
  PROVE  /\ Passed'
         /\ io'.cursor + io'.done = io.cursor + io.done + n
         /\ io'.mode = io.mode /\ io'.bytes = io.bytes
  <1>1. PICK s \in IoStates : s = io
    BY DEF Passed
  <1>2. /\ s.cursor \in Nat /\ s.chunk \in Nat /\ s.done \in Nat /\ s.bytes \in Nat
        /\ s.done < s.chunk /\ s.cursor + s.chunk <= s.bytes /\ s.row \in Nat
        /\ s.bytes \in 1 .. Word /\ n \in Nat /\ n > 0 /\ s.done + n <= s.chunk
    BY <1>1, WordAssumption DEF Passed, IoStates
  <1>3. CASE s.done + n = s.chunk
    <2>1. io' = [s EXCEPT !.cursor = s.cursor + s.chunk, !.chunk = 0, !.done = 0]
      BY <1>1, <1>3 DEF Advance
    <2>2. /\ io'.cursor = s.cursor + s.chunk /\ io'.chunk = 0 /\ io'.done = 0
          /\ io'.mode = s.mode /\ io'.bytes = s.bytes /\ io' \in IoStates
      <3>1. PICK m \in Nat : m = s.cursor + s.chunk
        BY <1>2
      <3>2. io' = [s EXCEPT !.cursor = m, !.chunk = 0, !.done = 0]
        BY <2>1, <3>1
      <3> QED
        BY <3>1, <3>2 DEF IoStates
    <2> QED
      BY <1>1, <1>2, <1>3, <2>2 DEF Passed
  <1>4. CASE s.done + n # s.chunk
    <2>1. io' = [s EXCEPT !.done = s.done + n]
      BY <1>1, <1>4 DEF Advance
    <2>2. /\ io'.cursor = s.cursor /\ io'.chunk = s.chunk /\ io'.done = s.done + n
          /\ io'.mode = s.mode /\ io'.bytes = s.bytes /\ io'.row = s.row
          /\ io' \in IoStates
      BY <1>2, <2>1 DEF IoStates
    <2>3. Row' = Row
      BY <1>1, <2>2 DEF Row
    <2>4. Translates(Row, s.cursor, s.chunk) /\ s.row \in 1 .. Len(answer.rows)
      BY <1>1, <1>2 DEF Passed
    <2>5. Translates(Row', io'.cursor, io'.chunk) /\ io'.row \in 1 .. Len(answer'.rows)
      BY <2>2, <2>3, <2>4
    <2>6. /\ io'.bytes \in 1 .. Word
          /\ io'.cursor \in 0 .. io'.bytes
          /\ io'.chunk \in 0 .. io'.bytes - io'.cursor
          /\ io'.chunk # 0
          /\ io'.done \in 0 .. io'.chunk - 1
      BY <1>2, <1>4, <2>2
    <2>7. Passed'
      BY <2>2, <2>5, <2>6 DEF Passed
    <2>8. io'.cursor + io'.done = s.cursor + s.done + n
      BY <1>2, <2>2
    <2> QED
      BY <1>1, <2>2, <2>7, <2>8
  <1> QED
    BY <1>3, <1>4

Begun(s, i, c) == [s EXCEPT !.row = i, !.chunk = c, !.done = 0]

LEMMA BegunType ==
  ASSUME NEW s \in IoStates, NEW i \in Nat, NEW c \in Nat
  PROVE  /\ Begun(s, i, c) \in IoStates
         /\ Begun(s, i, c).cursor = s.cursor
         /\ Begun(s, i, c).chunk = c
         /\ Begun(s, i, c).done = 0
         /\ Begun(s, i, c).row = i
         /\ Begun(s, i, c).mode = s.mode
         /\ Begun(s, i, c).bytes = s.bytes
  BY DEF Begun, IoStates

\* The request that NextSegment begins has been let pass.
LEMMA SegmentPasses ==
  ASSUME Answers, Told, Passed, NEW i \in Mappings, UNCHANGED answer,
         io.chunk = 0, io.cursor < io.bytes,
         Translates(answer.rows[i], io.cursor, ChunkOf(answer.rows[i])),
         io' = [io EXCEPT !.row = i, !.chunk = ChunkOf(answer.rows[i]), !.done = 0]
  PROVE  /\ Passed'
         /\ io'.cursor = io.cursor /\ io'.done = io.done
         /\ io'.mode = io.mode /\ io'.bytes = io.bytes
  <1> DEFINE r == answer.rows[i]
             c == ChunkOf(r)
  <1>1. PICK s \in IoStates : s = io
    BY DEF Passed
  <1>2. /\ s.cursor \in Nat /\ s.bytes \in Nat /\ s.cursor < s.bytes
        /\ s.bytes \in 1 .. Word /\ s.done = 0
    BY <1>1 DEF Passed, IoStates
  <1>3. /\ i \in 1 .. Len(answer.rows) /\ r \in DiskRows /\ i \in Nat
        /\ s.cursor >= r.off /\ s.cursor < Wrap(r.off + r.len)
    <2>1. answer.rows \in Seq(DiskRows)
      BY DEF Told
    <2>2. DOMAIN answer.rows = 1 .. Len(answer.rows) /\ Len(answer.rows) \in Nat
      BY <2>1, LenProperties
    <2>3. i \in 1 .. Len(answer.rows) /\ s.cursor >= r.off /\ s.cursor < Wrap(r.off + r.len)
      BY <1>1, <2>2 DEF Mappings
    <2> QED
      BY <2>1, <2>2, <2>3, ElementOfSeq
  <1> HIDE DEF r
  <1>4. r.off \in Nat /\ r.len \in Nat /\ Word \in Nat /\ Word > 0
    BY <1>3, WordAssumption DEF DiskRows, Words
  <1>5. Wrap(r.off + r.len) <= r.off + r.len /\ Wrap(r.off + r.len) \in Nat
    <2>1. r.off + r.len \in Nat
      BY <1>4
    <2>2. \A x \in Nat : x % Word <= x /\ x % Word \in Nat
      BY <1>4
    <2> QED
      BY <2>1, <2>2 DEF Wrap
  <1>6. c \in 1 .. s.bytes - s.cursor
    <2>1. PICK rest \in Int : rest = s.bytes - s.cursor /\ rest > 0
      BY <1>2
    <2>2. PICK room \in Int : room = r.off + r.len - s.cursor /\ room > 0
      BY <1>2, <1>3, <1>4, <1>5
    <2>3. c = IF rest > room THEN room ELSE rest
      BY <1>1, <2>1, <2>2 DEF ChunkOf
    <2> HIDE DEF c
    <2> QED
      BY <2>1, <2>2, <2>3
  <1> HIDE DEF c
  <1>7. io' = [s EXCEPT !.row = i, !.chunk = c, !.done = 0]
    BY <1>1 DEF c, r
  <1>8. /\ io'.cursor = s.cursor /\ io'.chunk = c /\ io'.done = 0 /\ io'.row = i
        /\ io'.mode = s.mode /\ io'.bytes = s.bytes /\ io' \in IoStates
    <2>1. c \in Nat
      BY <1>2, <1>6
    <2>2. i \in Nat
      BY <1>3
    <2>3. io' = Begun(s, i, c)
      BY <1>7 DEF Begun
    <2>4. /\ Begun(s, i, c) \in IoStates
          /\ Begun(s, i, c).cursor = s.cursor
          /\ Begun(s, i, c).chunk = c
          /\ Begun(s, i, c).done = 0
          /\ Begun(s, i, c).row = i
          /\ Begun(s, i, c).mode = s.mode
          /\ Begun(s, i, c).bytes = s.bytes
      BY ONLY <2>1, <2>2, BegunType
    <2> QED
      BY ONLY <2>3, <2>4
  <1>9. Row' = r
    BY <1>8 DEF Row, r
  <1>10. Translates(Row', io'.cursor, io'.chunk) /\ io'.row \in 1 .. Len(answer'.rows)
    BY <1>1, <1>3, <1>8, <1>9 DEF c, r
  <1> QED
    BY <1>1, <1>2, <1>6, <1>8, <1>10 DEF Passed

\* What pwrite has put on the devices.
LEMMA PwriteStores ==
  ASSUME Answers, Told, Passed, media \in [Devs -> [0 .. DevSize - 1 -> Int]],
         NEW n, WriteSome(n)
  PROVE  /\ io.chunk > 0 /\ n \in 1 .. io.chunk - io.done
         /\ Row.dev \in Devs
         /\ Position = Row.sector * Sector + (io.cursor + io.done - Row.off)
         /\ Position \in Int
         /\ media' \in [Devs -> [0 .. DevSize - 1 -> Int]]
         /\ \A d \in Devs, p \in 0 .. DevSize - 1 :
              media'[d][p] = IF d = Row.dev /\ p - Position \in 0 .. n - 1
                             THEN io.cursor + io.done + (p - Position)
                             ELSE media[d][p]
  <1>1. /\ n \in 1 .. io.chunk - io.done
        /\ media' = [media EXCEPT ![Row.dev] = [p \in 0 .. DevSize - 1 |->
             IF p - Position \in 0 .. n - 1
             THEN io.cursor + io.done + (p - Position) ELSE @[p]]]
    BY DEF WriteSome
  <1>2. /\ io.cursor \in Nat /\ io.done \in Nat /\ io.chunk \in Nat
        /\ io.chunk > 0 /\ io.done \in 0 .. io.chunk - 1
    BY <1>1 DEF Passed, IoStates
  <1>3. /\ Row \in DiskRows
        /\ Position = Row.sector * Sector + (io.cursor + io.done - Row.off)
    BY <1>2, Reached DEF Position
  <1>4. Row.dev \in Devs /\ Row.sector \in Int /\ Row.off \in Int /\ Sector \in Int
    BY <1>3, WordAssumption DEF DiskRows, Words
  <1>5. Position \in Int
    <2>1. Row.sector * Sector \in Int
      BY <1>4
    <2> QED
      BY <1>2, <1>3, <1>4, <2>1
  <1>6. PICK r \in Devs : r = Row.dev
    BY <1>4
  <1>7. PICK q \in Int : q = Position
    BY <1>5
  <1>8. PICK x \in Int : x = io.cursor + io.done
    BY <1>2
  <1> DEFINE new == [p \in 0 .. DevSize - 1 |->
                       IF p - q \in 0 .. n - 1 THEN x + (p - q) ELSE media[r][p]]
  <1>9. media' = [media EXCEPT ![r] = new]
    BY <1>1, <1>6, <1>7, <1>8
  <1>10. new \in [0 .. DevSize - 1 -> Int]
    <2>1. \A p \in 0 .. DevSize - 1 : x + (p - q) \in Int /\ media[r][p] \in Int
      BY SessionAssumption
    <2> QED
      BY <2>1
  <1>11. \A p \in 0 .. DevSize - 1 :
           new[p] = IF p - q \in 0 .. n - 1 THEN x + (p - q) ELSE media[r][p]
    OBVIOUS
  <1> HIDE DEF new
  <1>12. media' \in [Devs -> [0 .. DevSize - 1 -> Int]]
    BY <1>9, <1>10
  <1>13. \A d \in Devs : media'[d] = IF d = r THEN new ELSE media[d]
    BY <1>9
  <1>14. \A d \in Devs, p \in 0 .. DevSize - 1 :
           media'[d][p] = IF d = r /\ p - q \in 0 .. n - 1 THEN x + (p - q)
                          ELSE media[d][p]
    BY <1>11, <1>13
  <1> QED
    BY <1>1, <1>2, <1>3, <1>4, <1>5, <1>6, <1>7, <1>8, <1>12, <1>14

\* pwrite puts bytes in their place.
LEMMA WritesInPlace ==
  ASSUME Answers, Told, Passed, media \in [Devs -> [0 .. DevSize - 1 -> Int]],
         InPlace, NEW n, WriteSome(n)
  PROVE  InPlace'
  <1>1. /\ io.chunk > 0 /\ n \in 1 .. io.chunk - io.done
        /\ Position = Row.sector * Sector + (io.cursor + io.done - Row.off)
        /\ Position \in Int
        /\ \A d \in Devs, p \in 0 .. DevSize - 1 :
              media'[d][p] = IF d = Row.dev /\ p - Position \in 0 .. n - 1
                             THEN io.cursor + io.done + (p - Position)
                             ELSE media[d][p]
    BY PwriteStores
  <1>2. /\ io.cursor \in Nat /\ io.done \in Nat /\ io.chunk \in Nat
        /\ io.done < io.chunk /\ n \in Nat /\ io.done + n <= io.chunk
    BY <1>1 DEF Passed, IoStates
  <1>3. /\ io.row \in 1 .. Len(disk) /\ Row = disk[io.row] /\ Row \in DiskRows
        /\ \A k \in 0 .. io.chunk - 1 :
             /\ ByteAt(Row, io.cursor, k) =
                  Row.sector * Sector + (io.cursor + k - Row.off)
             /\ io.cursor + k - Row.off \in 0 .. Row.len - 1
    BY <1>1, Reached
  <1>4. UNCHANGED disk
    BY DEF WriteSome, diskVars
  <1>5. Row.sector * Sector \in Int /\ Row.off \in Int
    BY <1>3, WordAssumption DEF DiskRows, Words
  <1> SUFFICES ASSUME NEW d \in Devs, NEW p \in 0 .. DevSize - 1, media'[d][p] >= 0
               PROVE  <<d, p>> \in PlaceOf(media'[d][p])
    BY <1>4 DEF InPlace, PlaceOf
  <1>8. PICK x \in Nat : x = io.cursor
    BY <1>2
  <1>9. PICK y \in Nat : y = io.done
    BY <1>2
  <1>10. PICK f \in Int : f = Row.off
    BY <1>5
  <1>11. PICK base \in Int : base = Row.sector * Sector
    BY <1>5
  <1>12. PICK q \in Int : q = Position /\ q = base + (x + y - f)
    BY <1>1, <1>8, <1>9, <1>10, <1>11
  <1>6. CASE d = Row.dev /\ p - Position \in 0 .. n - 1
    <2>1. PICK k \in 0 .. n - 1 : p = q + k /\ k \in Nat
      BY <1>2, <1>6, <1>12, SessionAssumption
    <2>2. PICK b \in Int : b = x + (y + k)
      BY <2>1
    <2>3. media'[d][p] = b
      <3>1. media'[d][p] = x + y + (p - q)
        BY <1>1, <1>6, <1>8, <1>9, <1>12
      <3>2. x + y + (p - q) = b
        BY <2>1, <2>2
      <3> QED
        BY <3>1, <3>2
    <2>4. y + k \in 0 .. io.chunk - 1
      BY <1>2, <1>9, <2>1
    <2>5. b - Row.off \in 0 .. Row.len - 1
      <3>1. PICK j \in 0 .. io.chunk - 1 : j = y + k
        BY <2>4
      <3>2. io.cursor + j - Row.off \in 0 .. Row.len - 1
        BY <1>3
      <3> QED
        <4>1. (x + (j - f)) \in 0 .. Row.len - 1
          BY <1>8, <1>10, <3>2
        <4>2. x + (j - f) = b - f
          BY <2>1, <2>2, <3>1
        <4> QED
          BY <1>10, <4>1, <4>2
    <2>6. p = Row.sector * Sector + (b - Row.off)
      <3>1. p = base + (b - f)
        BY <1>12, <2>1, <2>2
      <3> QED
        BY <1>10, <1>11, <3>1
    <2>7. io.row \in {j \in DOMAIN disk : b - disk[j].off \in 0 .. disk[j].len - 1}
      <3>1. DOMAIN disk = 1 .. Len(disk)
        BY LenProperties DEF Answers
      <3> QED
        BY <1>3, <2>5, <3>1
    <2>8. <<d, p>> = <<disk[io.row].dev,
                       disk[io.row].sector * Sector + (b - disk[io.row].off)>>
      BY <1>3, <1>6, <2>6
    <2>9. <<d, p>> \in PlaceOf(b)
      BY <2>7, <2>8 DEF PlaceOf
    <2> QED
      BY <2>3, <2>9
  <1>7. CASE ~(d = Row.dev /\ p - Position \in 0 .. n - 1)
    <2>1. media'[d][p] = media[d][p]
      BY <1>1, <1>7
    <2> QED
      BY <2>1 DEF InPlace
  <1> QED
    BY <1>6, <1>7

LEMMA CapacityFits == Capacity \in Nat /\ Capacity < Word /\ Word \in Nat
  BY SessionAssumption, WordAssumption DEF Words

\* A step of the data path, which leaves the disk and the answer alone.
LEMMA DataKept ==
  ASSUME Data, UNCHANGED <<served, disk, answer>>,
         at \notin {"start", "asked", "has"}, at' \notin {"start", "asked", "has"},
         at' = "writes" => UNCHANGED buffer /\ at = "writes",
         at' \in {"writes", "reads"} => at \in {"writes", "reads"},
         Told => /\ media' \in [Devs -> [0 .. DevSize - 1 -> Int]]
                 /\ InPlace'
                 /\ at' \in {"writes", "reads"} => Passed'
  PROVE  Data'
  <1>1. Told' <=> Told
    BY DEF Told
  <1> HIDE DEF Told, InPlace, Passed
  <1> QED
    BY <1>1 DEF Data

LEMMA InPlaceKept ==
  ASSUME InPlace, UNCHANGED <<disk, media>>
  PROVE  InPlace'
  BY DEF InPlace, PlaceOf

LEMMA PassedKept ==
  ASSUME Passed, UNCHANGED <<io, answer>>
  PROVE  Passed'
  BY DEF Passed, Row

\* Before the answer nothing is told, which is true.
LEMMA NothingAsked ==
  ASSUME Answers, at \in {"start", "asked", "has"}
  PROVE  Told
  <1>1. answer.rows = <<>> /\ disk \in Seq(DiskRows)
    BY DEF Answers, NoAnswer
  <1>2. Len(disk) \in Nat
    BY <1>1, LenProperties
  <1> QED
    BY <1>1, <1>2 DEF Told

LEMMA NothingWritten ==
  ASSUME media' \in [Devs -> [0 .. DevSize - 1 -> Int]],
         \A d \in Devs, p \in 0 .. DevSize - 1 : media'[d][p] < 0
  PROVE  InPlace'
  <1> SUFFICES ASSUME NEW d \in Devs, NEW p \in 0 .. DevSize - 1, media'[d][p] >= 0
               PROVE  FALSE
    BY DEF InPlace
  <1>1. media'[d][p] \in Int /\ media'[d][p] < 0
    BY SessionAssumption
  <1> QED
    BY <1>1

LEMMA DataInit == Init => Data
  <1> SUFFICES ASSUME Init
               PROVE  Data
    OBVIOUS
  <1>1. /\ at = "start" /\ io = NoIo /\ buffer = <<>>
        /\ media = [d \in Devs |-> [p \in 0 .. DevSize - 1 |-> -1]]
    BY DEF Init, Empty
  <1>2. /\ media \in [Devs -> [0 .. DevSize - 1 -> Int]]
        /\ \A d \in Devs, p \in 0 .. DevSize - 1 : media[d][p] = -1
    BY <1>1
  <1>3. InPlace /\ \A d \in Devs, p \in 0 .. DevSize - 1 : media[d][p] < 0
    BY <1>2 DEF InPlace
  <1> HIDE DEF InPlace, Told, Passed
  <1> QED
    BY <1>1, <1>2, <1>3 DEF Data

\* Release clears what another owner has written over.
LEMMA DataReleased ==
  ASSUME Data, Answers, Release
  PROVE  Data'
  <1>1. /\ UNCHANGED <<at, served, disk, answer, io, buffer>>
        /\ at \in {"has", "writes", "reads"}
    BY DEF Release
  <1>2. \A d \in Devs, p \in 0 .. DevSize - 1 :
          media'[d][p] = -2 \/ media'[d][p] = media[d][p]
    BY DEF Release, Foreign
  <1>3. media \in [Devs -> [0 .. DevSize - 1 -> Int]] =>
          media' \in [Devs -> [0 .. DevSize - 1 -> Int]]
    <2> SUFFICES ASSUME media \in [Devs -> [0 .. DevSize - 1 -> Int]]
                 PROVE  media' \in [Devs -> [0 .. DevSize - 1 -> Int]]
      OBVIOUS
    <2>1. \A d \in Devs, p \in 0 .. DevSize - 1 : media[d][p] \in Int
      OBVIOUS
    <2> QED
      BY <2>1 DEF Release, Foreign
  <1>4. InPlace => InPlace'
    <2> SUFFICES ASSUME InPlace, NEW d \in Devs, NEW p \in 0 .. DevSize - 1,
                        media'[d][p] >= 0
                 PROVE  <<d, p>> \in PlaceOf(media'[d][p])
      BY <1>1 DEF InPlace, PlaceOf
    <2>1. media'[d][p] = media[d][p]
      BY <1>2
    <2> QED
      BY <2>1 DEF InPlace
  <1>5. Passed => Passed'
    BY <1>1, PassedKept
  <1>6. Told' <=> Told
    BY <1>1 DEF Told
  <1>7. at = "has" => \A d \in Devs, p \in 0 .. DevSize - 1 : media'[d][p] < 0
    <2> SUFFICES ASSUME at = "has", NEW d \in Devs, NEW p \in 0 .. DevSize - 1
                 PROVE  media'[d][p] < 0
      OBVIOUS
    <2>1. media[d][p] < 0
      BY DEF Data
    <2> QED
      BY <1>2, <2>1
  <1> HIDE DEF InPlace, Told, Passed
  <1> QED
    BY <1>1, <1>3, <1>4, <1>5, <1>6, <1>7 DEF Data

\* The request is served: no byte has been written yet.
LEMMA DataServed ==
  ASSUME Data, Answers, Serve
  PROVE  Data'
  <1>1. /\ at = "asked" /\ at' \in {"has", "exit"}
        /\ UNCHANGED <<answer, io, media, buffer>>
        /\ at' = "has" => served'.size \in 1 .. Capacity
    <2>1. /\ at = "asked" /\ at' \in {"has", "exit"}
          /\ UNCHANGED <<answer, io, media, buffer>>
          /\ at' = "has" => served' = Decoded(cmd) /\ cmd.size \in 1 .. Capacity
      BY DEF Serve, ioVars
    <2>2. Decoded(cmd).size = cmd.size
      BY DEF Decoded
    <2> QED
      BY <2>1, <2>2
  <1>2. /\ media' \in [Devs -> [0 .. DevSize - 1 -> Int]]
        /\ \A d \in Devs, p \in 0 .. DevSize - 1 : media'[d][p] < 0
    <2>1. Told
      BY <1>1, NothingAsked
    <2> QED
      BY <1>1, <2>1 DEF Data
  <1>3. InPlace'
    BY <1>2, NothingWritten
  <1>4. io' = NoIo /\ buffer' = <<>>
    BY <1>1 DEF Data
  <1> HIDE DEF InPlace, Told, Passed
  <1> QED
    BY <1>1, <1>2, <1>3, <1>4 DEF Data

LEMMA DataAsked ==
  ASSUME Data, UNCHANGED <<served, disk, answer, io, media, buffer>>,
         at = "start", at' \in {"exit", "asked"}
  PROVE  Data'
  <1>1. (Told' <=> Told) /\ (InPlace => InPlace')
    BY InPlaceKept DEF Told
  <1> HIDE DEF InPlace, Told, Passed
  <1> QED
    BY <1>1 DEF Data

\* The client is told something: nothing has been written yet, and the
\* pattern begins at its start.
LEMMA DataAnswered ==
  ASSUME Data, Answers, at = "has", UNCHANGED <<served, media, buffer>>,
         at' \in {"exit", "writes", "reads"},
         at' \in {"writes", "reads"} =>
           \E bytes \in 1 .. served.size + 1, mode \in {"write", "read", "verify"} :
             io' = [NoIo EXCEPT !.bytes = bytes, !.mode = mode]
  PROVE  Data'
  <1>1. Told
    BY NothingAsked
  <1>2. /\ media' \in [Devs -> [0 .. DevSize - 1 -> Int]]
        /\ \A d \in Devs, p \in 0 .. DevSize - 1 : media'[d][p] < 0
    BY <1>1 DEF Data
  <1>3. InPlace'
    BY <1>2, NothingWritten
  <1>4. at' \in {"writes", "reads"} => Passed'
    <2> SUFFICES ASSUME at' \in {"writes", "reads"}
                 PROVE  Passed'
      OBVIOUS
    <2>1. PICK bytes \in 1 .. served.size + 1, mode \in {"write", "read", "verify"} :
            io' = [NoIo EXCEPT !.bytes = bytes, !.mode = mode]
      OBVIOUS
    <2>2. served.size \in 1 .. Capacity
      BY DEF Data
    <2>5. Capacity \in Nat /\ Capacity < Word /\ Word \in Nat
      BY CapacityFits
    <2>6. PICK size \in 1 .. Capacity : size = served.size
      BY <2>2
    <2>3. bytes \in 1 .. Word /\ bytes \in Nat
      <3>1. bytes \in 1 .. size + 1
        BY <2>6
      <3> QED
        BY ONLY <2>5, <2>6, <3>1
    <2>4. /\ io'.bytes = bytes /\ io'.mode = mode /\ io'.cursor = 0
          /\ io'.chunk = 0 /\ io'.done = 0 /\ io' \in IoStates
      BY <2>1, <2>3 DEF NoIo, IoStates
    <2>7. /\ io'.bytes \in 1 .. Word /\ io'.cursor \in 0 .. io'.bytes
          /\ io'.chunk \in 0 .. io'.bytes - io'.cursor
      <3>1. 0 \in 0 .. bytes /\ 0 \in 0 .. bytes - 0
        BY ONLY <2>3
      <3> QED
        BY ONLY <2>3, <2>4, <3>1
    <2> QED
      BY <2>4, <2>7 DEF Passed
  <1>5. at = "has" /\ served'.size \in 1 .. Capacity /\ buffer' = <<>>
    BY DEF Data
  <1> HIDE DEF InPlace, Told, Passed
  <1> QED
    BY <1>2, <1>3, <1>4, <1>5 DEF Data

\* The pattern has come to its end.
LEMMA FinishPasses ==
  ASSUME Passed, NEW next, Finishes(next)
  PROVE  /\ Passed'
         /\ io'.cursor = 0 /\ io'.done = 0 /\ io'.chunk = 0
         /\ io'.mode = io.mode /\ io'.bytes = io.bytes
         /\ io.cursor = io.bytes /\ io.chunk = 0 /\ io.done = 0
  <1>1. PICK s \in IoStates : s = io
    BY DEF Passed
  <1>2. /\ s.mode \in {"write", "read", "verify"} /\ s.bytes \in Nat
        /\ s.bytes \in 1 .. Word /\ s.cursor = s.bytes
        /\ s.chunk = 0 /\ s.done = 0
    BY <1>1 DEF Passed, Finishes, IoStates
  <1>3. io' = [NoIo EXCEPT !.bytes = s.bytes, !.mode = s.mode]
    BY <1>1 DEF Finishes
  <1>4. /\ io'.bytes = s.bytes /\ io'.mode = s.mode /\ io'.cursor = 0
        /\ io'.chunk = 0 /\ io'.done = 0 /\ io' \in IoStates
    BY <1>2, <1>3 DEF NoIo, IoStates
  <1>5. Passed'
    BY <1>2, <1>4 DEF Passed
  <1> QED
    BY <1>1, <1>2, <1>4, <1>5

LEMMA DataStep ==
  ASSUME Answers, Data, [Next]_vars
  PROVE  Data'
  <1>1. ASSUME NEW typed, NEW size,
               Allocate(typed) \/ SdkAllocate(typed) \/ Alloc(size)
        PROVE  Data'
    BY <1>1, AskSteps, DataAsked
  <1>2. ASSUME Serve
        PROVE  Data'
    BY <1>2, DataServed
  <1>3. ASSUME Release
        PROVE  Data'
    BY <1>3, DataReleased
  <1>4. ASSUME NEW room, NEW capacity, ResultGet(room) \/ List(room, capacity)
        PROVE  Data'
    <2>1. /\ at = "has" /\ at' = "exit" /\ UNCHANGED <<served, media, buffer>>
      BY <1>4 DEF ResultGet, List, Answer, ioVars
    <2> QED
      BY <2>1, DataAnswered
  <1>5. ASSUME NEW room, NEW bytes \in 1 .. served.size + 1,
               NEW mode \in {"write", "read", "verify"}, Collect(room, bytes, mode)
        PROVE  Data'
    <2>1. /\ at = "has" /\ at' \in {"exit", "writes", "reads"}
          /\ UNCHANGED <<served, media, buffer>>
          /\ io' = [NoIo EXCEPT !.bytes = bytes, !.mode = mode]
      BY <1>5 DEF Collect
    <2> QED
      BY <2>1, DataAnswered
  <1>6. ASSUME NextSegment
        PROVE  Data'
    <2>1. /\ at \in {"writes", "reads"} /\ (at' = at \/ at' = "exit")
          /\ UNCHANGED <<served, disk, answer, media, buffer>>
      BY <1>6 DEF NextSegment, diskVars
    <2>2. CASE at' = "exit"
      <3>1. Told => /\ media' \in [Devs -> [0 .. DevSize - 1 -> Int]]
                    /\ InPlace'
        BY <2>1, InPlaceKept DEF Data
      <3> QED
        BY <2>1, <2>2, <3>1, DataKept
    <2>3. CASE at' = at
      <3>1. PICK i \in Mappings :
              /\ Translates(answer.rows[i], io.cursor, ChunkOf(answer.rows[i]))
              /\ io' = [io EXCEPT !.row = i, !.chunk = ChunkOf(answer.rows[i]),
                                  !.done = 0]
        BY <1>6, <2>1, <2>3 DEF NextSegment
      <3>2. io.chunk = 0 /\ io.cursor < io.bytes
        BY <1>6 DEF NextSegment
      <3>3. Told => /\ media' \in [Devs -> [0 .. DevSize - 1 -> Int]]
                    /\ InPlace' /\ Passed'
        <4> SUFFICES ASSUME Told
                     PROVE  /\ media' \in [Devs -> [0 .. DevSize - 1 -> Int]]
                            /\ InPlace' /\ Passed'
          OBVIOUS
        <4>1. Passed
          BY <2>1 DEF Data
        <4>2. Passed'
          BY <2>1, <3>1, <3>2, <4>1, SegmentPasses
        <4> QED
          BY <2>1, <4>2, InPlaceKept DEF Data
      <3> QED
        BY <2>1, <2>3, <3>3, DataKept
    <2> QED
      BY <2>1, <2>2, <2>3
  <1>7. ASSUME NEW n, WriteSome(n)
        PROVE  Data'
    <2>1. /\ at = "writes" /\ at' = at /\ Advance(n)
          /\ UNCHANGED <<served, disk, answer, buffer>>
      BY <1>7 DEF WriteSome, diskVars
    <2>2. Told => /\ media' \in [Devs -> [0 .. DevSize - 1 -> Int]]
                  /\ InPlace' /\ Passed'
      <3> SUFFICES ASSUME Told
                   PROVE  /\ media' \in [Devs -> [0 .. DevSize - 1 -> Int]]
                          /\ InPlace' /\ Passed'
        OBVIOUS
      <3>1. /\ Passed /\ InPlace /\ media \in [Devs -> [0 .. DevSize - 1 -> Int]]
        BY <2>1 DEF Data
      <3>2. /\ io.chunk > 0 /\ n \in 1 .. io.chunk - io.done
            /\ media' \in [Devs -> [0 .. DevSize - 1 -> Int]]
        BY <1>7, <3>1, PwriteStores
      <3>3. InPlace'
        BY <1>7, <3>1, WritesInPlace
      <3>4. Passed'
        BY <2>1, <3>1, <3>2, GoesOn
      <3> QED
        BY <3>2, <3>3, <3>4
    <2> QED
      BY <2>1, <2>2, DataKept
  <1>8. ASSUME NEW n, Advance(n), at = "reads", at' = at,
               Passed => io.chunk > 0 /\ n \in 1 .. io.chunk - io.done,
               UNCHANGED <<served, disk, answer, media>>
        PROVE  Data'
    <2>1. Told => /\ media' \in [Devs -> [0 .. DevSize - 1 -> Int]]
                  /\ InPlace' /\ Passed'
      <3> SUFFICES ASSUME Told
                   PROVE  /\ media' \in [Devs -> [0 .. DevSize - 1 -> Int]]
                          /\ InPlace' /\ Passed'
        OBVIOUS
      <3>1. /\ Passed /\ InPlace /\ media \in [Devs -> [0 .. DevSize - 1 -> Int]]
        BY <1>8 DEF Data
      <3>2. Passed'
        BY <1>8, <3>1, GoesOn
      <3> QED
        BY <1>8, <3>1, <3>2, InPlaceKept
    <2> QED
      BY <1>8, <2>1, DataKept
  <1>9. ASSUME NEW n, ReadSome(n)
        PROVE  Data'
    <2>1. /\ Advance(n) /\ at = "reads" /\ at' = at /\ n \in 1 .. io.chunk - io.done
          /\ UNCHANGED <<served, disk, answer, media>>
      BY <1>9 DEF ReadSome, diskVars
    <2>2. Passed => io.chunk > 0
      BY <2>1 DEF Passed, IoStates
    <2> QED
      BY <1>8, <2>1, <2>2
  <1>10. ASSUME ReadEnd
         PROVE  Data'
    <2> DEFINE n == io.chunk - io.done
    <2>1. /\ Advance(n) /\ at = "reads" /\ at' = at /\ io.chunk > 0
          /\ UNCHANGED <<served, disk, answer, media>>
      BY <1>10 DEF ReadEnd, diskVars
    <2>2. Passed => n \in 1 .. io.chunk - io.done
      BY <2>1 DEF Passed, IoStates
    <2> HIDE DEF n
    <2> QED
      BY <1>8, <2>1, <2>2
  <1>11. ASSUME Fail
         PROVE  Data'
    <2>1. /\ at \in {"writes", "reads"} /\ at' = "exit"
          /\ UNCHANGED <<served, disk, answer, media>>
      BY <1>11 DEF Fail, diskVars
    <2>2. Told => media' \in [Devs -> [0 .. DevSize - 1 -> Int]] /\ InPlace'
      BY <2>1, InPlaceKept DEF Data
    <2> QED
      BY <2>1, <2>2, DataKept
  <1>12. ASSUME Written \/ Compare
         PROVE  Data'
    <2>1. PICK next \in {"written", "reads", "same", "differs"} :
            at \in {"writes", "reads"} /\ Finishes(next)
      BY <1>12 DEF Written, Compare
    <2>2. /\ at' = next /\ UNCHANGED <<served, disk, answer, media>>
      BY <2>1 DEF Finishes, diskVars
    <2>3. Told => /\ media' \in [Devs -> [0 .. DevSize - 1 -> Int]]
                  /\ InPlace' /\ Passed'
      <3> SUFFICES ASSUME Told
                   PROVE  /\ media' \in [Devs -> [0 .. DevSize - 1 -> Int]]
                          /\ InPlace' /\ Passed'
        OBVIOUS
      <3>1. Passed /\ InPlace /\ media \in [Devs -> [0 .. DevSize - 1 -> Int]]
        BY <2>1 DEF Data
      <3>2. Passed'
        BY <2>1, <3>1, FinishPasses
      <3> QED
        BY <2>2, <3>1, <3>2, InPlaceKept
    <2> QED
      BY <2>1, <2>2, <2>3, DataKept
  <1>13. CASE UNCHANGED vars
    <2>1. UNCHANGED <<at, served, disk, answer, io, media, buffer>>
      BY <1>13 DEF vars
    <2>2. (Told' <=> Told) /\ (InPlace => InPlace') /\ (Passed => Passed')
      BY <2>1, InPlaceKept, PassedKept DEF Told
    <2> HIDE DEF Told, InPlace, Passed
    <2> QED
      BY <2>1, <2>2 DEF Data
  <1> QED
    BY <1>1, <1>2, <1>3, <1>4, <1>5, <1>6, <1>7, <1>9, <1>10, <1>11, <1>12, <1>13
       DEF Next

\* The data path puts a byte nowhere but in its place, for every width of a
\* word and size of a sector, every layout of a disk, every part of a request
\* that a pwrite takes and every room there is for the answer.
THEOREM BytesStayInPlace == Spec => []BytesInPlace
  <1>1. Init => Answers /\ Data
    BY AnswersInit, DataInit
  <1>2. Answers /\ Data /\ [Next]_vars => Answers' /\ Data'
    BY AnswersStep, DataStep
  <1>3. Answers /\ Data => BytesInPlace
    <2>1. Answers /\ Data => (NumbersWhole(disk, answer.room) => InPlace)
      BY DEF Answers, Data
    <2> QED
      BY <2>1 DEF InPlace, BytesInPlace
  <1> QED
    BY <1>1, <1>2, <1>3, PTL DEF Spec

-----------------------------------------------------------------------------
(* Read back *)

LEMMA ToldAll ==
  ASSUME Answers, answer.rows = disk
  PROVE  Told
  BY LenProperties DEF Answers, Told

\* The byte of a row that is held is on its device.
LEMMA PlaceHeld ==
  ASSUME NEW r \in DiskRows, Holds(r), NEW b \in Nat, b - r.off \in 0 .. r.len - 1
  PROVE  r.sector * Sector + (b - r.off) \in 0 .. DevSize - 1
  <1>1. r.off \in Nat /\ r.len \in Nat /\ r.sector \in Nat /\ Sector \in Nat /\ DevSize \in Nat
    BY WordAssumption, SessionAssumption DEF DiskRows, Words
  <1>2. PICK base \in Nat : base = r.sector * Sector
    BY <1>1
  <1>3. base + r.len <= DevSize
    BY <1>2 DEF Holds
  <1>4. base + (b - r.off) \in 0 .. DevSize - 1
    BY <1>1, <1>3
  <1> QED
    BY <1>2, <1>4

\* A file has no end before the last byte written.
LEMMA EndsAfter ==
  ASSUME ends \in [Devs -> Int], Row.dev \in Devs, Position \in Int,
         NEW n \in Nat, WriteSome(n)
  PROVE  /\ ends' \in [Devs -> Int]
         /\ ends'[Row.dev] >= Position + n
         /\ \A d \in Devs : ends'[d] >= ends[d]
  <1>1. PICK d \in Devs : d = Row.dev
    OBVIOUS
  <1>2. PICK e \in Int : e = ends[d]
    OBVIOUS
  <1>3. PICK q \in Int : q = Position + n
    OBVIOUS
  <1> DEFINE m == Max({e, q})
  <1>4. m \in Int /\ m >= e /\ m >= q
    <2>1. \E x \in {e, q} : \A y \in {e, q} : x >= y
      BY <1>2, <1>3
    <2>2. m \in {e, q} /\ \A y \in {e, q} : m >= y
      BY <2>1 DEF Max
    <2> HIDE DEF m
    <2> QED
      BY <1>2, <1>3, <2>2
  <1>5. ends' = [ends EXCEPT ![d] = m]
    BY <1>1, <1>2, <1>3 DEF WriteSome
  <1> HIDE DEF m
  <1>6. ends' \in [Devs -> Int] /\ ends'[d] = m
    BY <1>4, <1>5
  <1>7. \A x \in Devs : x # d => ends'[x] = ends[x]
    BY <1>5
  <1>8. \A x \in Devs : ends'[x] >= ends[x]
    <2> SUFFICES ASSUME NEW x \in Devs
                 PROVE  ends'[x] >= ends[x]
      OBVIOUS
    <2>1. ends[x] \in Int
      OBVIOUS
    <2> QED
      BY <1>2, <1>4, <1>6, <1>7, <2>1
  <1> QED
    BY <1>1, <1>3, <1>4, <1>6, <1>8

LEMMA StoredKept ==
  ASSUME UNCHANGED <<disk, media, ends>>, NEW n, Stored(n), NEW m, m = n
  PROVE  Stored(m)'
  BY DEF Stored, ByteStored

\* pwrite stores the next bytes and leaves those before them alone.
LEMMA StoresMore ==
  ASSUME Answers, Told, Passed, media \in [Devs -> [0 .. DevSize - 1 -> Int]],
         ends \in [Devs -> Int], NEW size \in Nat, Tiles(disk, size),
         io.bytes <= size, NEW m \in Nat, m = io.cursor + io.done, Stored(m),
         NEW n, WriteSome(n)
  PROVE  Stored(m + n)'
  <1>1. /\ io.chunk > 0 /\ n \in 1 .. io.chunk - io.done
        /\ Row.dev \in Devs
        /\ Position = Row.sector * Sector + (io.cursor + io.done - Row.off)
        /\ Position \in Int
        /\ \A d \in Devs, p \in 0 .. DevSize - 1 :
              media'[d][p] = IF d = Row.dev /\ p - Position \in 0 .. n - 1
                             THEN io.cursor + io.done + (p - Position)
                             ELSE media[d][p]
    BY PwriteStores
  <1>2. PICK x \in Nat : x = io.cursor
    BY DEF Passed, IoStates
  <1>3. PICK y \in Nat : y = io.done
    BY DEF Passed, IoStates
  <1>4. PICK c \in Nat : c = io.chunk
    BY DEF Passed, IoStates
  <1>5. /\ n \in Nat /\ n > 0 /\ y + n <= c /\ m = x + y /\ x + c <= size
    <2>1. PICK bytes \in Nat : bytes = io.bytes
      BY DEF Passed, IoStates
    <2>2. c \in 0 .. bytes - x /\ bytes <= size
      BY <1>2, <1>4, <2>1 DEF Passed
    <2>3. n \in 1 .. c - y /\ m = x + y
      BY <1>1, <1>2, <1>3, <1>4
    <2>4. /\ bytes \in Nat /\ c \in Nat /\ x \in Nat /\ y \in Nat /\ size \in Nat
      OBVIOUS
    <2> QED
      BY ONLY <2>2, <2>3, <2>4
  <1>6. /\ io.row \in 1 .. Len(disk) /\ Row = disk[io.row] /\ Row \in DiskRows
        /\ \A k \in 0 .. io.chunk - 1 : io.cursor + k - Row.off \in 0 .. Row.len - 1
    BY <1>1, Reached
  <1>7. PICK f \in Int : f = Row.off
    BY <1>6 DEF DiskRows, Words
  <1>8. PICK base \in Int : base = Row.sector * Sector
    BY <1>6, WordAssumption DEF DiskRows, Words
  <1>9. PICK q \in Int : q = Position /\ q = base + (m - f)
    <2>1. Position = base + (x + (y - f))
      BY <1>1, <1>2, <1>3, <1>7, <1>8
    <2>2. m \in Nat /\ x \in Nat /\ y \in Nat /\ f \in Int /\ base \in Int
      OBVIOUS
    <2>3. x + (y - f) = m - f /\ base + (m - f) \in Int
      BY ONLY <1>5, <2>2
    <2> QED
      BY <2>1, <2>3
  <1>10. /\ ends' \in [Devs -> Int] /\ ends'[Row.dev] >= q + n
         /\ \A d \in Devs : ends'[d] >= ends[d]
    BY <1>1, <1>5, <1>9, EndsAfter
  <1>11. UNCHANGED disk
    BY DEF WriteSome, diskVars
  <1> SUFFICES ASSUME NEW i \in 1 .. Len(disk), NEW b \in 0 .. (m + n) - 1,
                      b - disk[i].off \in 0 .. disk[i].len - 1
               PROVE  ByteStored(i, b)'
    BY <1>11 DEF Stored
  <1>12. PICK r \in DiskRows : r = disk[i]
    BY ElementOfSeq DEF Answers
  <1>13. b \in Nat /\ b <= m + n - 1
    BY <1>5
  <1>14. PICK p \in 0 .. DevSize - 1 : p = r.sector * Sector + (b - r.off)
    BY <1>12, <1>13, PlaceHeld DEF Tiles
  <1>15. p \in Int /\ r.dev \in Devs /\ ends[r.dev] \in Int /\ ends'[r.dev] \in Int
    BY <1>10, SessionAssumption DEF DiskRows
  <1>16. CASE b >= m
    <2>1. PICK k \in 0 .. c - 1 : b = x + k
      <3>1. b - x \in 0 .. c - 1 /\ b = x + (b - x)
        BY <1>5, <1>13, <1>16
      <3> QED
        BY <3>1
    <2>2. b - f \in 0 .. Row.len - 1
      <3>1. (x + (k - f)) \in 0 .. Row.len - 1
        BY <1>2, <1>4, <1>6, <1>7
      <3>2. x + (k - f) = b - f
        BY <2>1
      <3> QED
        BY <3>1, <3>2
    <2>3. b \in 0 .. size - 1
      BY <1>5, <2>1
    <2>4. i = io.row
      BY <1>6, <1>7, <2>2, <2>3 DEF Tiles
    <2>5. r = Row /\ p = base + (b - f)
      BY <1>6, <1>7, <1>8, <1>12, <1>14, <2>4
    <2>6. p - q \in 0 .. n - 1 /\ m + (p - q) = b /\ p < q + n
      <3>1. p = base + (b - f) /\ q = base + (m - f)
        BY <1>9, <2>5
      <3>2. /\ base \in Int /\ f \in Int /\ m \in Int /\ n \in Int
            /\ b <= m + (n - 1)
        BY <1>5, <1>13
      <3> QED
        BY ONLY <1>13, <1>15, <1>16, <3>1, <3>2
    <2>7. media'[r.dev][p] = b
      BY <1>1, <1>2, <1>3, <1>5, <1>9, <1>15, <2>5, <2>6
    <2>8. p < ends'[r.dev]
      <3>1. PICK e \in Int : e = ends'[r.dev]
        BY <1>15
      <3>2. e >= q + n
        BY <1>10, <2>5, <3>1
      <3>3. p < e
        <4>1. q \in Int /\ n \in Int /\ e \in Int /\ p \in Int
          BY <1>5, <1>15
        <4> QED
          BY ONLY <2>6, <3>2, <4>1
      <3> QED
        BY <3>1, <3>3
    <2> QED
      BY <1>11, <1>12, <1>14, <2>7, <2>8 DEF ByteStored
  <1>17. CASE b < m
    <2>1. media[r.dev][p] = b /\ p < ends[r.dev]
      BY <1>12, <1>13, <1>14, <1>17 DEF Stored, ByteStored
    <2>2. ~(r.dev = Row.dev /\ p - q \in 0 .. n - 1)
      <3> SUFFICES ASSUME r.dev = Row.dev, p - q \in 0 .. n - 1
                   PROVE  FALSE
        OBVIOUS
      <3>1. i = io.row
        BY <1>6, <1>12 DEF Tiles
      <3>2. p = base + (b - f)
        BY <1>6, <1>7, <1>8, <1>12, <1>14, <3>1
      <3> QED
        BY <1>5, <1>9, <1>13, <1>17, <3>2
    <2>3. media'[r.dev][p] = media[r.dev][p]
      BY <1>1, <1>9, <1>15, <2>2
    <2>4. ends'[r.dev] >= ends[r.dev]
      BY <1>10, <1>15
    <2>5. p < ends'[r.dev]
      BY <1>15, <2>1, <2>4
    <2> QED
      BY <1>11, <1>12, <1>14, <2>1, <2>3, <2>5 DEF ByteStored
  <1> QED
    BY <1>5, <1>13, <1>16, <1>17

LEMMA QuotientBound ==
  ASSUME NEW s \in Nat, NEW d \in Nat, d > 0, NEW m \in Nat, s * d <= m
  PROVE  s <= m \div d
  <1>1. PICK q \in Nat : q = m \div d
    OBVIOUS
  <1>2. m < (q + 1) * d
    BY <1>1
  <1>3. q < s => (q + 1) * d <= s * d
    OBVIOUS
  <1> QED
    BY <1>1, <1>2, <1>3

\* For every byte there is a row that translate_offset takes.
LEMMA SegmentThere ==
  ASSUME Answers, Passed, answer.rows = disk, NEW size \in 1 .. Capacity,
         Tiles(disk, size), io.bytes <= size, io.cursor < io.bytes
  PROVE  \E i \in Mappings :
           /\ \A j \in Mappings : i <= j
           /\ Translates(answer.rows[i], io.cursor, ChunkOf(answer.rows[i]))
  <1>1. PICK x \in Nat : x = io.cursor
    BY DEF Passed, IoStates
  <1>2. PICK t \in Nat : t = io.bytes
    BY DEF Passed, IoStates
  <1>3. /\ x < t /\ t <= size /\ size \in Nat /\ size < Word /\ Word \in Nat
        /\ x \in Words
    BY <1>1, <1>2, CapacityFits DEF Words
  <1>4. disk \in Seq(DiskRows) /\ DOMAIN disk = 1 .. Len(disk) /\ Len(disk) \in Nat
    BY LenProperties DEF Answers
  <1>5. ASSUME NEW i \in 1 .. Len(disk)
        PROVE  /\ disk[i] \in DiskRows
               /\ disk[i].off \in Nat /\ disk[i].len \in Nat /\ disk[i].sector \in Nat
               /\ disk[i].len > 0 /\ disk[i].off + disk[i].len <= size
               /\ Holds(disk[i])
               /\ Wrap(disk[i].off + disk[i].len) = disk[i].off + disk[i].len
    <2>1. disk[i] \in DiskRows
      BY <1>4, ElementOfSeq
    <2>2. disk[i].off \in Nat /\ disk[i].len \in Nat /\ disk[i].sector \in Nat
      BY <1>3, <2>1 DEF DiskRows, Words
    <2>3. disk[i].len > 0 /\ disk[i].off + disk[i].len <= size /\ Holds(disk[i])
      BY DEF Tiles
    <2>4. disk[i].off + disk[i].len \in Words
      BY <1>3, <2>2, <2>3 DEF Words
    <2> QED
      BY <2>1, <2>2, <2>3, <2>4, WrapOfWord
  <1>6. PICK i \in Mappings : \A j \in Mappings : i <= j
    <2>1. PICK i \in 1 .. Len(disk) : x - disk[i].off \in 0 .. disk[i].len - 1
      <3>1. x \in 0 .. size - 1
        BY <1>3
      <3> QED
        BY <3>1 DEF Tiles
    <2>2. i \in Mappings
      <3>1. x >= disk[i].off /\ x < Wrap(disk[i].off + disk[i].len)
        BY <1>5, <2>1
      <3> QED
        BY <1>1, <1>4, <3>1 DEF Mappings
    <2>3. Mappings \in SUBSET Nat
      BY <1>4 DEF Mappings
    <2> QED
      BY <2>2, <2>3, MinIn
  <1> DEFINE r == disk[i]
             c == ChunkOf(r)
  <1>7. i \in 1 .. Len(disk) /\ x >= r.off /\ x < Wrap(r.off + r.len)
    BY <1>1, <1>4 DEF Mappings
  <1>8. PICK f \in Nat : f = r.off
    BY <1>5, <1>7
  <1>9. PICK l \in Nat : l = r.len /\ l > 0 /\ f + l <= size
    BY <1>5, <1>7, <1>8
  <1>10. x >= f /\ x < f + l
    BY <1>5, <1>7, <1>8, <1>9
  <1>11. c \in 1 .. f + l - x
    BY <1>1, <1>2, <1>3, <1>8, <1>9, <1>10 DEF ChunkOf
  <1>12. PICK base \in Nat : base = r.sector * Sector /\ base + l <= DevSize
    BY <1>5, <1>7, <1>9, WordAssumption DEF Holds
  <1>13. r.sector \in Nat
    BY <1>5, <1>7
  <1> HIDE DEF r, c
  <1>14. DevSize \in Nat /\ DevSize <= Word /\ Sector \in Nat /\ Sector > 0
    BY SessionAssumption, WordAssumption
  <1>15. Relative(r, x) = x - f /\ x - f \in Words
    <2>1. x - f \in Words
      BY <1>3, <1>10 DEF Words
    <2> QED
      BY <1>8, <2>1, WrapOfWord DEF Relative
  <1>16. Covers(r, x, c)
    <2>1. l - (x - f) \in Words
      BY <1>3, <1>9, <1>10 DEF Words
    <2>2. Wrap(r.len - Relative(r, x)) = l - (x - f)
      BY <1>9, <1>15, <2>1, WrapOfWord
    <2>3. x - f <= l /\ c <= l - (x - f)
      BY <1>10, <1>11
    <2> QED
      BY <1>8, <1>9, <1>10, <1>15, <2>2, <2>3 DEF Covers
  <1>17. Addressable(r, x, c)
    <2>1. base \in Words /\ base + (x - f) \in Words /\ base <= MaxWord
      BY <1>3, <1>9, <1>10, <1>12, <1>14 DEF Words, MaxWord
    <2>2. PhysBase(r) = base
      BY <1>12, <2>1, WrapOfWord DEF PhysBase
    <2>3. PhysOffset(r, x) = base + (x - f)
      BY <1>15, <2>1, <2>2, WrapOfWord DEF PhysOffset
    <2>4. r.sector <= MaxWord \div Sector
      <3>1. r.sector * Sector <= MaxWord /\ MaxWord \in Nat
        BY <1>3, <1>12, <2>1 DEF MaxWord
      <3> QED
        BY <1>13, <1>14, <3>1, QuotientBound
    <2>5. Wrap(MaxWord - PhysBase(r)) = MaxWord - base
      <3>1. MaxWord - base \in Words
        BY <1>3, <2>1 DEF MaxWord, Words
      <3> QED
        BY <2>2, <3>1, WrapOfWord
    <2>6. Wrap(MaxWord - PhysOffset(r, x)) = MaxWord - (base + (x - f))
      <3>1. MaxWord - (base + (x - f)) \in Words
        BY <1>3, <2>1 DEF MaxWord, Words
      <3> QED
        BY <2>3, <3>1, WrapOfWord
    <2>7. Wrap(c - 1) = c - 1
      <3>1. c - 1 \in Words
        BY <1>3, <1>9, <1>10, <1>11 DEF Words
      <3> QED
        BY <3>1, WrapOfWord
    <2>8. x - f <= MaxWord - base /\ c - 1 <= MaxWord - (base + (x - f))
      BY <1>3, <1>9, <1>10, <1>11, <1>12, <1>14 DEF MaxWord
    <2> QED
      BY <1>15, <2>4, <2>5, <2>6, <2>7, <2>8 DEF Addressable
  <1>18. Translates(r, x, c)
    BY <1>16, <1>17 DEF Translates
  <1> QED
    BY <1>1, <1>6, <1>18 DEF r, c

LEMMA PatternGrows ==
  ASSUME NEW m \in Nat, NEW n \in Nat, NEW s,
         s = [k \in 1 .. n |-> s[k]], \A k \in 1 .. n : s[k] = m + (k - 1)
  PROVE  Pattern(m) \o s = Pattern(m + n)
  <1>1. Pattern(m) \in [1 .. m -> Int] /\ s \in [1 .. n -> Int]
    <2>1. \A k \in 1 .. n : s[k] \in Int
      OBVIOUS
    <2>2. s \in [1 .. n -> Int]
      BY <2>1
    <2> QED
      BY <2>2 DEF Pattern
  <1>2. PICK p \in Seq(Int) : p = Pattern(m) /\ Len(p) = m
    <2>1. Pattern(m) \in Seq(Int) /\ Len(Pattern(m)) = m
      BY <1>1
    <2> QED
      BY <2>1
  <1>3. s \in Seq(Int) /\ Len(s) = n
    BY <1>1
  <1>4. /\ p \o s \in Seq(Int) /\ Len(p \o s) = m + n
        /\ \A k \in 1 .. m + n :
             (p \o s)[k] = IF k <= m THEN p[k] ELSE s[k - m]
    <2>1. /\ p \o s \in Seq(Int) /\ Len(p \o s) = Len(p) + Len(s)
          /\ \A k \in 1 .. Len(p) + Len(s) :
               (p \o s)[k] = IF k <= Len(p) THEN p[k] ELSE s[k - Len(p)]
      BY ONLY <1>3, ConcatProperties, p \in Seq(Int)
    <2> QED
      BY <1>2, <1>3, <2>1
  <1>5. \A k \in 1 .. m + n : (p \o s)[k] = k - 1
    <2> SUFFICES ASSUME NEW k \in 1 .. m + n
                 PROVE  (p \o s)[k] = k - 1
      OBVIOUS
    <2>1. CASE k <= m
      <3>1. k \in 1 .. m
        BY <2>1
      <3>2. p[k] = k - 1
        BY <1>2, <3>1 DEF Pattern
      <3> QED
        BY <1>4, <2>1, <3>2
    <2>2. CASE ~(k <= m)
      <3>1. k - m \in 1 .. n
        BY <2>2
      <3>2. s[k - m] = m + ((k - m) - 1)
        BY <3>1
      <3>3. m + ((k - m) - 1) = k - 1
        OBVIOUS
      <3> QED
        BY <1>4, <2>2, <3>2, <3>3
    <2> QED
      BY <2>1, <2>2
  <1>6. p \o s = [k \in 1 .. m + n |-> (p \o s)[k]]
    <2> DEFINE c == p \o s
    <2> HIDE DEF c
    <2>1. c \in Seq(Int) /\ Len(c) = m + n
      BY <1>4 DEF c
    <2>2. DOMAIN c = 1 .. m + n /\ c = [k \in DOMAIN c |-> c[k]]
      BY <2>1, LenProperties
    <2>3. c = [k \in 1 .. m + n |-> c[k]]
      BY <2>2
    <2> QED
      BY <2>3 DEF c
  <1> QED
    BY <1>2, <1>5, <1>6 DEF Pattern

\* The byte read k bytes further is the one stored there.
LEMMA ByteReadIsStored ==
  ASSUME Answers, Told, Passed, io.chunk > 0, NEW m \in Nat, m = io.cursor + io.done,
         NEW t \in Nat, t = io.bytes, Stored(t), NEW k \in Nat, io.done + k < io.chunk
  PROVE  /\ media[Row.dev][Position + k] = m + k
         /\ Position + k < ends[Row.dev]
  <1>1. PICK x \in Nat : x = io.cursor
    BY DEF Passed, IoStates
  <1>2. PICK y \in Nat : y = io.done
    BY DEF Passed, IoStates
  <1>3. PICK c \in Nat : c = io.chunk
    BY DEF Passed, IoStates
  <1>4. x + c <= t /\ y + k < c /\ m = x + y
    <2>1. c \in 0 .. t - x
      BY <1>1, <1>3 DEF Passed
    <2> QED
      BY <1>1, <1>2, <1>3, <2>1
  <1>5. /\ io.row \in 1 .. Len(disk) /\ Row = disk[io.row] /\ Row \in DiskRows
        /\ \A j \in 0 .. c - 1 :
             /\ ByteAt(Row, x, j) = Row.sector * Sector + (x + j - Row.off)
             /\ x + j - Row.off \in 0 .. Row.len - 1
    BY <1>1, <1>3, Reached
  <1>6. PICK f \in Int : f = Row.off
    BY <1>5 DEF DiskRows, Words
  <1>7. PICK base \in Int : base = Row.sector * Sector
    BY <1>5, WordAssumption DEF DiskRows, Words
  <1>8. Position = base + (m - f)
    <2>1. y \in 0 .. c - 1
      BY <1>4
    <2>2. Position = base + (x + (y - f))
      BY <1>1, <1>2, <1>5, <1>6, <1>7, <2>1 DEF Position
    <2>3. x + (y - f) = m - f
      BY <1>4
    <2> QED
      BY <2>2, <2>3
  <1>9. PICK b \in 0 .. t - 1 : b = m + k
    <2>1. m + k \in 0 .. t - 1
      BY <1>4
    <2> QED
      BY <2>1
  <1>10. b - f \in 0 .. Row.len - 1
    <2>1. PICK j \in 0 .. c - 1 : j = y + k
      <3>1. y + k \in 0 .. c - 1
        BY <1>4
      <3> QED
        BY <3>1
    <2>2. (x + (j - f)) \in 0 .. Row.len - 1
      BY <1>5, <1>6
    <2>3. x + (j - f) = b - f
      BY <1>4, <1>9, <2>1
    <2> QED
      BY <2>2, <2>3
  <1>11. ByteStored(io.row, b)
    BY <1>5, <1>6, <1>10 DEF Stored
  <1>12. Position + k = base + (b - f)
    BY <1>8, <1>9
  <1>13. media[Row.dev][base + (b - f)] = b /\ base + (b - f) < ends[Row.dev]
    BY <1>5, <1>6, <1>7, <1>11 DEF ByteStored
  <1> QED
    BY <1>9, <1>12, <1>13

\* A client that is not disturbed knows all of its disk, is served in full,
\* and has a request that was let pass.
LEMMA UndisturbedHas ==
  ASSUME Answers, Data, Verifies, Undisturbed
  PROVE  /\ Told /\ at \in {"writes", "reads", "same"}
         /\ ends \in [Devs -> Int]
         /\ media \in [Devs -> [0 .. DevSize - 1 -> Int]]
         /\ at \in {"writes", "reads"} =>
              /\ Passed
              /\ served.size \in 1 .. Capacity
              /\ Tiles(disk, served.size)
              /\ io.bytes <= served.size
  <1>1. Told
    BY ToldAll DEF Undisturbed
  <1> HIDE DEF Told
  <1>2. ~taken /\ io.bytes <= served.size
    BY DEF Undisturbed
  <1> QED
    BY <1>1, <1>2 DEF Data, Verifies

\* pread gives the next bytes of the pattern.
LEMMA ReadsMore ==
  ASSUME Answers, Told, Passed, NEW m \in Nat, m = io.cursor + io.done,
         NEW t \in Nat, t = io.bytes, Stored(t), buffer = Pattern(m),
         NEW n, ReadSome(n)
  PROVE  n \in Nat /\ io.chunk > 0 /\ buffer' = Pattern(m + n)
  <1>1. PICK y \in Nat : y = io.done
    BY DEF Passed, IoStates
  <1>2. PICK c \in Nat : c = io.chunk
    BY DEF Passed, IoStates
  <1>3. /\ n \in 1 .. c - y
        /\ buffer' = buffer \o [k \in 1 .. n |-> media[Row.dev][Position + k - 1]]
    BY <1>1, <1>2 DEF ReadSome
  <1>4. n \in Nat /\ n > 0 /\ y + n <= c /\ c > 0
    BY <1>3
  <1> DEFINE s == [k \in 1 .. n |-> media[Row.dev][Position + k - 1]]
  <1>5. ASSUME NEW k \in 1 .. n
        PROVE  s[k] = m + (k - 1)
    <2>1. k - 1 \in Nat /\ y + (k - 1) < c
      BY <1>4
    <2>2. media[Row.dev][Position + (k - 1)] = m + (k - 1)
      BY <1>1, <1>2, <1>4, <2>1, ByteReadIsStored
    <2> QED
      BY <2>2
  <1>6. s = [k \in 1 .. n |-> s[k]]
    OBVIOUS
  <1> HIDE DEF s
  <1>7. Pattern(m) \o s = Pattern(m + n)
    BY <1>4, <1>5, <1>6, PatternGrows
  <1> QED
    BY <1>2, <1>3, <1>4, <1>7 DEF s

LEMMA VerifiesInit == Init => Verifies
  <1> SUFFICES ASSUME Init
               PROVE  Verifies
    OBVIOUS
  <1>1. at = "start" /\ io.mode = "none"
    BY DEF Init, NoIo
  <1>2. ends \in [Devs -> Int]
    BY SessionAssumption DEF Init
  <1> QED
    BY <1>1, <1>2 DEF Verifies, Undisturbed

\* A step of the data path: the disk, the answer and who owns it are left
\* alone, so only what is said of a client that is not disturbed is at stake.
LEMMA VerifiesKept ==
  ASSUME Verifies, UNCHANGED <<served, disk, taken, answer>>,
         at' \in {"has", "writes", "reads"} => at \in {"has", "writes", "reads"},
         Told /\ ~taken => ends' \in [Devs -> Int],
         Undisturbed' =>
           /\ at' \in {"writes", "reads", "same"}
           /\ at' = "writes" => Stored(io.cursor + io.done)'
           /\ at' = "reads" =>
                /\ Stored(io.bytes)'
                /\ buffer' = Pattern(io'.cursor + io'.done)
  PROVE  Verifies'
  <1>1. Told' <=> Told
    BY DEF Told
  <1>2. Tiles(disk, served.size) => Tiles(disk', served'.size)
    OBVIOUS
  <1>3. buffer' = Pattern(io'.cursor + io'.done) => (buffer = Pattern(io.cursor + io.done))'
    BY DEF Pattern
  <1> HIDE DEF Told, Tiles, Undisturbed, Stored
  <1> QED
    BY <1>1, <1>2, <1>3 DEF Verifies

\* A step before the data path: nobody verifies yet.
LEMMA VerifiesBefore ==
  ASSUME Answers, Data, Verifies, at \in {"start", "asked", "has"},
         UNCHANGED <<io, taken, ends>>,
         at' \in {"has", "writes", "reads"} => Tiles(disk', served'.size)
  PROVE  Verifies'
  <1>1. Told
    BY NothingAsked
  <1>2. ~taken' => ends' \in [Devs -> Int]
    BY <1>1 DEF Verifies
  <1>3. ~Undisturbed'
    <2>1. io'.mode = "none"
      BY DEF Data, NoIo
    <2> QED
      BY <2>1 DEF Undisturbed
  <1> HIDE DEF Told, Tiles, Undisturbed
  <1> QED
    BY <1>2, <1>3 DEF Verifies

LEMMA VerifiesServed ==
  ASSUME Answers, Data, Verifies, Serve
  PROVE  Verifies'
  <1>1. /\ at = "asked" /\ UNCHANGED <<io, taken, ends>>
        /\ at' \in {"has", "exit"}
    BY DEF Serve, ioVars
  <1>2. at' = "has" => Tiles(disk', served'.size)
    <2> SUFFICES ASSUME at' = "has"
                 PROVE  Tiles(disk', served'.size)
      OBVIOUS
    <2>1. /\ served' = Decoded(cmd) /\ cmd.size \in 1 .. Capacity
          /\ disk' \in DiskOf(cmd.size)
      BY DEF Serve
    <2>2. served'.size = cmd.size
      BY <2>1 DEF Decoded
    <2>3. Tiles(disk', cmd.size)
      BY <2>1, DiskTiles
    <2> QED
      BY <2>2, <2>3
  <1> QED
    BY <1>1, <1>2, VerifiesBefore

LEMMA VerifiesReleased ==
  ASSUME Verifies, Release
  PROVE  Verifies'
  <1>1. taken' /\ UNCHANGED <<at, served, disk>>
    BY DEF Release
  <1>2. Tiles(disk, served.size) => Tiles(disk', served'.size)
    BY <1>1
  <1> HIDE DEF Tiles
  <1> QED
    BY <1>1, <1>2 DEF Verifies, Undisturbed

\* A client that is told all of its disk begins at its first byte.
LEMMA VerifiesTold ==
  ASSUME Answers, Data, Verifies, NEW room, NEW bytes \in 1 .. served.size + 1,
         NEW mode \in {"write", "read", "verify"}, Collect(room, bytes, mode)
  PROVE  Verifies'
  <1>1. /\ at = "has" /\ UNCHANGED <<served, disk, taken, ends>>
        /\ io' = [NoIo EXCEPT !.bytes = bytes, !.mode = mode]
        /\ answer'.rows = RowsHeard(disk, room)
        /\ at' = CASE RowsHeard(disk, room) = <<>> -> "exit"
                   [] mode = "read" -> "reads"
                   [] OTHER -> "writes"
    BY DEF Collect
  <1>2. Tiles(disk, served.size) /\ served.size \in 1 .. Capacity
    BY <1>1 DEF Verifies, Data
  <1>3. Told
    BY <1>1, NothingAsked
  <1>4. ~taken' => ends' \in [Devs -> Int]
    BY <1>1, <1>3 DEF Verifies
  <1>5. Undisturbed' => at' = "writes" /\ io'.cursor + io'.done = 0
    <2> SUFFICES ASSUME Undisturbed'
                 PROVE  at' = "writes" /\ io'.cursor + io'.done = 0
      OBVIOUS
    <2>1. io'.mode = mode /\ io'.cursor = 0 /\ io'.done = 0
      BY <1>1 DEF NoIo
    <2>2. mode = "verify"
      BY <2>1 DEF Undisturbed
    <2>3. disk # <<>>
      <3>1. PICK size \in 1 .. Capacity : size = served.size
        BY <1>2
      <3>2. size >= 1 /\ 0 \in 0 .. size - 1
        BY CapacityFits
      <3>3. \E i \in 1 .. Len(disk) : 0 - disk[i].off \in 0 .. disk[i].len - 1
        BY <1>2, <3>1, <3>2 DEF Tiles
      <3>4. Len(<<>>) = 0
        OBVIOUS
      <3> QED
        BY <3>3, <3>4
    <2>4. RowsHeard(disk, room) # <<>>
      BY <1>1, <2>3 DEF Undisturbed
    <2> QED
      BY <1>1, <2>1, <2>2, <2>4
  <1>6. Undisturbed' => Stored(io.cursor + io.done)'
    <2>1. Stored(0)'
      BY DEF Stored
    <2> QED
      BY <1>5, <2>1 DEF Stored
  <1>7. Tiles(disk', served'.size)
    BY <1>1, <1>2
  <1> HIDE DEF Told, Tiles, Undisturbed, Stored
  <1> QED
    BY <1>4, <1>5, <1>6, <1>7 DEF Verifies

LEMMA VerifiesSegment ==
  ASSUME Answers, Data, Verifies, NextSegment
  PROVE  Verifies'
  <1>1. /\ at \in {"writes", "reads"} /\ io.chunk = 0 /\ io.cursor < io.bytes
        /\ UNCHANGED <<served, disk, taken, answer, media, ends, buffer, faults>>
        /\ at' = at \/ at' = "exit"
    BY DEF NextSegment, diskVars
  <1>2. Told /\ ~taken => ends' \in [Devs -> Int]
    BY <1>1 DEF Verifies
  <1>3. ASSUME Undisturbed'
        PROVE  /\ at' \in {"writes", "reads", "same"}
               /\ at' = "writes" => Stored(io.cursor + io.done)'
               /\ at' = "reads" =>
                    /\ Stored(io.bytes)'
                    /\ buffer' = Pattern(io'.cursor + io'.done)
    <2>1. CASE at' = at /\ \E i \in Mappings :
                 /\ Translates(answer.rows[i], io.cursor, ChunkOf(answer.rows[i]))
                 /\ io' = [io EXCEPT !.row = i, !.chunk = ChunkOf(answer.rows[i]),
                                     !.done = 0]
      <3>1. PICK i \in Mappings :
              /\ Translates(answer.rows[i], io.cursor, ChunkOf(answer.rows[i]))
              /\ io' = [io EXCEPT !.row = i, !.chunk = ChunkOf(answer.rows[i]),
                                  !.done = 0]
        BY <2>1
      <3>2. Told
        <4>1. answer.rows = disk
          BY <1>1, <1>3 DEF Undisturbed
        <4> QED
          BY <4>1, ToldAll
      <3>3. Passed
        BY <1>1, <3>2 DEF Data
      <3>4. /\ io'.cursor = io.cursor /\ io'.done = io.done
            /\ io'.mode = io.mode /\ io'.bytes = io.bytes
        BY <1>1, <3>1, <3>2, <3>3, SegmentPasses
      <3>5. Undisturbed
        BY <1>1, <1>3, <3>4 DEF Undisturbed
      <3>6. /\ at = "writes" => Stored(io.cursor + io.done)
            /\ at = "reads" =>
                 Stored(io.bytes) /\ buffer = Pattern(io.cursor + io.done)
        BY <3>5 DEF Verifies
      <3> QED
        BY <1>1, <2>1, <3>4, <3>6 DEF Stored, ByteStored
    <2>2. CASE at' = "exit" /\ UNCHANGED io /\ \A i \in Mappings :
                 (\A j \in Mappings : i <= j) =>
                   ~Translates(answer.rows[i], io.cursor, ChunkOf(answer.rows[i]))
      <3>1. Undisturbed
        BY <1>1, <1>3, <2>2 DEF Undisturbed
      <3>2. /\ Passed /\ served.size \in 1 .. Capacity /\ Tiles(disk, served.size)
            /\ io.bytes <= served.size
        BY <1>1, <3>1, UndisturbedHas
      <3>3. answer.rows = disk
        BY <3>1 DEF Undisturbed
      <3>4. \E i \in Mappings :
              /\ \A j \in Mappings : i <= j
              /\ Translates(answer.rows[i], io.cursor, ChunkOf(answer.rows[i]))
        BY <1>1, <3>2, <3>3, SegmentThere
      <3> QED
        BY <2>2, <3>4
    <2> QED
      BY <2>1, <2>2 DEF NextSegment
  <1> QED
    BY <1>1, <1>2, <1>3, VerifiesKept

LEMMA VerifiesWrite ==
  ASSUME Answers, Data, Verifies, NEW n, WriteSome(n)
  PROVE  Verifies'
  <1>1. /\ at = "writes" /\ at' = at /\ Advance(n)
        /\ UNCHANGED <<served, disk, taken, answer, buffer, faults>>
    BY DEF WriteSome, diskVars
  <1>2. Told => Passed /\ media \in [Devs -> [0 .. DevSize - 1 -> Int]]
    BY <1>1 DEF Data
  <1>3. Told /\ ~taken => ends' \in [Devs -> Int]
    <2> SUFFICES ASSUME Told, ~taken
                 PROVE  ends' \in [Devs -> Int]
      OBVIOUS
    <2>1. ends \in [Devs -> Int]
      BY DEF Verifies
    <2>2. Row.dev \in Devs /\ Position \in Int /\ n \in 1 .. io.chunk - io.done
      BY <1>2, PwriteStores
    <2>3. n \in Nat
      BY <1>2, <2>2 DEF Passed, IoStates
    <2> QED
      BY <2>1, <2>2, <2>3, EndsAfter
  <1>4. ASSUME Undisturbed'
        PROVE  Stored(io.cursor + io.done)'
    <2>1. Told
      <3>1. answer.rows = disk
        BY <1>1, <1>4 DEF Undisturbed
      <3> QED
        BY <3>1, ToldAll
    <2>2. io.chunk > 0 /\ n \in 1 .. io.chunk - io.done
      BY <1>2, <2>1, PwriteStores
    <2>3. /\ io'.cursor + io'.done = io.cursor + io.done + n
          /\ io'.mode = io.mode /\ io'.bytes = io.bytes
      BY <1>1, <1>2, <2>1, <2>2, GoesOn
    <2>4. Undisturbed
      BY <1>1, <1>4, <2>3 DEF Undisturbed
    <2>5. /\ served.size \in 1 .. Capacity /\ Tiles(disk, served.size)
          /\ io.bytes <= served.size /\ ends \in [Devs -> Int]
      BY <1>1, <2>4, UndisturbedHas
    <2>6. PICK m \in Nat : m = io.cursor + io.done
      BY <1>2, <2>1 DEF Passed, IoStates
    <2>7. Stored(m)
      BY <1>1, <2>4, <2>6 DEF Verifies
    <2>8. served.size \in Nat
      BY <2>5, CapacityFits
    <2>9. Stored(m + n)'
      BY <1>2, <2>1, <2>5, <2>6, <2>7, <2>8, StoresMore
    <2>10. io'.cursor + io'.done = m + n
      BY <2>3, <2>6
    <2> QED
      BY <2>9, <2>10 DEF Stored
  <1> QED
    BY <1>1, <1>3, <1>4, VerifiesKept

LEMMA VerifiesRead ==
  ASSUME Answers, Data, Verifies, NEW n, ReadSome(n)
  PROVE  Verifies'
  <1>1. /\ at = "reads" /\ at' = at /\ Advance(n) /\ n \in 1 .. io.chunk - io.done
        /\ UNCHANGED <<served, disk, taken, answer, media, ends, faults>>
    BY DEF ReadSome, diskVars
  <1>2. Told /\ ~taken => ends' \in [Devs -> Int]
    BY <1>1 DEF Verifies
  <1>3. ASSUME Undisturbed'
        PROVE  Stored(io.bytes)' /\ buffer' = Pattern(io'.cursor + io'.done)
    <2>1. Told
      <3>1. answer.rows = disk
        BY <1>1, <1>3 DEF Undisturbed
      <3> QED
        BY <3>1, ToldAll
    <2>2. Passed
      BY <1>1, <2>1 DEF Data
    <2>3. io.chunk > 0
      BY <1>1, <2>2 DEF Passed, IoStates
    <2>4. /\ io'.cursor + io'.done = io.cursor + io.done + n
          /\ io'.mode = io.mode /\ io'.bytes = io.bytes
      BY <1>1, <2>2, <2>3, GoesOn
    <2>5. Undisturbed
      BY <1>1, <1>3, <2>4 DEF Undisturbed
    <2>6. PICK m \in Nat : m = io.cursor + io.done
      BY <2>2 DEF Passed, IoStates
    <2>7. PICK t \in Nat : t = io.bytes
      BY <2>2 DEF Passed, IoStates
    <2>8. Stored(t) /\ buffer = Pattern(m)
      BY <1>1, <2>5, <2>6, <2>7 DEF Verifies
    <2>9. n \in Nat /\ buffer' = Pattern(m + n)
      BY <2>1, <2>2, <2>6, <2>7, <2>8, ReadsMore
    <2>10. io'.cursor + io'.done = m + n
      BY <2>4, <2>6
    <2>11. Stored(t)' /\ io'.bytes = t
      BY <1>1, <2>4, <2>7, <2>8, StoredKept
    <2> QED
      BY <2>9, <2>10, <2>11 DEF Stored
  <1> QED
    BY <1>1, <1>2, <1>3, VerifiesKept

\* A file that the pattern was written to does not end before it.
LEMMA VerifiesNoEnd ==
  ASSUME Answers, Data, Verifies, ReadEnd
  PROVE  Verifies'
  <1>1. /\ at = "reads" /\ at' = at /\ Advance(io.chunk - io.done) /\ io.chunk > 0
        /\ Position \in ends[Row.dev] .. (Word \div 2) - 1
        /\ UNCHANGED <<served, disk, taken, answer, media, ends, faults>>
    BY DEF ReadEnd, diskVars
  <1>2. Told /\ ~taken => ends' \in [Devs -> Int]
    BY <1>1 DEF Verifies
  <1>3. ASSUME Undisturbed'
        PROVE  FALSE
    <2>1. Told
      <3>1. answer.rows = disk
        BY <1>1, <1>3 DEF Undisturbed
      <3> QED
        BY <3>1, ToldAll
    <2>2. Passed
      BY <1>1, <2>1 DEF Data
    <2>3. PICK n \in 1 .. io.chunk - io.done : n = io.chunk - io.done
      BY <1>1, <2>2 DEF Passed, IoStates
    <2>4. io'.mode = io.mode /\ io'.bytes = io.bytes
      <3>1. Advance(n)
        BY <1>1, <2>3
      <3> QED
        BY <1>1, <2>2, <3>1, GoesOn
    <2>5. Undisturbed
      BY <1>1, <1>3, <2>4 DEF Undisturbed
    <2>6. PICK m \in Nat : m = io.cursor + io.done
      BY <2>2 DEF Passed, IoStates
    <2>7. PICK t \in Nat : t = io.bytes
      BY <2>2 DEF Passed, IoStates
    <2>8. Stored(t)
      BY <1>1, <2>5, <2>7 DEF Verifies
    <2>9. io.done + 0 < io.chunk
      BY <1>1, <2>2 DEF Passed, IoStates
    <2>10. Position + 0 < ends[Row.dev]
      BY <1>1, <2>1, <2>2, <2>6, <2>7, <2>8, <2>9, ByteReadIsStored
    <2>11. ends \in [Devs -> Int]
      BY <2>5, UndisturbedHas
    <2>12. Row.dev \in Devs /\ Position \in Int
      <3>1. Row \in DiskRows
        BY <1>1, <2>1, <2>2, Reached
      <3>2. Row.dev \in Devs
        BY <3>1 DEF DiskRows
      <3> QED
        BY <1>1, <2>11, <3>2
    <2> QED
      BY <1>1, <2>10, <2>11, <2>12
  <1> QED
    BY <1>1, <1>2, <1>3, VerifiesKept

\* The pattern has been written, and is read; or it has been read, and is what
\* was written.
LEMMA VerifiesFinish ==
  ASSUME Answers, Data, Verifies, Written \/ Compare
  PROVE  Verifies'
  <1>1. PICK next : Finishes(next) /\ at' = next
    BY DEF Written, Compare, Finishes
  <1>2. /\ at \in {"writes", "reads"} /\ at' \notin {"has", "writes"}
        /\ UNCHANGED <<served, disk, taken, answer, media, ends, faults>>
        /\ at' = "reads" => at = "writes" /\ UNCHANGED buffer
    BY DEF Written, Compare, Finishes, diskVars
  <1>3. Told /\ ~taken => ends' \in [Devs -> Int]
    BY <1>2 DEF Verifies
  <1>4. ASSUME Undisturbed'
        PROVE  /\ at' \in {"reads", "same"}
               /\ at' = "reads" =>
                    Stored(io.bytes)' /\ buffer' = Pattern(io'.cursor + io'.done)
    <2>1. Told
      <3>1. answer.rows = disk
        BY <1>2, <1>4 DEF Undisturbed
      <3> QED
        BY <3>1, ToldAll
    <2>2. Passed
      BY <1>2, <2>1 DEF Data
    <2>3. /\ io'.cursor = 0 /\ io'.done = 0
          /\ io'.mode = io.mode /\ io'.bytes = io.bytes
          /\ io.cursor = io.bytes /\ io.done = 0
      BY <1>1, <2>2, FinishPasses
    <2>4. Undisturbed
      BY <1>2, <1>4, <2>3 DEF Undisturbed
    <2>5. PICK t \in Nat : t = io.bytes
      BY <2>2 DEF Passed, IoStates
    <2>6. io.cursor + io.done = t
      BY <2>3, <2>5
    <2>7. CASE Written
      <3>1. at = "writes" /\ at' = "reads"
        BY <2>4, <2>7 DEF Written, Finishes, Undisturbed
      <3>2. Stored(t)
        BY <2>4, <2>6, <3>1 DEF Verifies
      <3>3. Stored(t)'
        BY <1>2, <3>2, StoredKept
      <3>4. buffer' = <<>>
        BY <1>2, <3>1 DEF Data
      <3>5. Pattern(io'.cursor + io'.done) = <<>>
        BY <2>3 DEF Pattern
      <3> QED
        BY <2>3, <2>5, <3>1, <3>3, <3>4, <3>5 DEF Stored
    <2>8. CASE Compare
      <3>1. at = "reads"
        BY <2>8 DEF Compare
      <3>2. buffer = Pattern(t)
        BY <2>4, <2>6, <3>1 DEF Verifies
      <3>3. Same
        BY <2>5, <3>2 DEF Same, Pattern
      <3>4. at' = "same"
        BY <2>8, <3>3 DEF Compare, Finishes
      <3> QED
        BY <3>4
    <2> QED
      BY <2>7, <2>8
  <1> QED
    BY <1>2, <1>3, <1>4, VerifiesKept

LEMMA VerifiesStep ==
  ASSUME Answers, Data, Verifies, [Next]_vars
  PROVE  Verifies'
  <1>1. ASSUME NEW typed, NEW size,
               Allocate(typed) \/ SdkAllocate(typed) \/ Alloc(size)
        PROVE  Verifies'
    <2>1. /\ at = "start" /\ at' \in {"exit", "asked"} /\ UNCHANGED <<io, taken, ends>>
      BY <1>1, AskSteps
    <2> QED
      BY <2>1, VerifiesBefore
  <1>2. ASSUME NEW room, NEW capacity, ResultGet(room) \/ List(room, capacity)
        PROVE  Verifies'
    <2>1. /\ at = "has" /\ at' = "exit" /\ UNCHANGED <<io, taken, ends>>
      BY <1>2 DEF ResultGet, List, Answer, ioVars
    <2> QED
      BY <2>1, VerifiesBefore
  <1>3. ASSUME Fail
        PROVE  Verifies'
    <2>1. /\ at' = "exit" /\ faults' = TRUE
          /\ UNCHANGED <<served, disk, taken, answer, ends>>
      BY <1>3 DEF Fail, diskVars
    <2>2. Told /\ ~taken => ends' \in [Devs -> Int]
      BY <2>1 DEF Verifies
    <2>3. ~Undisturbed'
      BY <2>1 DEF Undisturbed
    <2> QED
      BY <2>1, <2>2, <2>3, VerifiesKept
  <1>4. CASE UNCHANGED vars
    <2>1. UNCHANGED <<at, served, disk, taken, answer, io, media, ends, buffer, faults>>
      BY <1>4 DEF vars
    <2>2. Undisturbed' => Undisturbed
      BY <2>1 DEF Undisturbed
    <2>3. Undisturbed =>
            /\ at \in {"writes", "reads", "same"}
            /\ at = "writes" => Stored(io.cursor + io.done)
            /\ at = "reads" =>
                 Stored(io.bytes) /\ buffer = Pattern(io.cursor + io.done)
      BY DEF Verifies
    <2>4. Told /\ ~taken => ends' \in [Devs -> Int]
      BY <2>1 DEF Verifies
    <2>5. Undisturbed' =>
            /\ at' \in {"writes", "reads", "same"}
            /\ at' = "writes" => Stored(io.cursor + io.done)'
            /\ at' = "reads" =>
                 Stored(io.bytes)' /\ buffer' = Pattern(io'.cursor + io'.done)
      <3> HIDE DEF Undisturbed
      <3> QED
        BY <2>1, <2>2, <2>3 DEF Stored, ByteStored
    <2> QED
      BY <2>1, <2>4, <2>5, VerifiesKept
  <1> QED
    BY <1>1, <1>2, <1>3, <1>4, VerifiesServed, VerifiesReleased, VerifiesTold,
       VerifiesSegment, VerifiesWrite, VerifiesRead, VerifiesNoEnd, VerifiesFinish
       DEF Next

\* A client that was told all rows of its disk and keeps it reads back what it
\* wrote, unless a device fails, in whatever parts its requests are taken.
THEOREM WrittenIsReadBack == Spec => []ReadsBack
  <1>1. Init => Answers /\ Data /\ Verifies
    BY AnswersInit, DataInit, VerifiesInit
  <1>2. Answers /\ Data /\ Verifies /\ [Next]_vars => Answers' /\ Data' /\ Verifies'
    BY AnswersStep, DataStep, VerifiesStep
  <1>3. Verifies => ReadsBack
    BY DEF Verifies, Undisturbed, ReadsBack
  <1> QED
    BY <1>1, <1>2, <1>3, PTL DEF Spec
=============================================================================
