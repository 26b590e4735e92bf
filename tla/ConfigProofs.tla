---------------------------- MODULE ConfigProofs ----------------------------
(***************************************************************************)
(* What is proved about ConfigFile, for every text that config.yaml may    *)
(* start out with, every request of the clients and of configtool, and     *)
(* every crash.                                                            *)
(*                                                                         *)
(* A text can be edited in three ways: keys that are there get other       *)
(* values, keys are put into a section, a section is put between others.   *)
(* Each way changes the settings it is meant to change and no other, keeps *)
(* the comments above their lines and the text regular; and each of the    *)
(* programs does one of the three after the other.                         *)
(***************************************************************************)
EXTENDS ConfigFile, DataLemmas

-----------------------------------------------------------------------------
(* The last of some lines. *)

(* The largest of a set of numbers is the one that no other exceeds.       *)
LEMMA MaxIs ==
  ASSUME NEW T \in SUBSET Nat, NEW i \in T, \A j \in T : j <= i
  PROVE  Max(T) = i
<1>1. \A k \in T : (\A j \in T : k >= j) => k = i
  OBVIOUS
<1> QED BY <1>1 DEF Max

(* A bounded set of numbers has a largest one.                             *)
LEMMA MaxOf ==
  ASSUME NEW n \in Nat, NEW T \in SUBSET (0 .. n), T # {}
  PROVE  Max(T) \in T /\ \A j \in T : j <= Max(T)
<1> DEFINE D == {n - j : j \in T}
<1>1. D \in SUBSET Nat /\ D # {}
  <2>1. \A j \in T : n - j \in Nat
    OBVIOUS
  <2> QED BY <2>1
<1>2. PICK d \in D : \A e \in D : d <= e
  BY <1>1, LeastNumber
<1>3. PICK i \in T : d = n - i
  BY <1>2
<1>4. \A j \in T : j <= i
  <2> TAKE j \in T
  <2>1. n - j \in D
    OBVIOUS
  <2>2. d <= n - j
    BY <1>2, <2>1
  <2> QED BY <1>3, <2>2
<1>5. T \in SUBSET Nat
  OBVIOUS
<1> QED BY <1>4, <1>5, MaxIs

(* A set of numbers has a smallest one.                                    *)
LEMMA MinOf ==
  ASSUME NEW T \in SUBSET Nat, T # {}
  PROVE  Min(T) \in T /\ \A j \in T : Min(T) <= j
<1>1. \E x \in T : \A y \in T : x <= y
  BY LeastNumber
<1> QED BY <1>1 DEF Min

-----------------------------------------------------------------------------
(* Texts. *)

IsText(t) == /\ t \in Seq(Line)
             /\ \A i \in DOMAIN t : t[i].is = "header" => t[i].value = ""

(* A text is a sequence of lines.                                          *)
LEMMA TextFacts ==
  ASSUME NEW t, IsText(t)
  PROVE  /\ t \in Seq(Line) /\ Len(t) \in Nat /\ DOMAIN t = 1 .. Len(t)
         /\ \A i \in 1 .. Len(t) : t[i] \in Line
<1>1. t \in Seq(Line)
  BY DEF IsText
<1> QED BY <1>1, LenProperties, ElementOfSeq

(* Where the headers of a section stand.                                   *)
LEMMA HeadersAre ==
  ASSUME NEW t, IsText(t), NEW section \in Words, NEW i
  PROVE  i \in Headers(t, section) <=>
           i \in 1 .. Len(t) /\ t[i].is = "header" /\ t[i].name = section
<1>1. CASE i \in 1 .. Len(t)
  <2>1. t[i] \in Line /\ (t[i].is = "header" => t[i].value = "")
    BY <1>1, TextFacts DEF IsText
  <2>2. t[i] = [is |-> t[i].is, name |-> t[i].name, value |-> t[i].value]
    BY <2>1 DEF Line
  <2>3. t[i] = Header(section) <=> t[i].is = "header" /\ t[i].name = section
    <3>1. CASE t[i].is = "header" /\ t[i].name = section
      <4>1. t[i].value = ""
        BY <2>1, <3>1
      <4>2. [is |-> t[i].is, name |-> t[i].name, value |-> t[i].value] = Header(section)
        BY <3>1, <4>1 DEF Header
      <4> QED BY <2>2, <3>1, <4>2
    <3>2. CASE t[i] = Header(section)
      <4>1. Header(section).is = "header" /\ Header(section).name = section
        BY DEF Header
      <4> QED BY <3>2, <4>1
    <3> QED BY <3>1, <3>2
  <2> QED BY <1>1, <2>3, TextFacts DEF Headers
<1>2. CASE i \notin 1 .. Len(t)
  BY <1>2, TextFacts DEF Headers
<1> QED BY <1>1, <1>2

(* The lines of a section reach to the next header.                        *)
LEMMA BelowIs ==
  ASSUME NEW t, IsText(t), NEW h \in 0 .. Len(t), NEW i
  PROVE  i \in Below(t, h) <=>
           /\ i \in Nat /\ h < i /\ i <= Len(t)
           /\ \A j \in (h + 1) .. i : t[j].is # "header"
<1> DEFINE later == {j \in (h + 1) .. Len(t) : t[j].is = "header"}
           T == later \cup {Len(t) + 1}
           m == Min(T)
<1>0. Len(t) \in Nat
  BY TextFacts
<1>1. m \in T /\ \A j \in T : m <= j
  <2>1. T \in SUBSET Nat /\ T # {}
    BY <1>0
  <2> HIDE DEF T
  <2> QED BY <2>1, MinOf
<1>2. Below(t, h) = (h + 1) .. (m - 1)
  BY DEF Below
<1>3. m \in Nat /\ h + 1 <= m /\ m <= Len(t) + 1
  BY <1>0, <1>1
<1>4. ASSUME i \in (h + 1) .. (m - 1)
      PROVE  /\ i \in Nat /\ h < i /\ i <= Len(t)
             /\ \A j \in (h + 1) .. i : t[j].is # "header"
  <2>1. i \in Nat /\ h < i /\ i <= Len(t) /\ i < m
    BY <1>0, <1>3, <1>4
  <2>2. ASSUME NEW j \in (h + 1) .. i, t[j].is = "header" PROVE FALSE
    <3>1. j \in T /\ j < m
      BY <1>0, <1>3, <2>1, <2>2
    <3> HIDE DEF m, T
    <3> QED BY <1>1, <1>3, <3>1
  <2> QED BY <2>1, <2>2
<1>5. ASSUME i \in Nat, h < i, i <= Len(t), \A j \in (h + 1) .. i : t[j].is # "header"
      PROVE  i \in (h + 1) .. (m - 1)
  <2>1. i < m
    <3> SUFFICES ASSUME m <= i PROVE FALSE
      BY <1>3, <1>5
    <3>1. m \in (h + 1) .. i /\ m # Len(t) + 1
      BY <1>0, <1>3, <1>5
    <3>2. t[m].is = "header"
      BY <1>1, <3>1
    <3> HIDE DEF m
    <3> QED BY <1>5, <3>1, <3>2
  <2> QED BY <1>3, <1>5, <2>1
<1> QED BY <1>2, <1>4, <1>5

(* A line is below one header at most. *)
LEMMA BelowOne ==
  ASSUME NEW t, IsText(t), NEW g \in 1 .. Len(t), NEW h \in 1 .. Len(t),
         t[g].is = "header", t[h].is = "header", NEW i,
         i = g \/ i \in Below(t, g), i \in Below(t, h)
  PROVE  g = h
<1>1. /\ g \in 0 .. Len(t) /\ h \in 0 .. Len(t) /\ Len(t) \in Nat
  BY TextFacts
<1>2. i \in Nat /\ h < i /\ i <= Len(t) /\ \A j \in (h + 1) .. i : t[j].is # "header"
  BY <1>1, BelowIs
<1>3. i = g \/ (i \in Nat /\ g < i /\ i <= Len(t) /\ \A j \in (g + 1) .. i : t[j].is # "header")
  BY <1>1, BelowIs
<1>4. ~(h < g)
  <2> SUFFICES ASSUME h < g PROVE FALSE
    OBVIOUS
  <2>1. g \in (h + 1) .. i
    BY <1>1, <1>2, <1>3
  <2> QED BY <1>2, <2>1
<1>5. ~(g < h)
  <2> SUFFICES ASSUME g < h PROVE FALSE
    OBVIOUS
  <2>1. i # g /\ h \in (g + 1) .. i
    BY <1>1, <1>2, <1>3
  <2> QED BY <1>3, <2>1
<1> QED BY <1>1, <1>4, <1>5

(* Settings are pairs of names. *)
LEMMA SettingFacts ==
  /\ \A s \in Settings : s[1] \in Words /\ s[2] \in Words /\ s = <<s[1], s[2]>>
  /\ \A s \in Settings : s[1] \in Edited \cup {"amp"} /\ (s[1] = "amp" <=> s = Unit)
  /\ \A s \in Settings : s[2] = "temperature_unit" <=> s = Unit
  /\ \A s \in Settings : s # Unit => s[1] \in Edited
  /\ Unit \in Settings /\ Unit[1] = "amp" /\ Unit[2] = "temperature_unit"
  /\ Edited \subseteq Words
<1>1. ASSUME NEW s \in Settings
      PROVE  /\ s[1] \in Words /\ s[2] \in Words /\ s = <<s[1], s[2]>>
             /\ s[1] \in Edited \cup {"amp"} /\ (s[1] = "amp" <=> s = Unit)
             /\ s[2] = "temperature_unit" <=> s = Unit
             /\ s # Unit => s[1] \in Edited
  <2>1. CASE s = Unit
    BY <2>1, WordsAssumption DEF Unit, Edited
  <2>2. CASE s = Kind
    BY <2>2, WordsAssumption DEF Unit, Kind, Edited
  <2>3. CASE s = Enabled
    BY <2>3, WordsAssumption DEF Unit, Enabled, Edited
  <2>4. CASE s = FlexHost
    BY <2>4, WordsAssumption DEF Unit, FlexHost, Edited
  <2>5. CASE s = TciHost
    BY <2>5, WordsAssumption DEF Unit, TciHost, Edited
  <2>6. CASE s = Port
    BY <2>6, WordsAssumption DEF Unit, Port, Edited
  <2> QED BY <2>1, <2>2, <2>3, <2>4, <2>5, <2>6 DEF Settings
<1>2. Unit \in Settings /\ Unit[1] = "amp" /\ Unit[2] = "temperature_unit"
  BY DEF Settings, Unit
<1>3. Edited \subseteq Words
  BY WordsAssumption DEF Edited
<1> QED BY <1>1, <1>2, <1>3

(* The keys that count stand in the last section of the name.              *)
LEMMA CountingIs ==
  ASSUME NEW t, IsText(t), NEW s \in Settings, NEW i
  PROVE  i \in Counting(t, s) <=>
           \E h \in Headers(t, s[1]) : /\ \A g \in Headers(t, s[1]) : g <= h
                                       /\ i \in Below(t, h) /\ IsKey(t[i], s[2])
<1> DEFINE H == Headers(t, s[1])
<1>1. H \in SUBSET (0 .. Len(t)) /\ Len(t) \in Nat
  BY TextFacts DEF Headers
<1>2. CASE H = {}
  BY <1>2 DEF Counting
<1>3. CASE H # {}
  <2>1. Max(H) \in H /\ \A g \in H : g <= Max(H)
    BY <1>1, <1>3, MaxOf
  <2>2. \A h \in H : (\A g \in H : g <= h) => h = Max(H)
    <3> DEFINE M == Max(H)
    <3>1. M \in H /\ (\A g \in H : g <= M) /\ H \in SUBSET Nat
      BY <1>1, <2>1
    <3> HIDE DEF H, M
    <3>2. \A h \in H : (\A g \in H : g <= h) => h = M
      BY <3>1
    <3> QED BY <3>2 DEF M
  <2>3. i \in Counting(t, s) <=> i \in Below(t, Max(H)) /\ IsKey(t[i], s[2])
    BY <1>3 DEF Counting
  <2> HIDE DEF H
  <2> QED BY <2>1, <2>2, <2>3 DEF H
<1> QED BY <1>2, <1>3

(* They are keys, and of the right name.                                   *)
LEMMA CountingFacts ==
  ASSUME NEW t, IsText(t), NEW s \in Settings, NEW i \in Counting(t, s)
  PROVE  i \in 1 .. Len(t) /\ t[i] \in Line /\ t[i].is = "key" /\ t[i].name = s[2]
<1>1. PICK h \in Headers(t, s[1]) : i \in Below(t, h) /\ IsKey(t[i], s[2])
  BY CountingIs
<1>2. h \in 0 .. Len(t) /\ Len(t) \in Nat /\ h >= 1
  BY TextFacts DEF Headers
<1>3. i \in Nat /\ h < i /\ i <= Len(t)
  BY <1>1, <1>2, BelowIs
<1>4. i \in 1 .. Len(t)
  BY <1>2, <1>3
<1> QED BY <1>1, <1>4, TextFacts DEF IsKey

(* Where a section is there once, all keys of it count.                    *)
LEMMA KeyLinesAreCounting ==
  ASSUME NEW t, IsText(t), NEW s \in Settings,
         \A g, h \in Headers(t, s[1]) : g = h
  PROVE  KeyLines(t, s) = Counting(t, s)
<1>1. Headers(t, s[1]) \in SUBSET Nat
  BY TextFacts DEF Headers
<1>2. ASSUME NEW i
      PROVE  i \in KeyLines(t, s) <=> i \in Counting(t, s)
  <2>1. i \in KeyLines(t, s) <=>
          \E h \in Headers(t, s[1]) : i \in Below(t, h) /\ IsKey(t[i], s[2])
    BY DEF KeyLines
  <2> QED BY <1>1, <2>1, CountingIs
<1> QED BY <1>2

(* What is read is the last line that counts, or the default. *)
LEMMA ReadLast ==
  ASSUME NEW t, IsText(t), NEW s \in Settings, NEW i \in Counting(t, s),
         \A j \in Counting(t, s) : j <= i
  PROVE  Read(t)[s] = Understood(s, t[i].value)
<1>1. Counting(t, s) \in SUBSET Nat
  BY CountingFacts, TextFacts
<1>2. Max(Counting(t, s)) = i
  BY <1>1, MaxIs
<1> QED BY <1>2 DEF Read

(* A setting the file does not have has its default.                       *)
LEMMA ReadNone ==
  ASSUME NEW t, NEW s \in Settings, Counting(t, s) = {}
  PROVE  Read(t)[s] = Default[s]
  BY DEF Read

(* The defaults are values of the settings.                                *)
LEMMA DefaultIsStore == Default \in [Settings -> Words]
<1> SUFFICES ASSUME NEW s \in Settings PROVE Default[s] \in Words
  BY DEF Default
<1>1. CASE s = Unit
  BY <1>1, WordsAssumption DEF Default, Unit
<1>2. CASE s = Kind
  BY <1>2, WordsAssumption DEF Default, Unit, Kind
<1>3. CASE s = Enabled
  BY <1>3, WordsAssumption DEF Default, Unit, Kind, Enabled
<1>4. CASE s = FlexHost
  BY <1>4, WordsAssumption DEF Default, Unit, Kind, Enabled, FlexHost
<1>5. CASE s = TciHost
  BY <1>5, WordsAssumption DEF Default, Unit, Kind, Enabled, FlexHost, TciHost
<1>6. CASE s = Port
  BY <1>6, WordsAssumption DEF Default, Unit, Kind, Enabled, FlexHost, TciHost, Port
<1> QED BY <1>1, <1>2, <1>3, <1>4, <1>5, <1>6 DEF Settings

(* Whatever the file holds, every setting has a value.                     *)
LEMMA ReadIsStore ==
  ASSUME NEW t, IsText(t)
  PROVE  Read(t) \in [Settings -> Words]
<1> SUFFICES ASSUME NEW s \in Settings PROVE Read(t)[s] \in Words
  BY DEF Read
<1>1. CASE Counting(t, s) = {}
  <2>1. Default[s] \in Words
    BY DefaultIsStore
  <2> QED BY <1>1, <2>1, ReadNone
<1>2. CASE Counting(t, s) # {}
  <2>1. Counting(t, s) \in SUBSET (0 .. Len(t)) /\ Len(t) \in Nat
    BY CountingFacts, TextFacts
  <2>2. Max(Counting(t, s)) \in Counting(t, s) /\ \A j \in Counting(t, s) : j <= Max(Counting(t, s))
    BY <1>2, <2>1, MaxOf
  <2>3. PICK i \in Counting(t, s) : \A j \in Counting(t, s) : j <= i
    BY <2>2
  <2>4. Read(t)[s] = Understood(s, t[i].value)
    BY <2>3, ReadLast
  <2>5. t[i].value \in Words
    <3>1. t[i] \in Line
      BY CountingFacts
    <3> QED BY <3>1 DEF Line
  <2>6. Understood(s, t[i].value) \in Words
    BY <2>5, WordsAssumption DEF Understood
  <2> QED BY <2>4, <2>6
<1> QED BY <1>1, <1>2

-----------------------------------------------------------------------------
(* Texts that differ in values only. *)

(* Values alone change no section and no key.                              *)
LEMMA SameShape ==
  ASSUME NEW t, IsText(t), NEW u, IsText(u), Len(u) = Len(t),
         \A i \in 1 .. Len(t) : u[i].is = t[i].is /\ u[i].name = t[i].name
  PROVE  /\ \A section \in Words : Headers(u, section) = Headers(t, section)
         /\ \A s \in Settings : Counting(u, s) = Counting(t, s)
<1>0. Len(t) \in Nat
  BY TextFacts
<1>1. ASSUME NEW section \in Words
      PROVE  Headers(u, section) = Headers(t, section)
  <2>1. ASSUME NEW i PROVE i \in Headers(u, section) <=> i \in Headers(t, section)
    <3>1. /\ i \in Headers(t, section) <=>
               i \in 1 .. Len(t) /\ t[i].is = "header" /\ t[i].name = section
          /\ i \in Headers(u, section) <=>
               i \in 1 .. Len(u) /\ u[i].is = "header" /\ u[i].name = section
      BY HeadersAre
    <3> QED BY <3>1
  <2> QED BY <2>1
<1>2. ASSUME NEW h \in 0 .. Len(t), NEW i
      PROVE  i \in Below(u, h) <=> i \in Below(t, h)
  <2>1. /\ i \in Below(t, h) <=>
             /\ i \in Nat /\ h < i /\ i <= Len(t)
             /\ \A j \in (h + 1) .. i : t[j].is # "header"
        /\ i \in Below(u, h) <=>
             /\ i \in Nat /\ h < i /\ i <= Len(u)
             /\ \A j \in (h + 1) .. i : u[j].is # "header"
    BY BelowIs
  <2>2. ASSUME i \in Nat, i <= Len(t), NEW j \in (h + 1) .. i PROVE u[j].is = t[j].is
    BY <1>0, <2>2
  <2> QED BY <2>1, <2>2
<1>3. ASSUME NEW s \in Settings, NEW i
      PROVE  i \in Counting(u, s) <=> i \in Counting(t, s)
  <2>1. s[1] \in Words
    BY SettingFacts
  <2>2. Headers(u, s[1]) = Headers(t, s[1]) /\ Headers(t, s[1]) \subseteq 0 .. Len(t)
    <3>1. Headers(t, s[1]) \subseteq 0 .. Len(t)
      BY <1>0, TextFacts DEF Headers
    <3> QED BY <1>1, <2>1, <3>1
  <2>3. ASSUME NEW h \in Headers(t, s[1])
        PROVE  /\ i \in Below(u, h) <=> i \in Below(t, h)
               /\ i \in Below(t, h) => (IsKey(u[i], s[2]) <=> IsKey(t[i], s[2]))
    <3>1. h \in 0 .. Len(t)
      BY <2>2
    <3>2. i \in Below(t, h) => i \in 1 .. Len(t)
      BY <1>0, <3>1, BelowIs
    <3> QED BY <1>2, <3>1, <3>2 DEF IsKey
  <2>4. /\ i \in Counting(t, s) <=>
             \E h \in Headers(t, s[1]) : /\ \A g \in Headers(t, s[1]) : g <= h
                                         /\ i \in Below(t, h) /\ IsKey(t[i], s[2])
        /\ i \in Counting(u, s) <=>
             \E h \in Headers(u, s[1]) : /\ \A g \in Headers(u, s[1]) : g <= h
                                         /\ i \in Below(u, h) /\ IsKey(u[i], s[2])
    BY CountingIs
  <2> QED BY <2>2, <2>3, <2>4
<1> QED BY <1>1, <1>3

-----------------------------------------------------------------------------
(* Texts with lines put in. *)

(* Where line i has gone when n lines are put in below line at.            *)
Moved(at, n, i) == IF i <= at THEN i ELSE i + n

(* u is t with the block below line at. *)
Spliced(t, u, at, block) ==
  /\ IsText(t) /\ IsText(u) /\ IsText(block) /\ at \in 0 .. Len(t)
  /\ Len(u) = Len(t) + Len(block)
  /\ \A i \in 1 .. Len(t) : u[Moved(at, Len(block), i)] = t[i]
  /\ \A j \in 1 .. Len(block) : u[at + j] = block[j]

(* Splice is an insertion.                                                 *)
LEMMA SpliceIs ==
  ASSUME NEW t, IsText(t), NEW block, IsText(block), NEW at \in 0 .. Len(t)
  PROVE  Spliced(t, Splice(t, at, block), at, block)
<1> DEFINE a == SubSeq(t, 1, at)
           b == SubSeq(t, at + 1, Len(t))
           n == Len(block)
           u == Splice(t, at, block)
<1>1. t \in Seq(Line) /\ block \in Seq(Line) /\ Len(t) \in Nat /\ n \in Nat /\ at \in Nat
  BY TextFacts
<1>2. a \in Seq(Line) /\ Len(a) = at /\ \A i \in 1 .. at : a[i] = t[i]
  <2>1. \A i \in 1 .. at : t[i] \in Line
    BY <1>1, TextFacts
  <2> QED BY <1>1, <2>1, SubSeqProperties
<1>3. /\ b \in Seq(Line) /\ Len(b) = Len(t) - at
      /\ \A i \in 1 .. Len(t) - at : b[i] = t[at + i]
  <2>1. \A i \in (at + 1) .. Len(t) : t[i] \in Line
    BY <1>1, TextFacts
  <2>2. /\ b \in Seq(Line)
        /\ Len(b) = IF at + 1 <= Len(t) THEN Len(t) - (at + 1) + 1 ELSE 0
        /\ \A i \in 1 .. Len(t) - (at + 1) + 1 : b[i] = t[at + 1 + i - 1]
    BY <1>1, <2>1, SubSeqProperties
  <2> HIDE DEF b
  <2>3. Len(b) = Len(t) - at
    BY <1>1, <2>2
  <2>4. \A i \in 1 .. Len(t) - at : b[i] = t[at + i]
    <3> TAKE i \in 1 .. Len(t) - at
    <3>1. i \in 1 .. Len(t) - (at + 1) + 1 /\ at + 1 + i - 1 = at + i
      BY <1>1
    <3> QED BY <2>2, <3>1
  <2> QED BY <2>2, <2>3, <2>4
<1> HIDE DEF a, b
<1> DEFINE c == a \o block
<1>4. /\ c \in Seq(Line) /\ Len(c) = at + n
      /\ \A i \in 1 .. at + n : c[i] = IF i <= at THEN a[i] ELSE block[i - at]
  BY <1>1, <1>2, ConcatProperties
<1>5. /\ u \in Seq(Line) /\ Len(u) = at + n + (Len(t) - at)
      /\ \A i \in 1 .. at + n + (Len(t) - at) :
           u[i] = IF i <= at + n THEN c[i] ELSE b[i - (at + n)]
  <2>1. u = c \o b
    BY DEF Splice, a, b
  <2>2. c \in Seq(Line) /\ Len(c) = at + n
    BY <1>4
  <2> HIDE DEF c, u, n
  <2>3. /\ c \o b \in Seq(Line) /\ Len(c \o b) = Len(c) + Len(b)
        /\ \A i \in 1 .. Len(c) + Len(b) :
             (c \o b)[i] = IF i <= Len(c) THEN c[i] ELSE b[i - Len(c)]
    BY <1>3, <2>2, ConcatProperties
  <2> QED BY <1>3, <2>1, <2>2, <2>3
<1> HIDE DEF c
<1>6. Len(u) = Len(t) + n
  BY <1>1, <1>5
<1>7. ASSUME NEW i \in 1 .. Len(t) PROVE u[Moved(at, n, i)] = t[i]
  <2> HIDE DEF u, n
  <2>1. CASE i <= at
    <3>1. i \in 1 .. at + n + (Len(t) - at) /\ i <= at + n /\ i \in 1 .. at /\ i \in 1 .. at + n
      BY <1>1, <2>1
    <3> QED BY <1>2, <1>4, <1>5, <2>1, <3>1 DEF Moved
  <2>2. CASE ~(i <= at)
    <3>1. /\ i + n \in 1 .. at + n + (Len(t) - at) /\ ~(i + n <= at + n)
          /\ i + n - (at + n) = i - at /\ i - at \in 1 .. Len(t) - at /\ at + (i - at) = i
      BY <1>1, <2>2
    <3>2. u[i + n] = b[i - at]
      <4> DEFINE k == i + n
      <4>1. k \in 1 .. at + n + (Len(t) - at) /\ ~(k <= at + n) /\ k - (at + n) = i - at
        BY <1>1, <2>2, <3>1
      <4> HIDE DEF k
      <4>2. u[k] = b[k - (at + n)]
        BY <1>5, <4>1
      <4>3. u[k] = b[i - at]
        BY <4>1, <4>2
      <4> QED BY <4>3 DEF k
    <3>3. b[i - at] = t[i]
      BY <1>3, <3>1
    <3> QED BY <2>2, <3>2, <3>3 DEF Moved
  <2> QED BY <2>1, <2>2
<1>8. ASSUME NEW j \in 1 .. n PROVE u[at + j] = block[j]
  <2> HIDE DEF u, n
  <2>1. /\ at + j \in 1 .. at + n + (Len(t) - at) /\ at + j <= at + n /\ at + j \in 1 .. at + n
        /\ ~(at + j <= at) /\ at + j - at = j
    BY <1>1
  <2> QED BY <1>4, <1>5, <2>1
<1>9. IsText(u)
  <2>1. ASSUME NEW k \in 1 .. Len(u), u[k].is = "header" PROVE u[k].value = ""
    <3>1. CASE k <= at
      <4>1. k \in 1 .. Len(t) /\ Moved(at, n, k) = k
        BY <1>1, <2>1, <3>1 DEF Moved
      <4>2. u[k] = t[k]
        BY <1>7, <4>1
      <4> QED BY <2>1, <4>1, <4>2, TextFacts DEF IsText
    <3>2. CASE at < k /\ k <= at + n
      <4>1. k - at \in 1 .. n /\ at + (k - at) = k
        BY <1>1, <2>1, <3>2
      <4>2. u[k] = block[k - at]
        BY <1>8, <4>1
      <4>3. block[k - at].is = "header" => block[k - at].value = ""
        BY <4>1, TextFacts DEF IsText
      <4> HIDE DEF u
      <4> QED BY <2>1, <4>2, <4>3
    <3>3. CASE at + n < k
      <4>1. k - n \in 1 .. Len(t) /\ Moved(at, n, k - n) = k
        BY <1>1, <1>6, <2>1, <3>3 DEF Moved
      <4>2. u[k] = t[k - n]
        BY <1>7, <4>1
      <4>3. t[k - n].is = "header" => t[k - n].value = ""
        BY <4>1, TextFacts DEF IsText
      <4> HIDE DEF u
      <4> QED BY <2>1, <4>2, <4>3
    <3>4. k <= at \/ (at < k /\ k <= at + n) \/ at + n < k
      <4> HIDE DEF u, n
      <4>1. k \in Int
        OBVIOUS
      <4> QED BY <1>1, <4>1
    <3> QED BY <3>1, <3>2, <3>3, <3>4
  <2>2. DOMAIN u = 1 .. Len(u)
    BY <1>5, LenProperties
  <2> QED BY <1>5, <2>1, <2>2 DEF IsText
<1> QED BY <1>6, <1>7, <1>8, <1>9 DEF Spliced

(* Lines added at the end. *)
LEMMA AppendIs ==
  ASSUME NEW t, IsText(t), NEW block, IsText(block)
  PROVE  Spliced(t, t \o block, Len(t), block)
<1>1. t \in Seq(Line) /\ block \in Seq(Line) /\ Len(t) \in Nat
  BY TextFacts
<1>2. SubSeq(t, 1, Len(t)) = t /\ SubSeq(t, Len(t) + 1, Len(t)) = <<>>
  BY <1>1, SubSeqFull, SubSeqEmpty
<1>3. t \o block \in Seq(Line)
  BY <1>1, ConcatProperties
<1>4. Splice(t, Len(t), block) = t \o block
  BY <1>2, <1>3, ConcatEmptySeq DEF Splice
<1>5. Len(t) \in 0 .. Len(t)
  BY <1>1
<1> QED BY <1>4, <1>5, SpliceIs

(* Lines keep their order, and every line has a place. *)
LEMMA Places ==
  ASSUME NEW L \in Nat, NEW at \in 0 .. L, NEW n \in Nat
  PROVE  /\ \A i \in 1 .. L : Moved(at, n, i) \in 1 .. L + n
         /\ \A i, j \in 1 .. L : i < j <=> Moved(at, n, i) < Moved(at, n, j)
         /\ \A i, j \in 1 .. L : Moved(at, n, i) = Moved(at, n, j) => i = j
         /\ \A k \in 1 .. L + n : \/ k \in 1 .. at /\ Moved(at, n, k) = k
                                  \/ k - at \in 1 .. n
                                  \/ k - n \in (at + 1) .. L /\ Moved(at, n, k - n) = k
         /\ \A i \in 1 .. L, j \in 1 .. n : Moved(at, n, i) # at + j
         /\ \A j \in 1 .. n : at + j \in 1 .. L + n
  BY DEF Moved

(* Where the block has no header, or stands at the end of a section, no    *)
(* line changes sections.                                                  *)
Apart(t, at, block) ==
  \/ \A j \in 1 .. Len(block) : block[j].is # "header"
  \/ at = Len(t)
  \/ at + 1 \in 1 .. Len(t) /\ t[at + 1].is = "header"

(* Lines that were of one section still are, if the block does not come    *)
(* between them.                                                           *)
LEMMA OldBelowOld ==
  ASSUME NEW t, NEW u, NEW at, NEW block, Spliced(t, u, at, block), Apart(t, at, block),
         NEW h \in 1 .. Len(t), NEW i \in 1 .. Len(t)
  PROVE  Moved(at, Len(block), i) \in Below(u, Moved(at, Len(block), h)) <=> i \in Below(t, h)
<1> DEFINE n == Len(block)
           L == Len(t)
           H == Moved(at, n, h)
           I == Moved(at, n, i)
<1>1. IsText(t) /\ IsText(u) /\ IsText(block) /\ at \in 0 .. L /\ Len(u) = L + n
  BY DEF Spliced
<1>2. L \in Nat /\ n \in Nat
  BY <1>1, TextFacts
<1>3. H \in 1 .. L + n /\ I \in 1 .. L + n /\ (h < i <=> H < I)
  BY <1>1, <1>2, Places
<1>4. /\ i \in Below(t, h) <=> h < i /\ \A j \in (h + 1) .. i : t[j].is # "header"
      /\ I \in Below(u, H) <=> H < I /\ \A j \in (H + 1) .. I : u[j].is # "header"
  <2>1. h \in 0 .. Len(t) /\ H \in 0 .. Len(u) /\ i \in Nat /\ i <= Len(t) /\ I \in Nat /\ I <= Len(u)
    <3> HIDE DEF H, I
    <3> QED BY <1>1, <1>2, <1>3
  <2> HIDE DEF H, I
  <2> QED BY <1>1, <2>1, BelowIs
<1>5. ASSUME h < i, \A j \in (h + 1) .. i : t[j].is # "header", NEW k \in (H + 1) .. I
      PROVE  u[k].is # "header"
  <2>1. k \in 1 .. L + n
    <3> HIDE DEF H, I, L, n
    <3> QED BY <1>2, <1>3
  <2>2. CASE k \in 1 .. at /\ Moved(at, n, k) = k
    <3>1. k \in (h + 1) .. i /\ k \in 1 .. L
      BY <1>1, <1>2, <2>2 DEF Moved
    <3>2. u[k] = t[k]
      BY <2>2, <3>1 DEF Spliced
    <3> QED BY <1>5, <3>1, <3>2
  <2>3. CASE k - at \in 1 .. n
    <3>1. h <= at /\ at < i
      BY <1>1, <1>2, <2>3 DEF Moved
    <3>2. at + 1 \in (h + 1) .. i /\ at # L
      BY <1>1, <1>2, <3>1
    <3>3. block[k - at].is # "header"
      BY <1>5, <2>3, <3>2 DEF Apart
    <3>4. at + (k - at) = k
      BY <1>1, <1>2
    <3>5. u[k] = block[k - at]
      BY <2>3, <3>4 DEF Spliced
    <3> HIDE DEF H, I, n, L
    <3> QED BY <3>3, <3>5
  <2>4. CASE k - n \in (at + 1) .. L /\ Moved(at, n, k - n) = k
    <3>1. k - n \in (h + 1) .. i /\ k - n \in 1 .. L
      BY <1>1, <1>2, <2>4 DEF Moved
    <3>2. u[k] = t[k - n]
      BY <2>4, <3>1 DEF Spliced
    <3>3. t[k - n].is # "header"
      BY <1>5, <3>1
    <3> HIDE DEF H, I, n, L
    <3> QED BY <3>2, <3>3
  <2>5. \/ k \in 1 .. at /\ Moved(at, n, k) = k
        \/ k - at \in 1 .. n
        \/ k - n \in (at + 1) .. L /\ Moved(at, n, k - n) = k
    <3> HIDE DEF H, I, n, L
    <3> QED BY <1>1, <1>2, <2>1, Places
  <2> QED BY <2>2, <2>3, <2>4, <2>5
<1>6. ASSUME H < I, \A j \in (H + 1) .. I : u[j].is # "header", NEW k \in (h + 1) .. i
      PROVE  t[k].is # "header"
  <2>1. k \in 1 .. L
    BY <1>1, <1>2
  <2>2. Moved(at, n, k) \in (H + 1) .. I
    BY <1>1, <1>2 DEF Moved
  <2>3. u[Moved(at, n, k)] = t[k]
    BY <2>1 DEF Spliced
  <2> HIDE DEF H, I
  <2> QED BY <1>6, <2>2, <2>3
<1> HIDE DEF H, I
<1>7. I \in Below(u, H) <=> i \in Below(t, h)
  BY <1>3, <1>4, <1>5, <1>6
<1> QED BY <1>7 DEF H, I, n

(* What is inserted inside a section and has no header belongs to it.      *)
LEMMA NewBelowOld ==
  ASSUME NEW t, NEW u, NEW at, NEW block, Spliced(t, u, at, block),
         NEW h \in 1 .. Len(t), NEW j \in 1 .. Len(block)
  PROVE  at + j \in Below(u, Moved(at, Len(block), h)) <=>
           /\ h = at \/ at \in Below(t, h)
           /\ \A k \in 1 .. j : block[k].is # "header"
<1> DEFINE n == Len(block)
           L == Len(t)
           H == Moved(at, n, h)
<1>1. IsText(t) /\ IsText(u) /\ IsText(block) /\ at \in 0 .. L /\ Len(u) = L + n
  BY DEF Spliced
<1>2. L \in Nat /\ n \in Nat
  BY <1>1, TextFacts
<1>3. H \in 1 .. L + n /\ at + j \in 1 .. L + n
  BY <1>1, <1>2, Places
<1>4. /\ at \in Below(t, h) <=> h < at /\ \A k \in (h + 1) .. at : t[k].is # "header"
      /\ at + j \in Below(u, H) <=> H < at + j /\ \A k \in (H + 1) .. at + j : u[k].is # "header"
  <2>1. h \in 0 .. Len(t) /\ H \in 0 .. Len(u) /\ at + j \in Nat /\ at + j <= Len(u) /\ at \in Nat /\ at <= Len(t)
    <3> HIDE DEF H
    <3> QED BY <1>1, <1>2, <1>3
  <2> HIDE DEF H
  <2> QED BY <1>1, <2>1, BelowIs
<1>5. ASSUME h <= at, \A k \in (h + 1) .. at : t[k].is # "header",
             \A k \in 1 .. j : block[k].is # "header", NEW k \in (H + 1) .. at + j
      PROVE  u[k].is # "header"
  <2>0. H = h
    BY <1>5 DEF Moved
  <2>1. CASE k <= at
    <3>1. k \in (h + 1) .. at /\ k \in 1 .. L /\ Moved(at, n, k) = k
      BY <1>1, <1>2, <2>0, <2>1 DEF Moved
    <3>2. u[k] = t[k]
      BY <3>1 DEF Spliced
    <3> QED BY <1>5, <3>1, <3>2
  <2>2. CASE ~(k <= at)
    <3>1. k - at \in 1 .. j /\ k - at \in 1 .. n /\ at + (k - at) = k
      BY <1>1, <1>2, <2>0, <2>2
    <3>2. u[k] = block[k - at]
      BY <3>1 DEF Spliced
    <3> QED BY <1>5, <3>1, <3>2
  <2> QED BY <2>1, <2>2
<1>6. ASSUME H < at + j, \A k \in (H + 1) .. at + j : u[k].is # "header"
      PROVE  /\ h <= at /\ \A k \in (h + 1) .. at : t[k].is # "header"
             /\ \A k \in 1 .. j : block[k].is # "header"
  <2>1. h <= at /\ H = h
    BY <1>1, <1>2, <1>6 DEF Moved
  <2>2. ASSUME NEW k \in (h + 1) .. at PROVE t[k].is # "header"
    <3>1. k \in (H + 1) .. at + j /\ k \in 1 .. L /\ Moved(at, n, k) = k
      BY <1>1, <1>2, <2>1 DEF Moved
    <3>2. u[k] = t[k]
      BY <3>1 DEF Spliced
    <3> QED BY <1>6, <3>1, <3>2
  <2>3. ASSUME NEW k \in 1 .. j PROVE block[k].is # "header"
    <3>1. at + k \in (H + 1) .. at + j /\ k \in 1 .. n
      BY <1>1, <1>2, <2>1
    <3>2. u[at + k] = block[k]
      BY <3>1 DEF Spliced
    <3> QED BY <1>6, <3>1, <3>2
  <2> QED BY <2>1, <2>2, <2>3
<1>7. h <= at <=> h = at \/ h < at
  BY <1>1, <1>2
<1>8. h <= at => H < at + j
  BY <1>1, <1>2 DEF Moved
<1>9. h = at => \A k \in (h + 1) .. at : t[k].is # "header"
  BY <1>1, <1>2
<1> HIDE DEF H
<1>10. at + j \in Below(u, H) <=>
           /\ h = at \/ at \in Below(t, h)
           /\ \A k \in 1 .. j : block[k].is # "header"
  <2>1. (h = at \/ at \in Below(t, h)) <=> h <= at /\ \A k \in (h + 1) .. at : t[k].is # "header"
    BY <1>4, <1>7, <1>9
  <2> QED BY <1>4, <1>5, <1>6, <1>8, <2>1
<1> QED BY <1>10 DEF H, n

(* A section that is inserted has the keys it brings and no others.        *)
LEMMA BelowNew ==
  ASSUME NEW t, NEW u, NEW at, NEW block, Spliced(t, u, at, block), Apart(t, at, block),
         NEW g \in 1 .. Len(block), block[g].is = "header"
  PROVE  /\ \A i \in 1 .. Len(t) : Moved(at, Len(block), i) \notin Below(u, at + g)
         /\ \A j \in 1 .. Len(block) : at + j \in Below(u, at + g) <=> j \in Below(block, g)
<1> DEFINE n == Len(block)
           L == Len(t)
<1>1. IsText(t) /\ IsText(u) /\ IsText(block) /\ at \in 0 .. L /\ Len(u) = L + n
  BY DEF Spliced
<1>2. L \in Nat /\ n \in Nat
  BY <1>1, TextFacts
<1>3. at + g \in 0 .. Len(u) /\ at + g \in Nat /\ g \in 0 .. n
  BY <1>1, <1>2
<1>4. ASSUME NEW i \in 1 .. L, Moved(at, n, i) \in Below(u, at + g) PROVE FALSE
  <2>1. /\ Moved(at, n, i) \in Nat /\ at + g < Moved(at, n, i)
        /\ \A k \in (at + g + 1) .. Moved(at, n, i) : u[k].is # "header"
    BY <1>1, <1>3, <1>4, BelowIs
  <2>2. at < i
    BY <1>1, <1>2, <2>1 DEF Moved
  <2>3. at + 1 \in 1 .. L /\ at # L
    BY <1>1, <1>2, <2>2
  <2>4. t[at + 1].is = "header"
    BY <2>3 DEF Apart
  <2>5. Moved(at, n, at + 1) \in (at + g + 1) .. Moved(at, n, i)
    BY <1>1, <1>2, <2>2 DEF Moved
  <2>6. u[Moved(at, n, at + 1)] = t[at + 1]
    BY <2>3 DEF Spliced
  <2> QED BY <2>1, <2>4, <2>5, <2>6
<1>5. ASSUME NEW j \in 1 .. n
      PROVE  at + j \in Below(u, at + g) <=> j \in Below(block, g)
  <2>1. /\ j \in Below(block, g) <=> g < j /\ \A k \in (g + 1) .. j : block[k].is # "header"
        /\ at + j \in Below(u, at + g) <=>
             at + g < at + j /\ \A k \in (at + g + 1) .. at + j : u[k].is # "header"
    <3>1. at + j \in Nat /\ at + j <= Len(u) /\ j \in Nat /\ j <= n
      BY <1>1, <1>2
    <3> QED BY <1>1, <1>3, <3>1, BelowIs
  <2>2. at + g < at + j <=> g < j
    BY <1>1, <1>2
  <2>3. ASSUME \A k \in (g + 1) .. j : block[k].is # "header", NEW k \in (at + g + 1) .. at + j
        PROVE  u[k].is # "header"
    <3>1. k - at \in (g + 1) .. j /\ k - at \in 1 .. n /\ at + (k - at) = k
      BY <1>1, <1>2
    <3>2. u[k] = block[k - at]
      BY <3>1 DEF Spliced
    <3> QED BY <2>3, <3>1, <3>2
  <2>4. ASSUME \A k \in (at + g + 1) .. at + j : u[k].is # "header", NEW k \in (g + 1) .. j
        PROVE  block[k].is # "header"
    <3>1. at + k \in (at + g + 1) .. at + j /\ k \in 1 .. n
      BY <1>1, <1>2
    <3>2. u[at + k] = block[k]
      BY <3>1 DEF Spliced
    <3> QED BY <2>4, <3>1, <3>2
  <2> QED BY <2>1, <2>2, <2>3, <2>4
<1> QED BY <1>4, <1>5

-----------------------------------------------------------------------------
(* What becomes of the settings. *)

(* The lines of a kind are those there were, where they are now, and those *)
(* of the block.                                                           *)
LEMMA Found ==
  ASSUME NEW t, NEW u, NEW at, NEW block, Spliced(t, u, at, block), NEW kind, NEW k
  PROVE  k \in 1 .. Len(u) /\ u[k] \in kind <=>
           \/ \E i \in 1 .. Len(t) : t[i] \in kind /\ k = Moved(at, Len(block), i)
           \/ \E j \in 1 .. Len(block) : block[j] \in kind /\ k = at + j
<1> DEFINE n == Len(block)
           L == Len(t)
<1>1. IsText(t) /\ IsText(u) /\ IsText(block) /\ at \in 0 .. L /\ Len(u) = L + n
  BY DEF Spliced
<1>2. L \in Nat /\ n \in Nat
  BY <1>1, TextFacts
<1>3. ASSUME k \in 1 .. L + n, u[k] \in kind
      PROVE  \/ \E i \in 1 .. L : t[i] \in kind /\ k = Moved(at, n, i)
             \/ \E j \in 1 .. n : block[j] \in kind /\ k = at + j
  <2>1. CASE k \in 1 .. at /\ Moved(at, n, k) = k
    <3>1. k \in 1 .. L
      BY <1>1, <1>2, <2>1
    <3>2. u[k] = t[k]
      BY <2>1, <3>1 DEF Spliced
    <3> QED BY <1>3, <2>1, <3>1, <3>2
  <2>2. CASE k - at \in 1 .. n
    <3>1. at + (k - at) = k
      BY <1>1, <1>2, <1>3
    <3>2. u[k] = block[k - at]
      BY <2>2, <3>1 DEF Spliced
    <3> QED BY <1>3, <2>2, <3>1, <3>2
  <2>3. CASE k - n \in (at + 1) .. L /\ Moved(at, n, k - n) = k
    <3>1. k - n \in 1 .. L
      BY <1>1, <1>2, <2>3
    <3>2. u[k] = t[k - n]
      BY <2>3, <3>1 DEF Spliced
    <3> QED BY <1>3, <2>3, <3>1, <3>2
  <2>4. \/ k \in 1 .. at /\ Moved(at, n, k) = k
        \/ k - at \in 1 .. n
        \/ k - n \in (at + 1) .. L /\ Moved(at, n, k - n) = k
    <3> HIDE DEF n, L
    <3> QED BY <1>1, <1>2, <1>3, Places
  <2> QED BY <2>1, <2>2, <2>3, <2>4
<1>4. ASSUME NEW i \in 1 .. L, t[i] \in kind
      PROVE  Moved(at, n, i) \in 1 .. L + n /\ u[Moved(at, n, i)] \in kind
  <2>1. Moved(at, n, i) \in 1 .. L + n
    BY <1>1, <1>2, Places
  <2>2. u[Moved(at, n, i)] = t[i]
    BY DEF Spliced
  <2> QED BY <1>4, <2>1, <2>2
<1>5. ASSUME NEW j \in 1 .. n, block[j] \in kind
      PROVE  at + j \in 1 .. L + n /\ u[at + j] \in kind
  <2>1. at + j \in 1 .. L + n
    BY <1>1, <1>2, Places
  <2>2. u[at + j] = block[j]
    BY DEF Spliced
  <2> QED BY <1>5, <2>1, <2>2
<1> QED BY <1>1, <1>3, <1>4, <1>5

(* A header of the new text was in the old one or in the block.            *)
LEMMA HeadersFound ==
  ASSUME NEW t, NEW u, NEW at, NEW block, Spliced(t, u, at, block), NEW section, NEW k
  PROVE  k \in Headers(u, section) <=>
           \/ \E i \in Headers(t, section) : k = Moved(at, Len(block), i)
           \/ \E j \in Headers(block, section) : k = at + j
<1>1. /\ DOMAIN t = 1 .. Len(t) /\ DOMAIN u = 1 .. Len(u) /\ DOMAIN block = 1 .. Len(block)
  BY TextFacts DEF Spliced
<1> DEFINE kind == {Header(section)}
<1>2. ASSUME NEW x, NEW i
      PROVE  i \in Headers(x, section) <=> i \in DOMAIN x /\ x[i] \in kind
  BY DEF Headers
<1> HIDE DEF kind
<1>3. k \in 1 .. Len(u) /\ u[k] \in kind <=>
           \/ \E i \in 1 .. Len(t) : t[i] \in kind /\ k = Moved(at, Len(block), i)
           \/ \E j \in 1 .. Len(block) : block[j] \in kind /\ k = at + j
  BY Found
<1> QED BY <1>1, <1>2, <1>3

(* So was an unquoted unit.                                                *)
LEMMA UnitsFound ==
  ASSUME NEW t, NEW u, NEW at, NEW block, Spliced(t, u, at, block), NEW k
  PROVE  k \in UnitLines(u) <=>
           \/ \E i \in UnitLines(t) : k = Moved(at, Len(block), i)
           \/ \E j \in UnitLines(block) : k = at + j
<1> DEFINE units == {line \in Line : /\ IsKey(line, "temperature_unit")
                                     /\ line.value \notin {"\"C\"", "\"F\""}}
<1>1. ASSUME NEW x, IsText(x), NEW i
      PROVE  i \in UnitLines(x) <=> i \in 1 .. Len(x) /\ x[i] \in units
  BY <1>1, TextFacts DEF UnitLines
<1>2. IsText(t) /\ IsText(u) /\ IsText(block)
  BY DEF Spliced
<1> HIDE DEF units
<1>3. k \in 1 .. Len(u) /\ u[k] \in units <=>
           \/ \E i \in 1 .. Len(t) : t[i] \in units /\ k = Moved(at, Len(block), i)
           \/ \E j \in 1 .. Len(block) : block[j] \in units /\ k = at + j
  BY Found
<1> QED BY <1>1, <1>2, <1>3

(* The last header of a section stays the last. *)
LEMMA LastMoved ==
  ASSUME NEW t, NEW u, NEW at, NEW block, Spliced(t, u, at, block), NEW section,
         \A k : k \in Headers(u, section) <=>
                  \E i \in Headers(t, section) : k = Moved(at, Len(block), i),
         NEW h \in Headers(t, section)
  PROVE  (\A g \in Headers(t, section) : g <= h) <=>
           (\A g \in Headers(u, section) : g <= Moved(at, Len(block), h))
<1> DEFINE n == Len(block)
           L == Len(t)
<1>1. Headers(t, section) \subseteq 1 .. L /\ L \in Nat /\ n \in Nat /\ at \in 0 .. L
  BY TextFacts DEF Headers, Spliced
<1>2. \A i, j \in 1 .. L : i <= j <=> Moved(at, n, i) <= Moved(at, n, j)
  BY <1>1 DEF Moved
<1> QED BY <1>1, <1>2

(* Keys put in a section that comes once count there and nowhere else.     *)
LEMMA KeysPutIn ==
  ASSUME NEW t, NEW u, NEW at, NEW block, Spliced(t, u, at, block),
         \A j \in 1 .. Len(block) : block[j].is = "key",
         NEW section \in Words, NEW h \in Headers(t, section),
         \A g \in Headers(t, section) : g = h,
         at = h \/ at \in Below(t, h), NEW s \in Settings, NEW k
  PROVE  k \in Counting(u, s) <=>
           \/ \E i \in Counting(t, s) : k = Moved(at, Len(block), i)
           \/ s[1] = section /\ \E j \in 1 .. Len(block) : k = at + j /\ block[j].name = s[2]
<1> DEFINE n == Len(block)
           L == Len(t)
<1>1. IsText(t) /\ IsText(u) /\ IsText(block) /\ at \in 0 .. L /\ Len(u) = L + n
  BY DEF Spliced
<1>2. L \in Nat /\ n \in Nat /\ s[1] \in Words
  BY <1>1, TextFacts, SettingFacts
<1>3. \A g : g \in Headers(u, s[1]) <=> \E i \in Headers(t, s[1]) : g = Moved(at, n, i)
  <2>1. Headers(block, s[1]) = {}
    BY <1>1, <1>2, HeadersAre
  <2> QED BY <2>1, HeadersFound
<1>4. Apart(t, at, block)
  BY DEF Apart
<1>5. \A g \in Headers(t, s[1]) : g \in 1 .. L /\ t[g].is = "header" /\ t[g].name = s[1]
  BY <1>1, <1>2, HeadersAre
<1>6. h \in 1 .. L /\ t[h].is = "header" /\ t[h].name = section
  BY <1>1, HeadersAre
<1>7. ASSUME k \in Counting(u, s)
      PROVE  \/ \E i \in Counting(t, s) : k = Moved(at, n, i)
             \/ s[1] = section /\ \E j \in 1 .. n : k = at + j /\ block[j].name = s[2]
  <2>1. PICK G \in Headers(u, s[1]) : /\ \A g \in Headers(u, s[1]) : g <= G
                                      /\ k \in Below(u, G) /\ IsKey(u[k], s[2])
    BY <1>1, <1>7, CountingIs
  <2>2. PICK g \in Headers(t, s[1]) : G = Moved(at, n, g)
    BY <1>3
  <2>3. \A f \in Headers(t, s[1]) : f <= g
    BY <1>3, <2>1, <2>2, LastMoved
  <2>4. k \in 1 .. L + n
    BY <1>1, <1>7, CountingFacts
  <2>5. ASSUME NEW i \in 1 .. L, k = Moved(at, n, i) PROVE i \in Counting(t, s)
    <3>1. i \in Below(t, g)
      BY <1>4, <1>5, <2>1, <2>2, <2>5, OldBelowOld
    <3>2. u[k] = t[i]
      BY <2>5 DEF Spliced
    <3> QED BY <1>1, <2>1, <2>3, <3>1, <3>2, CountingIs
  <2>6. ASSUME NEW j \in 1 .. n, k = at + j PROVE s[1] = section /\ block[j].name = s[2]
    <3>1. g = at \/ at \in Below(t, g)
      BY <1>5, <2>1, <2>2, <2>6, NewBelowOld
    <3>2. g = h
      <4>1. CASE at \in Below(t, g)
        BY <1>1, <1>5, <1>6, <4>1, BelowOne
      <4>2. CASE g = at
        BY <1>1, <1>5, <1>6, <4>2, BelowOne
      <4> QED BY <3>1, <4>1, <4>2
    <3>3. u[k] = block[j]
      BY <2>6 DEF Spliced
    <3> QED BY <1>5, <1>6, <2>1, <3>2, <3>3 DEF IsKey
  <2>7. \/ k \in 1 .. at /\ Moved(at, n, k) = k
        \/ k - at \in 1 .. n
        \/ k - n \in (at + 1) .. L /\ Moved(at, n, k - n) = k
    <3> HIDE DEF n, L
    <3>1. L \in Nat /\ n \in Nat /\ at \in 0 .. L /\ k \in 1 .. L + n
      BY <1>1, <1>2, <2>4
    <3> QED BY <3>1, Places
  <2>8. \/ \E i \in 1 .. L : k = Moved(at, n, i)
        \/ \E j \in 1 .. n : k = at + j
    BY <1>1, <1>2, <2>4, <2>7
  <2> QED BY <2>5, <2>6, <2>8
<1>8. ASSUME NEW i \in Counting(t, s), k = Moved(at, n, i)
      PROVE  k \in Counting(u, s)
  <2>1. PICK g \in Headers(t, s[1]) : /\ \A f \in Headers(t, s[1]) : f <= g
                                      /\ i \in Below(t, g) /\ IsKey(t[i], s[2])
    BY <1>1, CountingIs
  <2>2. \A f \in Headers(u, s[1]) : f <= Moved(at, n, g)
    BY <1>3, <2>1, LastMoved
  <2>3. i \in 1 .. L
    BY <1>1, CountingFacts
  <2>4. k \in Below(u, Moved(at, n, g)) /\ u[k] = t[i]
    <3>1. k \in Below(u, Moved(at, n, g))
      BY <1>4, <1>5, <1>8, <2>1, <2>3, OldBelowOld
    <3> QED BY <1>8, <2>3, <3>1 DEF Spliced
  <2>5. Moved(at, n, g) \in Headers(u, s[1])
    BY <1>3
  <2> QED BY <1>1, <2>1, <2>2, <2>4, <2>5, CountingIs
<1>9. ASSUME s[1] = section, NEW j \in 1 .. n, k = at + j, block[j].name = s[2]
      PROVE  k \in Counting(u, s)
  <2>1. \A f \in Headers(u, s[1]) : f <= Moved(at, n, h)
    <3>1. \A g \in Headers(t, s[1]) : g <= h
      <4>1. h <= h
        BY <1>2, <1>6
      <4> QED BY <1>9, <4>1
    <3> QED BY <1>3, <1>9, <3>1, LastMoved
  <2>2. Moved(at, n, h) \in Headers(u, s[1])
    BY <1>3, <1>9
  <2>3. k \in Below(u, Moved(at, n, h))
    <3>1. \A m \in 1 .. j : block[m].is # "header"
      BY <1>2
    <3> QED BY <1>6, <1>9, <3>1, NewBelowOld
  <2>4. u[k] = block[j]
    BY <1>9 DEF Spliced
  <2>5. IsKey(u[k], s[2])
    BY <1>9, <2>4 DEF IsKey
  <2> QED BY <1>1, <2>1, <2>2, <2>3, <2>5, CountingIs
<1> QED BY <1>7, <1>8, <1>9

(* A section of its own: comments, a header, and its keys. *)
IsSection(block, g, section) ==
  /\ IsText(block) /\ g \in 1 .. Len(block) /\ block[g] = Header(section)
  /\ \A j \in 1 .. Len(block) : /\ j < g => block[j].is = "comment"
                                /\ j > g => block[j].is = "key"

(* A section put between others leaves theirs alone and, where it is the   *)
(* last of its name, counts.                                               *)
LEMMA SectionPutIn ==
  ASSUME NEW t, NEW u, NEW at, NEW block, Spliced(t, u, at, block),
         at = Len(t) \/ (at + 1 \in 1 .. Len(t) /\ t[at + 1].is = "header"),
         NEW g, NEW section \in Words, IsSection(block, g, section),
         NEW s \in Settings, NEW k
  PROVE  /\ s[1] # section =>
              (k \in Counting(u, s) <=> \E i \in Counting(t, s) : k = Moved(at, Len(block), i))
         /\ s[1] = section /\ (Headers(t, section) = {} \/ at = Len(t)) =>
              (k \in Counting(u, s) <=>
                 \E j \in 1 .. Len(block) : k = at + j /\ IsKey(block[j], s[2]))
<1> DEFINE n == Len(block)
           L == Len(t)
<1>1. IsText(t) /\ IsText(u) /\ IsText(block) /\ at \in 0 .. L /\ Len(u) = L + n
  BY DEF Spliced
<1>2. L \in Nat /\ n \in Nat /\ s[1] \in Words
  BY <1>1, TextFacts, SettingFacts
<1>3. Apart(t, at, block)
  BY DEF Apart
<1>4. g \in 1 .. n /\ block[g].is = "header" /\ block[g].name = section
  <2>1. Header(section).is = "header" /\ Header(section).name = section
    BY DEF Header
  <2> QED BY <2>1 DEF IsSection
<1>5. \A j \in 1 .. n : block[j].is = "header" => j = g
  BY <1>4 DEF IsSection
<1>6. \A f \in Headers(t, s[1]) : f \in 1 .. L
  BY <1>1, <1>2, HeadersAre
<1>7. k \in Counting(u, s) => k \in 1 .. L + n
  BY <1>1, CountingFacts
<1>8. k \in 1 .. L + n => \/ \E i \in 1 .. L : k = Moved(at, n, i)
                          \/ \E j \in 1 .. n : k = at + j
  <2> SUFFICES ASSUME k \in 1 .. L + n
               PROVE  \/ \E i \in 1 .. L : k = Moved(at, n, i)
                      \/ \E j \in 1 .. n : k = at + j
    OBVIOUS
  <2>1. \/ k \in 1 .. at /\ Moved(at, n, k) = k
        \/ k - at \in 1 .. n
        \/ k - n \in (at + 1) .. L /\ Moved(at, n, k - n) = k
    <3> HIDE DEF n, L
    <3> QED BY <1>1, <1>2, Places
  <2> QED BY <1>1, <1>2, <2>1
<1>9. ASSUME s[1] # section
      PROVE  k \in Counting(u, s) <=> \E i \in Counting(t, s) : k = Moved(at, n, i)
  <2>1. \A f : f \in Headers(u, s[1]) <=> \E i \in Headers(t, s[1]) : f = Moved(at, n, i)
    <3>1. Headers(block, s[1]) = {}
      BY <1>1, <1>2, <1>4, <1>5, <1>9, HeadersAre
    <3> QED BY <3>1, HeadersFound
  <2>2. ASSUME k \in Counting(u, s)
        PROVE  \E i \in Counting(t, s) : k = Moved(at, n, i)
    <3>1. PICK G \in Headers(u, s[1]) : /\ \A f \in Headers(u, s[1]) : f <= G
                                        /\ k \in Below(u, G) /\ IsKey(u[k], s[2])
      BY <1>1, <2>2, CountingIs
    <3>2. PICK h \in Headers(t, s[1]) : G = Moved(at, n, h)
      BY <2>1
    <3>3. \A f \in Headers(t, s[1]) : f <= h
      BY <2>1, <3>1, <3>2, LastMoved
    <3>4. ASSUME NEW i \in 1 .. L, k = Moved(at, n, i) PROVE i \in Counting(t, s)
      <4>1. i \in Below(t, h)
        BY <1>3, <1>6, <3>1, <3>2, <3>4, OldBelowOld
      <4>2. u[k] = t[i]
        BY <3>4 DEF Spliced
      <4> QED BY <1>1, <3>1, <3>3, <4>1, <4>2, CountingIs
    <3>5. ASSUME NEW j \in 1 .. n, k = at + j PROVE FALSE
      <4>1. \A m \in 1 .. j : block[m].is # "header"
        BY <1>6, <3>1, <3>2, <3>5, NewBelowOld
      <4>2. j < g
        BY <1>2, <1>4, <4>1
      <4>3. block[j].is = "comment"
        BY <4>2 DEF IsSection
      <4>4. u[k] = block[j]
        BY <3>5 DEF Spliced
      <4> QED BY <3>1, <4>3, <4>4 DEF IsKey
    <3> QED BY <1>7, <1>8, <2>2, <3>4, <3>5
  <2>3. ASSUME NEW i \in Counting(t, s), k = Moved(at, n, i)
        PROVE  k \in Counting(u, s)
    <3>1. PICK h \in Headers(t, s[1]) : /\ \A f \in Headers(t, s[1]) : f <= h
                                        /\ i \in Below(t, h) /\ IsKey(t[i], s[2])
      BY <1>1, CountingIs
    <3>2. \A f \in Headers(u, s[1]) : f <= Moved(at, n, h)
      BY <2>1, <3>1, LastMoved
    <3>3. i \in 1 .. L
      BY <1>1, CountingFacts
    <3>4. k \in Below(u, Moved(at, n, h))
      BY <1>3, <1>6, <2>3, <3>1, <3>3, OldBelowOld
    <3>5. u[k] = t[i]
      BY <2>3, <3>3 DEF Spliced
    <3>6. Moved(at, n, h) \in Headers(u, s[1])
      BY <2>1
    <3> QED BY <1>1, <3>1, <3>2, <3>4, <3>5, <3>6, CountingIs
  <2> QED BY <2>2, <2>3
<1>10. ASSUME s[1] = section, Headers(t, section) = {} \/ at = L
       PROVE  k \in Counting(u, s) <=> \E j \in 1 .. n : k = at + j /\ IsKey(block[j], s[2])
  <2>1. \A f : f \in Headers(u, s[1]) =>
                 f = at + g \/ \E i \in Headers(t, s[1]) : f = Moved(at, n, i)
    <3>1. \A j \in Headers(block, s[1]) : j = g
      BY <1>1, <1>2, <1>5, HeadersAre
    <3> QED BY <3>1, HeadersFound
  <2>2. at + g \in Headers(u, s[1])
    <3>1. g \in Headers(block, s[1])
      BY <1>1, <1>2, <1>4, <1>10, HeadersAre
    <3> QED BY <3>1, HeadersFound
  <2>3. \A f \in Headers(u, s[1]) : f <= at + g
    <3>1. ASSUME NEW i \in Headers(t, s[1]) PROVE Moved(at, n, i) <= at + g
      <4>1. i \in 1 .. L /\ at = L
        BY <1>6, <1>10
      <4> QED BY <1>2, <1>4, <4>1 DEF Moved
    <3>2. at + g \in Nat
      BY <1>1, <1>2, <1>4
    <3> QED BY <2>1, <3>1, <3>2
  <2>4. \A G \in Headers(u, s[1]) : (\A f \in Headers(u, s[1]) : f <= G) => G = at + g
    <3>1. Headers(u, s[1]) \subseteq Nat
      BY <1>1, <1>2, TextFacts DEF Headers
    <3> QED BY <2>2, <2>3, <3>1
  <2>5. k \in Counting(u, s) <=> k \in Below(u, at + g) /\ IsKey(u[k], s[2])
    BY <1>1, <2>2, <2>3, <2>4, CountingIs
  <2>6. ASSUME k \in Counting(u, s)
        PROVE  \E j \in 1 .. n : k = at + j /\ IsKey(block[j], s[2])
    <3>1. ASSUME NEW i \in 1 .. L, k = Moved(at, n, i) PROVE FALSE
      BY <1>3, <1>4, <2>5, <2>6, <3>1, BelowNew
    <3>2. PICK j \in 1 .. n : k = at + j
      BY <1>7, <1>8, <2>6, <3>1
    <3>3. u[k] = block[j]
      BY <3>2 DEF Spliced
    <3> QED BY <2>5, <2>6, <3>2, <3>3
  <2>7. ASSUME NEW j \in 1 .. n, k = at + j, IsKey(block[j], s[2])
        PROVE  k \in Counting(u, s)
    <3>1. u[k] = block[j]
      BY <2>7 DEF Spliced
    <3>2. g < j
      <4>1. ~(j < g) /\ j # g
        BY <1>4, <2>7 DEF IsSection, IsKey
      <4> QED BY <1>2, <1>4, <4>1
    <3>3. j \in Below(block, g)
      <4>1. \A m \in (g + 1) .. j : block[m].is # "header"
        BY <1>2, <1>4, <1>5
      <4>2. g \in 0 .. n /\ j \in Nat /\ j <= n
        BY <1>2, <1>4
      <4> QED BY <1>1, <3>2, <4>1, <4>2, BelowIs
    <3>4. k \in Below(u, at + g)
      BY <1>3, <1>4, <2>7, <3>3, BelowNew
    <3> QED BY <2>5, <2>7, <3>1, <3>4
  <2> QED BY <2>6, <2>7
<1> QED BY <1>9, <1>10

(* The clause on the unit says that one of those that would be rewritten   *)
(* is the one that counts.                                                 *)
UnitCounts(t) ==
  \/ UnitLines(t) = {}
  \/ \E i \in Counting(t, Unit) : i \in UnitLines(t) /\ \A j \in Counting(t, Unit) : j <= i

(* Regular, without Max.                                                   *)
LEMMA RegularIs ==
  ASSUME NEW t
  PROVE  Regular(t) <=>
           /\ IsText(t)
           /\ \A section \in Edited : \A i, j \in Headers(t, section) : i = j
           /\ \A s \in Settings \ {Unit} : \A i, j \in Counting(t, s) : i = j
           /\ UnitCounts(t)
<1>1. ASSUME IsText(t)
      PROVE  (UnitLines(t) # {} => /\ Counting(t, Unit) # {}
                                   /\ Max(Counting(t, Unit)) \in UnitLines(t))
               <=> UnitCounts(t)
  <2> DEFINE C == Counting(t, Unit)
  <2>1. C \in SUBSET (0 .. Len(t)) /\ Len(t) \in Nat
    BY <1>1, SettingFacts, CountingFacts, TextFacts
  <2>2. CASE C = {}
    BY <2>2 DEF UnitCounts
  <2>3. CASE C # {}
    <3>1. Max(C) \in C /\ \A j \in C : j <= Max(C)
      BY <2>1, <2>3, MaxOf
    <3>2. \A i \in C : (\A j \in C : j <= i) => Max(C) = i
      <4> TAKE i \in C
      <4> HAVE \A j \in C : j <= i
      <4>1. C \in SUBSET Nat
        BY <2>1
      <4> HIDE DEF C
      <4> QED BY <4>1, MaxIs
    <3> DEFINE M == Max(C)
    <3>3. M \in C /\ (\A j \in C : j <= M) /\ \A i \in C : (\A j \in C : j <= i) => M = i
      BY <3>1, <3>2
    <3> HIDE DEF M
    <3>4. UnitCounts(t) <=> (UnitLines(t) # {} => C # {} /\ M \in UnitLines(t))
      BY <2>3, <3>3 DEF UnitCounts
    <3> QED BY <3>4 DEF M
  <2> QED BY <2>2, <2>3
<1> QED BY <1>1 DEF Regular, IsText

(* u is t with its lines at p, and the settings of S at val.               *)
Edits(t, u, p, S, val) ==
  /\ IsText(t) /\ IsText(u)
  /\ p \in [1 .. Len(t) -> Nat] /\ \A i, j \in 1 .. Len(t) : i <= j => p[i] <= p[j]
  /\ \A s \in Settings \ S : /\ \A k : k \in Counting(u, s) <=> \E i \in Counting(t, s) : k = p[i]
                             /\ \A i \in Counting(t, s) : u[p[i]].value = t[i].value
  /\ \A s \in S : \E k \in Counting(u, s) : /\ \A m \in Counting(u, s) : m = k
                                            /\ u[k].value = val[s]
  /\ \A k : k \in UnitLines(u) <=> \E i \in UnitLines(t) : k = p[i]
  /\ \A section \in Edited : \A i, j \in Headers(u, section) : i = j

(* Reading u gives val for the settings of S, and what t gives for the     *)
(* others.                                                                 *)
Changes(t, u, S, val) ==
  /\ Regular(u)
  /\ \A s \in Settings : Read(u)[s] = IF s \in S THEN val[s] ELSE Read(t)[s]

(* An edit in these terms changes what is read for the settings of S only. *)
LEMMA EditsChange ==
  ASSUME NEW t, Regular(t), NEW u, NEW p, NEW S \in SUBSET (Settings \ {Unit}), NEW val,
         Edits(t, u, p, S, val)
  PROVE  /\ Changes(t, u, S, val)
         /\ \A s \in Settings : Counting(u, s) = {} <=> s \notin S /\ Counting(t, s) = {}
<1>1. /\ IsText(t) /\ IsText(u) /\ Len(t) \in Nat
      /\ \A s \in Settings \ {Unit} : \A i, j \in Counting(t, s) : i = j
      /\ UnitCounts(t)
  BY TextFacts, RegularIs DEF Edits
<1>2. ASSUME NEW s \in Settings, s \notin S, NEW i \in Counting(t, s),
             \A j \in Counting(t, s) : j <= i
      PROVE  p[i] \in Counting(u, s) /\ \A k \in Counting(u, s) : k <= p[i]
  <2>1. i \in 1 .. Len(t) /\ \A j \in Counting(t, s) : j \in 1 .. Len(t)
    BY <1>1, CountingFacts
  <2>2. \A k : k \in Counting(u, s) <=> \E j \in Counting(t, s) : k = p[j]
    BY <1>2 DEF Edits
  <2> QED BY <1>2, <2>1, <2>2 DEF Edits
<1>3. ASSUME NEW s \in Settings, s \notin S, Counting(t, s) # {}
      PROVE  Read(u)[s] = Read(t)[s]
  <2>1. Counting(t, s) \in SUBSET (0 .. Len(t))
    BY <1>1, CountingFacts
  <2>2. PICK i \in Counting(t, s) : \A j \in Counting(t, s) : j <= i
    BY <1>1, <1>3, <2>1, MaxOf
  <2>3. Read(t)[s] = Understood(s, t[i].value)
    BY <1>1, <2>2, ReadLast
  <2>4. Read(u)[s] = Understood(s, u[p[i]].value)
    BY <1>1, <1>2, <1>3, <2>2, ReadLast
  <2>5. u[p[i]].value = t[i].value
    BY <1>3 DEF Edits
  <2> QED BY <2>3, <2>4, <2>5
<1>4. ASSUME NEW s \in Settings, s \notin S
      PROVE  Counting(u, s) = {} <=> Counting(t, s) = {}
  <2>1. \A k : k \in Counting(u, s) <=> \E i \in Counting(t, s) : k = p[i]
    BY <1>4 DEF Edits
  <2> QED BY <2>1
<1>5. ASSUME NEW s \in S
      PROVE  Counting(u, s) # {} /\ Read(u)[s] = val[s]
  <2>1. PICK k \in Counting(u, s) : (\A m \in Counting(u, s) : m = k) /\ u[k].value = val[s]
    BY DEF Edits
  <2>2. k \in Nat
    BY <1>1, CountingFacts, TextFacts
  <2>3. Read(u)[s] = Understood(s, u[k].value)
    BY <1>1, <2>1, <2>2, ReadLast
  <2> QED BY <2>1, <2>3 DEF Understood
<1>6. ASSUME NEW s \in Settings \ {Unit}, NEW i \in Counting(u, s), NEW j \in Counting(u, s)
      PROVE  i = j
  <2>1. CASE s \in S
    BY <2>1 DEF Edits
  <2>2. CASE s \notin S
    <3>1. \A k : k \in Counting(u, s) <=> \E m \in Counting(t, s) : k = p[m]
      BY <2>2 DEF Edits
    <3> QED BY <1>1, <3>1
  <2> QED BY <2>1, <2>2
<1>7. UnitCounts(u)
  <2>1. \A k : k \in UnitLines(u) <=> \E i \in UnitLines(t) : k = p[i]
    BY DEF Edits
  <2>2. CASE UnitLines(t) = {}
    BY <2>1, <2>2 DEF UnitCounts
  <2>3. CASE UnitLines(t) # {}
    <3>1. PICK i \in Counting(t, Unit) : i \in UnitLines(t) /\ \A j \in Counting(t, Unit) : j <= i
      BY <1>1, <2>3 DEF UnitCounts
    <3>2. p[i] \in Counting(u, Unit) /\ \A k \in Counting(u, Unit) : k <= p[i]
      BY <1>2, <3>1, SettingFacts
    <3> QED BY <2>1, <3>1, <3>2 DEF UnitCounts
  <2> QED BY <2>2, <2>3
<1>8. Regular(u)
  BY <1>1, <1>6, <1>7, RegularIs DEF Edits
<1>9. ASSUME NEW s \in Settings
      PROVE  /\ Read(u)[s] = IF s \in S THEN val[s] ELSE Read(t)[s]
             /\ Counting(u, s) = {} <=> s \notin S /\ Counting(t, s) = {}
  <2>1. CASE s \in S
    BY <1>5, <2>1
  <2>2. CASE s \notin S /\ Counting(t, s) = {}
    BY <1>4, <2>2, ReadNone
  <2>3. CASE s \notin S /\ Counting(t, s) # {}
    BY <1>3, <1>4, <2>3
  <2> QED BY <2>1, <2>2, <2>3
<1> QED BY <1>8, <1>9 DEF Changes

(* A line counts for one setting at most. *)
LEMMA CountsOnce ==
  ASSUME NEW t, IsText(t), NEW r \in Settings, NEW s \in Settings,
         NEW i \in Counting(t, r), i \in Counting(t, s)
  PROVE  r = s
<1>1. PICK g \in Headers(t, r[1]) : i \in Below(t, g) /\ IsKey(t[i], r[2])
  BY CountingIs
<1>2. PICK h \in Headers(t, s[1]) : i \in Below(t, h) /\ IsKey(t[i], s[2])
  BY CountingIs
<1>3. /\ g \in 1 .. Len(t) /\ t[g].is = "header" /\ t[g].name = r[1]
      /\ h \in 1 .. Len(t) /\ t[h].is = "header" /\ t[h].name = s[1]
  BY HeadersAre, SettingFacts
<1>4. g = h
  BY <1>1, <1>2, <1>3, BelowOne
<1>5. r[1] = s[1] /\ r[2] = s[2]
  BY <1>1, <1>2, <1>3, <1>4 DEF IsKey
<1>6. r = <<r[1], r[2]>> /\ s = <<s[1], s[2]>>
  BY SettingFacts
<1> QED BY <1>5, <1>6

(* _insert_at finds the section's last key, or its header. *)
LEMMA LastKeyAt ==
  ASSUME NEW t, IsText(t), NEW h \in 1 .. Len(t), t[h].is = "header"
  PROVE  LET at == LastKeyBelow(t, h)
         IN  /\ at \in 1 .. Len(t) /\ t[at].is \in {"header", "key"}
             /\ at = h \/ at \in Below(t, h)
<1> DEFINE K == {h} \cup {i \in Below(t, h) : t[i].is = "key"}
<1>1. Len(t) \in Nat /\ h \in 0 .. Len(t)
  BY TextFacts
<1>2. \A i \in Below(t, h) : i \in 1 .. Len(t)
  BY <1>1, BelowIs
<1>3. K \in SUBSET (0 .. Len(t)) /\ K # {}
  BY <1>1, <1>2
<1>4. Max(K) \in K
  <2> HIDE DEF K
  <2> QED BY <1>1, <1>3, MaxOf
<1>5. LastKeyBelow(t, h) \in K
  BY <1>4 DEF LastKeyBelow
<1> QED BY <1>2, <1>5

(* SetToSeq lists a set, every element once. *)
LEMMA Listed ==
  ASSUME NEW S, IsFiniteSet(S)
  PROVE  /\ SetToSeq(S) \in Seq(S)
         /\ \A x \in S : \E i \in 1 .. Len(SetToSeq(S)) : SetToSeq(S)[i] = x
         /\ \A i, j \in 1 .. Len(SetToSeq(S)) : SetToSeq(S)[i] = SetToSeq(S)[j] => i = j
         /\ SetToSeq(S) = <<>> <=> S = {}
<1> DEFINE n == Cardinality(S)
           q == SetToSeq(S)
<1>1. n \in Nat /\ ExistsBijection(1 .. n, S)
  BY FS_CardinalityType
<1>2. PICK f \in Bijection(1 .. n, S) : TRUE
  BY <1>1 DEF ExistsBijection
<1>3. f \in [1 .. n -> S] /\ IsInjective(f)
  BY <1>2 DEF Bijection, Injection, IsInjective
<1>4. q \in [1 .. n -> S] /\ IsInjective(q)
  BY <1>3 DEF SetToSeq
<1> HIDE DEF n, q
<1>5. q \in Injection(1 .. n, S)
  BY <1>4 DEF Injection, IsInjective
<1>6. IsFiniteSet(1 .. n) /\ Cardinality(1 .. n) = n
  <2>1. /\ IsFiniteSet(1 .. n)
        /\ Cardinality(1 .. n) = IF 1 <= n THEN n - 1 + 1 ELSE 0
    BY <1>1, FS_Interval
  <2> QED BY <1>1, <2>1
<1>7. q \in Surjection(1 .. n, S)
  BY <1>5, <1>6, FS_Injection DEF n
<1>8. \A x \in S : \E i \in 1 .. n : q[i] = x
  BY <1>7 DEF Surjection
<1>9. q \in Seq(S) /\ Len(q) = n
  BY <1>1, <1>4
<1>10. \A i, j \in 1 .. n : q[i] = q[j] => i = j
  BY <1>4 DEF IsInjective
<1>11. q = <<>> <=> S = {}
  <2>1. CASE S = {}
    BY <1>9, <2>1
  <2>2. CASE S # {}
    <3>1. Len(q) # 0
      BY <1>8, <1>9, <1>1, <2>2
    <3> QED BY <2>2, <3>1, EmptySeq
  <2> QED BY <2>1, <2>2
<1> QED BY <1>8, <1>9, <1>10, <1>11 DEF q

(* There are six settings.                                                 *)
LEMMA SettingsFinite == ASSUME NEW S \in SUBSET Settings PROVE IsFiniteSet(S)
<1>1. IsFiniteSet({Unit, Kind, Enabled, FlexHost, TciHost, Port})
  <2>1. IsFiniteSet({})
    BY FS_EmptySet
  <2>2. IsFiniteSet({} \cup {Unit})
    BY <2>1, FS_AddElement
  <2>3. IsFiniteSet(({} \cup {Unit}) \cup {Kind})
    BY <2>2, FS_AddElement
  <2>4. IsFiniteSet((({} \cup {Unit}) \cup {Kind}) \cup {Enabled})
    BY <2>3, FS_AddElement
  <2>5. IsFiniteSet(((({} \cup {Unit}) \cup {Kind}) \cup {Enabled}) \cup {FlexHost})
    BY <2>4, FS_AddElement
  <2>6. IsFiniteSet((((({} \cup {Unit}) \cup {Kind}) \cup {Enabled}) \cup {FlexHost}) \cup {TciHost})
    BY <2>5, FS_AddElement
  <2>7. IsFiniteSet(((((({} \cup {Unit}) \cup {Kind}) \cup {Enabled}) \cup {FlexHost}) \cup {TciHost}) \cup {Port})
    BY <2>6, FS_AddElement
  <2>8. ((((({} \cup {Unit}) \cup {Kind}) \cup {Enabled}) \cup {FlexHost}) \cup {TciHost}) \cup {Port}
          = {Unit, Kind, Enabled, FlexHost, TciHost, Port}
    OBVIOUS
  <2> QED BY <2>7, <2>8
<1> QED BY <1>1, FS_Subset DEF Settings

-----------------------------------------------------------------------------
(* Comments. *)

(* Every comment of t stands in u above the line it stood above, unless    *)
(* that is logging:.                                                       *)
Kept(t, u) == \A c \in Describes(t) : c[3] = "logging" \/ c \in Describes(u)

(* Comments are kept by doing nothing.                                     *)
LEMMA KeptSelf == ASSUME NEW t PROVE Kept(t, t)
  BY DEF Kept

(* And by one edit after another that keeps them.                          *)
LEMMA KeptTwice ==
  ASSUME NEW t, NEW u, NEW v, Kept(t, u), Kept(u, v)
  PROVE  Kept(t, v)
  BY DEF Kept

(* What the comments of a text describe, line by line.                     *)
LEMMA DescribesIs ==
  ASSUME NEW t, NEW c
  PROVE  c \in Describes(t) <=>
           \E i \in 1 .. (Len(t) - 1) : /\ t[i].is = "comment"
                                        /\ c = <<t[i].name, t[i + 1].is, t[i + 1].name>>
  BY DEF Describes

(* Other values leave the comments where they are.                         *)
LEMMA SameShapeKeeps ==
  ASSUME NEW t, NEW u, Len(u) = Len(t), Len(t) \in Nat,
         \A i \in 1 .. Len(t) : u[i].is = t[i].is /\ u[i].name = t[i].name
  PROVE  Kept(t, u)
<1> SUFFICES ASSUME NEW c \in Describes(t) PROVE c \in Describes(u)
  BY DEF Kept
<1>1. PICK i \in 1 .. (Len(t) - 1) : /\ t[i].is = "comment"
                                     /\ c = <<t[i].name, t[i + 1].is, t[i + 1].name>>
  BY DescribesIs
<1>2. i \in 1 .. Len(t) /\ i + 1 \in 1 .. Len(t) /\ i \in 1 .. (Len(u) - 1)
  OBVIOUS
<1>3. u[i].is = "comment" /\ c = <<u[i].name, u[i + 1].is, u[i + 1].name>>
  BY <1>1, <1>2
<1> QED BY <1>2, <1>3, DescribesIs

(* Lines put in separate a comment from its line only above logging:.      *)
LEMMA SplicedKeeps ==
  ASSUME NEW t, NEW u, NEW at, NEW block, Spliced(t, u, at, block),
         \/ at = Len(t)
         \/ at \in 1 .. Len(t) /\ t[at].is # "comment"
         \/ at + 1 \in 1 .. Len(t) /\ t[at + 1].name = "logging"
  PROVE  Kept(t, u)
<1> DEFINE n == Len(block)
           L == Len(t)
<1>1. L \in Nat /\ n \in Nat /\ at \in 0 .. L /\ Len(u) = L + n
  BY TextFacts DEF Spliced
<1> SUFFICES ASSUME NEW c \in Describes(t), c[3] # "logging" PROVE c \in Describes(u)
  BY DEF Kept
<1>2. PICK i \in 1 .. (L - 1) : /\ t[i].is = "comment"
                                /\ c = <<t[i].name, t[i + 1].is, t[i + 1].name>>
  BY DescribesIs
<1>3. c[3] = t[i + 1].name
  BY <1>2
<1>4. i # at
  BY <1>1, <1>2, <1>3
<1>5. /\ i \in 1 .. L /\ i + 1 \in 1 .. L
      /\ Moved(at, n, i) \in 1 .. (L + n - 1) /\ Moved(at, n, i + 1) = Moved(at, n, i) + 1
  BY <1>1, <1>4 DEF Moved
<1>6. u[Moved(at, n, i)] = t[i] /\ u[Moved(at, n, i) + 1] = t[i + 1]
  <2>1. u[Moved(at, n, i)] = t[i] /\ u[Moved(at, n, i + 1)] = t[i + 1]
    BY <1>5 DEF Spliced
  <2> QED BY <1>5, <2>1
<1> DEFINE k == Moved(at, n, i)
<1>7. /\ k \in 1 .. (Len(u) - 1) /\ u[k].is = "comment"
      /\ c = <<u[k].name, u[k + 1].is, u[k + 1].name>>
  BY <1>1, <1>2, <1>5, <1>6
<1> HIDE DEF k
<1> QED BY <1>7, DescribesIs

-----------------------------------------------------------------------------
(* The three ways a text is edited. *)

(* Functions on 1 .. n are sequences.                                      *)
LEMMA FunctionIsSeq ==
  ASSUME NEW n \in Nat, NEW S, NEW f \in [1 .. n -> S]
  PROVE  f \in Seq(S) /\ Len(f) = n /\ DOMAIN f = 1 .. n
  OBVIOUS

(* The lines that the programs write: a key with its value.                *)
LEMMA KeyLineIs ==
  ASSUME NEW name \in Words, NEW value \in Words
  PROVE  /\ KeyLine(name, value) \in Line /\ KeyLine(name, value).is = "key"
         /\ KeyLine(name, value).name = name /\ KeyLine(name, value).value = value
  BY DEF KeyLine, Line

(* A header.                                                               *)
LEMMA HeaderIs ==
  ASSUME NEW name \in Words
  PROVE  /\ Header(name) \in Line /\ Header(name).is = "header"
         /\ Header(name).name = name /\ Header(name).value = ""
  BY WordsAssumption DEF Header, Line

(* A line with another value.                                              *)
LEMMA RewrittenIs ==
  ASSUME NEW line \in Line, NEW value \in Words
  PROVE  /\ Rewritten(line, value) \in Line /\ Rewritten(line, value).is = line.is
         /\ Rewritten(line, value).name = line.name /\ Rewritten(line, value).value = value
<1>1. line.is \in {"header", "key", "comment"} /\ line.name \in Words
  BY DEF Line
<1> QED BY <1>1 DEF Rewritten, Line

(* A block of keys is a text.                                              *)
LEMMA KeysAreText ==
  ASSUME NEW block \in Seq(Line), \A j \in 1 .. Len(block) : block[j].is = "key"
  PROVE  IsText(block)
<1>1. DOMAIN block = 1 .. Len(block)
  BY LenProperties
<1> QED BY <1>1 DEF IsText

(* Values are replaced: u is t with other values in the lines that count   *)
(* for S, and nowhere else that matters.                                   *)
OtherValues(t, u, S, val) ==
  /\ u \in Seq(Line) /\ Len(u) = Len(t)
  /\ \A i \in 1 .. Len(t) : u[i].is = t[i].is /\ u[i].name = t[i].name
  /\ \A i \in 1 .. Len(t) : t[i].is = "header" => u[i].value = t[i].value
  /\ \A i \in 1 .. Len(t) : IsKey(t[i], "temperature_unit") => u[i].value = t[i].value
  /\ S \subseteq Settings \ {Unit}
  /\ \A s \in S : \E k \in Counting(t, s) : u[k].value = val[s]
  /\ \A s \in Settings \ S : \A i \in Counting(t, s) : u[i].value = t[i].value

(* First way to edit a text: other values for keys that are there.         *)
LEMMA ValuesReplaced ==
  ASSUME NEW t, Regular(t), NEW u, NEW S, NEW val, OtherValues(t, u, S, val)
  PROVE  /\ Changes(t, u, S, val) /\ Kept(t, u)
         /\ \A s \in Settings : Counting(u, s) = Counting(t, s)
         /\ \A section \in Words : Headers(u, section) = Headers(t, section)
<1>0. u \in Seq(Line) /\ Len(u) = Len(t) /\ S \in SUBSET (Settings \ {Unit})
  BY DEF OtherValues
<1>01. \A i \in 1 .. Len(t) : u[i].is = t[i].is /\ u[i].name = t[i].name
  BY DEF OtherValues
<1>02. /\ \A i \in 1 .. Len(t) : t[i].is = "header" => u[i].value = t[i].value
       /\ \A i \in 1 .. Len(t) : IsKey(t[i], "temperature_unit") => u[i].value = t[i].value
  BY DEF OtherValues
<1>03. /\ \A s \in S : \E k \in Counting(t, s) : u[k].value = val[s]
       /\ \A s \in Settings \ S : \A i \in Counting(t, s) : u[i].value = t[i].value
  BY DEF OtherValues
<1>1. /\ IsText(t) /\ Len(t) \in Nat /\ DOMAIN t = 1 .. Len(t) /\ DOMAIN u = 1 .. Len(t)
      /\ \A section \in Edited : \A i, j \in Headers(t, section) : i = j
      /\ \A s \in Settings \ {Unit} : \A i, j \in Counting(t, s) : i = j
  BY <1>0, TextFacts, RegularIs, LenProperties
<1>2. IsText(u)
  <2>1. \A i \in 1 .. Len(t) : t[i].is = "header" => t[i].value = ""
    BY <1>1 DEF IsText
  <2>2. \A i \in 1 .. Len(t) : u[i].is = "header" => u[i].value = ""
    BY <1>01, <1>02, <2>1
  <2> QED BY <1>0, <1>1, <2>2 DEF IsText
<1>3. /\ \A section \in Words : Headers(u, section) = Headers(t, section)
      /\ \A s \in Settings : Counting(u, s) = Counting(t, s)
  BY <1>0, <1>01, <1>1, <1>2, SameShape
<1>4. UnitLines(u) = UnitLines(t)
  <2>1. \A i \in 1 .. Len(t) :
          /\ IsKey(u[i], "temperature_unit") <=> IsKey(t[i], "temperature_unit")
          /\ IsKey(t[i], "temperature_unit") => u[i].value = t[i].value
    BY <1>01, <1>02 DEF IsKey
  <2> QED BY <1>1, <2>1 DEF UnitLines
<1> DEFINE p == [i \in 1 .. Len(t) |-> i]
<1>5. \A s \in Settings : Counting(t, s) \subseteq 1 .. Len(t)
  BY <1>1, CountingFacts
<1>6. UnitLines(t) \subseteq 1 .. Len(t)
  BY <1>1 DEF UnitLines
<1>7. Edits(t, u, p, S, val)
  <2>1. p \in [1 .. Len(t) -> Nat] /\ \A i, j \in 1 .. Len(t) : i <= j => p[i] <= p[j]
    OBVIOUS
  <2>2. \A k \in 1 .. Len(t) : p[k] = k
    OBVIOUS
  <2> HIDE DEF p
  <2>3. ASSUME NEW s \in Settings \ S
        PROVE  /\ \A k : k \in Counting(u, s) <=> \E i \in Counting(t, s) : k = p[i]
               /\ \A i \in Counting(t, s) : u[p[i]].value = t[i].value
    <3>1. Counting(u, s) = Counting(t, s) /\ \A i \in Counting(t, s) : p[i] = i
      BY <1>3, <1>5, <2>2
    <3> QED BY <1>03, <3>1
  <2>4. ASSUME NEW s \in S
        PROVE  \E k \in Counting(u, s) : /\ \A m \in Counting(u, s) : m = k
                                         /\ u[k].value = val[s]
    <3>1. Counting(u, s) = Counting(t, s)
      BY <1>0, <1>3
    <3>2. PICK k \in Counting(t, s) : u[k].value = val[s]
      BY <1>03
    <3>3. \A m \in Counting(t, s) : m = k
      BY <1>0, <1>1
    <3> QED BY <3>1, <3>2, <3>3
  <2>5. \A k : k \in UnitLines(u) <=> \E i \in UnitLines(t) : k = p[i]
    BY <1>4, <1>6, <2>2
  <2>6. \A section \in Edited : \A i, j \in Headers(u, section) : i = j
    BY <1>1, <1>3, SettingFacts
  <2> QED BY <1>1, <1>2, <2>1, <2>3, <2>4, <2>5, <2>6 DEF Edits
<1>8. Changes(t, u, S, val)
  <2> HIDE DEF p
  <2> QED BY <1>0, <1>7, EditsChange
<1>9. Kept(t, u)
  BY <1>0, <1>01, <1>1, SameShapeKeeps
<1> QED BY <1>3, <1>8, <1>9

(* What a block sets: every setting of S in one line, and nothing else.    *)
SetsOnly(block, section, S, val) ==
  /\ S \subseteq Settings \ {Unit} /\ \A s \in S : s[1] = section
  /\ \A s \in S : \E j \in 1 .. Len(block) :
        /\ IsKey(block[j], s[2]) /\ block[j].value = val[s]
        /\ \A k \in 1 .. Len(block) : IsKey(block[k], s[2]) => k = j
  /\ \A j \in 1 .. Len(block) :
        block[j].is = "key" => \E s \in S : block[j].name = s[2]

(* A block for one of the edited sections has no unit in it.               *)
LEMMA SetsNoUnit ==
  ASSUME NEW block, IsText(block), NEW section, NEW S, NEW val, SetsOnly(block, section, S, val)
  PROVE  /\ UnitLines(block) = {}
         /\ \A s \in Settings \ S : s[1] = section =>
              \A j \in 1 .. Len(block) : ~IsKey(block[j], s[2])
<1>1. \A s \in S : s \in Settings /\ s # Unit /\ s[2] # "temperature_unit" /\ s = <<section, s[2]>>
  BY SettingFacts DEF SetsOnly
<1>2. \A j \in 1 .. Len(block) : block[j].is = "key" => \E s \in S : block[j].name = s[2]
  BY DEF SetsOnly
<1>3. UnitLines(block) = {}
  BY <1>1, <1>2, TextFacts DEF UnitLines, IsKey
<1>4. ASSUME NEW s \in Settings \ S, s[1] = section, NEW j \in 1 .. Len(block),
             IsKey(block[j], s[2])
      PROVE  FALSE
  <2>1. PICK r \in S : block[j].name = r[2]
    BY <1>2, <1>4 DEF IsKey
  <2>2. r = <<section, r[2]>> /\ s = <<section, s[2]>> /\ r[2] = s[2]
    BY <1>1, <1>4, <2>1, SettingFacts DEF IsKey
  <2>3. r = s
    BY <2>2
  <2> QED BY <1>4, <2>3
<1> QED BY <1>3, <1>4

(* Where the lines go is a function that keeps their order.                *)
LEMMA MovedFunction ==
  ASSUME NEW L \in Nat, NEW at \in 0 .. L, NEW n \in Nat
  PROVE  LET p == [i \in 1 .. L |-> Moved(at, n, i)]
         IN  /\ p \in [1 .. L -> Nat] /\ \A i, j \in 1 .. L : i <= j => p[i] <= p[j]
             /\ \A i \in 1 .. L : p[i] = Moved(at, n, i)
<1>1. \A i \in 1 .. L : Moved(at, n, i) \in Nat
  BY DEF Moved
<1>2. \A i, j \in 1 .. L : i <= j => Moved(at, n, i) <= Moved(at, n, j)
  BY DEF Moved
<1> QED BY <1>1, <1>2

(* Keys are added to a section that is there. *)
LEMMA KeysAdded ==
  ASSUME NEW t, Regular(t), NEW section \in Edited, NEW h \in Headers(t, section),
         NEW block \in Seq(Line), \A j \in 1 .. Len(block) : block[j].is = "key",
         NEW S, NEW val, SetsOnly(block, section, S, val),
         \A s \in S : Counting(t, s) = {},
         NEW u, u = Splice(t, LastKeyBelow(t, h), block)
  PROVE  /\ Changes(t, u, S, val) /\ Kept(t, u)
         /\ \A s \in Settings : Counting(u, s) = {} <=> s \notin S /\ Counting(t, s) = {}
         /\ \A sec \in Words : Headers(u, sec) = {} <=> Headers(t, sec) = {}
<1> DEFINE at == LastKeyBelow(t, h)
           n == Len(block)
           L == Len(t)
<1>1. /\ IsText(t) /\ L \in Nat /\ section \in Words /\ IsText(block) /\ n \in Nat
      /\ \A sec \in Edited : \A i, j \in Headers(t, sec) : i = j
  BY RegularIs, TextFacts, SettingFacts, KeysAreText, LenProperties
<1>2. h \in 1 .. L /\ t[h].is = "header"
  BY <1>1, HeadersAre
<1>3. at \in 1 .. L /\ t[at].is \in {"header", "key"} /\ (at = h \/ at \in Below(t, h))
  BY <1>1, <1>2, LastKeyAt
<1> HIDE DEF at
<1>4. Spliced(t, u, at, block)
  BY <1>1, <1>3, SpliceIs DEF at
<1>5. IsText(u) /\ \A i \in 1 .. L : u[Moved(at, n, i)] = t[i]
  BY <1>4 DEF Spliced
<1>6. S \in SUBSET (Settings \ {Unit}) /\ \A s \in S : s[1] = section
  BY DEF SetsOnly
<1>7. /\ UnitLines(block) = {}
      /\ \A s \in Settings \ S : s[1] = section =>
              \A j \in 1 .. Len(block) : ~IsKey(block[j], s[2])
  BY <1>1, SetsNoUnit
<1>8. ASSUME NEW s \in Settings, NEW k
      PROVE  k \in Counting(u, s) <=>
               \/ \E i \in Counting(t, s) : k = Moved(at, n, i)
               \/ s[1] = section /\ \E j \in 1 .. n : k = at + j /\ block[j].name = s[2]
  <2>1. \A g \in Headers(t, section) : g = h
    BY <1>1
  <2> QED BY <1>1, <1>3, <1>4, <2>1, KeysPutIn
<1>9. \A sec \in Words : \A k : k \in Headers(u, sec) <=> \E i \in Headers(t, sec) : k = Moved(at, n, i)
  <2> TAKE sec \in Words
  <2> TAKE k
  <2>1. Headers(block, sec) = {}
    BY <1>1, HeadersAre
  <2> QED BY <1>4, <2>1, HeadersFound
<1> DEFINE p == [i \in 1 .. L |-> Moved(at, n, i)]
<1>10. /\ p \in [1 .. L -> Nat] /\ \A i, j \in 1 .. L : i <= j => p[i] <= p[j]
       /\ \A i \in 1 .. L : p[i] = Moved(at, n, i)
  <2>1. at \in 0 .. L
    BY <1>1, <1>3
  <2> QED BY <1>1, <2>1, MovedFunction
<1> HIDE DEF p
<1>11. \A s \in Settings : Counting(t, s) \subseteq 1 .. L
  BY <1>1, CountingFacts
<1>12. Edits(t, u, p, S, val)
  <2>1. ASSUME NEW s \in Settings \ S
        PROVE  /\ \A k : k \in Counting(u, s) <=> \E i \in Counting(t, s) : k = p[i]
               /\ \A i \in Counting(t, s) : u[p[i]].value = t[i].value
    <3>1. \A i \in Counting(t, s) : p[i] = Moved(at, n, i) /\ i \in 1 .. L
      BY <1>10, <1>11
    <3>2. \A k : k \in Counting(u, s) <=> \E i \in Counting(t, s) : k = Moved(at, n, i)
      BY <1>7, <1>8 DEF IsKey
    <3> QED BY <1>5, <3>1, <3>2
  <2>2. ASSUME NEW s \in S
        PROVE  \E k \in Counting(u, s) : /\ \A m \in Counting(u, s) : m = k
                                         /\ u[k].value = val[s]
    <3>1. PICK j \in 1 .. n : /\ IsKey(block[j], s[2]) /\ block[j].value = val[s]
                              /\ \A k \in 1 .. n : IsKey(block[k], s[2]) => k = j
      BY DEF SetsOnly
    <3>2. \A k : k \in Counting(u, s) <=> \E i \in 1 .. n : k = at + i /\ block[i].name = s[2]
      BY <1>6, <1>8
    <3>3. at + j \in Counting(u, s) /\ \A m \in Counting(u, s) : m = at + j
      BY <3>1, <3>2 DEF IsKey
    <3>4. u[at + j] = block[j]
      BY <1>4 DEF Spliced
    <3> QED BY <3>1, <3>3, <3>4
  <2>3. ASSUME NEW k
        PROVE  k \in UnitLines(u) <=> \E i \in UnitLines(t) : k = p[i]
    <3>1. UnitLines(t) \subseteq 1 .. L
      BY <1>1, TextFacts DEF UnitLines
    <3> QED BY <1>4, <1>7, <1>10, <3>1, UnitsFound
  <2>4. \A sec \in Edited : \A i, j \in Headers(u, sec) : i = j
    BY <1>1, <1>9, SettingFacts
  <2> QED BY <1>1, <1>5, <1>10, <2>1, <2>2, <2>3, <2>4 DEF Edits
<1>13. /\ Changes(t, u, S, val)
       /\ \A s \in Settings : Counting(u, s) = {} <=> s \notin S /\ Counting(t, s) = {}
  BY <1>6, <1>12, EditsChange
<1>14. Kept(t, u)
  BY <1>3, <1>4, SplicedKeeps
<1>15. \A sec \in Words : Headers(u, sec) = {} <=> Headers(t, sec) = {}
  BY <1>9
<1> QED BY <1>13, <1>14, <1>15

(* A section is added. *)
LEMMA SectionAdded ==
  ASSUME NEW t, Regular(t), NEW section \in Edited, Headers(t, section) = {},
         NEW u, NEW at, NEW block, Spliced(t, u, at, block),
         at = Len(t) \/ (at + 1 \in 1 .. Len(t) /\ t[at + 1] = Header("logging")),
         NEW g, IsSection(block, g, section),
         NEW S, NEW val, SetsOnly(block, section, S, val)
  PROVE  /\ Changes(t, u, S, val) /\ Kept(t, u)
         /\ \A s \in Settings : Counting(u, s) = {} <=> s \notin S /\ Counting(t, s) = {}
         /\ \A sec \in Words : Headers(u, sec) = {} <=> Headers(t, sec) = {} /\ sec # section
<1> DEFINE n == Len(block)
           L == Len(t)
<1>1. /\ IsText(t) /\ L \in Nat /\ section \in Words /\ IsText(block) /\ n \in Nat
      /\ at \in 0 .. L /\ IsText(u) /\ \A i \in 1 .. L : u[Moved(at, n, i)] = t[i]
      /\ \A sec \in Edited : \A i, j \in Headers(t, sec) : i = j
  BY RegularIs, TextFacts, SettingFacts DEF Spliced
<1>2. at = L \/ (at + 1 \in 1 .. L /\ t[at + 1].is = "header" /\ t[at + 1].name = "logging")
  <2>1. Header("logging").is = "header" /\ Header("logging").name = "logging"
    BY DEF Header
  <2> QED BY <2>1
<1>3. S \in SUBSET (Settings \ {Unit}) /\ \A s \in S : s[1] = section
  BY DEF SetsOnly
<1>4. /\ UnitLines(block) = {}
      /\ \A s \in Settings \ S : s[1] = section =>
              \A j \in 1 .. Len(block) : ~IsKey(block[j], s[2])
  BY <1>1, SetsNoUnit
<1>5. \A s \in Settings : \A k :
         /\ s[1] # section => (k \in Counting(u, s) <=> \E i \in Counting(t, s) : k = Moved(at, n, i))
         /\ s[1] = section => (k \in Counting(u, s) <=>
                                 \E j \in 1 .. n : k = at + j /\ IsKey(block[j], s[2]))
  BY <1>1, <1>2, SectionPutIn
<1>6. \A s \in Settings : s[1] = section => Counting(t, s) = {}
  BY DEF Counting
<1>7. g \in 1 .. n /\ \A sec \in Words : \A j : j \in Headers(block, sec) <=> j = g /\ sec = section
  <2>1. g \in 1 .. n /\ block[g].is = "header" /\ block[g].name = section
    <3>1. Header(section).is = "header" /\ Header(section).name = section
      BY DEF Header
    <3> QED BY <3>1 DEF IsSection
  <2>2. \A j \in 1 .. n : block[j].is = "header" => j = g
    BY <2>1 DEF IsSection
  <2> QED BY <1>1, <2>1, <2>2, HeadersAre
<1>8. \A sec \in Words : \A k :
         k \in Headers(u, sec) <=> \/ \E i \in Headers(t, sec) : k = Moved(at, n, i)
                                   \/ k = at + g /\ sec = section
  BY <1>7, HeadersFound
<1> DEFINE p == [i \in 1 .. L |-> Moved(at, n, i)]
<1>10. /\ p \in [1 .. L -> Nat] /\ \A i, j \in 1 .. L : i <= j => p[i] <= p[j]
       /\ \A i \in 1 .. L : p[i] = Moved(at, n, i)
  BY <1>1, MovedFunction
<1> HIDE DEF p
<1>11. \A s \in Settings : Counting(t, s) \subseteq 1 .. L
  BY <1>1, CountingFacts
<1>12. Edits(t, u, p, S, val)
  <2>1. ASSUME NEW s \in Settings \ S
        PROVE  /\ \A k : k \in Counting(u, s) <=> \E i \in Counting(t, s) : k = p[i]
               /\ \A i \in Counting(t, s) : u[p[i]].value = t[i].value
    <3>1. \A i \in Counting(t, s) : p[i] = Moved(at, n, i) /\ i \in 1 .. L
      BY <1>10, <1>11
    <3>2. \A k : k \in Counting(u, s) <=> \E i \in Counting(t, s) : k = Moved(at, n, i)
      <4>1. CASE s[1] = section
        BY <1>4, <1>5, <1>6, <4>1
      <4>2. CASE s[1] # section
        BY <1>5, <4>2
      <4> QED BY <4>1, <4>2
    <3> QED BY <1>1, <3>1, <3>2
  <2>2. ASSUME NEW s \in S
        PROVE  \E k \in Counting(u, s) : /\ \A m \in Counting(u, s) : m = k
                                         /\ u[k].value = val[s]
    <3>1. PICK j \in 1 .. n : /\ IsKey(block[j], s[2]) /\ block[j].value = val[s]
                              /\ \A k \in 1 .. n : IsKey(block[k], s[2]) => k = j
      BY DEF SetsOnly
    <3>2. \A k : k \in Counting(u, s) <=> \E i \in 1 .. n : k = at + i /\ IsKey(block[i], s[2])
      BY <1>3, <1>5
    <3>3. at + j \in Counting(u, s) /\ \A m \in Counting(u, s) : m = at + j
      BY <3>1, <3>2
    <3>4. u[at + j] = block[j]
      BY DEF Spliced
    <3> QED BY <3>1, <3>3, <3>4
  <2>3. ASSUME NEW k
        PROVE  k \in UnitLines(u) <=> \E i \in UnitLines(t) : k = p[i]
    <3>1. UnitLines(t) \subseteq 1 .. L
      BY <1>1, TextFacts DEF UnitLines
    <3> QED BY <1>4, <1>10, <3>1, UnitsFound
  <2>4. \A sec \in Edited : \A i, j \in Headers(u, sec) : i = j
    BY <1>1, <1>8, SettingFacts
  <2> QED BY <1>1, <1>10, <2>1, <2>2, <2>3, <2>4 DEF Edits
<1>13. /\ Changes(t, u, S, val)
       /\ \A s \in Settings : Counting(u, s) = {} <=> s \notin S /\ Counting(t, s) = {}
  BY <1>3, <1>12, EditsChange
<1>14. Kept(t, u)
  BY <1>2, SplicedKeeps
<1>15. \A sec \in Words : Headers(u, sec) = {} <=> Headers(t, sec) = {} /\ sec # section
  BY <1>8
<1> QED BY <1>13, <1>14, <1>15

-----------------------------------------------------------------------------
(* Blocks of keys. *)

(* What is asked for: settings other than the unit, with values for them.  *)
Asks(asked) == DOMAIN asked \subseteq Settings \ {Unit} /\ asked \in [DOMAIN asked -> Words]

(* KeyBlock has each of the settings once, with the value asked for.       *)
LEMMA ListedKeys ==
  ASSUME NEW section, NEW M \in SUBSET (Settings \ {Unit}), \A s \in M : s[1] = section,
         NEW asked, \A s \in M : asked[s] \in Words
  PROVE  LET block == KeyBlock(M, asked)
         IN  /\ block \in Seq(Line) /\ \A j \in 1 .. Len(block) : block[j].is = "key"
             /\ SetsOnly(block, section, M, asked)
<1> DEFINE q == SetToSeq(M)
           block == KeyBlock(M, asked)
<1>0. block = [i \in DOMAIN q |-> KeyLine(q[i][2], asked[q[i]])]
  BY DEF KeyBlock
<1>1. IsFiniteSet(M)
  BY SettingsFinite
<1>2. /\ q \in Seq(M) /\ \A x \in M : \E i \in 1 .. Len(q) : q[i] = x
      /\ \A i, j \in 1 .. Len(q) : q[i] = q[j] => i = j
  BY <1>1, Listed
<1> HIDE DEF q, block
<1>3. Len(q) \in Nat /\ DOMAIN q = 1 .. Len(q) /\ \A i \in 1 .. Len(q) : q[i] \in M
  BY <1>2, LenProperties, ElementOfSeq
<1>4. \A i \in 1 .. Len(q) : q[i][2] \in Words /\ asked[q[i]] \in Words
  BY <1>3, SettingFacts
<1>5. block \in [1 .. Len(q) -> Line]
  <2>1. ASSUME NEW i \in 1 .. Len(q) PROVE KeyLine(q[i][2], asked[q[i]]) \in Line
    BY <1>4, KeyLineIs
  <2> QED BY <1>0, <1>3, <2>1
<1>6. block \in Seq(Line) /\ Len(block) = Len(q)
  BY <1>3, <1>5, FunctionIsSeq
<1>7. \A j \in 1 .. Len(q) : /\ block[j].is = "key" /\ block[j].name = q[j][2]
                             /\ block[j].value = asked[q[j]]
  <2> TAKE j \in 1 .. Len(q)
  <2>1. block[j] = KeyLine(q[j][2], asked[q[j]])
    BY <1>0, <1>3
  <2>2. /\ KeyLine(q[j][2], asked[q[j]]).is = "key"
        /\ KeyLine(q[j][2], asked[q[j]]).name = q[j][2]
        /\ KeyLine(q[j][2], asked[q[j]]).value = asked[q[j]]
    BY <1>4, KeyLineIs
  <2> QED BY <2>1, <2>2
<1>8. \A s \in M : s = <<section, s[2]>>
  BY SettingFacts
<1>9. ASSUME NEW s \in M
      PROVE  \E j \in 1 .. Len(q) :
               /\ IsKey(block[j], s[2]) /\ block[j].value = asked[s]
               /\ \A k \in 1 .. Len(q) : IsKey(block[k], s[2]) => k = j
  <2>1. PICK j \in 1 .. Len(q) : q[j] = s
    BY <1>2
  <2>2. IsKey(block[j], s[2]) /\ block[j].value = asked[s]
    BY <1>7, <2>1 DEF IsKey
  <2>3. ASSUME NEW k \in 1 .. Len(q), IsKey(block[k], s[2]) PROVE k = j
    <3>1. q[k][2] = s[2]
      BY <1>7, <2>3 DEF IsKey
    <3>2. q[k] = <<section, q[k][2]>> /\ s = <<section, s[2]>>
      BY <1>3, <1>8
    <3>3. q[k] = q[j]
      BY <2>1, <3>1, <3>2
    <3> QED BY <1>2, <3>3
  <2> QED BY <2>2, <2>3
<1>10. \A j \in 1 .. Len(q) : \E s \in M : block[j].name = s[2]
  BY <1>3, <1>7
<1>11. SetsOnly(block, section, M, asked)
  <2>1. M \subseteq Settings \ {Unit} /\ \A s \in M : s[1] = section
    OBVIOUS
  <2>2. \A s \in M : \E j \in 1 .. Len(block) :
           /\ IsKey(block[j], s[2]) /\ block[j].value = asked[s]
           /\ \A k \in 1 .. Len(block) : IsKey(block[k], s[2]) => k = j
    <3> TAKE s \in M
    <3>1. Len(block) = Len(q)
      BY <1>6
    <3>2. PICK j \in 1 .. Len(q) : /\ IsKey(block[j], s[2]) /\ block[j].value = asked[s]
                                   /\ \A k \in 1 .. Len(q) : IsKey(block[k], s[2]) => k = j
      BY <1>9
    <3> QED BY <3>1, <3>2
  <2>3. \A j \in 1 .. Len(block) : block[j].is = "key" => \E s \in M : block[j].name = s[2]
    BY <1>6, <1>10
  <2> QED BY <2>1, <2>2, <2>3 DEF SetsOnly
<1>12. \A j \in 1 .. Len(block) : block[j].is = "key"
  BY <1>6, <1>7
<1> QED BY <1>6, <1>11, <1>12 DEF block

(* Two blocks that set different settings. *)
LEMMA BlocksJoined ==
  ASSUME NEW section, NEW A, NEW g, IsSection(A, g, section),
         NEW B \in Seq(Line), \A j \in 1 .. Len(B) : B[j].is = "key",
         NEW S, NEW T, NEW val, SetsOnly(A, section, S, val), SetsOnly(B, section, T, val),
         S \cap T = {}
  PROVE  IsSection(A \o B, g, section) /\ SetsOnly(A \o B, section, S \cup T, val)
<1> DEFINE C == A \o B
           m == Len(A)
           n == Len(B)
<1>1. IsText(A) /\ A \in Seq(Line) /\ m \in Nat /\ n \in Nat /\ IsText(B)
  BY TextFacts, KeysAreText, LenProperties DEF IsSection
<1>2. /\ C \in Seq(Line) /\ Len(C) = m + n
      /\ \A i \in 1 .. m + n : C[i] = IF i <= m THEN A[i] ELSE B[i - m]
  BY <1>1, ConcatProperties
<1> HIDE DEF C
<1>3. /\ \A i \in 1 .. m : i \in 1 .. m + n /\ C[i] = A[i]
      /\ \A j \in 1 .. n : m + j \in 1 .. m + n /\ C[m + j] = B[j]
  <2>1. ASSUME NEW i \in 1 .. m PROVE i \in 1 .. m + n /\ C[i] = A[i]
    BY <1>1, <1>2
  <2>2. ASSUME NEW j \in 1 .. n PROVE m + j \in 1 .. m + n /\ C[m + j] = B[j]
    <3>1. m + j \in 1 .. m + n /\ ~(m + j <= m) /\ m + j - m = j
      BY <1>1
    <3> QED BY <1>2, <3>1
  <2> QED BY <2>1, <2>2
<1>4. ASSUME NEW k \in 1 .. m + n
      PROVE  k \in 1 .. m \/ \E j \in 1 .. n : k = m + j
  <2>1. k \in 1 .. m \/ (k - m \in 1 .. n /\ k = m + (k - m))
    BY <1>1
  <2> QED BY <2>1
<1>5. g \in 1 .. m /\ A[g] = Header(section)
  BY DEF IsSection
<1>6. IsSection(C, g, section)
  <2>1. ASSUME NEW k \in 1 .. m + n
        PROVE  /\ k < g => C[k].is = "comment"
               /\ k > g => C[k].is = "key"
               /\ C[k].is = "header" => C[k].value = ""
    <3>1. CASE k \in 1 .. m
      <4>1. A[k].is = "header" => A[k].value = ""
        BY <1>1, <3>1, TextFacts DEF IsText
      <4> QED BY <1>3, <3>1, <4>1 DEF IsSection
    <3>2. ASSUME NEW j \in 1 .. n, k = m + j
          PROVE  ~(k < g) /\ C[k].is = "key"
      BY <1>1, <1>3, <1>5, <3>2
    <3> QED BY <1>4, <3>1, <3>2
  <2>2. DOMAIN C = 1 .. m + n
    BY <1>2, LenProperties
  <2>3. IsText(C)
    BY <1>2, <2>1, <2>2 DEF IsText
  <2>4. g \in 1 .. m + n /\ C[g] = Header(section)
    BY <1>3, <1>5
  <2> QED BY <1>2, <2>1, <2>3, <2>4 DEF IsSection
<1>7. \A s \in S : s \in Settings /\ s = <<section, s[2]>>
  BY SettingFacts DEF SetsOnly
<1>8. \A s \in T : s \in Settings /\ s = <<section, s[2]>>
  BY SettingFacts DEF SetsOnly
<1>9. ASSUME NEW s \in S
      PROVE  \E j \in 1 .. m + n :
               /\ IsKey(C[j], s[2]) /\ C[j].value = val[s]
               /\ \A k \in 1 .. m + n : IsKey(C[k], s[2]) => k = j
  <2>1. PICK j \in 1 .. m : /\ IsKey(A[j], s[2]) /\ A[j].value = val[s]
                            /\ \A k \in 1 .. m : IsKey(A[k], s[2]) => k = j
    BY DEF SetsOnly
  <2>2. ASSUME NEW k \in 1 .. n, IsKey(B[k], s[2]) PROVE FALSE
    <3>1. PICK r \in T : B[k].name = r[2]
      BY <2>2 DEF SetsOnly, IsKey
    <3>2. r = s
      BY <1>7, <1>8, <2>2, <3>1 DEF IsKey
    <3> QED BY <3>2
  <2>3. ASSUME NEW k \in 1 .. m + n, IsKey(C[k], s[2]) PROVE k = j
    BY <1>3, <1>4, <2>1, <2>2, <2>3
  <2> QED BY <1>3, <2>1, <2>3
<1>10. ASSUME NEW s \in T
      PROVE  \E j \in 1 .. m + n :
               /\ IsKey(C[j], s[2]) /\ C[j].value = val[s]
               /\ \A k \in 1 .. m + n : IsKey(C[k], s[2]) => k = j
  <2>1. PICK j \in 1 .. n : /\ IsKey(B[j], s[2]) /\ B[j].value = val[s]
                            /\ \A k \in 1 .. n : IsKey(B[k], s[2]) => k = j
    BY DEF SetsOnly
  <2>2. ASSUME NEW k \in 1 .. m, IsKey(A[k], s[2]) PROVE FALSE
    <3>1. PICK r \in S : A[k].name = r[2]
      BY <2>2 DEF SetsOnly, IsKey
    <3>2. r = s
      BY <1>7, <1>8, <2>2, <3>1 DEF IsKey
    <3> QED BY <3>2
  <2>3. ASSUME NEW k \in 1 .. m + n, IsKey(C[k], s[2]) PROVE k = m + j
    <3>1. ASSUME k \in 1 .. m PROVE FALSE
      BY <1>3, <2>2, <2>3, <3>1
    <3>2. PICK i \in 1 .. n : k = m + i
      BY <1>4, <3>1
    <3>3. IsKey(B[i], s[2])
      BY <1>3, <2>3, <3>2
    <3> QED BY <2>1, <3>2, <3>3
  <2>4. IsKey(C[m + j], s[2]) /\ C[m + j].value = val[s]
    BY <1>3, <2>1
  <2> QED BY <1>3, <2>3, <2>4
<1>11. ASSUME NEW k \in 1 .. m + n, C[k].is = "key"
       PROVE  \E s \in S \cup T : C[k].name = s[2]
  <2>1. CASE k \in 1 .. m
    <3>1. C[k] = A[k]
      BY <1>3, <2>1
    <3>2. PICK s \in S : A[k].name = s[2]
      BY <1>11, <2>1, <3>1 DEF SetsOnly
    <3> QED BY <3>1, <3>2
  <2>2. ASSUME NEW j \in 1 .. n, k = m + j
        PROVE  \E s \in S \cup T : C[k].name = s[2]
    <3>1. C[k] = B[j]
      BY <1>3, <2>2
    <3>2. PICK s \in T : B[j].name = s[2]
      BY <1>11, <3>1 DEF SetsOnly
    <3> QED BY <3>1, <3>2
  <2> QED BY <1>4, <2>1, <2>2
<1>12. S \cup T \subseteq Settings \ {Unit} /\ \A s \in S \cup T : s[1] = section
  BY DEF SetsOnly
<1>13. SetsOnly(C, section, S \cup T, val)
  BY <1>2, <1>9, <1>10, <1>11, <1>12 DEF SetsOnly
<1> QED BY <1>6, <1>13 DEF C

(* A block of one line.                                                    *)
LEMMA OneLine ==
  ASSUME NEW S, NEW x \in S
  PROVE  <<x>> \in Seq(S) /\ Len(<<x>>) = 1 /\ <<x>>[1] = x
  OBVIOUS

(* A header is a section that sets nothing.                                *)
LEMMA HeaderAlone ==
  ASSUME NEW section \in Words, NEW val
  PROVE  /\ IsSection(<<Header(section)>>, 1, section)
         /\ SetsOnly(<<Header(section)>>, section, {}, val)
<1> DEFINE A == <<Header(section)>>
<1>1. /\ Header(section) \in Line /\ Header(section).is = "header"
      /\ Header(section).value = ""
  BY HeaderIs
<1>2. A \in Seq(Line) /\ Len(A) = 1 /\ A[1] = Header(section)
  BY <1>1, OneLine
<1> HIDE DEF A
<1>3. \A j \in 1 .. Len(A) : j = 1 /\ A[j] = Header(section)
  <2> TAKE j \in 1 .. Len(A)
  <2>1. j = 1
    BY <1>2
  <2> QED BY <1>2, <2>1
<1>4. IsText(A)
  <2>1. DOMAIN A = 1 .. Len(A)
    BY <1>2, LenProperties
  <2> QED BY <1>1, <1>2, <1>3, <2>1 DEF IsText
<1>5. IsSection(A, 1, section)
  <2>1. 1 \in 1 .. Len(A)
    BY <1>2
  <2>2. \A j \in 1 .. Len(A) : ~(j < 1) /\ ~(j > 1)
    BY <1>2
  <2> QED BY <1>2, <1>4, <2>1, <2>2 DEF IsSection
<1>6. SetsOnly(A, section, {}, val)
  <2>1. \A j \in 1 .. Len(A) : A[j].is # "key"
    BY <1>1, <1>3
  <2> QED BY <2>1 DEF SetsOnly
<1> QED BY <1>5, <1>6 DEF A

-----------------------------------------------------------------------------
(* What each of the programs does to a text. *)

(* Doing nothing changes no setting.                                       *)
LEMMA ChangesSelf ==
  ASSUME NEW t, Regular(t), NEW val
  PROVE  Changes(t, t, {}, val)
  BY DEF Changes

(* Two changes in a row are a change of the settings of both.              *)
LEMMA ChangesTwice ==
  ASSUME NEW t, NEW u, NEW v, NEW S, NEW T, NEW val,
         Changes(t, u, S, val), Changes(u, v, T, val)
  PROVE  Changes(t, v, S \cup T, val)
  BY DEF Changes

(* persist_values, the keys that are there. *)
LEMMA ReplacedIs ==
  ASSUME NEW t, Regular(t), NEW asked, Asks(asked), NEW u, u = Replaced(t, asked)
  PROVE  /\ Changes(t, u, {s \in DOMAIN asked : Counting(t, s) # {}}, asked) /\ Kept(t, u)
         /\ \A s \in Settings : Counting(u, s) = Counting(t, s)
<1> DEFINE S == {s \in DOMAIN asked : Counting(t, s) # {}}
           here(i) == {s \in DOMAIN asked : i \in KeyLines(t, s)}
<1>1. /\ IsText(t) /\ t \in Seq(Line) /\ Len(t) \in Nat /\ DOMAIN t = 1 .. Len(t)
      /\ \A i \in 1 .. Len(t) : t[i] \in Line
      /\ \A section \in Edited : \A i, j \in Headers(t, section) : i = j
      /\ \A s \in Settings \ {Unit} : \A i, j \in Counting(t, s) : i = j
  BY RegularIs, TextFacts
<1>2. DOMAIN asked \subseteq Settings \ {Unit} /\ \A s \in DOMAIN asked : asked[s] \in Words
  BY DEF Asks
<1>3. \A s \in DOMAIN asked : KeyLines(t, s) = Counting(t, s)
  BY <1>1, <1>2, SettingFacts, KeyLinesAreCounting
<1>4. ASSUME NEW i \in 1 .. Len(t), NEW s \in DOMAIN asked, i \in Counting(t, s)
      PROVE  here(i) = {s} /\ u[i] = Rewritten(t[i], asked[s])
  <2>1. s \in here(i)
    BY <1>3, <1>4
  <2>2. \A r \in here(i) : r = s
    BY <1>1, <1>2, <1>3, <1>4, CountsOnce
  <2>3. here(i) = {s}
    BY <2>1, <2>2
  <2>4. (CHOOSE r \in {s} : TRUE) = s
    OBVIOUS
  <2>5. u[i] = IF here(i) = {} THEN t[i] ELSE Rewritten(t[i], asked[CHOOSE r \in here(i) : TRUE])
    BY <1>1 DEF Replaced
  <2> HIDE DEF here
  <2> QED BY <2>3, <2>4, <2>5
<1>5. ASSUME NEW i \in 1 .. Len(t), \A s \in DOMAIN asked : i \notin Counting(t, s)
      PROVE  u[i] = t[i]
  <2>1. here(i) = {}
    BY <1>3, <1>5
  <2>2. u[i] = IF here(i) = {} THEN t[i] ELSE Rewritten(t[i], asked[CHOOSE r \in here(i) : TRUE])
    BY <1>1 DEF Replaced
  <2> QED BY <2>1, <2>2
<1>6. ASSUME NEW i \in 1 .. Len(t)
      PROVE  /\ u[i] \in Line /\ u[i].is = t[i].is /\ u[i].name = t[i].name
             /\ t[i].is = "header" => u[i].value = t[i].value
             /\ IsKey(t[i], "temperature_unit") => u[i].value = t[i].value
  <2>1. CASE \A s \in DOMAIN asked : i \notin Counting(t, s)
    BY <1>1, <1>5, <2>1
  <2>2. ASSUME NEW s \in DOMAIN asked, i \in Counting(t, s)
        PROVE  /\ u[i] \in Line /\ u[i].is = t[i].is /\ u[i].name = t[i].name
               /\ t[i].is = "key" /\ t[i].name # "temperature_unit"
    <3>1. u[i] = Rewritten(t[i], asked[s])
      BY <1>4, <2>2
    <3>2. t[i].is = "key" /\ t[i].name = s[2] /\ s[2] # "temperature_unit"
      BY <1>1, <1>2, <2>2, CountingFacts, SettingFacts
    <3>3. /\ Rewritten(t[i], asked[s]) \in Line /\ Rewritten(t[i], asked[s]).is = t[i].is
          /\ Rewritten(t[i], asked[s]).name = t[i].name
      BY <1>1, <1>2, RewrittenIs
    <3> QED BY <3>1, <3>2, <3>3
  <2> QED BY <2>1, <2>2 DEF IsKey
<1>7. u \in Seq(Line) /\ Len(u) = Len(t)
  <2>1. DOMAIN u = 1 .. Len(t) /\ u = [i \in 1 .. Len(t) |-> u[i]]
    BY <1>1 DEF Replaced
  <2>2. u \in [1 .. Len(t) -> Line]
    BY <1>6, <2>1
  <2> QED BY <1>1, <2>2, FunctionIsSeq
<1>8. ASSUME NEW s \in S
      PROVE  \E k \in Counting(t, s) : u[k].value = asked[s]
  <2>1. PICK k \in Counting(t, s) : TRUE
    OBVIOUS
  <2>2. k \in 1 .. Len(t)
    BY <1>1, <1>2, CountingFacts
  <2>3. u[k] = Rewritten(t[k], asked[s])
    BY <1>4, <2>2
  <2>4. Rewritten(t[k], asked[s]).value = asked[s]
    BY <1>1, <1>2, <2>2, RewrittenIs
  <2> QED BY <2>3, <2>4
<1>9. ASSUME NEW s \in Settings \ S, NEW i \in Counting(t, s)
      PROVE  u[i].value = t[i].value
  <2>1. i \in 1 .. Len(t)
    BY <1>1, CountingFacts
  <2>2. ASSUME NEW r \in DOMAIN asked, i \in Counting(t, r) PROVE FALSE
    <3>1. r = s
      BY <1>1, <1>2, <2>2, CountsOnce
    <3> QED BY <2>2, <3>1
  <2> QED BY <1>5, <2>1, <2>2
<1>10. S \in SUBSET (Settings \ {Unit})
  BY <1>2
<1> HIDE DEF S
<1>11. /\ Changes(t, u, S, asked) /\ Kept(t, u)
       /\ \A s \in Settings : Counting(u, s) = Counting(t, s)
  <2>1. /\ \A i \in 1 .. Len(t) : u[i].is = t[i].is /\ u[i].name = t[i].name
        /\ \A i \in 1 .. Len(t) : t[i].is = "header" => u[i].value = t[i].value
        /\ \A i \in 1 .. Len(t) : IsKey(t[i], "temperature_unit") => u[i].value = t[i].value
    BY <1>6
  <2>2. \A s \in S : \E k \in Counting(t, s) : u[k].value = asked[s]
    BY <1>8
  <2>3. \A s \in Settings \ S : \A i \in Counting(t, s) : u[i].value = t[i].value
    BY <1>9
  <2>4. OtherValues(t, u, S, asked)
    BY <1>7, <1>10, <2>1, <2>2, <2>3 DEF OtherValues
  <2> QED BY <2>4, ValuesReplaced
<1> QED BY <1>11 DEF S

(* persist_values, the keys of a section that are not. *)
Missing(t, section, asked) == {s \in DOMAIN asked : s[1] = section /\ Counting(t, s) = {}}

(* AddMissing adds the settings of its section that the file lacks, and    *)
(* changes no other.                                                       *)
LEMMA AddMissingIs ==
  ASSUME NEW t, Regular(t), NEW asked, Asks(asked), NEW section \in Edited,
         NEW u, u = AddMissing(t, section, asked)
  PROVE  /\ Changes(t, u, Missing(t, section, asked), asked) /\ Kept(t, u)
         /\ \A s \in Settings : Counting(u, s) = {} <=>
                                   s \notin Missing(t, section, asked) /\ Counting(t, s) = {}
<1> DEFINE M == Missing(t, section, asked)
<1>1. /\ IsText(t) /\ t \in Seq(Line) /\ Len(t) \in Nat
      /\ \A sec \in Edited : \A i, j \in Headers(t, sec) : i = j
  BY RegularIs, TextFacts
<1>2. /\ DOMAIN asked \subseteq Settings \ {Unit} /\ \A s \in DOMAIN asked : asked[s] \in Words
      /\ section \in Words
  BY SettingFacts DEF Asks
<1>3. \A s \in DOMAIN asked : KeyLines(t, s) = Counting(t, s)
  BY <1>1, <1>2, SettingFacts, KeyLinesAreCounting
<1>4. M = {s \in DOMAIN asked : s[1] = section /\ KeyLines(t, s) = {}}
  BY <1>3 DEF Missing
<1>40. M \in SUBSET (Settings \ {Unit}) /\ \A s \in M : s[1] = section /\ asked[s] \in Words
  BY <1>2 DEF Missing
<1>41. \A s \in M : Counting(t, s) = {}
  BY DEF Missing
<1> DEFINE block == KeyBlock(M, asked)
<1>5. u = IF M = {} THEN t
          ELSE IF Headers(t, section) = {} THEN t \o <<Header(section)>> \o block
          ELSE Splice(t, LastKeyBelow(t, Min(Headers(t, section))), block)
  BY <1>4 DEF AddMissing
<1>6. /\ block \in Seq(Line) /\ \A j \in 1 .. Len(block) : block[j].is = "key"
      /\ SetsOnly(block, section, M, asked)
  BY <1>40, ListedKeys
<1> HIDE DEF block, M
<1>7. ASSUME M = {}
      PROVE  /\ Changes(t, u, M, asked) /\ Kept(t, u)
             /\ \A s \in Settings : Counting(u, s) = {} <=> s \notin M /\ Counting(t, s) = {}
  <2>1. u = t
    BY <1>5, <1>7
  <2> QED BY <1>7, <2>1, ChangesSelf, KeptSelf
<1>8. ASSUME M # {}, Headers(t, section) = {}
      PROVE  /\ Changes(t, u, M, asked) /\ Kept(t, u)
             /\ \A s \in Settings : Counting(u, s) = {} <=> s \notin M /\ Counting(t, s) = {}
  <2> DEFINE A == <<Header(section)>>
  <2>1. IsSection(A, 1, section) /\ SetsOnly(A, section, {}, asked) /\ A \in Seq(Line)
    <3>1. IsSection(A, 1, section) /\ SetsOnly(A, section, {}, asked)
      BY <1>2, HeaderAlone
    <3> HIDE DEF A
    <3> QED BY <3>1, TextFacts DEF IsSection
  <2>2. u = (t \o A) \o block
    BY <1>5, <1>8
  <2> HIDE DEF A
  <2>3. u = t \o (A \o block)
    <3>1. (t \o A) \o block = t \o (A \o block)
      BY <1>1, <1>6, <2>1, ConcatAssociative
    <3> QED BY <2>2, <3>1
  <2>4. IsSection(A \o block, 1, section) /\ SetsOnly(A \o block, section, {} \cup M, asked)
    BY <1>6, <2>1, BlocksJoined
  <2>5. {} \cup M = M
    OBVIOUS
  <2>6. Spliced(t, u, Len(t), A \o block)
    BY <1>1, <2>3, <2>4, AppendIs DEF IsSection
  <2> QED BY <1>8, <2>4, <2>5, <2>6, SectionAdded
<1>9. ASSUME M # {}, Headers(t, section) # {}
      PROVE  /\ Changes(t, u, M, asked) /\ Kept(t, u)
             /\ \A s \in Settings : Counting(u, s) = {} <=> s \notin M /\ Counting(t, s) = {}
  <2> DEFINE h == Min(Headers(t, section))
  <2>1. h \in Headers(t, section)
    <3>1. Headers(t, section) \in SUBSET Nat
      BY <1>1, TextFacts DEF Headers
    <3> QED BY <1>9, <3>1, MinOf
  <2>2. u = Splice(t, LastKeyBelow(t, h), block)
    BY <1>5, <1>9
  <2> HIDE DEF h
  <2> QED BY <1>6, <1>41, <2>1, <2>2, KeysAdded
<1>10. /\ Changes(t, u, M, asked) /\ Kept(t, u)
       /\ \A s \in Settings : Counting(u, s) = {} <=> s \notin M /\ Counting(t, s) = {}
  BY <1>7, <1>8, <1>9
<1> QED BY <1>10 DEF M

(* What set_radio_config writes. *)
LEMMA PersistValuesIs ==
  ASSUME NEW t, Regular(t), NEW asked, Asks(asked), DOMAIN asked \subseteq Settings \ {Unit, Port}
  PROVE  Changes(t, PersistValues(t, asked), DOMAIN asked, asked) /\ Kept(t, PersistValues(t, asked))
<1> DEFINE a == Replaced(t, asked)
           b == AddMissing(a, "radio", asked)
           c == AddMissing(b, "flex", asked)
           d == AddMissing(c, "tci", asked)
           R == {s \in DOMAIN asked : Counting(t, s) # {}}
           B == Missing(a, "radio", asked)
           C == Missing(b, "flex", asked)
           D == Missing(c, "tci", asked)
<1>0. "radio" \in Edited /\ "flex" \in Edited /\ "tci" \in Edited
  BY DEF Edited
<1>1. /\ Changes(t, a, R, asked) /\ Kept(t, a)
      /\ \A s \in Settings : Counting(a, s) = Counting(t, s)
  BY ReplacedIs
<1>2. /\ Changes(a, b, B, asked) /\ Kept(a, b)
      /\ \A s \in Settings : Counting(b, s) = {} <=> s \notin B /\ Counting(a, s) = {}
  <2>1. Regular(a)
    BY <1>1 DEF Changes
  <2>2. b = AddMissing(a, "radio", asked)
    OBVIOUS
  <2> HIDE DEF a, b
  <2> QED BY <1>0, <2>1, <2>2, AddMissingIs
<1>3. /\ Changes(b, c, C, asked) /\ Kept(b, c)
      /\ \A s \in Settings : Counting(c, s) = {} <=> s \notin C /\ Counting(b, s) = {}
  <2>1. Regular(b)
    BY <1>2 DEF Changes
  <2>2. c = AddMissing(b, "flex", asked)
    OBVIOUS
  <2> HIDE DEF b, c
  <2> QED BY <1>0, <2>1, <2>2, AddMissingIs
<1>4. Changes(c, d, D, asked) /\ Kept(c, d)
  <2>1. Regular(c)
    BY <1>3 DEF Changes
  <2>2. d = AddMissing(c, "tci", asked)
    OBVIOUS
  <2> HIDE DEF c, d
  <2> QED BY <1>0, <2>1, <2>2, AddMissingIs
<1> HIDE DEF a, b, c, d
<1>5. Changes(t, d, ((R \cup B) \cup C) \cup D, asked) /\ Kept(t, d)
  <2>1. Changes(t, b, R \cup B, asked) /\ Kept(t, b)
    BY <1>1, <1>2, ChangesTwice, KeptTwice
  <2>2. Changes(t, c, (R \cup B) \cup C, asked) /\ Kept(t, c)
    BY <1>3, <2>1, ChangesTwice, KeptTwice
  <2> QED BY <1>4, <2>2, ChangesTwice, KeptTwice
<1>6. ((R \cup B) \cup C) \cup D = DOMAIN asked
  <2>1. ASSUME NEW s \in DOMAIN asked PROVE s[1] \in {"radio", "flex", "tci"}
    BY <2>1 DEF Settings, Unit, Kind, Enabled, FlexHost, TciHost, Port
  <2>2. R \subseteq DOMAIN asked /\ B \subseteq DOMAIN asked /\ C \subseteq DOMAIN asked /\ D \subseteq DOMAIN asked
    BY DEF Missing
  <2>3. ASSUME NEW s \in DOMAIN asked, s \notin R, s \notin B, s \notin C PROVE s \in D
    <3>1. Counting(t, s) = {} /\ s \in Settings
      BY <2>3 DEF Asks
    <3>2. Counting(a, s) = {}
      BY <1>1, <3>1
    <3>3. Counting(b, s) = {}
      BY <1>2, <2>3, <3>1, <3>2
    <3>4. Counting(c, s) = {}
      BY <1>3, <2>3, <3>1, <3>3
    <3>5. s[1] # "radio" /\ s[1] # "flex"
      BY <2>3, <3>2, <3>3 DEF Missing
    <3> QED BY <2>1, <3>4, <3>5 DEF Missing
  <2> HIDE DEF R, B, C, D
  <2>4. \A s \in DOMAIN asked : s \in R \/ s \in B \/ s \in C \/ s \in D
    BY <2>3
  <2> QED BY <2>2, <2>4
<1>7. d = PersistValues(t, asked)
  BY DEF PersistValues, a, b, c, d
<1> QED BY <1>5, <1>6, <1>7

-----------------------------------------------------------------------------
(* The templates of configtool. *)

(* What they say of the settings they have. *)
Shown == [s \in Settings |-> IF s = Kind THEN "none" ELSE Default[s]]
InTemplate(section) == {s \in Settings \ {Unit, Port} : s[1] = section}

(* The templates of configtool show the defaults of AppConfig, but for the *)
(* kind of radio, which AppConfig derives.                                 *)
LEMMA ShownIs ==
  /\ Shown[Kind] = "none" /\ Shown[Enabled] = "false" /\ Shown[FlexHost] = ""
  /\ Shown[TciHost] = "127.0.0.1"
  /\ \A s \in Settings : Shown[s] \in Words /\ (s # Kind => Shown[s] = Default[s])
<1>1. /\ Kind \in Settings /\ Enabled \in Settings /\ FlexHost \in Settings
      /\ TciHost \in Settings
  BY DEF Settings
<1>5. /\ Enabled # Unit /\ Enabled # Kind
      /\ FlexHost # Unit /\ FlexHost # Kind /\ FlexHost # Enabled
      /\ TciHost # Unit /\ TciHost # Kind /\ TciHost # Enabled /\ TciHost # FlexHost
      /\ Port # Unit /\ Port # Kind /\ Port # Enabled /\ Port # FlexHost /\ Port # TciHost
  BY DEF Unit, Kind, Enabled, FlexHost, TciHost, Port
<1>2. Default[Enabled] = "false"
  BY <1>1, <1>5 DEF Default
<1>3. Default[FlexHost] = ""
  BY <1>1, <1>5 DEF Default
<1>4. Default[TciHost] = "127.0.0.1"
  BY <1>1, <1>5 DEF Default
<1>6. \A s \in Settings : Default[s] \in Words
  BY DefaultIsStore
<1>7. "none" \in Words
  BY WordsAssumption
<1> QED BY <1>1, <1>2, <1>3, <1>4, <1>5, <1>6, <1>7 DEF Shown

(* Which settings have a key in which template.                            *)
LEMMA InTemplateIs ==
  /\ InTemplate("radio") = {Kind} /\ InTemplate("flex") = {Enabled, FlexHost}
  /\ InTemplate("tci") = {TciHost} /\ InTemplate("serial") = {}
<1>1. Settings \ {Unit, Port} = {Kind, Enabled, FlexHost, TciHost}
  BY DEF Settings, Unit, Kind, Enabled, FlexHost, TciHost, Port
<1>2. /\ Kind[1] = "radio" /\ Enabled[1] = "flex" /\ FlexHost[1] = "flex" /\ TciHost[1] = "tci"
  BY DEF Kind, Enabled, FlexHost, TciHost
<1> QED BY <1>1, <1>2 DEF InTemplate

(* A comment.                                                              *)
LEMMA CommentIs ==
  ASSUME NEW about \in Words
  PROVE  Comment(about) \in Line /\ Comment(about).is = "comment"
  BY WordsAssumption DEF Comment, Line

(* Comments, a header and keys below it make a section.                    *)
LEMMA SectionWhen ==
  ASSUME NEW A \in Seq(Line), NEW g \in 1 .. Len(A), NEW section \in Words,
         A[g] = Header(section),
         \A j \in 1 .. Len(A) : /\ j < g => A[j].is = "comment"
                                /\ j > g => A[j].is = "key"
  PROVE  IsSection(A, g, section)
<1>1. DOMAIN A = 1 .. Len(A) /\ Len(A) \in Nat
  BY LenProperties
<1>2. A[g].value = ""
  BY HeaderIs
<1>3. \A j \in 1 .. Len(A) : A[j].is = "header" => j = g
  BY <1>1
<1>4. IsText(A)
  BY <1>1, <1>2, <1>3 DEF IsText
<1> QED BY <1>4 DEF IsSection

(* A block of three lines.                                                 *)
LEMMA ThreeLines ==
  ASSUME NEW x \in Line, NEW y \in Line, NEW z \in Line
  PROVE  /\ <<x, y, z>> \in Seq(Line) /\ Len(<<x, y, z>>) = 3
         /\ <<x, y, z>>[1] = x /\ <<x, y, z>>[2] = y /\ <<x, y, z>>[3] = z
  OBVIOUS

(* A block of four lines.                                                  *)
LEMMA FourLines ==
  ASSUME NEW w \in Line, NEW x \in Line, NEW y \in Line, NEW z \in Line
  PROVE  /\ <<w, x, y, z>> \in Seq(Line) /\ Len(<<w, x, y, z>>) = 4
         /\ <<w, x, y, z>>[1] = w /\ <<w, x, y, z>>[2] = x
         /\ <<w, x, y, z>>[3] = y /\ <<w, x, y, z>>[4] = z
  OBVIOUS

(* A template with one key, below a comment and its header. *)
LEMMA OneKeyTemplate ==
  ASSUME NEW about \in Words, NEW s \in Settings \ {Unit}, NEW value \in Words,
         NEW val, val[s] = value
  PROVE  LET A == <<Comment(about), Header(s[1]), KeyLine(s[2], value)>>
         IN  IsSection(A, 2, s[1]) /\ SetsOnly(A, s[1], {s}, val)
<1> DEFINE A == <<Comment(about), Header(s[1]), KeyLine(s[2], value)>>
<1>0. s[1] \in Words /\ s[2] \in Words
  BY SettingFacts
<1>1. Comment(about) \in Line /\ Header(s[1]) \in Line /\ KeyLine(s[2], value) \in Line
  BY <1>0, CommentIs, HeaderIs, KeyLineIs
<1>2. /\ A \in Seq(Line) /\ Len(A) = 3
      /\ A[1] = Comment(about) /\ A[2] = Header(s[1]) /\ A[3] = KeyLine(s[2], value)
  BY <1>1, ThreeLines
<1> HIDE DEF A
<1>3. /\ A[1].is = "comment" /\ A[2].is = "header" /\ A[3].is = "key"
      /\ A[3].name = s[2] /\ A[3].value = value
  <2>1. Comment(about).is = "comment" /\ Header(s[1]).is = "header"
    BY <1>0, CommentIs, HeaderIs
  <2>2. /\ KeyLine(s[2], value).is = "key" /\ KeyLine(s[2], value).name = s[2]
        /\ KeyLine(s[2], value).value = value
    BY <1>0, KeyLineIs
  <2> QED BY <1>2, <2>1, <2>2
<1>4. \A j \in 1 .. Len(A) : j = 1 \/ j = 2 \/ j = 3
  BY <1>2
<1>5. 2 \in 1 .. Len(A) /\ 3 \in 1 .. Len(A)
  BY <1>2
<1>6. IsSection(A, 2, s[1])
  BY <1>0, <1>2, <1>3, <1>4, <1>5, SectionWhen
<1>7. SetsOnly(A, s[1], {s}, val)
  <2>1. \A j \in 1 .. Len(A) : A[j].is = "key" => j = 3
    BY <1>3, <1>4
  <2> QED BY <1>3, <1>5, <2>1 DEF SetsOnly, IsKey
<1> QED BY <1>6, <1>7 DEF A

(* Each template is a section that sets what it shows.                     *)
LEMMA TemplateIs ==
  ASSUME NEW section \in Edited
  PROVE  \E g : /\ IsSection(Template[section], g, section)
                /\ SetsOnly(Template[section], section, InTemplate(section), Shown)
<1>1. CASE section = "radio"
  <2>1. Template[section] = <<Comment("radio block"), Header(Kind[1]), KeyLine(Kind[2], "none")>>
    BY <1>1 DEF Template, Kind
  <2>2. Kind \in Settings \ {Unit} /\ Kind[1] = section
    BY <1>1 DEF Settings, Kind, Unit
  <2>3. "radio block" \in Words /\ "none" \in Words /\ Shown[Kind] = "none"
    BY WordsAssumption, ShownIs
  <2>4. /\ IsSection(Template[section], 2, Kind[1])
        /\ SetsOnly(Template[section], Kind[1], {Kind}, Shown)
    BY <2>1, <2>2, <2>3, OneKeyTemplate
  <2> QED BY <1>1, <2>2, <2>4, InTemplateIs
<1>2. CASE section = "flex"
  <2> DEFINE A == Template[section]
  <2>0. /\ Enabled \in Settings \ {Unit} /\ FlexHost \in Settings \ {Unit}
        /\ Enabled[1] = "flex" /\ Enabled[2] = "enabled"
        /\ FlexHost[1] = "flex" /\ FlexHost[2] = "host"
    BY DEF Settings, Enabled, FlexHost, Unit
  <2>01. /\ "flex block" \in Words /\ "flex" \in Words /\ "enabled" \in Words /\ "false" \in Words
         /\ "host" \in Words /\ "" \in Words
    BY WordsAssumption
  <2>1. /\ Comment("flex block") \in Line /\ Header("flex") \in Line
        /\ KeyLine("enabled", "false") \in Line /\ KeyLine("host", "") \in Line
    BY <2>01, CommentIs, HeaderIs, KeyLineIs
  <2>2. A = <<Comment("flex block"), Header("flex"), KeyLine("enabled", "false"), KeyLine("host", "")>>
    BY <1>2 DEF Template
  <2> HIDE DEF A
  <2>3. /\ A \in Seq(Line) /\ Len(A) = 4
        /\ A[1] = Comment("flex block") /\ A[2] = Header("flex")
        /\ A[3] = KeyLine("enabled", "false") /\ A[4] = KeyLine("host", "")
    BY <2>1, <2>2, FourLines
  <2>4. /\ A[1].is = "comment" /\ A[2].is = "header"
        /\ A[3].is = "key" /\ A[3].name = "enabled" /\ A[3].value = "false"
        /\ A[4].is = "key" /\ A[4].name = "host" /\ A[4].value = ""
    <3>1. Comment("flex block").is = "comment" /\ Header("flex").is = "header"
      BY <2>01, CommentIs, HeaderIs
    <3>2. /\ KeyLine("enabled", "false").is = "key" /\ KeyLine("enabled", "false").name = "enabled"
          /\ KeyLine("enabled", "false").value = "false"
      BY <2>01, KeyLineIs
    <3>3. /\ KeyLine("host", "").is = "key" /\ KeyLine("host", "").name = "host"
          /\ KeyLine("host", "").value = ""
      BY <2>01, KeyLineIs
    <3> QED BY <2>3, <3>1, <3>2, <3>3
  <2>5. /\ \A j \in 1 .. Len(A) : j = 1 \/ j = 2 \/ j = 3 \/ j = 4
        /\ 2 \in 1 .. Len(A) /\ 3 \in 1 .. Len(A) /\ 4 \in 1 .. Len(A)
    <3>1. Len(A) = 4
      BY <2>3
    <3> QED BY ONLY <3>1
  <2>6. 2 \in 1 .. Len(A) /\ 3 \in 1 .. Len(A) /\ 4 \in 1 .. Len(A)
    BY <2>5
  <2>7. IsSection(A, 2, "flex")
    <3>1. \A j \in 1 .. Len(A) : /\ j < 2 => A[j].is = "comment"
                                 /\ j > 2 => A[j].is = "key"
      <4>1. A[1].is = "comment" /\ A[3].is = "key" /\ A[4].is = "key"
        BY <2>4
      <4> QED BY <2>5, <4>1
    <3>2. A \in Seq(Line) /\ A[2] = Header("flex")
      BY <2>3
    <3> QED BY <2>01, <2>6, <3>1, <3>2, SectionWhen
  <2>8. SetsOnly(A, "flex", {Enabled, FlexHost}, Shown)
    <3>1. \A j \in 1 .. Len(A) : A[j].is = "key" => j = 3 \/ j = 4
      BY <2>4, <2>5
    <3>2. /\ \A j \in 1 .. Len(A) : IsKey(A[j], "enabled") <=> j = 3
          /\ \A j \in 1 .. Len(A) : IsKey(A[j], "host") <=> j = 4
      BY <2>4, <2>5 DEF IsKey
    <3>3. \E j \in 1 .. Len(A) :
            /\ IsKey(A[j], Enabled[2]) /\ A[j].value = Shown[Enabled]
            /\ \A k \in 1 .. Len(A) : IsKey(A[k], Enabled[2]) => k = j
      BY <2>0, <2>4, <2>6, <3>2, ShownIs
    <3>4. \E j \in 1 .. Len(A) :
            /\ IsKey(A[j], FlexHost[2]) /\ A[j].value = Shown[FlexHost]
            /\ \A k \in 1 .. Len(A) : IsKey(A[k], FlexHost[2]) => k = j
      BY <2>0, <2>4, <2>6, <3>2, ShownIs
    <3>5. \A j \in 1 .. Len(A) : A[j].is = "key" =>
             \E s \in {Enabled, FlexHost} : A[j].name = s[2]
      BY <2>0, <2>4, <3>1
    <3>6. /\ {Enabled, FlexHost} \subseteq Settings \ {Unit}
          /\ \A s \in {Enabled, FlexHost} : s[1] = "flex"
      BY <2>0
    <3> QED BY <3>3, <3>4, <3>5, <3>6 DEF SetsOnly
  <2> QED BY <1>2, <2>7, <2>8, InTemplateIs DEF A
<1>3. CASE section = "tci"
  <2>1. Template[section] = <<Comment("tci block"), Header(TciHost[1]), KeyLine(TciHost[2], "127.0.0.1")>>
    BY <1>3 DEF Template, TciHost
  <2>2. TciHost \in Settings \ {Unit} /\ TciHost[1] = section
    BY <1>3 DEF Settings, TciHost, Unit
  <2>3. "tci block" \in Words /\ "127.0.0.1" \in Words /\ Shown[TciHost] = "127.0.0.1"
    BY WordsAssumption, ShownIs
  <2>4. /\ IsSection(Template[section], 2, TciHost[1])
        /\ SetsOnly(Template[section], TciHost[1], {TciHost}, Shown)
    BY <2>1, <2>2, <2>3, OneKeyTemplate
  <2> QED BY <1>3, <2>2, <2>4, InTemplateIs
<1>4. CASE section = "serial"
  <2>1. Template[section] = <<Header(section)>>
    BY <1>4 DEF Template
  <2>2. section \in Words
    BY SettingFacts
  <2> QED BY <1>4, <2>1, <2>2, HeaderAlone, InTemplateIs
<1> QED BY <1>1, <1>2, <1>3, <1>4 DEF Edited

(* _render_section: the template's keys with what is asked for them, and   *)
(* the keys asked for that it has not.                                     *)
Wanted(asked) == [s \in Settings |-> IF s \in DOMAIN asked THEN asked[s] ELSE Shown[s]]
SetBy(section, asked) ==
  InTemplate(section) \cup {s \in DOMAIN asked : s[1] = section}

(* What a block sets depends on its settings only.                         *)
LEMMA SetsAlike ==
  ASSUME NEW block, NEW section, NEW S, NEW val, SetsOnly(block, section, S, val),
         NEW other, \A s \in S : other[s] = val[s]
  PROVE  SetsOnly(block, section, S, other)
<1>1. /\ S \subseteq Settings \ {Unit} /\ \A s \in S : s[1] = section
      /\ \A j \in 1 .. Len(block) :
            block[j].is = "key" => \E s \in S : block[j].name = s[2]
  BY DEF SetsOnly
<1>2. ASSUME NEW s \in S
      PROVE  \E j \in 1 .. Len(block) :
               /\ IsKey(block[j], s[2]) /\ block[j].value = other[s]
               /\ \A k \in 1 .. Len(block) : IsKey(block[k], s[2]) => k = j
  <2>1. PICK j \in 1 .. Len(block) :
          /\ IsKey(block[j], s[2]) /\ block[j].value = val[s]
          /\ \A k \in 1 .. Len(block) : IsKey(block[k], s[2]) => k = j
    BY DEF SetsOnly
  <2> QED BY <2>1
<1> QED BY <1>1, <1>2 DEF SetsOnly

(* The template's lines, with what is asked for in them. *)
Filled(section, asked) ==
  LET mine == {s \in DOMAIN asked : s[1] = section}
  IN  [i \in DOMAIN Template[section] |->
         LET line == Template[section][i]
             s == <<section, line.name>>
         IN  IF line.is = "key" /\ s \in mine THEN KeyLine(s[2], asked[s]) ELSE line]

(* A template with the values asked for sets these and, for the rest, what *)
(* it shows.                                                               *)
LEMMA FilledIs ==
  ASSUME NEW section \in Edited, NEW asked, Asks(asked),
         NEW g, IsSection(Template[section], g, section),
         SetsOnly(Template[section], section, InTemplate(section), Shown)
  PROVE  /\ IsSection(Filled(section, asked), g, section)
         /\ SetsOnly(Filled(section, asked), section, InTemplate(section), Wanted(asked))
<1> DEFINE A == Template[section]
           F == Filled(section, asked)
           K == InTemplate(section)
           name(i) == <<section, A[i].name>>
<1>1. /\ IsText(A) /\ A \in Seq(Line) /\ Len(A) \in Nat /\ DOMAIN A = 1 .. Len(A)
      /\ \A i \in 1 .. Len(A) : A[i] \in Line
  BY TextFacts DEF IsSection
<1>2. DOMAIN asked \subseteq Settings \ {Unit} /\ \A s \in DOMAIN asked : asked[s] \in Words
  BY DEF Asks
<1>3. section \in Words
  BY SettingFacts
<1>4. \A i \in 1 .. Len(A) :
         F[i] = IF A[i].is = "key" /\ name(i) \in {s \in DOMAIN asked : s[1] = section}
                THEN KeyLine(name(i)[2], asked[name(i)]) ELSE A[i]
  BY <1>1 DEF Filled
<1>5. DOMAIN F = 1 .. Len(A) /\ F = [i \in 1 .. Len(A) |-> F[i]]
  BY <1>1 DEF Filled
<1>6. g \in 1 .. Len(A) /\ A[g] = Header(section) /\ A[g].is = "header"
  <2>1. Header(section).is = "header"
    BY DEF Header
  <2> QED BY <2>1 DEF IsSection
<1>7. \A j \in 1 .. Len(A) : /\ j < g => A[j].is = "comment"
                             /\ j > g => A[j].is = "key"
  BY DEF IsSection
<1>8. /\ K \subseteq Settings \ {Unit} /\ \A s \in K : s[1] = section /\ s = <<section, s[2]>>
      /\ \A j \in 1 .. Len(A) : A[j].is = "key" => \E s \in K : A[j].name = s[2]
  BY SettingFacts DEF SetsOnly
<1>9. \A s \in K : \E j \in 1 .. Len(A) :
         /\ IsKey(A[j], s[2]) /\ A[j].value = Shown[s]
         /\ \A k \in 1 .. Len(A) : IsKey(A[k], s[2]) => k = j
  BY DEF SetsOnly
<1> HIDE DEF A, F, K
<1>10. ASSUME NEW i \in 1 .. Len(A), A[i].is = "key"
       PROVE  /\ F[i] \in Line /\ F[i].is = "key" /\ F[i].name = A[i].name
              /\ name(i) \in DOMAIN asked => F[i].value = asked[name(i)]
              /\ name(i) \notin DOMAIN asked => F[i].value = A[i].value
  <2>1. name(i)[1] = section /\ name(i)[2] = A[i].name /\ A[i].name \in Words
    <3>1. A[i].name \in Words
      BY <1>1 DEF Line
    <3> QED BY <3>1
  <2>2. CASE name(i) \in DOMAIN asked
    <3> DEFINE v == asked[name(i)]
    <3>1. F[i] = KeyLine(A[i].name, v)
      BY <1>4, <1>10, <2>1, <2>2
    <3>2. v \in Words
      BY <1>2, <2>2
    <3> HIDE DEF v
    <3>3. /\ KeyLine(A[i].name, v) \in Line /\ KeyLine(A[i].name, v).is = "key"
          /\ KeyLine(A[i].name, v).name = A[i].name /\ KeyLine(A[i].name, v).value = v
      BY <2>1, <3>2, KeyLineIs
    <3>4. /\ F[i] \in Line /\ F[i].is = "key" /\ F[i].name = A[i].name /\ F[i].value = v
      BY <3>1, <3>3
    <3> QED BY <2>2, <3>4 DEF v
  <2>3. CASE name(i) \notin DOMAIN asked
    <3>1. F[i] = A[i]
      BY <1>4, <2>3
    <3> QED BY <1>1, <1>10, <2>3, <3>1
  <2> QED BY <2>2, <2>3
<1>11. ASSUME NEW i \in 1 .. Len(A), A[i].is # "key"
       PROVE  F[i] = A[i]
  BY <1>4, <1>11
<1>12. F \in Seq(Line) /\ Len(F) = Len(A)
  <2>1. \A i \in 1 .. Len(A) : F[i] \in Line
    BY <1>1, <1>10, <1>11
  <2>2. F \in [1 .. Len(A) -> Line]
    BY <1>5, <2>1
  <2> QED BY <1>1, <2>2, FunctionIsSeq
<1>13. \A i \in 1 .. Len(A) : F[i].is = A[i].is /\ (A[i].is = "key" => F[i].name = A[i].name)
  BY <1>10, <1>11
<1>14. IsSection(F, g, section)
  <2>1. g \in 1 .. Len(F) /\ F[g] = Header(section)
    BY <1>6, <1>11, <1>12
  <2>2. \A j \in 1 .. Len(F) : /\ j < g => F[j].is = "comment"
                               /\ j > g => F[j].is = "key"
    BY <1>7, <1>12, <1>13
  <2> QED BY <1>3, <1>12, <2>1, <2>2, SectionWhen
<1>15. SetsOnly(F, section, K, Wanted(asked))
  <2>1. ASSUME NEW s \in K
        PROVE  \E j \in 1 .. Len(F) :
                 /\ IsKey(F[j], s[2]) /\ F[j].value = Wanted(asked)[s]
                 /\ \A k \in 1 .. Len(F) : IsKey(F[k], s[2]) => k = j
    <3>1. PICK j \in 1 .. Len(A) :
            /\ IsKey(A[j], s[2]) /\ A[j].value = Shown[s]
            /\ \A k \in 1 .. Len(A) : IsKey(A[k], s[2]) => k = j
      BY <1>9
    <3>2. \A k \in 1 .. Len(A) : IsKey(F[k], s[2]) => IsKey(A[k], s[2])
      BY <1>13 DEF IsKey
    <3>3. A[j].is = "key" /\ A[j].name = s[2]
      BY <3>1 DEF IsKey
    <3>4. name(j) = s
      BY <1>8, <3>3
    <3>5. IsKey(F[j], s[2])
      BY <1>13, <3>3 DEF IsKey
    <3>6. F[j].value = IF s \in DOMAIN asked THEN asked[s] ELSE Shown[s]
      BY <1>10, <3>1, <3>3, <3>4
    <3>7. Wanted(asked)[s] = IF s \in DOMAIN asked THEN asked[s] ELSE Shown[s]
      BY <1>8 DEF Wanted
    <3> QED BY <1>12, <3>1, <3>2, <3>5, <3>6, <3>7
  <2>2. \A j \in 1 .. Len(F) : F[j].is = "key" => \E s \in K : F[j].name = s[2]
    BY <1>8, <1>12, <1>13
  <2>3. K \subseteq Settings \ {Unit} /\ \A s \in K : s[1] = section
    BY <1>8
  <2> QED BY <2>1, <2>2, <2>3 DEF SetsOnly
<1> QED BY <1>14, <1>15 DEF F, K

(* What _render_section makes: a section with the settings of the template *)
(* and those that are asked for.                                           *)
LEMMA RenderedIs ==
  ASSUME NEW section \in Edited, NEW asked, Asks(asked)
  PROVE  \E g : /\ IsSection(Rendered(section, asked), g, section)
                /\ SetsOnly(Rendered(section, asked), section, SetBy(section, asked), Wanted(asked))
<1> DEFINE A == Template[section]
           K == InTemplate(section)
           rest == {s \in DOMAIN asked : s[1] = section} \ K
           F == Filled(section, asked)
           B == KeyBlock(rest, asked)
<1>1. PICK g : IsSection(A, g, section) /\ SetsOnly(A, section, K, Shown)
  BY TemplateIs
<1>2. IsSection(F, g, section) /\ SetsOnly(F, section, K, Wanted(asked))
  BY <1>1, FilledIs
<1>3. DOMAIN asked \subseteq Settings \ {Unit} /\ \A s \in DOMAIN asked : asked[s] \in Words
  BY DEF Asks
<1>4. DOMAIN A = 1 .. Len(A)
  BY <1>1, TextFacts DEF IsSection
<1>5. ASSUME NEW s \in DOMAIN asked, s[1] = section
      PROVE  (\E i \in DOMAIN A : IsKey(A[i], s[2])) <=> s \in K
  <2>1. ASSUME s \in K PROVE \E i \in DOMAIN A : IsKey(A[i], s[2])
    BY <1>1, <1>4, <2>1 DEF SetsOnly
  <2>2. ASSUME NEW i \in DOMAIN A, IsKey(A[i], s[2]) PROVE s \in K
    <3>1. PICK r \in K : A[i].name = r[2]
      BY <1>1, <1>4, <2>2 DEF SetsOnly, IsKey
    <3>2. r \in Settings /\ r[1] = section
      BY DEF InTemplate
    <3>3. r = <<r[1], r[2]>> /\ s = <<s[1], s[2]>> /\ s[2] = r[2]
      BY <1>3, <2>2, <3>1, <3>2, SettingFacts DEF IsKey
    <3> QED BY <1>5, <3>2, <3>3
  <2> QED BY <2>1, <2>2
<1>6. Rendered(section, asked) = F \o B
  <2> DEFINE mine == {s \in DOMAIN asked : s[1] = section}
             other == {s \in mine : ~\E i \in DOMAIN A : IsKey(A[i], s[2])}
  <2>1. other = rest
    BY <1>5
  <2>2. Rendered(section, asked) = F \o KeyBlock(other, asked)
    BY DEF Rendered, Filled
  <2> QED BY <2>1, <2>2
<1>7. /\ rest \in SUBSET (Settings \ {Unit})
      /\ \A s \in rest : s[1] = section /\ asked[s] \in Words
  BY <1>3
<1>8. /\ B \in Seq(Line) /\ \A j \in 1 .. Len(B) : B[j].is = "key"
      /\ SetsOnly(B, section, rest, asked)
  <2> HIDE DEF rest
  <2> QED BY <1>7, ListedKeys
<1>9. \A s \in rest : Wanted(asked)[s] = asked[s]
  BY <1>3 DEF Wanted
<1>10. K \cap rest = {} /\ K \cup rest = SetBy(section, asked)
  BY DEF SetBy
<1> HIDE DEF A, K, rest, F, B
<1>11. SetsOnly(B, section, rest, Wanted(asked))
  BY <1>8, <1>9, SetsAlike
<1>12. IsSection(F \o B, g, section) /\ SetsOnly(F \o B, section, K \cup rest, Wanted(asked))
  BY <1>2, <1>8, <1>10, <1>11, BlocksJoined
<1> QED BY <1>6, <1>10, <1>12

-----------------------------------------------------------------------------
(* What configtool makes of a text. *)

OneKnown(t, setting, asked) == {s \in DOMAIN asked : s = setting /\ Headers(t, s[1]) # {}}

(* SetKnown changes its setting, if it is asked for and its section is     *)
(* there, and no other.                                                    *)
LEMMA SetKnownIs ==
  ASSUME NEW t, Regular(t), NEW asked, Asks(asked), NEW setting \in Settings,
         NEW u, u = SetKnown(t, setting, asked)
  PROVE  /\ Changes(t, u, OneKnown(t, setting, asked), asked) /\ Kept(t, u)
         /\ \A sec \in Words : Headers(u, sec) = {} <=> Headers(t, sec) = {}
<1> DEFINE O == OneKnown(t, setting, asked)
           v == asked[setting]
           hits == KeyLines(t, setting)
<1>1. /\ IsText(t) /\ t \in Seq(Line) /\ Len(t) \in Nat /\ DOMAIN t = 1 .. Len(t)
      /\ \A i \in 1 .. Len(t) : t[i] \in Line
      /\ \A sec \in Edited : \A i, j \in Headers(t, sec) : i = j
      /\ \A s \in Settings \ {Unit} : \A i, j \in Counting(t, s) : i = j
  BY RegularIs, TextFacts
<1>2. DOMAIN asked \subseteq Settings \ {Unit} /\ \A s \in DOMAIN asked : asked[s] \in Words
  BY DEF Asks
<1>3. ASSUME setting \notin DOMAIN asked \/ Headers(t, setting[1]) = {}
      PROVE  /\ Changes(t, u, O, asked) /\ Kept(t, u)
             /\ \A sec \in Words : Headers(u, sec) = {} <=> Headers(t, sec) = {}
  <2>1. u = t
    BY <1>3 DEF SetKnown
  <2>2. O = {}
    BY <1>3 DEF OneKnown
  <2> HIDE DEF O
  <2> QED BY <2>1, <2>2, ChangesSelf, KeptSelf
<1>4. ASSUME setting \in DOMAIN asked, Headers(t, setting[1]) # {}
      PROVE  /\ Changes(t, u, O, asked) /\ Kept(t, u)
             /\ \A sec \in Words : Headers(u, sec) = {} <=> Headers(t, sec) = {}
  <2>1. u = SetOne(t, setting, v)
    BY <1>4 DEF SetKnown
  <2>2. O = {setting}
    BY <1>4 DEF OneKnown
  <2>3. /\ setting \in Settings \ {Unit} /\ v \in Words /\ setting[1] \in Edited
        /\ setting[2] \in Words /\ setting[2] # "temperature_unit"
    BY <1>2, <1>4, SettingFacts
  <2>4. hits = Counting(t, setting)
    BY <1>1, <2>3, KeyLinesAreCounting
  <2>5. ASSUME hits = {}
        PROVE  /\ Changes(t, u, {setting}, asked) /\ Kept(t, u)
               /\ \A sec \in Words : Headers(u, sec) = {} <=> Headers(t, sec) = {}
    <3> DEFINE h == Min(Headers(t, setting[1]))
               B == <<KeyLine(setting[2], v)>>
    <3>1. u = Splice(t, LastKeyBelow(t, h), B)
      BY <2>1, <2>5 DEF SetOne
    <3>2. h \in Headers(t, setting[1])
      <4>1. Headers(t, setting[1]) \in SUBSET Nat
        BY <1>1 DEF Headers
      <4> QED BY <1>4, <4>1, MinOf
    <3>3. /\ KeyLine(setting[2], v) \in Line /\ KeyLine(setting[2], v).is = "key"
          /\ KeyLine(setting[2], v).name = setting[2] /\ KeyLine(setting[2], v).value = v
      BY <2>3, KeyLineIs
    <3>4. B \in Seq(Line) /\ Len(B) = 1 /\ B[1] = KeyLine(setting[2], v)
      BY <3>3, OneLine
    <3> HIDE DEF h, B
    <3>5. \A j \in 1 .. Len(B) : j = 1
      BY <3>4
    <3>6. \A j \in 1 .. Len(B) : B[j].is = "key"
      BY <3>3, <3>4, <3>5
    <3>7. SetsOnly(B, setting[1], {setting}, asked)
      <4>1. 1 \in 1 .. Len(B) /\ B[1].is = "key" /\ B[1].name = setting[2] /\ B[1].value = v
        BY <3>3, <3>4
      <4> QED BY <2>3, <3>5, <4>1 DEF SetsOnly, IsKey
    <3>8. \A s \in {setting} : Counting(t, s) = {}
      BY <2>4, <2>5
    <3> QED BY <2>3, <3>1, <3>2, <3>4, <3>6, <3>7, <3>8, KeysAdded
  <2>6. ASSUME hits # {}
        PROVE  /\ Changes(t, u, {setting}, asked) /\ Kept(t, u)
               /\ \A sec \in Words : Headers(u, sec) = {} <=> Headers(t, sec) = {}
    <3> DEFINE m == Min(hits)
    <3>1. u = WithValue(t, {m}, v)
      BY <2>1, <2>6 DEF SetOne
    <3>2. m \in Counting(t, setting)
      <4>1. hits \in SUBSET Nat
        BY <1>1, <2>4, CountingFacts
      <4> HIDE DEF hits
      <4> QED BY <2>4, <2>6, <4>1, MinOf
    <3> HIDE DEF m, v
    <3>3. m \in 1 .. Len(t) /\ t[m] \in Line /\ t[m].is = "key" /\ t[m].name = setting[2]
      BY <1>1, <3>2, CountingFacts
    <3>4. /\ u[m] = Rewritten(t[m], v)
          /\ \A i \in 1 .. Len(t) : i # m => u[i] = t[i]
          /\ u = [i \in 1 .. Len(t) |-> u[i]]
      BY <1>1, <3>1, <3>3 DEF WithValue
    <3>5. u[m] \in Line /\ u[m].is = t[m].is /\ u[m].name = t[m].name /\ u[m].value = v
      BY <2>3, <3>3, <3>4, RewrittenIs
    <3>6. u \in Seq(Line) /\ Len(u) = Len(t)
      <4>1. \A i \in 1 .. Len(t) : u[i] \in Line
        BY <1>1, <3>4, <3>5
      <4>2. u \in [1 .. Len(t) -> Line]
        BY <3>4, <4>1
      <4> QED BY <1>1, <4>2, FunctionIsSeq
    <3>7. \A i \in 1 .. Len(t) : u[i].is = t[i].is /\ u[i].name = t[i].name
      BY <3>4, <3>5
    <3>8. \A i \in 1 .. Len(t) : t[i].is = "header" => u[i].value = t[i].value
      BY <3>3, <3>4
    <3>9. \A i \in 1 .. Len(t) : IsKey(t[i], "temperature_unit") => u[i].value = t[i].value
      BY <2>3, <3>3, <3>4 DEF IsKey
    <3>10. \A s \in {setting} : \E k \in Counting(t, s) : u[k].value = asked[s]
      BY <3>2, <3>5 DEF v
    <3>11. \A s \in Settings \ {setting} : \A i \in Counting(t, s) : u[i].value = t[i].value
      <4> TAKE s \in Settings \ {setting}
      <4> TAKE i \in Counting(t, s)
      <4>1. i # m
        BY <1>1, <3>2, CountsOnce
      <4>2. i \in 1 .. Len(t)
        BY <1>1, CountingFacts
      <4> QED BY <3>4, <4>1, <4>2
    <3>12. OtherValues(t, u, {setting}, asked)
      BY <2>3, <3>6, <3>7, <3>8, <3>9, <3>10, <3>11 DEF OtherValues
    <3>13. /\ Changes(t, u, {setting}, asked) /\ Kept(t, u)
           /\ \A sec \in Words : Headers(u, sec) = Headers(t, sec)
      BY <3>12, ValuesReplaced
    <3> QED BY <3>13
  <2> HIDE DEF O, hits
  <2> QED BY <2>2, <2>5, <2>6
<1> HIDE DEF O
<1>5. /\ Changes(t, u, O, asked) /\ Kept(t, u)
      /\ \A sec \in Words : Headers(u, sec) = {} <=> Headers(t, sec) = {}
  BY <1>3, <1>4
<1> QED BY <1>5 DEF O

Known(t, asked) == {s \in DOMAIN asked : Headers(t, s[1]) # {}}

(* The first half of _apply: the settings of the sections the file has.    *)
LEMMA SetAllIs ==
  ASSUME NEW t, Regular(t), NEW asked, Asks(asked), NEW u, u = SetAll(t, asked)
  PROVE  /\ Changes(t, u, Known(t, asked), asked) /\ Kept(t, u)
         /\ \A sec \in Words : Headers(u, sec) = {} <=> Headers(t, sec) = {}
<1> DEFINE a == SetKnown(t, Port, asked)
           b == SetKnown(a, Kind, asked)
           c == SetKnown(b, Enabled, asked)
           d == SetKnown(c, FlexHost, asked)
           e == SetKnown(d, TciHost, asked)
           A == OneKnown(t, Port, asked)
           B == OneKnown(a, Kind, asked)
           C == OneKnown(b, Enabled, asked)
           D == OneKnown(c, FlexHost, asked)
           E == OneKnown(d, TciHost, asked)
<1>0. /\ Port \in Settings /\ Kind \in Settings /\ Enabled \in Settings
      /\ FlexHost \in Settings /\ TciHost \in Settings
  BY DEF Settings
<1>1. /\ Changes(t, a, A, asked) /\ Kept(t, a)
      /\ \A sec \in Words : Headers(a, sec) = {} <=> Headers(t, sec) = {}
  <2>1. a = SetKnown(t, Port, asked)
    OBVIOUS
  <2> HIDE DEF a
  <2> QED BY <1>0, <2>1, SetKnownIs
<1>2. /\ Changes(a, b, B, asked) /\ Kept(a, b)
      /\ \A sec \in Words : Headers(b, sec) = {} <=> Headers(a, sec) = {}
  <2>1. Regular(a) /\ b = SetKnown(a, Kind, asked)
    BY <1>1 DEF Changes
  <2> HIDE DEF a, b
  <2> QED BY <1>0, <2>1, SetKnownIs
<1>3. /\ Changes(b, c, C, asked) /\ Kept(b, c)
      /\ \A sec \in Words : Headers(c, sec) = {} <=> Headers(b, sec) = {}
  <2>1. Regular(b) /\ c = SetKnown(b, Enabled, asked)
    BY <1>2 DEF Changes
  <2> HIDE DEF b, c
  <2> QED BY <1>0, <2>1, SetKnownIs
<1>4. /\ Changes(c, d, D, asked) /\ Kept(c, d)
      /\ \A sec \in Words : Headers(d, sec) = {} <=> Headers(c, sec) = {}
  <2>1. Regular(c) /\ d = SetKnown(c, FlexHost, asked)
    BY <1>3 DEF Changes
  <2> HIDE DEF c, d
  <2> QED BY <1>0, <2>1, SetKnownIs
<1>5. /\ Changes(d, e, E, asked) /\ Kept(d, e)
      /\ \A sec \in Words : Headers(e, sec) = {} <=> Headers(d, sec) = {}
  <2>1. Regular(d) /\ e = SetKnown(d, TciHost, asked)
    BY <1>4 DEF Changes
  <2> HIDE DEF d, e
  <2> QED BY <1>0, <2>1, SetKnownIs
<1> HIDE DEF a, b, c, d, e
<1>6. u = e
  BY DEF SetAll, a, b, c, d, e
<1>7. \A sec \in Words : /\ Headers(a, sec) = {} <=> Headers(t, sec) = {}
                         /\ Headers(b, sec) = {} <=> Headers(t, sec) = {}
                         /\ Headers(c, sec) = {} <=> Headers(t, sec) = {}
                         /\ Headers(d, sec) = {} <=> Headers(t, sec) = {}
                         /\ Headers(e, sec) = {} <=> Headers(t, sec) = {}
  BY <1>1, <1>2, <1>3, <1>4, <1>5
<1>8. (((A \cup B) \cup C) \cup D) \cup E = Known(t, asked)
  <2>1. \A s \in DOMAIN asked : /\ s[1] \in Words
                                /\ s \in {Port, Kind, Enabled, FlexHost, TciHost}
    BY SettingFacts DEF Asks, Settings
  <2>2. /\ \A s \in A : s \in DOMAIN asked /\ Headers(t, s[1]) # {}
        /\ \A s \in B : s \in DOMAIN asked /\ Headers(a, s[1]) # {}
        /\ \A s \in C : s \in DOMAIN asked /\ Headers(b, s[1]) # {}
        /\ \A s \in D : s \in DOMAIN asked /\ Headers(c, s[1]) # {}
        /\ \A s \in E : s \in DOMAIN asked /\ Headers(d, s[1]) # {}
    BY DEF OneKnown
  <2>3. \A s \in DOMAIN asked : Headers(t, s[1]) # {} =>
           s \in A \/ s \in B \/ s \in C \/ s \in D \/ s \in E
    BY <1>7, <2>1 DEF OneKnown
  <2> HIDE DEF A, B, C, D, E
  <2>4. \A s : s \in A \/ s \in B \/ s \in C \/ s \in D \/ s \in E =>
           s \in DOMAIN asked /\ Headers(t, s[1]) # {}
    BY <1>7, <2>1, <2>2
  <2> QED BY <2>3, <2>4 DEF Known
<1> HIDE DEF A, B, C, D, E
<1>9. Changes(t, e, (((A \cup B) \cup C) \cup D) \cup E, asked) /\ Kept(t, e)
  <2>1. Changes(t, b, A \cup B, asked) /\ Kept(t, b)
    BY <1>1, <1>2, ChangesTwice, KeptTwice
  <2>2. Changes(t, c, (A \cup B) \cup C, asked) /\ Kept(t, c)
    BY <1>3, <2>1, ChangesTwice, KeptTwice
  <2>3. Changes(t, d, ((A \cup B) \cup C) \cup D, asked) /\ Kept(t, d)
    BY <1>4, <2>2, ChangesTwice, KeptTwice
  <2> QED BY <1>5, <2>3, ChangesTwice, KeptTwice
<1> QED BY <1>6, <1>7, <1>8, <1>9

(* _insert_block. *)
LEMMA InsertBlockIs ==
  ASSUME NEW t, IsText(t), NEW block, IsText(block)
  PROVE  \E at : /\ Spliced(t, InsertBlock(t, block), at, block)
                 /\ at = Len(t) \/ (at + 1 \in 1 .. Len(t) /\ t[at + 1] = Header("logging"))
<1> DEFINE G == Headers(t, "logging")
           m == Min(G)
<1>1. Len(t) \in Nat /\ DOMAIN t = 1 .. Len(t)
  BY TextFacts
<1>2. CASE G = {}
  <2>1. InsertBlock(t, block) = t \o block
    BY <1>2 DEF InsertBlock
  <2>2. Spliced(t, t \o block, Len(t), block)
    BY AppendIs
  <2> QED BY <2>1, <2>2
<1>3. CASE G # {}
  <2>1. G \in SUBSET (1 .. Len(t)) /\ G \in SUBSET Nat
    BY <1>1 DEF Headers
  <2>2. m \in G
    <3> HIDE DEF G
    <3> QED BY <1>3, <2>1, MinOf
  <2>3. m \in 1 .. Len(t) /\ t[m] = Header("logging")
    BY <1>1, <2>2 DEF Headers
  <2>4. InsertBlock(t, block) = Splice(t, m - 1, block)
    BY <1>3 DEF InsertBlock
  <2> HIDE DEF m, G
  <2>5. m - 1 \in 0 .. Len(t) /\ (m - 1) + 1 = m
    BY <1>1, <2>3
  <2>6. Spliced(t, Splice(t, m - 1, block), m - 1, block)
    BY <2>5, SpliceIs
  <2>7. t[(m - 1) + 1] = Header("logging") /\ (m - 1) + 1 \in 1 .. Len(t)
    BY <2>3, <2>5
  <2> QED BY <2>4, <2>6, <2>7
<1> QED BY <1>2, <1>3

Added(t, section, asked) == {s \in DOMAIN asked : s[1] = section /\ Headers(t, section) = {}}

(* AddSection adds its section, if there is none and it is asked for. What *)
(* nobody asked for has its default before and after.                      *)
LEMMA AddSectionIs ==
  ASSUME NEW t, Regular(t), NEW asked, Asks(asked), NEW section \in Edited,
         NEW u, u = AddSection(t, section, asked)
  PROVE  /\ Changes(t, u, Added(t, section, asked), asked) /\ Kept(t, u)
         /\ \A sec \in Edited \ {section} : Headers(u, sec) = {} <=> Headers(t, sec) = {}
<1> DEFINE N == Added(t, section, asked)
<1>1. IsText(t) /\ Edited \subseteq Words
  BY RegularIs, SettingFacts
<1>2. DOMAIN asked \subseteq Settings \ {Unit}
  BY DEF Asks
<1>3. ASSUME ~(Headers(t, section) = {} /\ \E s \in DOMAIN asked : s[1] = section)
      PROVE  /\ Changes(t, u, N, asked) /\ Kept(t, u)
             /\ \A sec \in Edited \ {section} : Headers(u, sec) = {} <=> Headers(t, sec) = {}
  <2>1. u = t
    BY <1>3 DEF AddSection
  <2>2. N = {}
    BY <1>3 DEF Added
  <2> HIDE DEF N
  <2> QED BY <2>1, <2>2, ChangesSelf, KeptSelf
<1>4. ASSUME Headers(t, section) = {}, NEW x \in DOMAIN asked, x[1] = section
      PROVE  /\ Changes(t, u, N, asked) /\ Kept(t, u)
             /\ \A sec \in Edited \ {section} : Headers(u, sec) = {} <=> Headers(t, sec) = {}
  <2> DEFINE block == Rendered(section, asked)
             S == SetBy(section, asked)
             val == Wanted(asked)
  <2>1. u = InsertBlock(t, block)
    BY <1>4 DEF AddSection
  <2>2. PICK g : IsSection(block, g, section) /\ SetsOnly(block, section, S, val)
    BY RenderedIs
  <2>3. PICK at : /\ Spliced(t, u, at, block)
                  /\ at = Len(t) \/ (at + 1 \in 1 .. Len(t) /\ t[at + 1] = Header("logging"))
    <3> HIDE DEF block
    <3>1. IsText(block)
      BY <2>2 DEF IsSection
    <3> QED BY <1>1, <2>1, <3>1, InsertBlockIs
  <2> HIDE DEF block, S, val
  <2>4. /\ Changes(t, u, S, val) /\ Kept(t, u)
        /\ \A sec \in Words : Headers(u, sec) = {} <=> Headers(t, sec) = {} /\ sec # section
    BY <1>4, <2>2, <2>3, SectionAdded
  <2>5. ASSUME NEW s \in Settings
        PROVE  Read(u)[s] = IF s \in N THEN asked[s] ELSE Read(t)[s]
    <3>1. Read(u)[s] = IF s \in S THEN val[s] ELSE Read(t)[s]
      BY <2>4 DEF Changes
    <3>2. CASE s \in DOMAIN asked /\ s[1] = section
      <4>1. s \in S /\ s \in N
        BY <1>4, <3>2 DEF S, SetBy, Added
      <4>2. val[s] = asked[s]
        BY <3>2 DEF val, Wanted
      <4> QED BY <3>1, <4>1, <4>2
    <3>3. CASE s \notin DOMAIN asked /\ s \in InTemplate(section)
      <4>1. s \in S /\ s \notin N /\ s[1] = section
        BY <3>3 DEF S, SetBy, Added, InTemplate
      <4>2. s # Kind
        <5>1. ASSUME s = Kind PROVE FALSE
          <6>1. x[1] = "radio" /\ x \in Settings
            BY <1>2, <1>4, <4>1, <5>1 DEF Kind
          <6>2. x = Kind
            BY <6>1 DEF Settings, Unit, Kind, Enabled, FlexHost, TciHost, Port
          <6> QED BY <3>3, <5>1, <6>2
        <5> QED BY <5>1
      <4>3. val[s] = Default[s]
        <5>1. val[s] = Shown[s]
          BY <3>3 DEF val, Wanted
        <5> QED BY <4>2, <5>1, ShownIs
      <4>4. Counting(t, s) = {}
        BY <1>4, <4>1 DEF Counting
      <4>5. Read(t)[s] = Default[s]
        BY <4>4, ReadNone
      <4> QED BY <3>1, <4>1, <4>3, <4>5
    <3>4. CASE s \notin InTemplate(section) /\ ~(s \in DOMAIN asked /\ s[1] = section)
      <4>1. s \notin S /\ s \notin N
        BY <3>4 DEF S, SetBy, Added
      <4> QED BY <3>1, <4>1
    <3>5. s \in InTemplate(section) => s[1] = section
      BY DEF InTemplate
    <3> HIDE DEF N
    <3> QED BY <3>2, <3>3, <3>4, <3>5
  <2>6. Changes(t, u, N, asked)
    <3> HIDE DEF N
    <3> QED BY <2>4, <2>5 DEF Changes
  <2> QED BY <1>1, <2>4, <2>6
<1> HIDE DEF N
<1>5. /\ Changes(t, u, N, asked) /\ Kept(t, u)
      /\ \A sec \in Edited \ {section} : Headers(u, sec) = {} <=> Headers(t, sec) = {}
  BY <1>3, <1>4
<1> QED BY <1>5 DEF N

(* _apply changes the settings it is asked to change, and no other.        *)
LEMMA ApplyIs ==
  ASSUME NEW t, Regular(t), NEW asked, Asks(asked)
  PROVE  Changes(t, Apply(t, asked), DOMAIN asked, asked) /\ Kept(t, Apply(t, asked))
<1> DEFINE a == SetAll(t, asked)
           b == AddSection(a, "radio", asked)
           c == AddSection(b, "flex", asked)
           d == AddSection(c, "tci", asked)
           e == AddSection(d, "serial", asked)
           A == Known(t, asked)
           B == Added(a, "radio", asked)
           C == Added(b, "flex", asked)
           D == Added(c, "tci", asked)
           E == Added(d, "serial", asked)
<1>0. /\ "radio" \in Edited /\ "flex" \in Edited /\ "tci" \in Edited /\ "serial" \in Edited
      /\ Edited \subseteq Words
  BY SettingFacts DEF Edited
<1>1. /\ Changes(t, a, A, asked) /\ Kept(t, a)
      /\ \A sec \in Words : Headers(a, sec) = {} <=> Headers(t, sec) = {}
  <2>1. a = SetAll(t, asked)
    OBVIOUS
  <2> HIDE DEF a
  <2> QED BY <2>1, SetAllIs
<1>2. /\ Changes(a, b, B, asked) /\ Kept(a, b)
      /\ \A sec \in Edited \ {"radio"} : Headers(b, sec) = {} <=> Headers(a, sec) = {}
  <2>1. Regular(a) /\ b = AddSection(a, "radio", asked)
    BY <1>1 DEF Changes
  <2> HIDE DEF a, b
  <2> QED BY <1>0, <2>1, AddSectionIs
<1>3. /\ Changes(b, c, C, asked) /\ Kept(b, c)
      /\ \A sec \in Edited \ {"flex"} : Headers(c, sec) = {} <=> Headers(b, sec) = {}
  <2>1. Regular(b) /\ c = AddSection(b, "flex", asked)
    BY <1>2 DEF Changes
  <2> HIDE DEF b, c
  <2> QED BY <1>0, <2>1, AddSectionIs
<1>4. /\ Changes(c, d, D, asked) /\ Kept(c, d)
      /\ \A sec \in Edited \ {"tci"} : Headers(d, sec) = {} <=> Headers(c, sec) = {}
  <2>1. Regular(c) /\ d = AddSection(c, "tci", asked)
    BY <1>3 DEF Changes
  <2> HIDE DEF c, d
  <2> QED BY <1>0, <2>1, AddSectionIs
<1>5. Changes(d, e, E, asked) /\ Kept(d, e)
  <2>1. Regular(d) /\ e = AddSection(d, "serial", asked)
    BY <1>4 DEF Changes
  <2> HIDE DEF d, e
  <2> QED BY <1>0, <2>1, AddSectionIs
<1> HIDE DEF a, b, c, d, e
<1>6. Apply(t, asked) = e
  BY DEF Apply, a, b, c, d, e
<1>7. (((A \cup B) \cup C) \cup D) \cup E = DOMAIN asked
  <2>1. \A s \in DOMAIN asked : s[1] \in Edited
    BY SettingFacts DEF Asks
  <2>2. /\ A \subseteq DOMAIN asked /\ B \subseteq DOMAIN asked /\ C \subseteq DOMAIN asked
        /\ D \subseteq DOMAIN asked /\ E \subseteq DOMAIN asked
    BY DEF Known, Added
  <2>3. ASSUME NEW s \in DOMAIN asked, s \notin A
        PROVE  s \in B \/ s \in C \/ s \in D \/ s \in E
    <3>1. Headers(t, s[1]) = {}
      BY <2>3 DEF Known
    <3>2. Headers(a, s[1]) = {}
      BY <1>0, <1>1, <2>1, <3>1
    <3>3. CASE s[1] = "radio"
      BY <3>2, <3>3 DEF Added
    <3>4. CASE s[1] = "flex"
      <4>1. Headers(b, s[1]) = {}
        BY <1>0, <1>2, <3>2, <3>4
      <4> QED BY <3>4, <4>1 DEF Added
    <3>5. CASE s[1] = "tci"
      <4>1. Headers(b, s[1]) = {}
        BY <1>0, <1>2, <3>2, <3>5
      <4>2. Headers(c, s[1]) = {}
        BY <1>0, <1>3, <3>5, <4>1
      <4> QED BY <3>5, <4>2 DEF Added
    <3>6. CASE s[1] = "serial"
      <4>1. Headers(b, s[1]) = {}
        BY <1>0, <1>2, <3>2, <3>6
      <4>2. Headers(c, s[1]) = {}
        BY <1>0, <1>3, <3>6, <4>1
      <4>3. Headers(d, s[1]) = {}
        BY <1>0, <1>4, <3>6, <4>2
      <4> QED BY <3>6, <4>3 DEF Added
    <3> QED BY <2>1, <3>3, <3>4, <3>5, <3>6 DEF Edited
  <2> HIDE DEF A, B, C, D, E
  <2> QED BY <2>2, <2>3
<1> HIDE DEF A, B, C, D, E
<1>8. Changes(t, e, (((A \cup B) \cup C) \cup D) \cup E, asked) /\ Kept(t, e)
  <2>1. Changes(t, b, A \cup B, asked) /\ Kept(t, b)
    BY <1>1, <1>2, ChangesTwice, KeptTwice
  <2>2. Changes(t, c, (A \cup B) \cup C, asked) /\ Kept(t, c)
    BY <1>3, <2>1, ChangesTwice, KeptTwice
  <2>3. Changes(t, d, ((A \cup B) \cup C) \cup D, asked) /\ Kept(t, d)
    BY <1>4, <2>2, ChangesTwice, KeptTwice
  <2> QED BY <1>5, <2>3, ChangesTwice, KeptTwice
<1> QED BY <1>6, <1>7, <1>8

-----------------------------------------------------------------------------
(* What persist_temperature_unit makes of a text. *)

(* The same keys with the same values are read alike.                      *)
LEMMA ReadSame ==
  ASSUME NEW t, IsText(t), NEW u, NEW s \in Settings,
         Counting(u, s) = Counting(t, s),
         \A i \in Counting(t, s) : u[i].value = t[i].value
  PROVE  Read(u)[s] = Read(t)[s]
<1>1. Counting(u, s) = Counting(t, s)
  OBVIOUS
<1>2. Len(t) \in Nat /\ Counting(t, s) \in SUBSET (0 .. Len(t))
  BY TextFacts, CountingFacts
<1>3. CASE Counting(t, s) = {}
  BY <1>1, <1>3, ReadNone
<1>4. CASE Counting(t, s) # {}
  <2>1. Max(Counting(t, s)) \in Counting(t, s)
    BY <1>2, <1>4, MaxOf
  <2>2. u[Max(Counting(t, s))].value = t[Max(Counting(t, s))].value
    BY <2>1
  <2>3. /\ Read(t)[s] = Understood(s, t[Max(Counting(t, s))].value)
        /\ Read(u)[s] = Understood(s, u[Max(Counting(t, s))].value)
    BY <1>1, <1>4 DEF Read
  <2> QED BY <2>2, <2>3
<1> QED BY <1>3, <1>4

UnitAsked(unit) == [s \in {Unit} |-> unit]

(* A unit that a client may ask for is stored as it is, without quotes.    *)
LEMMA UnitIs ==
  ASSUME NEW unit \in {"C", "F"}
  PROVE  /\ unit \in Words /\ Understood(Unit, unit) = unit
         /\ unit \notin {"\"C\"", "\"F\""}
  BY WordsAssumption DEF Understood, Fahrenheit

(* persist_temperature_unit rewrites every unquoted unit: the one that     *)
(* counts is one of them.                                                  *)
LEMMA UnitRewritten ==
  ASSUME NEW t, Regular(t), NEW unit \in {"C", "F"}, UnitLines(t) # {},
         NEW u, u = WithValue(t, UnitLines(t), unit)
  PROVE  Changes(t, u, {Unit}, UnitAsked(unit)) /\ Kept(t, u)
<1> DEFINE H == UnitLines(t)
<1>1. /\ IsText(t) /\ t \in Seq(Line) /\ Len(t) \in Nat /\ DOMAIN t = 1 .. Len(t)
      /\ \A i \in 1 .. Len(t) : t[i] \in Line
      /\ \A sec \in Edited : \A i, j \in Headers(t, sec) : i = j
      /\ \A s \in Settings \ {Unit} : \A i, j \in Counting(t, s) : i = j
      /\ UnitCounts(t)
  BY RegularIs, TextFacts
<1>2. unit \in Words /\ Understood(Unit, unit) = unit /\ unit \notin {"\"C\"", "\"F\""}
  BY UnitIs
<1>3. /\ u = [i \in 1 .. Len(t) |-> u[i]]
      /\ \A i \in 1 .. Len(t) : u[i] = IF i \in H THEN Rewritten(t[i], unit) ELSE t[i]
  BY <1>1 DEF WithValue
<1>4. \A i \in H : i \in 1 .. Len(t) /\ t[i].is = "key" /\ t[i].name = "temperature_unit"
  BY <1>1 DEF UnitLines, IsKey
<1>5. \A i \in H : /\ u[i] \in Line /\ u[i].is = t[i].is /\ u[i].name = t[i].name
                   /\ u[i].value = unit
  <2> TAKE i \in H
  <2>1. t[i] \in Line /\ u[i] = Rewritten(t[i], unit)
    BY <1>1, <1>3, <1>4
  <2>2. /\ Rewritten(t[i], unit) \in Line /\ Rewritten(t[i], unit).is = t[i].is
        /\ Rewritten(t[i], unit).name = t[i].name /\ Rewritten(t[i], unit).value = unit
    BY <1>2, <2>1, RewrittenIs
  <2> QED BY <2>1, <2>2
<1>6. \A i \in 1 .. Len(t) : i \notin H => u[i] = t[i]
  BY <1>3
<1>7. u \in Seq(Line) /\ Len(u) = Len(t) /\ DOMAIN u = 1 .. Len(t)
  <2>1. \A i \in 1 .. Len(t) : u[i] \in Line
    BY <1>1, <1>5, <1>6
  <2>2. u \in [1 .. Len(t) -> Line]
    BY <1>3, <2>1
  <2> QED BY <1>1, <2>2, FunctionIsSeq
<1>8. \A i \in 1 .. Len(t) : u[i].is = t[i].is /\ u[i].name = t[i].name
  BY <1>5, <1>6
<1>9. IsText(u)
  <2>1. \A i \in 1 .. Len(t) : t[i].is = "header" => t[i].value = ""
    BY <1>1 DEF IsText
  <2>2. \A i \in 1 .. Len(t) : u[i].is = "header" => u[i].value = ""
    BY <1>4, <1>5, <1>6, <2>1
  <2> QED BY <1>7, <2>2 DEF IsText
<1>10. /\ \A sec \in Words : Headers(u, sec) = Headers(t, sec)
       /\ \A s \in Settings : Counting(u, s) = Counting(t, s)
  BY <1>1, <1>7, <1>8, <1>9, SameShape
<1>11. UnitLines(u) = H
  <2>1. \A i \in 1 .. Len(t) : IsKey(u[i], "temperature_unit") <=> IsKey(t[i], "temperature_unit")
    BY <1>8 DEF IsKey
  <2>2. \A i : i \in UnitLines(u) <=>
                 /\ i \in 1 .. Len(t) /\ IsKey(u[i], "temperature_unit")
                 /\ u[i].value \notin {"\"C\"", "\"F\""}
    BY <1>7 DEF UnitLines
  <2>3. \A i : i \in H <=>
                 /\ i \in 1 .. Len(t) /\ IsKey(t[i], "temperature_unit")
                 /\ t[i].value \notin {"\"C\"", "\"F\""}
    BY <1>1 DEF UnitLines
  <2> HIDE DEF H
  <2> QED BY <1>2, <1>5, <1>6, <2>1, <2>2, <2>3
<1>12. Regular(u)
  <2>1. UnitCounts(u)
    <3>1. Unit \in Settings
      BY SettingFacts
    <3> QED BY <1>1, <1>10, <1>11, <3>1 DEF UnitCounts
  <2>2. \A sec \in Edited : \A i, j \in Headers(u, sec) : i = j
    BY <1>1, <1>10, SettingFacts
  <2>3. \A s \in Settings \ {Unit} : \A i, j \in Counting(u, s) : i = j
    BY <1>1, <1>10
  <2> QED BY <1>9, <2>1, <2>2, <2>3, RegularIs
<1>13. ASSUME NEW s \in Settings
       PROVE  Read(u)[s] = IF s \in {Unit} THEN UnitAsked(unit)[s] ELSE Read(t)[s]
  <2>1. CASE s = Unit
    <3>1. PICK i \in Counting(t, Unit) : i \in H /\ \A j \in Counting(t, Unit) : j <= i
      BY <1>1 DEF UnitCounts
    <3>2. i \in Counting(u, Unit) /\ \A j \in Counting(u, Unit) : j <= i
      BY <1>10, <3>1, SettingFacts
    <3>3. Read(u)[Unit] = Understood(Unit, u[i].value)
      BY <1>9, <3>2, ReadLast, SettingFacts
    <3>4. u[i].value = unit
      BY <1>5, <3>1
    <3>5. UnitAsked(unit)[Unit] = unit
      BY DEF UnitAsked
    <3> QED BY <1>2, <2>1, <3>3, <3>4, <3>5
  <2>2. CASE s # Unit
    <3>1. \A i \in Counting(t, s) : u[i].value = t[i].value
      <4> TAKE i \in Counting(t, s)
      <4>1. i \in 1 .. Len(t) /\ t[i].name = s[2] /\ s[2] # "temperature_unit"
        BY <1>1, <2>2, CountingFacts, SettingFacts
      <4>2. i \notin H
        BY <1>4, <4>1
      <4> QED BY <1>6, <4>1, <4>2
    <3>2. Read(u)[s] = Read(t)[s]
      BY <1>1, <1>10, <3>1, ReadSame
    <3> QED BY <2>2, <3>2
  <2> QED BY <2>1, <2>2
<1>14. Changes(t, u, {Unit}, UnitAsked(unit))
  BY <1>12, <1>13 DEF Changes
<1>15. Kept(t, u)
  BY <1>1, <1>7, <1>8, SameShapeKeeps
<1> QED BY <1>14, <1>15

UnitBlock(unit) == <<Header("amp"), KeyLine("temperature_unit", unit)>>

(* A block of two lines.                                                   *)
LEMMA TwoLines ==
  ASSUME NEW x \in Line, NEW y \in Line
  PROVE  /\ <<x, y>> \in Seq(Line) /\ Len(<<x, y>>) = 2
         /\ <<x, y>>[1] = x /\ <<x, y>>[2] = y
  OBVIOUS

(* What it appends where there is none: a section with the unit.           *)
LEMMA UnitBlockIs ==
  ASSUME NEW unit \in {"C", "F"}
  PROVE  LET B == UnitBlock(unit)
         IN  /\ IsSection(B, 1, "amp") /\ Len(B) = 2
             /\ B[1].is = "header" /\ B[1].name = "amp"
             /\ IsKey(B[2], "temperature_unit") /\ B[2].value = unit
<1> DEFINE B == UnitBlock(unit)
<1>1. "amp" \in Words /\ "temperature_unit" \in Words /\ unit \in Words
  BY UnitIs, WordsAssumption
<1>2. /\ Header("amp") \in Line /\ Header("amp").is = "header" /\ Header("amp").name = "amp"
      /\ KeyLine("temperature_unit", unit) \in Line /\ KeyLine("temperature_unit", unit).is = "key"
      /\ KeyLine("temperature_unit", unit).name = "temperature_unit"
      /\ KeyLine("temperature_unit", unit).value = unit
  <2>1. Header("amp") \in Line /\ Header("amp").is = "header" /\ Header("amp").name = "amp"
    BY <1>1, HeaderIs
  <2>2. /\ KeyLine("temperature_unit", unit) \in Line
        /\ KeyLine("temperature_unit", unit).is = "key"
        /\ KeyLine("temperature_unit", unit).name = "temperature_unit"
        /\ KeyLine("temperature_unit", unit).value = unit
    BY <1>1, KeyLineIs
  <2> QED BY <2>1, <2>2
<1>3. /\ B \in Seq(Line) /\ Len(B) = 2
      /\ B[1] = Header("amp") /\ B[2] = KeyLine("temperature_unit", unit)
  BY <1>2, TwoLines DEF UnitBlock
<1> HIDE DEF B
<1>4. /\ B[1].is = "header" /\ B[1].name = "amp" /\ B[2].is = "key"
      /\ B[2].name = "temperature_unit" /\ B[2].value = unit
  BY <1>2, <1>3
<1>5. Len(B) = 2
  BY <1>3
<1>6. 1 \in 1 .. Len(B) /\ \A j \in 1 .. Len(B) : ~(j < 1) /\ (j > 1 => j = 2)
  BY ONLY <1>5
<1>7. IsSection(B, 1, "amp")
  <2>1. \A j \in 1 .. Len(B) : /\ j < 1 => B[j].is = "comment"
                               /\ j > 1 => B[j].is = "key"
    BY <1>4, <1>6
  <2> QED BY <1>1, <1>3, <1>6, <2>1, SectionWhen
<1> QED BY <1>3, <1>4, <1>7 DEF B, IsKey

(* That section is the last one and the one that counts, even if there is  *)
(* an amp: with a quoted unit above it.                                    *)
LEMMA UnitAppended ==
  ASSUME NEW t, Regular(t), NEW unit \in {"C", "F"}, UnitLines(t) = {},
         NEW u, u = t \o UnitBlock(unit)
  PROVE  Changes(t, u, {Unit}, UnitAsked(unit)) /\ Kept(t, u)
<1> DEFINE B == UnitBlock(unit)
           L == Len(t)
<1>1. /\ IsText(t) /\ Len(t) \in Nat
      /\ \A sec \in Edited : \A i, j \in Headers(t, sec) : i = j
      /\ \A s \in Settings \ {Unit} : \A i, j \in Counting(t, s) : i = j
  BY RegularIs, TextFacts
<1>2. unit \in Words /\ Understood(Unit, unit) = unit /\ unit \notin {"\"C\"", "\"F\""}
  BY UnitIs
<1>3. /\ IsSection(B, 1, "amp") /\ IsText(B) /\ Len(B) = 2
      /\ B[1].is = "header" /\ B[1].name = "amp"
      /\ IsKey(B[2], "temperature_unit") /\ B[2].value = unit
  BY UnitBlockIs DEF IsSection
<1> HIDE DEF B
<1>4. Spliced(t, u, L, B)
  BY <1>1, <1>3, AppendIs DEF B
<1>5. IsText(u) /\ \A i \in 1 .. L : u[i] = t[i]
  <2>1. \A i \in 1 .. L : Moved(L, Len(B), i) = i
    BY <1>1 DEF Moved
  <2> QED BY <1>4, <2>1 DEF Spliced
<1>6. u[L + 2] = B[2] /\ 2 \in 1 .. Len(B)
  <2>1. 2 \in 1 .. Len(B)
    BY <1>3
  <2> QED BY <1>4, <2>1 DEF Spliced
<1>60. \A j \in 1 .. Len(B) : j = 1 \/ j = 2
  <2>1. Len(B) = 2
    BY <1>3
  <2> QED BY ONLY <2>1
<1>7. "amp" \in Words /\ Unit \in Settings /\ Unit[1] = "amp" /\ Unit[2] = "temperature_unit"
  BY SettingFacts, WordsAssumption
<1>8. \A s \in Settings : \A k :
         /\ s[1] # "amp" => (k \in Counting(u, s) <=> \E i \in Counting(t, s) : k = Moved(L, Len(B), i))
         /\ s[1] = "amp" => (k \in Counting(u, s) <=>
                               \E j \in 1 .. Len(B) : k = L + j /\ IsKey(B[j], s[2]))
  <2> TAKE s \in Settings
  <2> TAKE k
  <2>1. /\ s[1] # "amp" =>
             (k \in Counting(u, s) <=> \E i \in Counting(t, s) : k = Moved(L, Len(B), i))
        /\ s[1] = "amp" /\ (Headers(t, "amp") = {} \/ L = Len(t)) =>
             (k \in Counting(u, s) <=>
                \E j \in 1 .. Len(B) : k = L + j /\ IsKey(B[j], s[2]))
    <3> DEFINE amp == "amp"
               at == Len(t)
    <3>1. /\ Spliced(t, u, at, B) /\ at = Len(t) /\ amp \in Words
          /\ IsSection(B, 1, amp)
      BY <1>3, <1>4, <1>7
    <3> HIDE DEF amp, at
    <3>2. /\ s[1] # amp =>
               (k \in Counting(u, s) <=> \E i \in Counting(t, s) : k = Moved(at, Len(B), i))
          /\ s[1] = amp /\ (Headers(t, amp) = {} \/ at = Len(t)) =>
               (k \in Counting(u, s) <=>
                  \E j \in 1 .. Len(B) : k = at + j /\ IsKey(B[j], s[2]))
      <4>1. at = Len(t) \/ (at + 1 \in 1 .. Len(t) /\ t[at + 1].is = "header")
        BY <3>1
      <4>2. Spliced(t, u, at, B) /\ amp \in Words /\ IsSection(B, 1, amp)
        BY <3>1
      <4> QED BY <4>1, <4>2, SectionPutIn
    <3> QED BY <3>1, <3>2 DEF amp, at
  <2> QED BY <2>1
<1>9. \A s \in Settings : s # Unit => \A k : k \in Counting(u, s) <=> k \in Counting(t, s)
  <2> TAKE s \in Settings
  <2> HAVE s # Unit
  <2> TAKE k
  <2>1. s[1] # "amp"
    BY SettingFacts
  <2>2. \A i \in Counting(t, s) : i \in 1 .. L
    BY <1>1, CountingFacts
  <2>3. \A i \in Counting(t, s) : Moved(L, Len(B), i) = i
    BY <1>1, <2>2 DEF Moved
  <2> QED BY <1>8, <2>1, <2>3
<1>10. \A k : k \in Counting(u, Unit) <=> k = L + 2
  <2>1. ~IsKey(B[1], "temperature_unit")
    BY <1>3 DEF IsKey
  <2> QED BY <1>3, <1>6, <1>60, <1>7, <1>8, <2>1
<1>11. \A k : k \in UnitLines(u) <=> k = L + 2
  <2>1. \A j : j \in UnitLines(B) <=> j = 2
    <3>1. \A j : j \in UnitLines(B) <=>
                   /\ j \in 1 .. Len(B) /\ IsKey(B[j], "temperature_unit")
                   /\ B[j].value \notin {"\"C\"", "\"F\""}
      BY <1>3, TextFacts DEF UnitLines
    <3>2. ~IsKey(B[1], "temperature_unit")
      BY <1>3 DEF IsKey
    <3> QED BY <1>2, <1>3, <1>6, <1>60, <3>1, <3>2
  <2> QED BY <1>4, <2>1, UnitsFound
<1>12. Regular(u)
  <2>1. UnitCounts(u)
    <3>1. L + 2 \in Counting(u, Unit) /\ L + 2 \in UnitLines(u)
      BY <1>10, <1>11
    <3>2. \A j \in Counting(u, Unit) : j <= L + 2
      BY <1>1, <1>10
    <3> QED BY <3>1, <3>2 DEF UnitCounts
  <2>2. \A sec \in Edited : \A i, j \in Headers(u, sec) : i = j
    <3> TAKE sec \in Edited
    <3>1. sec \in Words /\ sec # "amp"
      BY SettingFacts DEF Edited
    <3>2. Headers(B, sec) = {}
      <4>1. \A j \in 1 .. Len(B) : ~(B[j].is = "header" /\ B[j].name = sec)
        BY <1>3, <1>60, <3>1 DEF IsKey
      <4> QED BY <1>3, <3>1, <4>1, HeadersAre
    <3>3. \A k : k \in Headers(u, sec) <=> \E i \in Headers(t, sec) : k = Moved(L, Len(B), i)
      BY <1>4, <3>2, HeadersFound
    <3> QED BY <1>1, <3>3
  <2>3. \A s \in Settings \ {Unit} : \A i, j \in Counting(u, s) : i = j
    BY <1>1, <1>9
  <2> QED BY <1>5, <2>1, <2>2, <2>3, RegularIs
<1>13. ASSUME NEW s \in Settings
       PROVE  Read(u)[s] = IF s \in {Unit} THEN UnitAsked(unit)[s] ELSE Read(t)[s]
  <2>1. CASE s = Unit
    <3>1. Read(u)[Unit] = Understood(Unit, u[L + 2].value)
      <4>1. L + 2 \in Counting(u, Unit) /\ \A j \in Counting(u, Unit) : j <= L + 2
        BY <1>1, <1>10
      <4> QED BY <1>5, <1>7, <4>1, ReadLast
    <3>2. u[L + 2].value = unit
      BY <1>3, <1>6
    <3>3. UnitAsked(unit)[Unit] = unit
      BY DEF UnitAsked
    <3> QED BY <1>2, <2>1, <3>1, <3>2, <3>3
  <2>2. CASE s # Unit
    <3>1. \A i \in Counting(t, s) : u[i].value = t[i].value
      <4> TAKE i \in Counting(t, s)
      <4>1. i \in 1 .. L
        BY <1>1, CountingFacts
      <4> QED BY <1>5, <4>1
    <3>2. Counting(u, s) = Counting(t, s)
      BY <1>9, <2>2
    <3>3. Read(u)[s] = Read(t)[s]
      BY <1>1, <3>1, <3>2, ReadSame
    <3> QED BY <2>2, <3>3
  <2> QED BY <2>1, <2>2
<1>14. Changes(t, u, {Unit}, UnitAsked(unit))
  BY <1>12, <1>13 DEF Changes
<1>15. Kept(t, u)
  BY <1>4, SplicedKeeps
<1> QED BY <1>14, <1>15

(* persist_temperature_unit changes the unit and no other setting.         *)
LEMMA PersistUnitIs ==
  ASSUME NEW t, Regular(t), NEW unit \in {"C", "F"}
  PROVE  /\ Changes(t, PersistUnit(t, unit), {Unit}, [s \in {Unit} |-> unit])
         /\ Kept(t, PersistUnit(t, unit))
<1> DEFINE u == PersistUnit(t, unit)
<1>1. Changes(t, u, {Unit}, UnitAsked(unit)) /\ Kept(t, u)
  <2>1. CASE UnitLines(t) # {}
    <3>1. u = WithValue(t, UnitLines(t), unit)
      BY <2>1 DEF PersistUnit
    <3> HIDE DEF u
    <3> QED BY <2>1, <3>1, UnitRewritten
  <2>2. CASE UnitLines(t) = {}
    <3>1. u = t \o UnitBlock(unit)
      BY <2>2 DEF PersistUnit, UnitBlock
    <3> HIDE DEF u
    <3> QED BY <2>2, <3>1, UnitAppended
  <2> QED BY <2>1, <2>2
<1> QED BY <1>1 DEF UnitAsked

-----------------------------------------------------------------------------
(* Every edit makes a change of the settings of it. *)

(* A file that was truncated is regular, and everything has its default.   *)
LEMMA EmptyText == Regular(<<>>) /\ Read(<<>>) = Default /\ \A t : Kept(<<>>, t)
<1>1. <<>> \in Seq(Line) /\ Len(<<>>) = 0 /\ DOMAIN <<>> = {}
  OBVIOUS
<1>2. IsText(<<>>)
  BY <1>1 DEF IsText
<1>3. \A sec : Headers(<<>>, sec) = {}
  BY <1>1 DEF Headers
<1>4. \A s \in Settings : Counting(<<>>, s) = {}
  BY <1>3 DEF Counting
<1>5. UnitLines(<<>>) = {}
  BY <1>1 DEF UnitLines
<1>6. Regular(<<>>)
  BY <1>2, <1>3, <1>4, <1>5, RegularIs DEF UnitCounts
<1>7. Read(<<>>) = Default
  <2>1. \A s \in Settings : Read(<<>>)[s] = Default[s]
    BY <1>4, ReadNone
  <2>2. Read(<<>>) \in [Settings -> Words]
    BY <1>2, ReadIsStore
  <2> QED BY <2>1, <2>2, DefaultIsStore
<1>8. \A t : Kept(<<>>, t)
  <2>1. \A c : c \notin Describes(<<>>)
    <3>1. 1 .. (Len(<<>>) - 1) = {}
      BY <1>1
    <3> QED BY <3>1, DescribesIs
  <2> QED BY <2>1 DEF Kept
<1> QED BY <1>6, <1>7, <1>8

(* Reading a regular file gives a value for every setting.                 *)
LEMMA RegularReads ==
  ASSUME NEW t, Regular(t)
  PROVE  Read(t) \in [Settings -> Words]
  BY RegularIs, ReadIsStore

(* load_config differs from what is read in the kind of radio only.        *)
LEMMA LoadedIs ==
  ASSUME NEW t, Regular(t)
  PROVE  /\ Loaded(t) \in [Settings -> Words]
         /\ Loaded(t)[Kind] = KindOf(Read(t)) /\ KindOf(Read(t)) \in {"flex", "tci", "none"}
         /\ \A s \in Settings : s # Kind => Loaded(t)[s] = Read(t)[s]
<1>1. Read(t) \in [Settings -> Words] /\ Kind \in Settings
  BY RegularReads DEF Settings
<1>2. KindOf(Read(t)) \in {"flex", "tci", "none"}
  BY DEF KindOf
<1>3. KindOf(Read(t)) \in Words
  BY <1>2, WordsAssumption
<1>4. Loaded(t) = [Read(t) EXCEPT ![Kind] = KindOf(Read(t))]
  BY DEF Loaded
<1> HIDE DEF Kind
<1> QED BY <1>1, <1>2, <1>3, <1>4

(* What a write is saved as. *)
Puts(asked, base) ==
  [s \in Settings |-> IF s \in DOMAIN asked THEN asked[s] ELSE base[s]]

(* It is what the abstract store has after the write.                      *)
LEMMA PutIsPuts == \A asked, base : Store!Put(asked, base) = Puts(asked, base)
  BY DEF Store!Put, Puts

(* A change of what is asked for is what the store has after the write.    *)
LEMMA ChangesPut ==
  ASSUME NEW t, NEW u, NEW asked, Changes(t, u, DOMAIN asked, asked)
  PROVE  Read(u) = Puts(asked, Read(t))
<1>1. Read(u) \in [Settings -> Words]
  BY RegularReads DEF Changes
<1>2. Read(u) = [s \in Settings |-> Read(u)[s]]
  BY <1>1
<1>3. \A s \in Settings : Read(u)[s] = IF s \in DOMAIN asked THEN asked[s] ELSE Read(t)[s]
  BY DEF Changes
<1> QED BY <1>2, <1>3 DEF Puts

(* A request, and a text that is edited the way it asks. *)
Grants(t, u, asked) ==
  /\ DOMAIN asked \subseteq Settings /\ \A s \in DOMAIN asked : asked[s] \in Words
  /\ Changes(t, u, DOMAIN asked, asked) /\ Kept(t, u)

(* set_temp_unit is granted.                                               *)
LEMMA UnitGranted ==
  ASSUME NEW t, Regular(t), NEW unit \in UnitRequests
  PROVE  Grants(t, PersistUnit(t, unit), [s \in {Unit} |-> unit])
<1> DEFINE asked == [s \in {Unit} |-> unit]
<1>1. unit \in {"C", "F"}
  BY UnitAssumption
<1>2. DOMAIN asked = {Unit} /\ \A s \in DOMAIN asked : asked[s] \in Words
  BY <1>1, UnitIs
<1>3. {Unit} \subseteq Settings
  BY SettingFacts
<1>4. Changes(t, PersistUnit(t, unit), {Unit}, asked) /\ Kept(t, PersistUnit(t, unit))
  BY <1>1, PersistUnitIs
<1> HIDE DEF asked
<1>5. Grants(t, PersistUnit(t, unit), asked)
  BY <1>2, <1>3, <1>4 DEF Grants
<1> QED BY <1>5 DEF asked

(* The kinds a server can have in effect. *)
Kinds == {"flex", "tci", "none"}

(* What Sent makes of a message, with this kind in effect. *)
SentWith(fields, kind) ==
  LET sent == IF Kind \in DOMAIN fields THEN fields[Kind] ELSE kind
  IN  Over(fields, [s \in {Kind, Enabled} |->
                      IF s = Kind THEN sent ELSE IF sent = "flex" THEN "true" ELSE "false"])

(* What set_radio_config asks to be written: a kind of radio, flex.enabled *)
(* to go with it, and no unit or port.                                     *)
LEMMA SentIs ==
  ASSUME NEW fields \in RadioRequests, NEW kind \in Kinds,
         NEW asked, asked = SentWith(fields, kind)
  PROVE  /\ Asks(asked) /\ DOMAIN asked \subseteq Settings \ {Unit, Port}
         /\ Kind \in DOMAIN asked /\ Enabled \in DOMAIN asked
         /\ asked[Kind] \in Kinds
         /\ asked[Enabled] = IF asked[Kind] = "flex" THEN "true" ELSE "false"
<1> DEFINE sent == IF Kind \in DOMAIN fields THEN fields[Kind] ELSE kind
           pair == [s \in {Kind, Enabled} |->
                      IF s = Kind THEN sent ELSE IF sent = "flex" THEN "true" ELSE "false"]
<1>1. /\ DOMAIN fields \subseteq {Kind, FlexHost, TciHost}
      /\ \A s \in DOMAIN fields : fields[s] \in Words
      /\ Kind \in DOMAIN fields => fields[Kind] \in Kinds
  BY RadioAssumption DEF Kinds
<1>2. /\ Enabled # Kind /\ Enabled # FlexHost /\ Enabled # TciHost
      /\ {Kind, Enabled, FlexHost, TciHost} \subseteq Settings \ {Unit, Port}
  BY DEF Settings, Unit, Kind, Enabled, FlexHost, TciHost, Port
<1>3. sent \in Kinds /\ Kinds \subseteq Words /\ "true" \in Words /\ "false" \in Words
  BY <1>1, WordsAssumption DEF Kinds
<1>4. asked = Over(fields, pair)
  BY DEF SentWith
<1> HIDE DEF sent
<1>5. /\ DOMAIN pair = {Kind, Enabled} /\ pair[Kind] = sent
      /\ pair[Enabled] = IF sent = "flex" THEN "true" ELSE "false"
  BY <1>2
<1> HIDE DEF pair
<1>6. /\ DOMAIN asked = DOMAIN fields \cup {Kind, Enabled}
      /\ \A s \in DOMAIN asked : asked[s] = IF s \in DOMAIN fields THEN fields[s] ELSE pair[s]
      /\ asked = [s \in DOMAIN asked |-> asked[s]]
  BY <1>4, <1>5 DEF Over
<1>7. DOMAIN asked \subseteq Settings \ {Unit, Port}
  BY <1>1, <1>2, <1>6
<1>8. asked[Kind] = sent
  BY <1>5, <1>6 DEF sent
<1>9. asked[Enabled] = IF sent = "flex" THEN "true" ELSE "false"
  BY <1>1, <1>2, <1>5, <1>6
<1>10. \A s \in DOMAIN asked : asked[s] \in Words
  BY <1>1, <1>3, <1>6, <1>8, <1>9
<1>11. Asks(asked)
  BY <1>6, <1>7, <1>10 DEF Asks
<1> QED BY <1>3, <1>6, <1>7, <1>8, <1>9, <1>11

(* set_radio_config is granted.                                            *)
LEMMA RadioGranted ==
  ASSUME NEW t, Regular(t), NEW fields \in RadioRequests, NEW kind \in Kinds
  PROVE  Grants(t, PersistValues(t, SentWith(fields, kind)), SentWith(fields, kind))
<1> DEFINE asked == SentWith(fields, kind)
<1>1. Asks(asked) /\ DOMAIN asked \subseteq Settings \ {Unit, Port}
  BY SentIs
<1> HIDE DEF asked
<1>2. Changes(t, PersistValues(t, asked), DOMAIN asked, asked) /\ Kept(t, PersistValues(t, asked))
  BY <1>1, PersistValuesIs
<1>3. Grants(t, PersistValues(t, asked), asked)
  BY <1>1, <1>2 DEF Grants, Asks
<1> QED BY <1>3 DEF asked

(* So is a write by configtool.                                            *)
LEMMA ToolGranted ==
  ASSUME NEW t, Regular(t), NEW asked \in ToolRequests
  PROVE  Grants(t, Apply(t, asked), asked)
<1>1. Asks(asked)
  BY ToolAssumption DEF Asks
<1>2. Changes(t, Apply(t, asked), DOMAIN asked, asked) /\ Kept(t, Apply(t, asked))
  BY <1>1, ApplyIs
<1> QED BY <1>1, <1>2 DEF Grants, Asks

-----------------------------------------------------------------------------
(* The invariant. *)

(* A write under way, and what becomes of the file t when it is saved. *)
IsWrite(w) ==
  /\ w = [by |-> w.by, asked |-> w.asked, base |-> w.base, text |-> w.text, stale |-> w.stale]
  /\ w.by \in {"server", "tool"} /\ DOMAIN w.asked \subseteq Settings
  /\ \A s \in DOMAIN w.asked : w.asked[s] \in Words

Sound(w, t) ==
  /\ IsWrite(w) /\ Regular(w.text)
  /\ Read(w.text) = Puts(w.asked, w.base)
  /\ w.stale \/ Kept(t, w.text)

Alone(ws) == \A v, w \in ws : v.by = w.by => v = w

(* What the server has in effect is what it is about to save. *)
InStep(t, ws, config) ==
  /\ \A w \in ws : w.by = "server" => config = Loaded(w.text)
  /\ (\A w \in ws : w.by # "server") => config = Loaded(t)

FileInv ==
  /\ exists \in BOOLEAN /\ up \in BOOLEAN /\ apart \in BOOLEAN
  /\ Regular(lines) /\ (\A w \in writes : Sound(w, lines)) /\ Alone(writes)
  /\ \A w \in writes : w.by = "server" => up
  /\ live \in [Settings -> Words] /\ (up => live[Kind] \in Kinds)
  /\ up /\ SamePath /\ ~apart => InStep(lines, writes, live)

NewWrite(by, t, text, asked) ==
  [by |-> by, asked |-> asked, base |-> Read(t), text |-> text, stale |-> FALSE]

(* A write that begins is sound.                                           *)
LEMMA NewWriteIs ==
  ASSUME NEW by \in {"server", "tool"}, NEW t, NEW text, NEW asked, Grants(t, text, asked),
         NEW n, n = NewWrite(by, t, text, asked)
  PROVE  /\ Sound(n, t) /\ n.by = by /\ n.text = text /\ n.asked = asked /\ n.base = Read(t)
<1>1. /\ n.by = by /\ n.text = text /\ n.asked = asked /\ n.base = Read(t) /\ n.stale = FALSE
      /\ n = [by |-> n.by, asked |-> n.asked, base |-> n.base, text |-> n.text, stale |-> n.stale]
  BY DEF NewWrite
<1>2. IsWrite(n)
  BY <1>1 DEF IsWrite, Grants
<1>3. Read(text) = Puts(asked, Read(t)) /\ Regular(text) /\ Kept(t, text)
  BY ChangesPut DEF Grants, Changes
<1>4. Sound(n, t)
  BY <1>1, <1>2, <1>3 DEF Sound
<1> QED BY <1>1, <1>4

(* A write that begins leaves the others as they are.                      *)
LEMMA BegunSound ==
  ASSUME NEW t, NEW ws, \A w \in ws : Sound(w, t), Alone(ws),
         NEW by \in {"server", "tool"}, \A w \in ws : w.by # by,
         NEW text, NEW asked, Grants(t, text, asked),
         NEW next, next = ws \cup {NewWrite(by, t, text, asked)}
  PROVE  (\A w \in next : Sound(w, t)) /\ Alone(next)
<1> DEFINE n == NewWrite(by, t, text, asked)
<1>1. Sound(n, t) /\ n.by = by
  BY NewWriteIs
<1> HIDE DEF n
<1>2. next = ws \cup {n}
  BY DEF n
<1>3. \A w \in next : Sound(w, t)
  BY <1>1, <1>2
<1>4. Alone(next)
  BY <1>1, <1>2 DEF Alone
<1> QED BY <1>3, <1>4

(* A write by somebody else makes the copies of the others stale. *)
LEMMA StaleIs ==
  ASSUME NEW o, NEW t, Sound(o, t), NEW v, v = [o EXCEPT !.stale = TRUE]
  PROVE  /\ \A u : Sound(v, u)
         /\ v.by = o.by /\ v.text = o.text /\ v.asked = o.asked /\ v.base = o.base
<1>1. o = [by |-> o.by, asked |-> o.asked, base |-> o.base, text |-> o.text, stale |-> o.stale]
  BY DEF Sound, IsWrite
<1>2. v = [by |-> o.by, asked |-> o.asked, base |-> o.base, text |-> o.text, stale |-> TRUE]
  <2> DEFINE b == o.by
             a == o.asked
             e == o.base
             x == o.text
             s == o.stale
  <2>1. o = [by |-> b, asked |-> a, base |-> e, text |-> x, stale |-> s]
    BY <1>1
  <2> HIDE DEF b, a, e, x, s
  <2>2. v = [by |-> b, asked |-> a, base |-> e, text |-> x, stale |-> TRUE]
    BY <2>1
  <2> QED BY <2>2 DEF b, a, e, x
<1>3. v.by = o.by /\ v.text = o.text /\ v.asked = o.asked /\ v.base = o.base /\ v.stale = TRUE
  BY <1>2
<1>4. v = [by |-> v.by, asked |-> v.asked, base |-> v.base, text |-> v.text, stale |-> v.stale]
  BY <1>2, <1>3
<1>5. IsWrite(v)
  BY <1>3, <1>4 DEF Sound, IsWrite
<1>6. \A u : Sound(v, u)
  BY <1>3, <1>5 DEF Sound
<1> QED BY <1>3, <1>6

(* The writes still under way once w is saved. *)
Others(ws, w) == {[o EXCEPT !.stale = TRUE] : o \in ws \ {w}}

(* When one is saved, the others are stale, and sound for the new text.    *)
LEMMA SavedSound ==
  ASSUME NEW t, NEW ws, \A w \in ws : Sound(w, t), Alone(ws), NEW w \in ws,
         NEW next, next = Others(ws, w)
  PROVE  /\ \A v \in next : Sound(v, w.text)
         /\ Alone(next)
         /\ \A v \in next : v.by # w.by /\ \E o \in ws : v.by = o.by
<1>1. ASSUME NEW v \in next
      PROVE  \E o \in ws : /\ o # w /\ v = [o EXCEPT !.stale = TRUE]
                           /\ Sound(v, w.text) /\ v.by = o.by
  <2>1. PICK o \in ws \ {w} : v = [o EXCEPT !.stale = TRUE]
    BY DEF Others
  <2>2. Sound(v, w.text) /\ v.by = o.by
    BY <2>1, StaleIs
  <2> QED BY <2>1, <2>2
<1>2. Alone(next)
  <2>1. ASSUME NEW u \in next, NEW v \in next, u.by = v.by PROVE u = v
    <3>1. PICK o \in ws : u = [o EXCEPT !.stale = TRUE] /\ u.by = o.by
      BY <1>1
    <3>2. PICK p \in ws : v = [p EXCEPT !.stale = TRUE] /\ v.by = p.by
      BY <1>1
    <3>3. o = p
      BY <2>1, <3>1, <3>2 DEF Alone
    <3> QED BY <3>1, <3>2, <3>3
  <2> QED BY <2>1 DEF Alone
<1>3. \A v \in next : v.by # w.by /\ \E o \in ws : v.by = o.by
  <2> TAKE v \in next
  <2>1. PICK o \in ws : o # w /\ v.by = o.by
    BY <1>1
  <2> QED BY <2>1 DEF Alone
<1> QED BY <1>1, <1>2, <1>3

-----------------------------------------------------------------------------
(* The configuration in effect follows the file. *)

(* What set_temp_unit has in effect, and asks for. *)
WithUnit(config, unit) == [config EXCEPT ![Unit] = unit]
UnitAsk(unit) == [s \in {Unit} |-> unit]

(* What set_temp_unit has in effect is what the text says it asks for.     *)
LEMMA UnitLive ==
  ASSUME NEW t, Regular(t), NEW unit, NEW u, Grants(t, u, UnitAsk(unit))
  PROVE  WithUnit(Loaded(t), unit) = Loaded(u)
<1>1. Regular(u) /\ \A s \in Settings : Read(u)[s] = IF s = Unit THEN unit ELSE Read(t)[s]
  BY DEF Grants, Changes, UnitAsk
<1>2. /\ Loaded(t) \in [Settings -> Words] /\ Loaded(t)[Kind] = KindOf(Read(t))
      /\ \A s \in Settings : s # Kind => Loaded(t)[s] = Read(t)[s]
  BY LoadedIs
<1>3. /\ Loaded(u) \in [Settings -> Words] /\ Loaded(u)[Kind] = KindOf(Read(u))
      /\ \A s \in Settings : s # Kind => Loaded(u)[s] = Read(u)[s]
  BY <1>1, LoadedIs
<1>4. /\ Unit \in Settings /\ Kind \in Settings /\ Enabled \in Settings
      /\ Unit # Kind /\ Unit # Enabled
  BY DEF Settings, Unit, Kind, Enabled
<1>5. KindOf(Read(u)) = KindOf(Read(t))
  BY <1>1, <1>4 DEF KindOf
<1> DEFINE new == WithUnit(Loaded(t), unit)
<1>6. \A s \in Settings : new[s] = Loaded(u)[s]
  BY <1>1, <1>2, <1>3, <1>4, <1>5 DEF WithUnit
<1>7. new = [s \in Settings |-> new[s]] /\ Loaded(u) = [s \in Settings |-> Loaded(u)[s]]
  BY <1>2, <1>3 DEF WithUnit
<1> HIDE DEF new
<1>8. new = Loaded(u)
  BY <1>6, <1>7
<1> QED BY <1>8 DEF new

(* What set_radio_config has in effect. *)
WithRadio(config, asked) ==
  [Over(asked, config) EXCEPT ![Enabled] = IF asked[Kind] = "flex" THEN "true" ELSE "false"]

(* What set_radio_config has in effect, setting by setting.                *)
LEMMA WithRadioIs ==
  ASSUME NEW config \in [Settings -> Words], NEW asked, Asks(asked),
         Kind \in DOMAIN asked, Enabled \in DOMAIN asked, asked[Kind] \in Kinds,
         asked[Enabled] = IF asked[Kind] = "flex" THEN "true" ELSE "false",
         NEW new, new = WithRadio(config, asked)
  PROVE  /\ new \in [Settings -> Words] /\ new[Kind] = asked[Kind]
         /\ \A s \in Settings : new[s] = IF s \in DOMAIN asked THEN asked[s] ELSE config[s]
<1> DEFINE over == Over(asked, config)
<1>1. DOMAIN asked \subseteq Settings /\ \A s \in DOMAIN asked : asked[s] \in Words
  BY DEF Asks
<1>2. DOMAIN asked \cup DOMAIN config = Settings
  BY <1>1
<1>3. over = [s \in Settings |-> IF s \in DOMAIN asked THEN asked[s] ELSE config[s]]
  BY <1>2 DEF Over
<1> HIDE DEF over
<1>4. new = [over EXCEPT ![Enabled] = asked[Enabled]]
  BY DEF WithRadio, over
<1>5. Enabled \in Settings /\ Kind \in Settings
  BY DEF Settings
<1>6. \A s \in Settings : new[s] = IF s \in DOMAIN asked THEN asked[s] ELSE config[s]
  BY <1>3, <1>4, <1>5
<1>7. new = [s \in Settings |-> new[s]]
  BY <1>3, <1>4
<1>8. \A s \in Settings : new[s] \in Words
  BY <1>1, <1>6
<1> QED BY <1>5, <1>6, <1>7, <1>8

(* What set_radio_config has in effect is what the text says it asks for.  *)
LEMMA RadioLive ==
  ASSUME NEW t, Regular(t), NEW fields \in RadioRequests,
         NEW asked, asked = SentWith(fields, Loaded(t)[Kind]),
         NEW u, Grants(t, u, asked)
  PROVE  WithRadio(Loaded(t), asked) = Loaded(u)
<1> DEFINE new == WithRadio(Loaded(t), asked)
<1>1. Regular(u) /\ \A s \in Settings : Read(u)[s] = IF s \in DOMAIN asked THEN asked[s] ELSE Read(t)[s]
  BY DEF Grants, Changes
<1>2. /\ Loaded(t) \in [Settings -> Words] /\ Loaded(t)[Kind] \in Kinds
      /\ \A s \in Settings : s # Kind => Loaded(t)[s] = Read(t)[s]
  BY LoadedIs DEF Kinds
<1>3. /\ Loaded(u) \in [Settings -> Words] /\ Loaded(u)[Kind] = KindOf(Read(u))
      /\ \A s \in Settings : s # Kind => Loaded(u)[s] = Read(u)[s]
  BY <1>1, LoadedIs
<1>4. /\ Asks(asked) /\ Kind \in DOMAIN asked /\ Enabled \in DOMAIN asked
      /\ asked[Kind] \in Kinds
      /\ asked[Enabled] = IF asked[Kind] = "flex" THEN "true" ELSE "false"
  BY <1>2, SentIs
<1>5. /\ new \in [Settings -> Words] /\ new[Kind] = asked[Kind]
      /\ \A s \in Settings : new[s] = IF s \in DOMAIN asked THEN asked[s] ELSE Loaded(t)[s]
  BY <1>2, <1>4, WithRadioIs
<1> HIDE DEF new
<1>6. Kind \in Settings
  BY DEF Settings
<1>7. KindOf(Read(u)) = asked[Kind]
  <2>1. Read(u)[Kind] = asked[Kind]
    BY <1>1, <1>4, <1>6
  <2> QED BY <1>4, <2>1 DEF KindOf, Kinds
<1>8. \A s \in Settings : new[s] = Loaded(u)[s]
  BY <1>1, <1>2, <1>3, <1>4, <1>5, <1>7
<1>9. new = [s \in Settings |-> new[s]] /\ Loaded(u) = [s \in Settings |-> Loaded(u)[s]]
  BY <1>3, <1>5
<1>10. new = Loaded(u)
  BY <1>8, <1>9
<1> QED BY <1>10 DEF new
-----------------------------------------------------------------------------
(* Every step keeps the invariant. *)

(* It holds when the programs start.                                       *)
LEMMA InitFile == Init => FileInv
<1> SUFFICES ASSUME Init PROVE FileInv
  OBVIOUS
<1>1. exists \in BOOLEAN /\ up \in BOOLEAN /\ apart \in BOOLEAN /\ ~up
  BY DEF Init
<1>2. Regular(lines)
  <2>1. CASE exists
    BY <2>1, ShippedAssumption DEF Init
  <2>2. CASE ~exists
    BY <2>2, EmptyText DEF Init
  <2> QED BY <2>1, <2>2
<1>3. writes = {}
  BY DEF Init
<1>4. live \in [Settings -> Words]
  BY DefaultIsStore DEF Init
<1> QED BY <1>1, <1>2, <1>3, <1>4 DEF FileInv, Alone

(* A write of the server keeps it, if what is in effect is what the text   *)
(* says.                                                                   *)
LEMMA BeginKeeps ==
  ASSUME FileInv, Idle,
         NEW text, NEW asked, Grants(lines, text, asked), Begin("server", text, asked),
         UNCHANGED <<exists, lines, up>>,
         live' \in [Settings -> Words], live'[Kind] \in Kinds, apart' \in BOOLEAN,
         SamePath /\ ~apart' => live' = Loaded(text)
  PROVE  FileInv'
<1> DEFINE n == NewWrite("server", lines, text, asked)
<1>1. up /\ (\A w \in writes : w.by # "server")
  BY DEF Idle, Writing
<1>2. n.by = "server" /\ n.text = text
  BY NewWriteIs
<1>3. CASE text = lines
  <2>1. writes' = writes
    BY <1>3 DEF Begin
  <2>2. InStep(lines, writes, Loaded(text))
    BY <1>1, <1>3 DEF InStep
  <2> HIDE DEF n
  <2> QED BY <1>1, <2>1, <2>2 DEF FileInv
<1>4. CASE text # lines
  <2>1. writes' = writes \cup {n}
    BY <1>4 DEF Begin, NewWrite
  <2>2. (\A w \in writes' : Sound(w, lines)) /\ Alone(writes')
    BY <1>1, <2>1, BegunSound DEF FileInv
  <2> HIDE DEF n
  <2>3. \A w \in writes' : w.by = "server" => w = n
    BY <1>1, <2>1
  <2>4. InStep(lines, writes', Loaded(text))
    BY <1>2, <2>1, <2>3 DEF InStep
  <2> QED BY <1>1, <2>1, <2>2, <2>4 DEF FileInv
<1> QED BY <1>3, <1>4

(* set_temp_unit keeps it.                                                 *)
LEMMA SetUnitKeeps == ASSUME FileInv, NEW unit \in UnitRequests, SetUnit(unit) PROVE FileInv'
<1> DEFINE asked == [s \in {Unit} |-> unit]
           text == PersistUnit(lines, unit)
<1>1. Grants(lines, text, asked)
  BY UnitGranted DEF FileInv
<1>2. /\ Idle /\ UNCHANGED <<exists, lines, up>> /\ live' = [live EXCEPT ![Unit] = unit]
      /\ up /\ (\A w \in writes : w.by # "server")
  BY DEF SetUnit, Idle, Writing
<1>3. unit \in Words /\ Unit \in Settings /\ Unit # Kind /\ Kind \in Settings
  BY UnitAssumption, WordsAssumption DEF Settings, Unit, Kind
<1>4. live' \in [Settings -> Words] /\ live'[Kind] \in Kinds
  BY <1>2, <1>3 DEF FileInv
<1>5. CASE SamePath /\ exists
  <2>1. Begin("server", text, asked) /\ apart' = apart
    BY <1>5 DEF SetUnit, FileInv
  <2>2. SamePath /\ ~apart' => live' = Loaded(text)
    <3> SUFFICES ASSUME SamePath, ~apart' PROVE live' = Loaded(text)
      OBVIOUS
    <3>1. live = Loaded(lines)
      BY <1>2, <2>1 DEF FileInv, InStep
    <3>2. Regular(lines) /\ Grants(lines, text, UnitAsk(unit))
      BY <1>1 DEF FileInv, UnitAsk
    <3> HIDE DEF text
    <3>3. WithUnit(Loaded(lines), unit) = Loaded(text)
      BY <3>2, UnitLive
    <3>4. live' = WithUnit(live, unit)
      BY <1>2 DEF WithUnit
    <3> QED BY <3>1, <3>3, <3>4
  <2>3. apart' \in BOOLEAN
    BY <2>1 DEF FileInv
  <2> HIDE DEF asked, text
  <2> QED BY <1>1, <1>2, <1>4, <2>1, <2>2, <2>3, BeginKeeps
<1>6. CASE ~(SamePath /\ exists)
  <2>1. writes' = writes /\ apart' \in BOOLEAN /\ (SamePath => apart')
    BY <1>6 DEF SetUnit, FileInv
  <2> QED BY <1>2, <1>4, <2>1 DEF FileInv
<1> QED BY <1>5, <1>6

(* set_radio_config keeps it.                                              *)
LEMMA SetRadioKeeps == ASSUME FileInv, NEW fields \in RadioRequests, SetRadio(fields) PROVE FileInv'
<1> DEFINE asked == Sent(fields)
           text == PersistValues(lines, asked)
<1>1. asked = SentWith(fields, live[Kind])
  BY DEF Sent, SentWith
<1>2. /\ Idle /\ UNCHANGED <<exists, lines, up>> /\ live' = WithRadio(live, asked)
      /\ up /\ (\A w \in writes : w.by # "server") /\ live[Kind] \in Kinds
  BY DEF SetRadio, Idle, Writing, WithRadio, FileInv
<1>3. apart' = (apart \/ ~exists) /\ (exists => Begin("server", text, asked))
      /\ (~exists => writes' = writes)
  BY DEF SetRadio
<1> HIDE DEF asked
<1>4. Grants(lines, text, asked)
  BY <1>1, <1>2, RadioGranted DEF FileInv
<1>5. /\ Asks(asked) /\ Kind \in DOMAIN asked /\ Enabled \in DOMAIN asked
      /\ asked[Kind] \in Kinds
      /\ asked[Enabled] = IF asked[Kind] = "flex" THEN "true" ELSE "false"
  BY <1>1, <1>2, SentIs
<1>6. live' \in [Settings -> Words] /\ live'[Kind] \in Kinds
  BY <1>2, <1>5, WithRadioIs DEF FileInv
<1>7. apart' \in BOOLEAN
  BY <1>3 DEF FileInv
<1>8. CASE exists
  <2>1. SamePath /\ ~apart' => live' = Loaded(text)
    <3> SUFFICES ASSUME SamePath, ~apart' PROVE live' = Loaded(text)
      OBVIOUS
    <3>1. live = Loaded(lines)
      BY <1>2, <1>3 DEF FileInv, InStep
    <3>2. WithRadio(Loaded(lines), asked) = Loaded(text)
      BY <1>1, <1>4, <3>1, RadioLive DEF FileInv
    <3> QED BY <1>2, <3>1, <3>2
  <2> HIDE DEF text
  <2> QED BY <1>2, <1>3, <1>4, <1>6, <1>7, <1>8, <2>1, BeginKeeps
<1>9. CASE ~exists
  <2> HIDE DEF text
  <2> QED BY <1>2, <1>3, <1>6, <1>7, <1>9 DEF FileInv
<1> QED BY <1>8, <1>9

(* A start keeps it: what is in effect is what was read.                   *)
LEMMA StartKeeps == ASSUME FileInv, Start PROVE FileInv'
<1>1. (\A w \in writes : w.by # "server") /\ writes' = writes /\ lines' = lines
  BY DEF FileInv, Start
<1>2. live' = Loaded(lines) /\ Loaded(lines) \in [Settings -> Words] /\ Loaded(lines)[Kind] \in Kinds
  BY LoadedIs DEF FileInv, Start, Kinds
<1>3. InStep(lines, writes, Loaded(lines))
  BY <1>1 DEF InStep
<1> QED BY <1>1, <1>2, <1>3 DEF FileInv, Start

(* A write that configtool begins keeps it.                                *)
LEMMA ToolReadsKeeps == ASSUME FileInv, NEW asked \in ToolRequests, ToolReads(asked) PROVE FileInv'
<1> DEFINE text == Apply(lines, asked)
           n == NewWrite("tool", lines, text, asked)
<1>1. Grants(lines, text, asked)
  BY ToolGranted DEF FileInv
<1>2. /\ UNCHANGED <<exists, lines, up, live, apart>> /\ Begin("tool", text, asked)
      /\ \A w \in writes : w.by # "tool"
  BY DEF ToolReads, Writing
<1>3. CASE text = lines
  <2>1. writes' = writes
    BY <1>2, <1>3 DEF Begin
  <2> HIDE DEF n, text
  <2> QED BY <1>2, <2>1 DEF FileInv
<1>4. CASE text # lines
  <2>1. writes' = writes \cup {n}
    BY <1>2, <1>4 DEF Begin, NewWrite
  <2>2. (\A w \in writes' : Sound(w, lines)) /\ Alone(writes')
    BY <1>1, <1>2, <2>1, BegunSound DEF FileInv
  <2>3. n.by = "tool"
    BY <1>1, NewWriteIs
  <2> HIDE DEF n, text
  <2>4. \A w \in writes' : w.by = "server" => w \in writes
    BY <2>1, <2>3
  <2>5. \A w \in writes : w \in writes'
    BY <2>1
  <2>6. \A config : InStep(lines, writes, config) => InStep(lines, writes', config)
    BY <2>4, <2>5 DEF InStep
  <2> QED BY <1>2, <2>2, <2>4, <2>6 DEF FileInv
<1> QED BY <1>3, <1>4

(* A save keeps it: the server's is of what is in effect, and after one by *)
(* configtool they are apart.                                              *)
LEMMA SaveKeeps == ASSUME FileInv, NEW w \in writes, Save(w) PROVE FileInv'
<1>1. writes' = {[o EXCEPT !.stale = TRUE] : o \in writes \ {w}}
  BY DEF Save
<1>2. /\ \A v \in writes' : Sound(v, w.text)
      /\ Alone(writes')
      /\ \A v \in writes' : v.by # w.by /\ \E o \in writes : v.by = o.by
  <2>1. (\A o \in writes : Sound(o, lines)) /\ Alone(writes)
    BY DEF FileInv
  <2> DEFINE next == writes'
  <2>2. next = Others(writes, w)
    BY <1>1 DEF Others
  <2> HIDE DEF next
  <2>3. /\ \A v \in next : Sound(v, w.text)
        /\ Alone(next)
        /\ \A v \in next : v.by # w.by /\ \E o \in writes : v.by = o.by
    BY <2>1, <2>2, SavedSound
  <2> QED BY <2>3 DEF next
<1>3. lines' = w.text /\ exists' = TRUE /\ UNCHANGED <<up, live>>
      /\ apart' = (apart \/ (up /\ w.by = "tool"))
  BY DEF Save
<1>4. Regular(w.text) /\ w.by \in {"server", "tool"}
  BY DEF FileInv, Sound, IsWrite
<1>5. \A v \in writes' : v.by = "server" => up
  BY <1>2 DEF FileInv
<1>6. ASSUME up, SamePath, ~apart' PROVE InStep(w.text, writes', live)
  <2>1. w.by = "server" /\ ~apart
    BY <1>3, <1>4, <1>6
  <2>2. live = Loaded(w.text)
    BY <1>6, <2>1 DEF FileInv, InStep
  <2> QED BY <1>2, <2>1, <2>2 DEF InStep
<1> QED BY <1>2, <1>3, <1>4, <1>5, <1>6 DEF FileInv

(* Writes that are dropped leave the others sound, also when the file is   *)
(* left empty.                                                             *)
LEMMA FewerSound ==
  ASSUME NEW t, NEW u, NEW ws, \A w \in ws : Sound(w, t), Alone(ws),
         NEW next \in SUBSET ws, u = t \/ u = <<>>
  PROVE  (\A w \in next : Sound(w, u)) /\ Alone(next)
<1>1. \A w \in next : Sound(w, u)
  BY EmptyText DEF Sound
<1>2. Alone(next)
  BY DEF Alone
<1> QED BY <1>1, <1>2

(* A failed save keeps it.                                                 *)
LEMMA SaveFailsKeeps == ASSUME FileInv, NEW w \in writes, SaveFails(w) PROVE FileInv'
<1>1. writes' \in SUBSET writes /\ (lines' = lines \/ lines' = <<>>) /\ exists' \in BOOLEAN
      /\ UNCHANGED <<up, live>> /\ apart' = up
  BY DEF SaveFails, AsItWasOrEmpty, FileInv
<1>2. (\A v \in writes' : Sound(v, lines')) /\ Alone(writes')
  BY <1>1, FewerSound DEF FileInv
<1>3. Regular(lines')
  BY <1>1, EmptyText DEF FileInv
<1> QED BY <1>1, <1>2, <1>3 DEF FileInv

(* So does a kill.                                                         *)
LEMMA KilledKeeps ==
  ASSUME FileInv, NEW dead \in SUBSET {"server", "tool"}, Killed(dead) PROVE FileInv'
<1>1. writes' \in SUBSET writes /\ (lines' = lines \/ lines' = <<>>) /\ exists' \in BOOLEAN
  BY DEF Killed, AsItWasOrEmpty, FileInv
<1>2. /\ up' = (up /\ "server" \notin dead) /\ apart' = up'
      /\ live' = IF up' THEN live ELSE Default
      /\ \A v \in writes' : v.by \notin dead
  BY DEF Killed
<1>3. (\A v \in writes' : Sound(v, lines')) /\ Alone(writes')
  BY <1>1, FewerSound DEF FileInv
<1>4. Regular(lines')
  BY <1>1, EmptyText DEF FileInv
<1>5. \A v \in writes' : v.by = "server" => up'
  BY <1>1, <1>2 DEF FileInv
<1>6. live' \in [Settings -> Words] /\ (up' => live'[Kind] \in Kinds)
  BY <1>2, DefaultIsStore DEF FileInv
<1>7. up' \in BOOLEAN /\ apart' \in BOOLEAN /\ (up' => apart')
  BY <1>2 DEF FileInv
<1> QED BY <1>1, <1>3, <1>4, <1>5, <1>6, <1>7 DEF FileInv

(* So every step keeps it.                                                 *)
LEMMA FileKeeps == FileInv /\ [Next]_vars => FileInv'
<1> SUFFICES ASSUME FileInv, [Next]_vars PROVE FileInv'
  OBVIOUS
<1>1. CASE UNCHANGED vars
  BY <1>1 DEF FileInv, vars
<1> QED BY <1>1, SetUnitKeeps, SetRadioKeeps, StartKeeps, ToolReadsKeeps, SaveKeeps,
           SaveFailsKeeps, KilledKeeps DEF Next

(* Whatever is asked of it, config.yaml stays a file that load_config can  *)
(* read and the programs can edit, and every text about to be written is   *)
(* the one its writer read with the settings it was asked for.             *)
THEOREM FileStaysRegular == Spec => []FileInv
  BY InitFile, FileKeeps, PTL DEF Spec

(* A restart changes nothing: what the server has in effect is what        *)
(* load_config would read, unless a change could not be saved or the file  *)
(* was edited under the server.                                            *)
THEOREM RestartIsHarmless == Spec => []RestartChangesNothing
<1>1. FileInv => RestartChangesNothing
  BY DEF FileInv, RestartChangesNothing, InStep, Idle, Writing
<1> QED BY <1>1, FileStaysRegular, PTL
-----------------------------------------------------------------------------
(* The settings the file is a store of. *)

Pend(w) == [by |-> w.by, base |-> w.base, asked |-> w.asked]
Img(ws) == {Pend(w) : w \in ws}

(* A pending copy has what its write has.                                  *)
LEMMA PendIs ==
  ASSUME NEW w
  PROVE  Pend(w).by = w.by /\ Pend(w).base = w.base /\ Pend(w).asked = w.asked
  BY DEF Pend

(* Each copy is that of a write.                                           *)
LEMMA ImgIs == ASSUME NEW ws, NEW v PROVE v \in Img(ws) <=> \E w \in ws : v = Pend(w)
  BY DEF Img

(* A write that begins is a copy that is made.                             *)
LEMMA ImgAdds == ASSUME NEW ws, NEW n PROVE Img(ws \cup {n}) = Img(ws) \cup {Pend(n)}
<1>1. \A v : v \in Img(ws \cup {n}) <=> v \in Img(ws) \cup {Pend(n)}
  BY ImgIs
<1> QED BY <1>1

(* A write that is saved is a copy that is put back; that the others are   *)
(* stale now, the store does not know.                                     *)
LEMMA ImgOthers ==
  ASSUME NEW t, NEW ws, \A w \in ws : Sound(w, t), Alone(ws), NEW w \in ws
  PROVE  Img(Others(ws, w)) = Img(ws) \ {Pend(w)}
<1>1. ASSUME NEW o \in ws, o # w, NEW s, s = [o EXCEPT !.stale = TRUE]
      PROVE  Pend(s) = Pend(o) /\ Pend(o) # Pend(w)
  <2>1. s.by = o.by /\ s.asked = o.asked /\ s.base = o.base
    BY <1>1, StaleIs
  <2>2. o.by # w.by
    BY <1>1 DEF Alone
  <2>3. Pend(o).by # Pend(w).by
    BY <2>2, PendIs
  <2>4. Pend(s) = Pend(o)
    BY <2>1 DEF Pend
  <2> QED BY <2>3, <2>4
<1>2. ASSUME NEW v \in Img(Others(ws, w)) PROVE v \in Img(ws) \ {Pend(w)}
  <2>1. PICK s \in Others(ws, w) : v = Pend(s)
    BY ImgIs
  <2>2. PICK o \in ws : o # w /\ s = [o EXCEPT !.stale = TRUE]
    BY DEF Others
  <2>3. v = Pend(o) /\ Pend(o) # Pend(w)
    BY <1>1, <2>1, <2>2
  <2> QED BY <2>3, ImgIs
<1>3. ASSUME NEW v \in Img(ws), v # Pend(w) PROVE v \in Img(Others(ws, w))
  <2>1. PICK o \in ws : v = Pend(o)
    BY ImgIs
  <2>2. o # w
    BY <1>3, <2>1
  <2> DEFINE s == [o EXCEPT !.stale = TRUE]
  <2>3. s \in Others(ws, w)
    BY <2>2 DEF Others
  <2>4. Pend(s) = Pend(o)
    BY <1>1, <2>2
  <2> HIDE DEF s
  <2> QED BY <2>1, <2>3, <2>4, ImgIs
<1> QED BY <1>2, <1>3

(* What is dropped is a set of writes, and it is not empty if one is. *)
LEMMA ImgFewer ==
  ASSUME NEW ws, NEW next \in SUBSET ws, Alone(ws), next # ws
  PROVE  \E some \in SUBSET Img(ws) : some # {} /\ Img(next) = Img(ws) \ some
<1> DEFINE some == Img(ws) \ Img(next)
<1>1. PICK w \in ws : w \notin next
  OBVIOUS
<1>2. Pend(w) \in Img(ws)
  BY ImgIs
<1>3. Pend(w) \notin Img(next)
  <2> SUFFICES ASSUME NEW v \in next, Pend(w) = Pend(v) PROVE FALSE
    BY ImgIs
  <2>1. w.by = v.by
    BY PendIs
  <2> QED BY <1>1, <2>1 DEF Alone
<1>4. \A v \in Img(next) : v \in Img(ws)
  BY ImgIs
<1>5. some # {} /\ Img(next) = Img(ws) \ some
  BY <1>2, <1>3, <1>4
<1> QED BY <1>5

(* The steps of the store, in these terms. *)
LEMMA StoreAsks ==
  ASSUME NEW n, n.by \in {"server", "tool"}, DOMAIN n.asked \subseteq Settings,
         \A s \in DOMAIN n.asked : n.asked[s] \in Words,
         \A v \in Img(writes) : v.by # n.by, n.base = Read(lines),
         Img(writes') = Img(writes) \cup {n}, Read(lines') = Read(lines)
  PROVE  Store!Next
<1> SUFFICES \E w \in Img(writes') : Store!Ask(w)
  BY DEF Store!Next, Img, Pend
<1>1. Store!Request(n)
  BY DEF Store!Request
<1>2. ~Store!Writing(n.by)
  BY DEF Store!Writing, Img, Pend
<1>3. Store!Ask(n)
  BY <1>1, <1>2 DEF Store!Ask, Img, Pend
<1>4. n \in Img(writes')
  OBVIOUS
<1> QED BY <1>3, <1>4

(* A copy is put back.                                                     *)
LEMMA StoreSaves ==
  ASSUME NEW n \in Img(writes), Read(lines') = Puts(n.asked, n.base),
         Img(writes') = Img(writes) \ {n}
  PROVE  Store!Next
<1> SUFFICES \E w \in Img(writes) : Store!Save(w)
  BY DEF Store!Next, Img, Pend
<1>1. Store!Save(n)
  BY PutIsPuts DEF Store!Save, Img, Pend
<1> QED BY <1>1

(* Some copies are dropped, the store stays or is emptied.                 *)
LEMMA StoreGivesUp ==
  ASSUME NEW some \in SUBSET Img(writes), some # {}, Img(writes') = Img(writes) \ some,
         Read(lines') = Read(lines) \/ Read(lines') = Default
  PROVE  Store!Next
<1> SUFFICES \E few \in SUBSET Img(writes) : few # {} /\ Store!GiveUp(few)
  BY DEF Store!Next, Img, Pend
<1>1. Store!GiveUp(some)
  BY DEF Store!GiveUp, Img, Pend
<1> QED BY <1>1

(* What touches neither file nor writes is no step of the store.           *)
LEMMA StoreStutters ==
  ASSUME lines' = lines, writes' = writes
  PROVE  UNCHANGED Store!vars
  BY DEF Store!vars

(* A write that begins is a request to the store, or changes nothing.      *)
LEMMA BeginStores ==
  ASSUME FileInv, NEW by \in {"server", "tool"}, \A w \in writes : w.by # by,
         NEW text, NEW asked, Grants(lines, text, asked), Begin(by, text, asked),
         lines' = lines
  PROVE  Store!Next \/ UNCHANGED Store!vars
<1>1. CASE text = lines
  <2>1. writes' = writes
    BY <1>1 DEF Begin
  <2> QED BY <2>1, StoreStutters
<1>2. CASE text # lines
  <2> DEFINE n == NewWrite(by, lines, text, asked)
  <2>1. writes' = writes \cup {n}
    BY <1>2 DEF Begin, NewWrite
  <2>2. /\ Sound(n, lines) /\ n.by = by /\ n.asked = asked /\ n.base = Read(lines)
    BY NewWriteIs
  <2> HIDE DEF n
  <2> DEFINE p == Pend(n)
  <2>3. p.by = by /\ p.asked = asked /\ p.base = Read(lines)
    BY <2>2, PendIs
  <2>4. Img(writes') = Img(writes) \cup {p}
    BY <2>1, ImgAdds
  <2> HIDE DEF p
  <2>5. \A v \in Img(writes) : v.by # p.by
    <3> SUFFICES ASSUME NEW w \in writes PROVE Pend(w).by # p.by
      BY ImgIs
    <3> QED BY <2>3, PendIs
  <2>6. DOMAIN p.asked \subseteq Settings /\ \A s \in DOMAIN p.asked : p.asked[s] \in Words
    BY <2>3 DEF Grants
  <2>7. Read(lines') = Read(lines)
    OBVIOUS
  <2>8. Store!Next
    BY <2>3, <2>4, <2>5, <2>6, <2>7, StoreAsks
  <2> QED BY <2>8
<1> QED BY <1>1, <1>2

(* A save puts the copy of its write back.                                 *)
LEMMA SaveStores ==
  ASSUME FileInv, NEW w \in writes, Save(w)
  PROVE  Store!Next
<1>1. writes' = Others(writes, w) /\ lines' = w.text
  BY DEF Save, Others
<1>2. (\A o \in writes : Sound(o, lines)) /\ Alone(writes)
  BY DEF FileInv
<1>3. Img(writes') = Img(writes) \ {Pend(w)}
  BY <1>1, <1>2, ImgOthers
<1>4. Read(w.text) = Puts(w.asked, w.base)
  BY <1>2 DEF Sound
<1> DEFINE p == Pend(w)
<1>5. p \in Img(writes)
  BY ImgIs
<1>6. Read(lines') = Puts(p.asked, p.base)
  BY <1>1, <1>4, PendIs
<1> HIDE DEF p
<1>7. Img(writes') = Img(writes) \ {p}
  BY <1>3 DEF p
<1> QED BY <1>5, <1>6, <1>7, StoreSaves

(* Writes that are lost are copies that are dropped.                       *)
LEMMA LossStores ==
  ASSUME FileInv, writes' \in SUBSET writes, writes' # writes, AsItWasOrEmpty
  PROVE  Store!Next
<1>1. Alone(writes)
  BY DEF FileInv
<1>2. \E some \in SUBSET Img(writes) : some # {} /\ Img(writes') = Img(writes) \ some
  <2> DEFINE next == writes'
  <2>1. next \in SUBSET writes /\ next # writes
    OBVIOUS
  <2> HIDE DEF next
  <2>2. \E some \in SUBSET Img(writes) : some # {} /\ Img(next) = Img(writes) \ some
    BY <1>1, <2>1, ImgFewer
  <2> QED BY <2>2 DEF next
<1>3. PICK some \in SUBSET Img(writes) : some # {} /\ Img(writes') = Img(writes) \ some
  BY <1>2
<1>4. Read(lines') = Read(lines) \/ Read(lines') = Default
  BY EmptyText DEF AsItWasOrEmpty
<1> QED BY <1>3, <1>4, StoreGivesUp

(* Every step of the programs is one of the store, or a stutter.           *)
LEMMA StepStores ==
  FileInv /\ [Next]_vars => Store!Next \/ UNCHANGED Store!vars
<1> SUFFICES ASSUME FileInv, [Next]_vars
             PROVE  Store!Next \/ UNCHANGED Store!vars
  OBVIOUS
<1>1. ASSUME NEW unit \in UnitRequests, SetUnit(unit)
      PROVE  Store!Next \/ UNCHANGED Store!vars
  <2>1. (\A w \in writes : w.by # "server") /\ lines' = lines
    BY <1>1 DEF SetUnit, Idle, Writing
  <2>2. Grants(lines, PersistUnit(lines, unit), [s \in {Unit} |-> unit])
    BY UnitGranted DEF FileInv
  <2>3. CASE SamePath /\ exists
    <3>1. Begin("server", PersistUnit(lines, unit), [s \in {Unit} |-> unit])
      BY <1>1, <2>3 DEF SetUnit
    <3> QED BY <2>1, <2>2, <3>1, BeginStores
  <2>4. CASE ~(SamePath /\ exists)
    <3>1. writes' = writes
      BY <1>1, <2>4 DEF SetUnit
    <3> QED BY <2>1, <3>1, StoreStutters
  <2> QED BY <2>3, <2>4
<1>2. ASSUME NEW fields \in RadioRequests, SetRadio(fields)
      PROVE  Store!Next \/ UNCHANGED Store!vars
  <2> DEFINE asked == Sent(fields)
  <2>1. (\A w \in writes : w.by # "server") /\ lines' = lines /\ live[Kind] \in Kinds
    BY <1>2 DEF SetRadio, Idle, Writing, FileInv
  <2>2. Regular(lines)
    BY DEF FileInv
  <2>3. asked = SentWith(fields, live[Kind])
    BY DEF Sent, SentWith
  <2>4. /\ exists => Begin("server", PersistValues(lines, asked), asked)
        /\ ~exists => writes' = writes
    BY <1>2 DEF SetRadio
  <2> HIDE DEF asked
  <2>5. Grants(lines, PersistValues(lines, asked), asked)
    BY <2>1, <2>2, <2>3, RadioGranted
  <2>6. CASE exists
    BY <2>1, <2>4, <2>5, <2>6, BeginStores
  <2>7. CASE ~exists
    BY <2>1, <2>4, <2>7, StoreStutters
  <2> QED BY <2>6, <2>7
<1>3. ASSUME Start PROVE UNCHANGED Store!vars
  BY <1>3, StoreStutters DEF Start
<1>4. ASSUME NEW asked \in ToolRequests, ToolReads(asked)
      PROVE  Store!Next \/ UNCHANGED Store!vars
  <2>1. (\A w \in writes : w.by # "tool") /\ lines' = lines
    BY <1>4 DEF ToolReads, Writing
  <2>2. Begin("tool", Apply(lines, asked), asked)
    BY <1>4 DEF ToolReads
  <2>3. Grants(lines, Apply(lines, asked), asked)
    BY ToolGranted DEF FileInv
  <2> QED BY <2>1, <2>2, <2>3, BeginStores
<1>5. ASSUME NEW w \in writes, SaveFails(w) PROVE Store!Next
  <2>1. writes' \in SUBSET writes /\ writes' # writes /\ AsItWasOrEmpty
    BY <1>5 DEF SaveFails
  <2> QED BY <2>1, LossStores
<1>6. ASSUME NEW dead \in SUBSET {"server", "tool"}, Killed(dead)
      PROVE  Store!Next \/ UNCHANGED Store!vars
  <2>1. CASE writes' = writes
    <3>1. lines' = lines
      BY <1>6, <2>1 DEF Killed
    <3> QED BY <2>1, <3>1, StoreStutters
  <2>2. CASE writes' # writes
    <3>1. writes' \in SUBSET writes /\ AsItWasOrEmpty
      BY <1>6, <2>2 DEF Killed
    <3> QED BY <2>2, <3>1, LossStores
  <2> QED BY <2>1, <2>2
<1>7. CASE UNCHANGED vars
  BY <1>7, StoreStutters DEF vars
<1> QED BY <1>1, <1>2, <1>3, <1>4, <1>5, <1>6, <1>7, SaveStores DEF Next

(* ConfigFile implements SettingsStore: whatever the file looks like, each *)
(* program changes the settings it is asked to change and no other, and a  *)
(* write that fails leaves the file as it was, or empty.                   *)
THEOREM ConfigIsAStore == Spec => ImplementsStore
<1>1. Init => Store!Init
  <2> SUFFICES ASSUME Init PROVE Store!Init
    OBVIOUS
  <2>1. Regular(lines)
    BY InitFile DEF FileInv
  <2>2. Read(lines) \in [Settings -> Words] /\ writes = {}
    BY <2>1, RegularReads DEF Init
  <2> QED BY <2>2 DEF Store!Init, Store!Stores
<1>2. FileInv /\ [Next]_vars => [Store!Next]_Store!vars
  BY StepStores
<1> QED BY <1>1, <1>2, FileStaysRegular, PTL DEF Spec, ImplementsStore, Store!Spec

(* A comment stays directly above the line it was written above, whatever  *)
(* is written, as long as nobody writes over somebody else's edit, a write *)
(* does not fail, and the line is not logging:.                            *)
THEOREM CommentsStay == Spec => CommentsStayPut
<1>1. FileInv /\ [Next]_vars =>
        [\A c \in Describes(lines) : \/ lines' = <<>>
                                     \/ c[3] = "logging"
                                     \/ \E w \in writes : w.stale
                                     \/ c \in Describes(lines')]_lines
  <2> SUFFICES ASSUME FileInv, [Next]_vars, lines' # lines, lines' # <<>>,
                      \A w \in writes : ~w.stale,
                      NEW c \in Describes(lines)
               PROVE  c[3] = "logging" \/ c \in Describes(lines')
    OBVIOUS
  <2>1. \E w \in writes : Save(w)
    BY DEF Next, SetUnit, SetRadio, Start, ToolReads, SaveFails, Killed, AsItWasOrEmpty, vars
  <2>2. PICK w \in writes : lines' = w.text
    BY <2>1 DEF Save
  <2>3. Kept(lines, w.text)
    BY <2>2 DEF FileInv, Sound
  <2> QED BY <2>2, <2>3 DEF Kept
<1> QED BY <1>1, FileStaysRegular, PTL DEF Spec, CommentsStayPut
=============================================================================
